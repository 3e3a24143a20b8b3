------------------------------ MODULE TcpProofs -----------------------------
(***************************************************************************)
(* The two streams of a connection arrive intact, for every size of rings, *)
(* segments and windows, and whatever the network and the links do: a      *)
(* proof that IInv below is an inductive invariant, and that Tcp           *)
(* implements StreamSpec.  AllTended, a second invariant on top of it,     *)
(* shows that what a stack owes always has its timer.                      *)
(*                                                                         *)
(* The proof speaks of positions, the distance of a sequence number from   *)
(* the initial one of its stream: 0 is the SYN, 1 the first byte.          *)
(***************************************************************************)
EXTENDS Tcp, WellFoundedInduction, FiniteSetTheorems, SequenceTheorems, TLAPS

-----------------------------------------------------------------------------
(* Numbers, positions and their comparison. *)

Half == Space \div 2
At(e, s) == Diff(s, Iss[e])

LessOnNat == {ss \in Nat \X Nat : ss[1] < ss[2]}

\* < on the naturals as a set of pairs, the form WFMin takes.
LEMMA LessWellFounded == IsWellFoundedOn(LessOnNat, Nat)
BY NatLessThanWellFounded DEF OpToRel, LessOnNat

\* Min(S) is what it says for every nonempty set of naturals.
LEMMA MinProperty ==
  ASSUME NEW S \in SUBSET Nat, S # {}
  PROVE  Min(S) \in S /\ \A y \in S : Min(S) <= y
<1>1. PICK m \in S : \A y \in S : <<y, m>> \notin LessOnNat
  BY LessWellFounded, WFMin
<1>2. \A y \in S : m <= y
  <2> SUFFICES ASSUME NEW y \in S PROVE m <= y
    OBVIOUS
  <2>1. <<y, m>> \notin LessOnNat /\ y \in Nat /\ m \in Nat
    BY <1>1
  <2>2. <<y, m>> \in LessOnNat <=> y < m
    BY <2>1 DEF LessOnNat
  <2> QED BY <2>1, <2>2
<1> QED BY <1>2 DEF Min

\* What a remainder is, where the difference is at most one span off.
LEMMA ModProperty ==
  ASSUME NEW a \in Int, NEW n \in Nat \ {0}
  PROVE  /\ (a % n) \in 0 .. n - 1
         /\ a \in 0 .. n - 1 => a % n = a
         /\ a \in n .. 2 * n - 1 => a % n = a - n
         /\ a \in -n .. -1 => a % n = a + n
OBVIOUS

\* The two ends, each other's peer.
LEMMA EndsProperty ==
  ASSUME NEW e \in Ends
  PROVE  /\ Peer(e) \in Ends /\ Peer(e) # e /\ Peer(Peer(e)) = e
         /\ \A d \in Ends : d = e \/ d = Peer(e)
BY TcpAssumption DEF TcpAssumption, Ends, Peer

\* The range is even, and either stream fits into half of it with a window.
LEMMA HalfProperty ==
  /\ Half \in Nat \ {0} /\ Space = 2 * Half /\ Space \in Nat \ {0} /\ None \notin SeqNums
  /\ \A e \in Ends : /\ Iss[e] \in SeqNums /\ RxRing[e] \in Nat \ {0} /\ TxRing[e] \in Nat \ {0}
                     /\ ToWrite[e] \in Nat /\ ToWrite[e] + RxRing[Peer(e)] + 3 <= Half
<1>1. PICK n \in 2 .. Space : Space = 2 * n
  BY TcpAssumption DEF TcpAssumption
<1>2. Half = n /\ n \in Nat \ {0} /\ Space \in Nat \ {0}
  BY <1>1, TcpAssumption DEF TcpAssumption, Half
<1>3. ASSUME NEW e \in Ends
      PROVE  /\ Iss[e] \in SeqNums /\ RxRing[e] \in Nat \ {0} /\ TxRing[e] \in Nat \ {0}
             /\ ToWrite[e] \in Nat /\ ToWrite[e] + RxRing[Peer(e)] + 3 <= Half
  <2>1. /\ Iss[e] \in SeqNums /\ RxRing[e] \in Nat \ {0} /\ TxRing[e] \in Nat \ {0}
        /\ ToWrite[e] \in Nat /\ RxRing[Peer(e)] \in Nat
        /\ 2 * (ToWrite[e] + RxRing[Peer(e)] + 3) <= Space
    BY TcpAssumption, EndsProperty DEF TcpAssumption, SeqNums
  <2> QED BY <1>1, <1>2, <2>1
<1> QED BY <1>1, <1>2, <1>3, TcpAssumption DEF TcpAssumption, SeqNums

\* Differences and sums of sequence numbers.
LEMMA DiffProperty ==
  ASSUME NEW a \in SeqNums, NEW b \in SeqNums
  PROVE  /\ Diff(a, b) = IF a >= b THEN a - b ELSE (a - b) + Space
         /\ Diff(a, b) \in SeqNums
<1>1. /\ a - b \in Int /\ Space \in Nat \ {0} /\ a \in 0 .. Space - 1 /\ b \in 0 .. Space - 1
  BY HalfProperty DEF SeqNums
<1>2. /\ a >= b => a - b \in 0 .. Space - 1
      /\ a < b => a - b \in -Space .. -1
  BY <1>1
<1> DEFINE d == a - b
<1>3. d % Space = IF d >= 0 THEN d ELSE d + Space
  <2>1. d \in Int /\ (d >= 0 => d \in 0 .. Space - 1) /\ (d < 0 => d \in -Space .. -1)
    BY <1>1, <1>2
  <2>2. /\ d \in 0 .. Space - 1 => d % Space = d
        /\ d \in -Space .. -1 => d % Space = d + Space
    <3> HIDE DEF d
    <3> QED BY <1>1, <2>1, ModProperty
  <2> QED BY <1>1, <2>1, <2>2
<1>4. Diff(a, b) = d % Space
  BY DEF Diff
<1> QED BY <1>1, <1>2, <1>3, <1>4 DEF SeqNums

\* Moving a sequence number forward wraps at most once, and stays in the space.
LEMMA PlusProperty ==
  ASSUME NEW a \in SeqNums, NEW k \in 0 .. Space
  PROVE  /\ Plus(a, k) = IF a + k < Space THEN a + k ELSE (a + k) - Space
         /\ Plus(a, k) \in SeqNums
<1>1. /\ a + k \in Int /\ Space \in Nat \ {0} /\ a \in 0 .. Space - 1
  BY HalfProperty DEF SeqNums
<1>2. a + k \in 0 .. Space - 1 \/ a + k \in Space .. 2 * Space - 1
  BY <1>1
<1> DEFINE d == a + k
<1>3. d % Space = IF d < Space THEN d ELSE d - Space
  <2>1. /\ d \in Int /\ (d < Space => d \in 0 .. Space - 1)
        /\ (d >= Space => d \in Space .. 2 * Space - 1)
    BY <1>1, <1>2
  <2>2. /\ d \in 0 .. Space - 1 => d % Space = d
        /\ d \in Space .. 2 * Space - 1 => d % Space = d - Space
    <3> HIDE DEF d
    <3> QED BY <1>1, <2>1, ModProperty
  <2> QED BY <1>1, <2>1, <2>2
<1>4. Plus(a, k) = d % Space
  BY DEF Plus
<1> QED BY <1>1, <1>2, <1>3, <1>4 DEF SeqNums

\* A sequence number is known by its position.
LEMMA AtProperty ==
  ASSUME NEW e \in Ends, NEW s \in SeqNums
  PROVE  /\ At(e, s) \in SeqNums /\ Plus(Iss[e], At(e, s)) = s
         /\ \A k \in SeqNums : At(e, Plus(Iss[e], k)) = k
<1>1. Iss[e] \in SeqNums /\ Space \in Nat \ {0}
  BY HalfProperty
<1>2. At(e, s) = (IF s >= Iss[e] THEN s - Iss[e] ELSE (s - Iss[e]) + Space) /\ At(e, s) \in SeqNums
  BY <1>1, DiffProperty DEF At
<1>3. At(e, s) \in 0 .. Space
  BY <1>1, <1>2 DEF SeqNums
<1>4. Plus(Iss[e], At(e, s)) = s
  <2> DEFINE k == At(e, s)
  <2>1. Plus(Iss[e], k) = IF Iss[e] + k < Space THEN Iss[e] + k ELSE (Iss[e] + k) - Space
    <3> HIDE DEF k
    <3>1. k \in 0 .. Space
      BY <1>3 DEF k
    <3> QED BY <1>1, <3>1, PlusProperty
  <2> QED BY <1>1, <1>2, <2>1 DEF SeqNums
<1>5. ASSUME NEW k \in SeqNums PROVE At(e, Plus(Iss[e], k)) = k
  <2> DEFINE q == Plus(Iss[e], k)
  <2>1. k \in 0 .. Space
    BY <1>1 DEF SeqNums
  <2>2. q \in SeqNums /\ q = IF Iss[e] + k < Space THEN Iss[e] + k ELSE (Iss[e] + k) - Space
    BY <1>1, <2>1, PlusProperty
  <2>3. At(e, q) = IF q >= Iss[e] THEN q - Iss[e] ELSE (q - Iss[e]) + Space
    BY <1>1, <2>2, DiffProperty DEF At
  <2> QED BY <1>1, <2>2, <2>3 DEF SeqNums
<1> QED BY <1>2, <1>4, <1>5

\* The number a connection starts from stands for position zero of its stream.
LEMMA FirstPosition ==
  ASSUME NEW e \in Ends
  PROVE  At(e, Iss[e]) = 0
<1>1. Iss[e] \in SeqNums
  BY HalfProperty
<1>2. Diff(Iss[e], Iss[e]) = Iss[e] - Iss[e]
  <2>1. Iss[e] >= Iss[e]
    BY <1>1, HalfProperty DEF SeqNums
  <2> QED BY <1>1, <2>1, DiffProperty
<1> QED BY <1>1, <1>2, HalfProperty DEF At, SeqNums

\* Comparison, difference and sum by position.
LEMMA ByPosition ==
  ASSUME NEW e \in Ends, NEW a \in SeqNums, NEW b \in SeqNums
  PROVE  /\ Diff(a, b) = IF At(e, a) >= At(e, b) THEN At(e, a) - At(e, b)
                         ELSE (At(e, a) - At(e, b)) + Space
         /\ Lt(a, b) <=> IF At(e, a) >= At(e, b) THEN At(e, a) - At(e, b) >= Half
                         ELSE At(e, b) - At(e, a) <= Half
         /\ a = b <=> At(e, a) = At(e, b)
<1>1. Iss[e] \in SeqNums /\ Space \in Nat \ {0} /\ Half \in Nat /\ Space = 2 * Half
  BY HalfProperty
<1>2. /\ At(e, a) = IF a >= Iss[e] THEN a - Iss[e] ELSE (a - Iss[e]) + Space
      /\ At(e, b) = IF b >= Iss[e] THEN b - Iss[e] ELSE (b - Iss[e]) + Space
      /\ Diff(a, b) = IF a >= b THEN a - b ELSE (a - b) + Space
  BY <1>1, DiffProperty DEF At
<1>3. Diff(a, b) = IF At(e, a) >= At(e, b) THEN At(e, a) - At(e, b)
                   ELSE (At(e, a) - At(e, b)) + Space
  BY <1>1, <1>2 DEF SeqNums
<1>4. Lt(a, b) <=> Diff(a, b) >= Half
  BY DEF Lt, Half
<1>5. At(e, a) \in Int /\ At(e, b) \in Int
  BY AtProperty DEF SeqNums
<1>6. Lt(a, b) <=> IF At(e, a) >= At(e, b) THEN At(e, a) - At(e, b) >= Half
                   ELSE At(e, b) - At(e, a) <= Half
  BY <1>1, <1>3, <1>4, <1>5
<1>7. a = b <=> At(e, a) = At(e, b)
  BY <1>1, <1>2 DEF SeqNums
<1> QED BY <1>3, <1>6, <1>7

\* Of positions below half of the range, the comparison is that of numbers.
LEMMA BelowHalf ==
  ASSUME NEW e \in Ends, NEW a \in SeqNums, NEW b \in SeqNums, At(e, a) < Half, At(e, b) < Half
  PROVE  /\ At(e, a) \in Nat /\ At(e, b) \in Nat
         /\ Lt(a, b) <=> At(e, a) < At(e, b)
         /\ Le(a, b) <=> At(e, a) <= At(e, b)
         /\ At(e, a) >= At(e, b) => Diff(a, b) = At(e, a) - At(e, b)
<1>1. At(e, a) \in Nat /\ At(e, b) \in Nat /\ Half \in Nat
  BY AtProperty, HalfProperty DEF SeqNums
<1>2. /\ Diff(a, b) = IF At(e, a) >= At(e, b) THEN At(e, a) - At(e, b)
                       ELSE (At(e, a) - At(e, b)) + Space
      /\ Lt(a, b) <=> IF At(e, a) >= At(e, b) THEN At(e, a) - At(e, b) >= Half
                      ELSE At(e, b) - At(e, a) <= Half
      /\ a = b <=> At(e, a) = At(e, b)
  BY ByPosition
<1>3. Lt(a, b) <=> At(e, a) < At(e, b)
  BY <1>1, <1>2
<1> QED BY <1>1, <1>2, <1>3 DEF Le

\* The position after so many more.
LEMMA SumPosition ==
  ASSUME NEW e \in Ends, NEW a \in SeqNums, NEW k \in Nat, At(e, a) + k < Space
  PROVE  Plus(a, k) \in SeqNums /\ At(e, Plus(a, k)) = At(e, a) + k
<1>1. Iss[e] \in SeqNums /\ Space \in Nat \ {0}
  BY HalfProperty
<1>2. At(e, a) \in SeqNums
  BY AtProperty
<1>3. k \in 0 .. Space
  BY <1>1, <1>2 DEF SeqNums
<1> DEFINE q == Plus(a, k)
<1>4. q \in SeqNums /\ q = IF a + k < Space THEN a + k ELSE (a + k) - Space
  BY <1>3, PlusProperty
<1>5. /\ At(e, a) = IF a >= Iss[e] THEN a - Iss[e] ELSE (a - Iss[e]) + Space
      /\ At(e, q) = IF q >= Iss[e] THEN q - Iss[e] ELSE (q - Iss[e]) + Space
  BY <1>1, <1>4, DiffProperty DEF At
<1> QED BY <1>1, <1>3, <1>4, <1>5 DEF SeqNums

-----------------------------------------------------------------------------
(* The invariant. *)

Bit(b) == IF b THEN 1 ELSE 0

Hists ==
  [opened : BOOLEAN, wrote : Nat, shut : BOOLEAN, took : Nat, ended : BOOLEAN, settled : Nat]

\* What an end did to the streams, where the other did o.
HistOK(e, h, o) ==
  /\ h \in Hists /\ h.wrote <= ToWrite[e]
  /\ h.settled <= h.wrote /\ h.settled <= o.took
  /\ h.took <= o.wrote
  /\ h.ended => o.shut /\ h.took = o.wrote
  /\ ~h.opened => h.wrote = 0 /\ ~h.shut /\ h.took = 0 /\ ~h.ended /\ h.settled = 0

\* The send numbers lie between the bytes that were settled and those written,
\* with the end of the stream behind; bytes are held until they are acknowledged.
\* A SYN that was refused and then acknowledged leaves nxt behind una.
Sender(e, t, h) ==
  LET u == At(e, t.una)
      n == At(e, t.nxt)
      m == At(e, t.max)
      f == At(e, t.finSeq)
  IN  /\ t.iss = Iss[e]
      /\ t.base = Plus(Iss[e], 1 + h.settled)
      /\ t.tx = h.wrote - h.settled
      /\ h.settled = IF u = 0 THEN 0 ELSE Lesser(u - 1, h.wrote)
      /\ u <= m /\ n <= m
      /\ m <= 1 + h.wrote + (IF t.finSeq = None THEN 0 ELSE 1)
      /\ n <= 1 + h.wrote \/ t.finSent
      /\ u = 2 + h.wrote => t.finSent /\ ~t.rtx
      /\ t.finSent => t.finSeq # None
      /\ t.finSeq # None => t.finQueued /\ (f = 1 + h.wrote \/ (f = 0 /\ h.wrote = 0))
      /\ t.finQueued = h.shut
      /\ u = 0 => h.wrote = 0 /\ t.state \notin {"Established", "CloseWait"}
      /\ n < u => n = 0 /\ u = 1 /\ ~t.probe /\ ~t.persist
      /\ t.state \in {"SynSent", "SynReceived"} =>
           u = 0 /\ m <= 1 /\ ~t.finQueued /\ ~t.probe /\ ~t.persist
      /\ t.state \in {"FinWait2", "TimeWait"} => t.tx = 0

\* The next number is that of the first byte not taken; what was put aside and
\* what is not read yet are the bytes around it.
Receiver(e, t, h, o) ==
  LET p == Peer(e)
      r == 1 + h.took + Bit(h.ended)
  IN  /\ t.finReceived = h.ended
      /\ t.state = "SynSent" => t.rnxt = 0 /\ h.took = 0 /\ t.adv <= RxRing[e]
      /\ t.state \notin {"SynSent", "Closed"} =>
           t.rnxt = Plus(Iss[p], r) /\ At(p, t.adv) <= r + RxRing[e]
      /\ t.state # "Closed" =>
           (h.ended <=> t.state \in {"CloseWait", "Closing", "LastAck", "TimeWait"})
      /\ t.rxRing \in {0, RxRing[e]}
      /\ t.rxRing = 0 => t.state \in {"TimeWait", "Closed"}
      /\ \A i \in DOMAIN t.rx : t.rx[i] = h.took - Len(t.rx) + i - 1
      /\ \A k \in DOMAIN t.asm :
           /\ t.asm[k] = h.took + k /\ h.took + k < o.wrote
           /\ t.rxRing # 0 => Len(t.rx) + k < t.rxRing

\* A segment carries the bytes of its sequence number, its end only the end,
\* and acknowledges what was taken.
SegOK(e, h, seg) ==
  /\ seg.flags.syn => seg.seq = Iss[e] /\ seg.data = <<>> /\ ~seg.flags.fin
  /\ seg.data # <<>> =>
       \E k \in Nat : /\ seg.seq = Plus(Iss[e], 1 + k) /\ k + Len(seg.data) <= h.wrote
                      /\ \A i \in DOMAIN seg.data : seg.data[i] = k + i - 1
  /\ seg.flags.fin =>
       /\ h.shut
       /\ \/ seg.seq = Iss[e] /\ seg.data = <<>>
          \/ Plus(seg.seq, Len(seg.data)) = Plus(Iss[e], 1 + h.wrote)
  /\ seg.flags.acks /\ ~seg.flags.rst => At(Peer(e), seg.ack) <= 1 + h.took + Bit(h.ended)

TcbOK(t) == t \in Tcbs /\ Len(t.rx) <= t.rxRing /\ t.tx <= t.txRing

\* A connection of e, which did h while the other did o.
EndOK(e, t, h, o) == TcbOK(t) /\ h.opened /\ Sender(e, t, h) /\ Receiver(e, t, h, o)

IInv ==
  /\ tcb \in [Ends -> Tcbs \cup {None}] /\ hist \in [Ends -> Hists]
  /\ listening \in BOOLEAN /\ DOMAIN refusals = Ends /\ DOMAIN net = Ends
  /\ \A e \in Ends :
       /\ HistOK(e, hist[e], hist[Peer(e)])
       /\ tcb[e] # None => EndOK(e, tcb[e], hist[e], hist[Peer(e)])
       /\ \A seg \in DOMAIN net[e] : /\ seg \in Segments /\ SegOK(e, hist[e], seg)
                                     /\ net[e][seg] \in 0 .. (InTransit[e] - 1)
       /\ IsFiniteSet(DOMAIN net[e])

-----------------------------------------------------------------------------
(* A step, while it is under way. *)

Works ==
  [e : Ends, t : Tcbs \cup {None}, h : Hists, out : Seq(Segments), sent : BOOLEAN,
   full : BOOLEAN, cwnd : Nat, room : Nat \cup {None}]

WorkOK(w, o) ==
  /\ w \in Works
  /\ HistOK(w.e, w.h, o) /\ HistOK(Peer(w.e), o, w.h)
  /\ \A seg \in Range(w.out) : SegOK(w.e, w.h, seg)
  /\ w.t # None => EndOK(w.e, w.t, w.h, o)

\* The same, where there is a connection.
HasTcb(w, o) == WorkOK(w, o) /\ w.t # None

\* The same step, further on.
Same(w, v) == v.e = w.e /\ v.h = w.h /\ v.cwnd = w.cwnd /\ v.room = w.room

\* The largest ring is a ring, and no longer than half of the range; bytes have
\* their numbers.
LEMMA BoundsProperty ==
  /\ Max(Range(RxRing)) \in Nat /\ Max(Range(RxRing)) + 3 <= Half
  /\ \A e \in Ends : RxRing[e] <= Max(Range(RxRing)) /\ 0 .. (ToWrite[e] - 1) \subseteq ByteNums
<1>1. /\ RxRing \in [Ends -> Nat] /\ ToWrite \in [Ends -> Nat]
      /\ \A e \in Ends : RxRing[e] + 3 <= Half
  <2>1. ASSUME NEW e \in Ends PROVE RxRing[e] + 3 <= Half
    <3>1. /\ Peer(e) \in Ends /\ Peer(Peer(e)) = e
      BY EndsProperty
    <3>2. ToWrite[Peer(e)] \in Nat /\ ToWrite[Peer(e)] + RxRing[e] + 3 <= Half /\ RxRing[e] \in Nat
      BY <3>1, HalfProperty
    <3> QED BY <3>2, HalfProperty
  <2> QED BY <2>1, TcpAssumption DEF TcpAssumption
<1>2. ASSUME NEW f \in [Ends -> Nat]
      PROVE  \E d \in Ends : f[d] = Max({f[e] : e \in Ends}) /\ \A e \in Ends : f[e] <= f[d]
  <2>1. PICK d \in Ends : \A e \in Ends : f[e] <= f[d]
    <3>1. CASE f[Client] >= f[Server]
      BY <3>1 DEF Ends
    <3>2. CASE f[Client] < f[Server]
      BY <3>2 DEF Ends
    <3> QED BY <3>1, <3>2 DEF Ends
  <2> DEFINE S == {f[e] : e \in Ends}
  <2>2. f[d] \in S /\ \A y \in S : f[d] >= y
    BY <2>1
  <2>3. \A x \in S : x \in Nat
    OBVIOUS
  <2>4. Max(S) \in S /\ \A y \in S : Max(S) >= y
    <3> HIDE DEF S
    <3> QED BY <2>2 DEF Max
  <2>5. Max(S) = f[d]
    <3> HIDE DEF S
    <3> QED BY <2>2, <2>3, <2>4
  <2> QED BY <2>1, <2>5
<1>3. Range(RxRing) = {RxRing[e] : e \in Ends}
  BY <1>1 DEF Range
<1>4. PICK d \in Ends : RxRing[d] = Max(Range(RxRing)) /\ \A e \in Ends : RxRing[e] <= RxRing[d]
  BY <1>1, <1>2, <1>3
<1>5. PICK d2 \in Ends : /\ ToWrite[d2] = Max({ToWrite[e] : e \in Ends})
                         /\ \A e \in Ends : ToWrite[e] <= ToWrite[d2]
  BY <1>1, <1>2
<1>6. ByteNums = 0 .. (ToWrite[d2] - 1)
  BY <1>5 DEF ByteNums
<1>7. ASSUME NEW e \in Ends PROVE 0 .. (ToWrite[e] - 1) \subseteq ByteNums
  <2>1. ToWrite[e] \in Nat /\ ToWrite[d2] \in Nat /\ ToWrite[e] <= ToWrite[d2]
    BY <1>1, <1>5
  <2> QED BY <1>6, <2>1
<1> QED BY <1>1, <1>4, <1>7

-----------------------------------------------------------------------------
(* The type of a control block, field by field. *)

TcbTypes ==
  [state |-> States, listener |-> BOOLEAN, ready |-> BOOLEAN, released |-> BOOLEAN,
   error |-> BOOLEAN, rxRing |-> Nat, rx |-> Seq(ByteNums), asm |-> Asms,
   txRing |-> Nat, tx |-> Nat, iss |-> SeqNums, una |-> SeqNums, nxt |-> SeqNums,
   max |-> SeqNums, base |-> SeqNums, wnd |-> Windows, wl1 |-> SeqNums, wl2 |-> SeqNums,
   maxWnd |-> Windows, rnxt |-> SeqNums, adv |-> SeqNums, finQueued |-> BOOLEAN,
   finSent |-> BOOLEAN, finSeq |-> MaybeSeqNums, finReceived |-> BOOLEAN,
   rtx |-> BOOLEAN, retries |-> Retries, ackAt |-> BOOLEAN, ackNow |-> BOOLEAN,
   unacked |-> 0 .. 2, probe |-> BOOLEAN, persist |-> BOOLEAN, linkRetry |-> BOOLEAN,
   closeAt |-> BOOLEAN, dupacks |-> Dups, recover |-> MaybeSeqNums]

\* A control block, told by its fields one at a time.
LEMMA TcbIs ==
  ASSUME NEW t
  PROVE  t \in Tcbs <=> /\ DOMAIN t = DOMAIN TcbTypes /\ t = [f \in DOMAIN t |-> t[f]]
                        /\ \A f \in DOMAIN TcbTypes : t[f] \in TcbTypes[f]
BY DEF Tcbs, TcbTypes

\* s is t but for some fields.
Changed(t, s, fields) ==
  /\ DOMAIN s = DOMAIN t /\ s = [f \in DOMAIN s |-> s[f]]
  /\ \A f \in DOMAIN t : f \notin fields => s[f] = t[f]

\* What changes one field at a time, and keeps their types, keeps the type.
LEMMA TcbKept ==
  ASSUME NEW t \in Tcbs, NEW s, NEW fields, Changed(t, s, fields),
         \A f \in fields : s[f] \in TcbTypes[f]
  PROVE  s \in Tcbs /\ s # None
<1>1. /\ DOMAIN s = DOMAIN TcbTypes /\ s = [f \in DOMAIN s |-> s[f]]
      /\ \A f \in DOMAIN TcbTypes : s[f] \in TcbTypes[f]
  BY TcbIs DEF Changed
<1> QED BY <1>1, TcbIs, NoneAssumption DEF NoneAssumption

-----------------------------------------------------------------------------
(* The operators of a step. *)

\* The right edge of the window is never behind what came, nor further than the
\* ring holds.
LEMMA EdgeProperty ==
  ASSUME NEW e \in Ends, NEW t \in Tcbs, NEW h \in Hists, NEW o \in Hists, TcbOK(t),
         h.took <= o.wrote, o.wrote <= ToWrite[Peer(e)], Receiver(e, t, h, o),
         t.state # "Closed"
  PROVE  /\ Edge(t) \in SeqNums /\ Diff(Edge(t), t.rnxt) \in 0 .. RxRing[e]
         /\ t.state = "SynSent" => Edge(t) <= RxRing[e]
         /\ t.state # "SynSent" =>
              At(Peer(e), Edge(t)) <= 1 + h.took + Bit(h.ended) + RxRing[e]
<1> DEFINE p    == Peer(e)
           adv  == IF Lt(t.adv, t.rnxt) THEN t.rnxt ELSE t.adv
           free == RxFree(t)
           r    == 1 + h.took + Bit(h.ended)
<1>1. /\ t.adv \in SeqNums /\ t.rnxt \in SeqNums /\ t.rxRing \in Nat /\ Len(t.rx) \in Nat
      /\ DOMAIN t = DOMAIN [t EXCEPT !.adv = adv]
  BY DEF Tcbs
<1>2. /\ p \in Ends /\ Peer(p) = e /\ RxRing[e] \in Nat \ {0} /\ Half \in Nat \ {0}
      /\ Space = 2 * Half /\ ToWrite[p] + RxRing[e] + 3 <= Half /\ ToWrite[p] \in Nat
  <2>1. p \in Ends /\ Peer(p) = e
    BY EndsProperty
  <2>2. ToWrite[p] + RxRing[Peer(p)] + 3 <= Half /\ ToWrite[p] \in Nat
    BY <2>1, HalfProperty
  <2> QED BY <2>1, <2>2, HalfProperty
<1>3. free \in 0 .. RxRing[e]
  <2>1. t.rxRing \in {0, RxRing[e]} /\ Len(t.rx) <= t.rxRing
    BY DEF Receiver, TcbOK
  <2> QED BY <1>1, <1>2, <2>1 DEF RxFree
<1>4. Edge(t) = IF Grew([t EXCEPT !.adv = adv]) THEN Plus(t.rnxt, free) ELSE adv
  BY DEF Edge
<1>5. adv \in SeqNums /\ Bit(h.ended) \in {0, 1} /\ h.took \in Nat /\ r \in 1 .. ToWrite[p] + 2
  <2>1. h.took \in Nat /\ o.wrote \in Nat /\ h.took <= o.wrote /\ o.wrote <= ToWrite[p]
    BY DEF Hists
  <2>2. Bit(h.ended) \in {0, 1}
    BY DEF Bit
  <2>3. adv \in SeqNums
    BY <1>1
  <2>4. r = (1 + h.took) + Bit(h.ended)
    OBVIOUS
  <2> HIDE DEF adv, free, r, p
  <2>5. r \in 1 .. ToWrite[p] + 2
    BY <1>2, <2>1, <2>2, <2>4
  <2> QED BY <2>1, <2>2, <2>3, <2>5
<1> HIDE DEF adv, free, r
<1>6. CASE t.state = "SynSent"
  <2>1. t.rnxt = 0 /\ t.adv <= RxRing[e]
    BY <1>6 DEF Receiver
  <2>2. adv = t.adv
    <3>1. Diff(t.adv, 0) = t.adv
      BY <1>1, <1>2, <2>1, DiffProperty DEF SeqNums
    <3>2. ~Lt(t.adv, t.rnxt)
      BY <1>1, <1>2, <2>1, <3>1 DEF Lt, Half, SeqNums
    <3> QED BY <3>2 DEF adv
  <2>3. Plus(t.rnxt, free) = free /\ free \in SeqNums
    <3>1. 0 \in SeqNums /\ free \in 0 .. Space
      BY <1>2, <1>3 DEF SeqNums
    <3>2. Plus(0, free) = IF 0 + free < Space THEN 0 + free ELSE (0 + free) - Space
      BY <3>1, PlusProperty
    <3> QED BY <1>2, <1>3, <2>1, <3>2 DEF SeqNums
  <2>4. Edge(t) \in {free, adv}
    BY <1>4, <2>3
  <2>5. Edge(t) \in SeqNums /\ Edge(t) <= RxRing[e]
    BY <1>2, <1>3, <1>5, <2>1, <2>2, <2>3, <2>4
  <2>6. Diff(Edge(t), 0) = Edge(t)
    <3>1. 0 \in SeqNums
      BY <1>2 DEF SeqNums
    <3> QED BY <2>5, <3>1, DiffProperty DEF SeqNums
  <2> QED BY <1>2, <1>6, <2>1, <2>5, <2>6 DEF SeqNums
<1>7. CASE t.state # "SynSent"
  <2>1. t.rnxt = Plus(Iss[p], r) /\ At(p, t.adv) <= r + RxRing[e]
    BY <1>7 DEF Receiver, r
  <2>2. r \in SeqNums /\ At(p, t.rnxt) = r
    <3>1. r \in SeqNums
      BY <1>2, <1>5 DEF SeqNums
    <3> QED BY <1>1, <1>2, <2>1, <3>1, AtProperty
  <2>3. At(p, t.adv) \in Nat
    BY <1>1, <1>2, AtProperty DEF SeqNums
  <2>4. Lt(t.adv, t.rnxt) <=> At(p, t.adv) < r
    <3>1. Lt(t.adv, t.rnxt) <=> IF At(p, t.adv) >= r THEN At(p, t.adv) - r >= Half
                                ELSE r - At(p, t.adv) <= Half
      BY <1>1, <1>2, <2>2, ByPosition
    <3>2. r <= Half /\ RxRing[e] < Half
      BY <1>2, <1>5
    <3> QED BY <1>2, <1>5, <2>1, <2>3, <3>1, <3>2
  <2>5. At(p, adv) >= r /\ At(p, adv) <= r + RxRing[e]
    BY <1>2, <1>5, <2>1, <2>2, <2>3, <2>4 DEF adv
  <2>6. Plus(t.rnxt, free) \in SeqNums /\ At(p, Plus(t.rnxt, free)) = r + free
    <3>1. r + free < Space /\ free \in Nat
      BY <1>2, <1>3, <1>5
    <3> QED BY <1>1, <1>2, <2>2, <3>1, SumPosition
  <2>7. /\ Edge(t) \in SeqNums /\ At(p, Edge(t)) >= r /\ At(p, Edge(t)) <= r + RxRing[e]
    BY <1>2, <1>3, <1>4, <1>5, <2>5, <2>6
  <2>8. At(p, Edge(t)) \in Int /\ Diff(Edge(t), t.rnxt) = At(p, Edge(t)) - r
    <3>1. At(p, Edge(t)) \in Int
      BY <1>2, <2>7, AtProperty DEF SeqNums
    <3> QED BY <1>1, <1>2, <2>2, <2>7, <3>1, ByPosition
  <2> QED BY <1>2, <1>5, <1>7, <2>7, <2>8 DEF r
<1> QED BY <1>6, <1>7

\* What the two halves of the invariant look at.
LEMMA SenderSame ==
  ASSUME NEW e, NEW t, NEW s, NEW h, Sender(e, t, h),
         s.iss = t.iss, s.base = t.base, s.tx = t.tx, s.una = t.una, s.nxt = t.nxt,
         s.max = t.max, s.finSeq = t.finSeq, s.finSent = t.finSent, s.finQueued = t.finQueued,
         s.state = t.state, s.rtx = t.rtx, s.probe = t.probe, s.persist = t.persist
  PROVE  Sender(e, s, h)
BY DEF Sender

\* What the receiver holds is told by seven fields of its control block.
LEMMA ReceiverSame ==
  ASSUME NEW e, NEW t, NEW s, NEW h, NEW o, Receiver(e, t, h, o),
         s.finReceived = t.finReceived, s.state = t.state, s.rnxt = t.rnxt, s.adv = t.adv,
         s.rxRing = t.rxRing, s.rx = t.rx, s.asm = t.asm
  PROVE  Receiver(e, s, h, o)
BY DEF Receiver

\* What a sent segment leaves alone in the control block.
Sending(t, s) ==
  /\ s.state = t.state /\ s.listener = t.listener /\ s.ready = t.ready
  /\ s.released = t.released /\ s.error = t.error
  /\ s.rxRing = t.rxRing /\ s.rx = t.rx /\ s.asm = t.asm /\ s.txRing = t.txRing /\ s.tx = t.tx
  /\ s.iss = t.iss /\ s.una = t.una /\ s.nxt = t.nxt /\ s.max = t.max /\ s.base = t.base
  /\ s.wnd = t.wnd /\ s.maxWnd = t.maxWnd /\ s.rnxt = t.rnxt
  /\ s.finQueued = t.finQueued /\ s.finSent = t.finSent /\ s.finSeq = t.finSeq
  /\ s.finReceived = t.finReceived
  /\ s.rtx = t.rtx /\ s.retries = t.retries /\ s.probe = t.probe /\ s.persist = t.persist
  /\ s.linkRetry = t.linkRetry /\ s.closeAt = t.closeAt
  /\ s.dupacks = t.dupacks /\ s.recover = t.recover

\* A segment that may be sent: its bytes are held, its end is the stream's.
Sendable(w, seq, flags, offset, n) ==
  /\ seq \in SeqNums /\ flags \in Flags /\ offset \in Nat /\ n \in Nat
  /\ flags.syn => seq = Iss[w.e] /\ n = 0 /\ ~flags.fin
  /\ n > 0 => seq = Plus(w.t.base, offset) /\ offset + n <= w.t.tx
  /\ flags.fin =>
       /\ w.h.shut
       /\ (seq = Iss[w.e] /\ n = 0) \/ Plus(seq, n) = Plus(Iss[w.e], 1 + w.h.wrote)
  /\ flags.acks => w.t.state # "SynSent"

\* What a handler at work may count on, in one list.
LEMMA WorkFacts ==
  ASSUME NEW w, NEW o, HasTcb(w, o)
  PROVE  /\ w.e \in Ends /\ Peer(w.e) \in Ends /\ w.t \in Tcbs /\ w.h \in Hists /\ o \in Hists
         /\ TcbOK(w.t) /\ w.h.took <= o.wrote /\ o.wrote <= ToWrite[Peer(w.e)]
         /\ w.h.settled <= w.h.wrote /\ w.h.wrote <= ToWrite[w.e]
         /\ w.h.wrote \in Nat /\ w.h.settled \in Nat /\ w.h.took \in Nat /\ o.wrote \in Nat
         /\ w.h.opened /\ Sender(w.e, w.t, w.h) /\ Receiver(w.e, w.t, w.h, o) /\ w.t # None
         /\ w.out \in Seq(Segments) /\ w.sent \in BOOLEAN /\ w.full \in BOOLEAN
         /\ w.cwnd \in Nat
BY EndsProperty DEF HasTcb, WorkOK, Works, EndOK, HistOK, TcbOK, Hists

\* The segment that SendTcp makes is what SegOK says.
LEMMA SegmentProperty ==
  ASSUME NEW w, NEW o, HasTcb(w, o), w.t.state # "Closed",
         NEW seq, NEW flags, NEW offset, NEW n, Sendable(w, seq, flags, offset, n),
         NEW seg,
         seg = Segment(seq, IF flags.acks THEN w.t.rnxt ELSE 0, flags, Bytes(w, offset, n),
                       Diff(Edge(w.t), w.t.rnxt))
  PROVE  seg \in Segments /\ SegOK(w.e, w.h, seg)
<1> DEFINE e == w.e
           h == w.h
           t == w.t
<1>1. /\ e \in Ends /\ Peer(e) \in Ends /\ t \in Tcbs /\ h \in Hists /\ TcbOK(t)
      /\ h.settled <= h.wrote /\ h.wrote <= ToWrite[e] /\ Sender(e, t, h) /\ Receiver(e, t, h, o)
      /\ h.wrote \in Nat /\ h.settled \in Nat /\ h.took \in Nat
      /\ h.took <= o.wrote /\ o.wrote <= ToWrite[Peer(e)] /\ o \in Hists
  BY WorkFacts
<1>2. /\ seq \in SeqNums /\ flags \in Flags /\ offset \in Nat /\ n \in Nat
  BY DEF Sendable
<1>3. /\ seg.seq = seq /\ seg.ack = (IF flags.acks THEN t.rnxt ELSE 0) /\ seg.flags = flags
      /\ seg.data = Bytes(w, offset, n) /\ seg.wnd = Diff(Edge(t), t.rnxt)
      /\ seg = [seq |-> seg.seq, ack |-> seg.ack, flags |-> seg.flags, data |-> seg.data,
                wnd |-> seg.wnd]
  BY DEF Segment
<1>4. /\ Space = 2 * Half /\ Half \in Nat \ {0} /\ ToWrite[e] \in Nat /\ ToWrite[e] + 3 < Half
      /\ ToWrite[Peer(e)] \in Nat /\ ToWrite[Peer(e)] + 3 < Half
      /\ 0 .. (ToWrite[e] - 1) \subseteq ByteNums
  <2>1. \A d \in Ends : ToWrite[d] \in Nat /\ ToWrite[d] + 3 < Half
    <3> SUFFICES ASSUME NEW d \in Ends PROVE ToWrite[d] \in Nat /\ ToWrite[d] + 3 < Half
      OBVIOUS
    <3>1. /\ ToWrite[d] \in Nat /\ ToWrite[d] + RxRing[Peer(d)] + 3 <= Half
          /\ RxRing[Peer(d)] \in Nat \ {0} /\ Half \in Nat
      BY EndsProperty, HalfProperty
    <3> QED BY <3>1
  <2> QED BY <1>1, <2>1, HalfProperty, BoundsProperty
<1>5. \A i \in 1 .. n : Bytes(w, offset, n)[i] = h.settled + offset + i - 1
                        /\ h.settled + offset + i - 1 \in 0 .. (ToWrite[e] - 1)
  <2> SUFFICES ASSUME NEW i \in 1 .. n
               PROVE  Bytes(w, offset, n)[i] = h.settled + offset + i - 1
                      /\ h.settled + offset + i - 1 \in 0 .. (ToWrite[e] - 1)
    OBVIOUS
  <2>1. offset + n <= t.tx /\ t.tx = h.wrote - h.settled
    BY <1>1, <1>2 DEF Sendable, Sender
  <2>2. offset + i <= t.tx
    BY <1>1, <1>2, <2>1
  <2>3. Bytes(w, offset, n)[i] = h.settled + offset + i - 1
    BY <2>2 DEF Bytes
  <2> QED BY <1>1, <1>2, <1>4, <2>1, <2>2, <2>3
<1>6. Bytes(w, offset, n) \in Seq(ByteNums) /\ Len(Bytes(w, offset, n)) = n
  <2>1. \A i \in 1 .. n : Bytes(w, offset, n)[i] \in ByteNums
    BY <1>4, <1>5
  <2>2. /\ Bytes(w, offset, n) = [i \in 1 .. n |-> Bytes(w, offset, n)[i]]
    BY DEF Bytes
  <2> DEFINE d == Bytes(w, offset, n)
  <2> HIDE DEF d
  <2>3. d = [i \in 1 .. n |-> d[i]] /\ \A i \in 1 .. n : d[i] \in ByteNums
    BY <2>1, <2>2 DEF d
  <2>4. d \in Seq(ByteNums) /\ Len(d) = n
    BY <1>2, <2>3
  <2> QED BY <2>4 DEF d
<1>7. seg.wnd \in 0 .. Max(Range(RxRing))
  <2>1. seg.wnd \in 0 .. RxRing[e]
    BY <1>1, <1>3, EdgeProperty
  <2> QED BY <1>1, <2>1, BoundsProperty, HalfProperty
<1>8. seg.ack \in SeqNums
  <2>1. t.rnxt \in SeqNums
    BY <1>1 DEF Tcbs
  <2>2. 0 \in SeqNums
    BY <1>4 DEF SeqNums
  <2> QED BY <1>3, <2>1, <2>2
<1>9. seg \in Segments
  BY <1>2, <1>3, <1>6, <1>7, <1>8 DEF Segments, Windows
<1>10. seg.flags.syn => seg.seq = Iss[e] /\ seg.data = <<>> /\ ~seg.flags.fin
  BY <1>2, <1>3, <1>6 DEF Sendable
<1>11. ASSUME seg.data # <<>>
       PROVE  \E k \in Nat : /\ seg.seq = Plus(Iss[e], 1 + k) /\ k + Len(seg.data) <= h.wrote
                             /\ \A i \in DOMAIN seg.data : seg.data[i] = k + i - 1
  <2>1. n > 0 /\ DOMAIN seg.data = 1 .. n /\ Len(seg.data) = n
    BY <1>2, <1>3, <1>6, <1>11
  <2>2. seq = Plus(t.base, offset) /\ offset + n <= t.tx
    BY <2>1 DEF Sendable
  <2>3. t.base = Plus(Iss[e], 1 + h.settled) /\ t.tx = h.wrote - h.settled
    BY <1>1 DEF Sender
  <2> DEFINE k == h.settled + offset
  <2>4. k \in Nat /\ k + n <= h.wrote
    BY <1>1, <1>2, <2>2, <2>3
  <2>5. seq = Plus(Iss[e], 1 + k)
    <3>1. 1 + h.settled \in SeqNums /\ 1 + k \in SeqNums /\ (1 + h.settled) + offset < Space
      BY <1>1, <1>2, <1>4, <2>4 DEF SeqNums
    <3>2. t.base \in SeqNums /\ At(e, t.base) = 1 + h.settled
      BY <1>1, <2>3, <3>1, AtProperty DEF Tcbs
    <3>3. seq \in SeqNums /\ At(e, seq) = 1 + k
      BY <1>1, <1>2, <2>2, <3>1, <3>2, SumPosition
    <3> QED BY <1>1, <3>3, AtProperty
  <2>6. \A i \in DOMAIN seg.data : seg.data[i] = k + i - 1
    BY <1>3, <1>5, <2>1
  <2> HIDE DEF k
  <2> QED BY <1>3, <2>1, <2>4, <2>5, <2>6
<1>12. seg.flags.fin =>
         /\ h.shut
         /\ \/ seg.seq = Iss[e] /\ seg.data = <<>>
            \/ Plus(seg.seq, Len(seg.data)) = Plus(Iss[e], 1 + h.wrote)
  BY <1>2, <1>3, <1>6 DEF Sendable
<1>13. ASSUME seg.flags.acks PROVE At(Peer(e), seg.ack) <= 1 + h.took + Bit(h.ended)
  <2>1. t.rnxt = Plus(Iss[Peer(e)], 1 + h.took + Bit(h.ended))
    BY <1>1, <1>3, <1>13 DEF Sendable, Receiver
  <2>2. 1 + h.took + Bit(h.ended) \in SeqNums
    <3>1. Bit(h.ended) \in {0, 1} /\ o.wrote \in Nat
      BY <1>1 DEF Bit, Hists
    <3> QED BY <1>1, <1>4, <3>1 DEF SeqNums
  <2>3. At(Peer(e), t.rnxt) = 1 + h.took + Bit(h.ended)
    BY <1>1, <2>1, <2>2, AtProperty DEF Tcbs
  <2> QED BY <1>3, <1>13, <2>2, <2>3 DEF SeqNums
<1> QED BY <1>9, <1>10, <1>11, <1>12, <1>13 DEF SegOK

\* SendTcp sends the segment or finds no room; either way the window is worked
\* out.
LEMMA SendTcpProperty ==
  ASSUME NEW w, NEW o, HasTcb(w, o), w.t.state # "Closed",
         NEW seq, NEW flags, NEW offset, NEW n, Sendable(w, seq, flags, offset, n)
  PROVE  LET v == SendTcp(w, seq, flags, offset, n)
         IN  HasTcb(v, o) /\ Same(w, v) /\ Sending(w.t, v.t)
<1> DEFINE t   == [w.t EXCEPT !.adv = Edge(w.t)]
           seg == Segment(seq, IF flags.acks THEN t.rnxt ELSE 0, flags, Bytes(w, offset, n),
                          Diff(t.adv, t.rnxt))
           s   == IF Room(w) /\ flags.acks
                  THEN [t EXCEPT !.ackNow = FALSE, !.ackAt = FALSE, !.unacked = 0] ELSE t
           v   == SendTcp(w, seq, flags, offset, n)
<1>1. /\ w.e \in Ends /\ Peer(w.e) \in Ends /\ w.t \in Tcbs /\ w.h \in Hists /\ TcbOK(w.t)
      /\ Sender(w.e, w.t, w.h) /\ Receiver(w.e, w.t, w.h, o) /\ o \in Hists /\ w.t # None
      /\ w.h.took <= o.wrote /\ o.wrote <= ToWrite[Peer(w.e)] /\ w.h.opened
      /\ w.out \in Seq(Segments) /\ w \in Works
  BY WorkFacts DEF HasTcb, WorkOK
<1>2. /\ Edge(w.t) \in SeqNums
      /\ w.t.state = "SynSent" => Edge(w.t) <= RxRing[w.e]
      /\ w.t.state # "SynSent" =>
           At(Peer(w.e), Edge(w.t)) <= 1 + w.h.took + Bit(w.h.ended) + RxRing[w.e]
  BY <1>1, EdgeProperty
<1>3. /\ t \in Tcbs /\ t.adv = Edge(w.t) /\ t.rnxt = w.t.rnxt /\ s \in Tcbs
      /\ Sending(w.t, s) /\ s.adv = Edge(w.t) /\ s # None
  <2>1. t \in Tcbs /\ t.adv = Edge(w.t) /\ t.rnxt = w.t.rnxt
    BY <1>1, <1>2 DEF Tcbs
  <2>2. Sending(w.t, t)
    BY <1>1 DEF Sending, Tcbs
  <2> HIDE DEF t
  <2>3. CASE Room(w) /\ flags.acks
    <3>1. s = [t EXCEPT !.ackNow = FALSE, !.ackAt = FALSE, !.unacked = 0]
      BY <2>3
    <3> HIDE DEF s
    <3>2. s \in Tcbs /\ s.adv = Edge(w.t)
      <4>1. Changed(t, s, {"ackNow", "ackAt", "unacked"})
        BY <2>1, <3>1 DEF Changed
      <4>2. s.ackNow \in BOOLEAN /\ s.ackAt \in BOOLEAN /\ s.unacked \in 0 .. 2
        BY <2>1, <3>1 DEF Tcbs
      <4>3. \A f \in {"ackNow", "ackAt", "unacked"} : s[f] \in TcbTypes[f]
        BY <4>2 DEF TcbTypes
      <4>4. s \in Tcbs
        BY <2>1, <4>1, <4>3, TcbKept
      <4> QED BY <2>1, <3>1, <4>4 DEF Tcbs
    <3>3. Sending(t, s)
      BY <2>1, <3>1 DEF Sending, Tcbs
    <3>4. Sending(w.t, s)
      BY <2>2, <3>3 DEF Sending
    <3> QED BY <2>1, <3>2, <3>4, NoneAssumption DEF NoneAssumption
  <2>4. CASE ~(Room(w) /\ flags.acks)
    <3>1. s = t
      BY <2>4
    <3> QED BY <2>1, <2>2, <3>1, NoneAssumption DEF NoneAssumption
  <2> QED BY <2>1, <2>2, <2>3, <2>4
<1>4. v = IF ~Room(w) THEN [w EXCEPT !.t = s, !.sent = FALSE, !.full = TRUE]
          ELSE [w EXCEPT !.t = s, !.out = Append(w.out, seg), !.sent = TRUE]
  <2>1. v = IF ~Room(w) THEN [w EXCEPT !.t = t, !.sent = FALSE, !.full = TRUE]
            ELSE [w EXCEPT !.t = IF flags.acks
                                 THEN [t EXCEPT !.ackNow = FALSE, !.ackAt = FALSE, !.unacked = 0]
                                 ELSE t,
                           !.out = Append(@, seg), !.sent = TRUE]
    BY DEF SendTcp
  <2>2. CASE Room(w)
    BY <2>1, <2>2
  <2>3. CASE ~Room(w)
    BY <2>1, <2>3
  <2> QED BY <2>2, <2>3
<1>5. seg \in Segments /\ SegOK(w.e, w.h, seg)
  BY <1>3, SegmentProperty
<1> HIDE DEF t, s, seg, v
<1>6. Sender(w.e, s, w.h)
  BY <1>1, <1>3, SenderSame DEF Sending
<1>7. Receiver(w.e, s, w.h, o)
  BY <1>1, <1>2, <1>3 DEF Sending, Receiver
<1>8. EndOK(w.e, s, w.h, o)
  BY <1>1, <1>3, <1>6, <1>7 DEF EndOK, TcbOK, Sending
<1>9. v \in Works /\ v.t = s /\ v.e = w.e /\ v.h = w.h /\ Same(w, v)
  <2>1. Append(w.out, seg) \in Seq(Segments)
    BY <1>1, <1>5
  <2>2. CASE Room(w)
    <3>1. v = [w EXCEPT !.t = s, !.out = Append(w.out, seg), !.sent = TRUE]
      BY <1>4, <2>2
    <3> QED BY <1>1, <1>3, <2>1, <3>1 DEF Works, Same
  <2>3. CASE ~Room(w)
    <3>1. v = [w EXCEPT !.t = s, !.sent = FALSE, !.full = TRUE]
      BY <1>4, <2>3
    <3> QED BY <1>1, <1>3, <3>1 DEF Works, Same
  <2> QED BY <2>2, <2>3
<1>10. \A x \in Range(v.out) : SegOK(w.e, w.h, x)
  <2>1. \A x \in Range(w.out) : SegOK(w.e, w.h, x)
    BY DEF HasTcb, WorkOK
  <2>2. v.out = w.out \/ v.out = Append(w.out, seg)
    BY <1>1, <1>4 DEF Works
  <2>3. Range(Append(w.out, seg)) \subseteq Range(w.out) \cup {seg}
    BY <1>1, <1>5 DEF Range
  <2> QED BY <1>5, <2>1, <2>2, <2>3
<1>11. WorkOK(v, o)
  BY <1>1, <1>8, <1>9, <1>10 DEF WorkOK, HasTcb
<1> QED BY <1>3, <1>9, <1>11 DEF HasTcb, v

\* Answering with a RST (send_reset) touches nothing of the connection's own.
LEMMA ResetProperty ==
  ASSUME NEW w, NEW o, WorkOK(w, o), NEW seg \in Segments
  PROVE  LET v == SendReset(w, seg)
         IN  WorkOK(v, o) /\ Same(w, v) /\ v.t = w.t
<1> DEFINE reply == IF seg.flags.acks THEN Segment(seg.ack, 0, RST, <<>>, 0)
                    ELSE Segment(0, Plus(seg.seq, SegLen(seg)), [RST EXCEPT !.acks = TRUE],
                                 <<>>, 0)
           v     == SendReset(w, seg)
<1>1. 0 \in SeqNums /\ 0 \in Windows /\ Space \in Nat \ {0}
  BY HalfProperty, BoundsProperty DEF SeqNums, Windows
<1>2. /\ seg.ack \in SeqNums /\ seg.seq \in SeqNums /\ SegLen(seg) \in Nat
  <2>1. seg.ack \in SeqNums /\ seg.seq \in SeqNums /\ seg.data \in Seq(ByteNums)
    BY DEF Segments
  <2>2. Len(seg.data) \in Nat
    BY <2>1
  <2>3. SegLen(seg) \in {Len(seg.data), Len(seg.data) + 1, Len(seg.data) + 2}
    <3>1. \A a, b \in {0, 1}, k \in Nat : (k + a) + b \in {k, k + 1, k + 2}
      OBVIOUS
    <3> QED BY <2>2, <3>1 DEF SegLen
  <2> QED BY <2>1, <2>2, <2>3
<1>3. Plus(seg.seq, SegLen(seg)) \in SeqNums
  <2> DEFINE k == seg.seq + SegLen(seg)
  <2>1. k \in Int
    BY <1>2 DEF SeqNums
  <2>2. k % Space \in 0 .. Space - 1
    <3> HIDE DEF k
    <3> QED BY <1>1, <2>1, ModProperty
  <2> QED BY <2>2 DEF Plus, SeqNums
<1>4. RST \in Flags /\ [RST EXCEPT !.acks = TRUE] \in Flags /\ <<>> \in Seq(ByteNums)
  <2>1. RST \in Flags
    BY DEF RST, Flags
  <2>2. \A r \in Flags : [r EXCEPT !.acks = TRUE] \in Flags
    BY DEF Flags
  <2>3. <<>> \in Seq(ByteNums)
    OBVIOUS
  <2> QED BY <2>1, <2>2, <2>3
<1>5. reply \in Segments
  BY <1>1, <1>2, <1>3, <1>4 DEF Segment, Segments
<1>6. reply.flags.syn = FALSE /\ reply.flags.fin = FALSE /\ reply.flags.rst = TRUE
      /\ reply.data = <<>>
  BY DEF Segment, RST
<1> HIDE DEF reply
<1>7. SegOK(w.e, w.h, reply)
  BY <1>6 DEF SegOK
<1>8. v = IF Room(w) THEN [w EXCEPT !.out = Append(w.out, reply)] ELSE [w EXCEPT !.full = TRUE]
  BY DEF SendReset, reply
<1> HIDE DEF v
<1>9. w \in Works /\ w.out \in Seq(Segments) /\ \A x \in Range(w.out) : SegOK(w.e, w.h, x)
  BY DEF WorkOK, Works
<1>10. CASE Room(w)
  <2>1. Append(w.out, reply) \in Seq(Segments)
    BY <1>5, <1>9
  <2>2. Range(Append(w.out, reply)) \subseteq Range(w.out) \cup {reply}
    BY <1>5, <1>9 DEF Range
  <2>3. /\ v \in Works /\ v.e = w.e /\ v.t = w.t /\ v.h = w.h /\ Same(w, v)
        /\ v.out = Append(w.out, reply)
    BY <1>8, <1>9, <1>10, <2>1 DEF Works, Same
  <2> QED BY <1>7, <1>9, <2>2, <2>3 DEF WorkOK, v
<1>11. CASE ~Room(w)
  <2>1. /\ v \in Works /\ v.e = w.e /\ v.t = w.t /\ v.h = w.h /\ Same(w, v) /\ v.out = w.out
    BY <1>8, <1>9, <1>11 DEF Works, Same
  <2> QED BY <1>9, <2>1 DEF WorkOK, v
<1> QED BY <1>10, <1>11

\* Facts of the send numbers, by position.
LEMMA SenderFacts ==
  ASSUME NEW w, NEW o, HasTcb(w, o)
  PROVE  LET t == w.t
             h == w.h
             u == At(w.e, t.una)
             n == At(w.e, t.nxt)
             m == At(w.e, t.max)
         IN  /\ u \in Nat /\ n \in Nat /\ m \in Nat /\ u <= m /\ n <= m /\ m <= 2 + h.wrote
             /\ 2 + h.wrote < Half /\ Half \in Nat /\ Space = 2 * Half
             /\ t.una \in SeqNums /\ t.nxt \in SeqNums /\ t.max \in SeqNums /\ t.base \in SeqNums
             /\ At(w.e, t.base) = 1 + h.settled
             /\ t.tx = h.wrote - h.settled /\ t.tx \in Nat
             /\ h.settled = IF u = 0 THEN 0 ELSE Lesser(u - 1, h.wrote)
             /\ h.settled \in Nat /\ h.wrote \in Nat /\ h.settled <= h.wrote
<1>1. /\ w.e \in Ends /\ w.t \in Tcbs /\ Sender(w.e, w.t, w.h)
      /\ w.h.settled <= w.h.wrote /\ w.h.wrote <= ToWrite[w.e]
      /\ w.h.wrote \in Nat /\ w.h.settled \in Nat
  BY WorkFacts
<1>2. /\ Half \in Nat /\ Space = 2 * Half /\ ToWrite[w.e] + 3 <= Half /\ ToWrite[w.e] \in Nat
  <2>1. RxRing[Peer(w.e)] \in Nat
    BY <1>1, EndsProperty, HalfProperty
  <2> QED BY <1>1, <2>1, HalfProperty
<1>3. /\ w.t.una \in SeqNums /\ w.t.nxt \in SeqNums /\ w.t.max \in SeqNums
      /\ w.t.base \in SeqNums
  BY <1>1 DEF Tcbs
<1>4. /\ At(w.e, w.t.una) \in Nat /\ At(w.e, w.t.nxt) \in Nat /\ At(w.e, w.t.max) \in Nat
  BY <1>1, <1>3, AtProperty DEF SeqNums
<1>5. At(w.e, w.t.base) = 1 + w.h.settled
  <2>1. 1 + w.h.settled \in SeqNums /\ w.t.base = Plus(Iss[w.e], 1 + w.h.settled)
    BY <1>1, <1>2 DEF Sender, SeqNums
  <2> QED BY <1>1, <2>1, AtProperty
<1>6. /\ At(w.e, w.t.una) <= At(w.e, w.t.max) /\ At(w.e, w.t.nxt) <= At(w.e, w.t.max)
      /\ At(w.e, w.t.max) <= 2 + w.h.wrote
      /\ w.t.tx = w.h.wrote - w.h.settled
      /\ w.h.settled = IF At(w.e, w.t.una) = 0 THEN 0 ELSE Lesser(At(w.e, w.t.una) - 1, w.h.wrote)
  BY <1>1, <1>4 DEF Sender
<1> QED BY <1>1, <1>2, <1>3, <1>4, <1>5, <1>6

\* What is unsent, and what the window leaves of it.  Behind una nothing goes
\* out, though there may be something to send.
LEMMA UnsentProperty ==
  ASSUME NEW w, NEW o, HasTcb(w, o), Synchronized(w.t), ~w.t.finSent
  PROVE  LET t == w.t
             h == w.h
             n == At(w.e, t.nxt)
         IN  /\ Unsent(t) = IF n = 0 THEN h.wrote ELSE 1 + h.wrote - n
             /\ n <= 1 + h.wrote /\ Unsent(t) \in Nat
             /\ n > 0 => Diff(t.nxt, t.base) = n - (1 + h.settled) /\ n >= 1 + h.settled
             /\ n = 0 => h.settled = 0
             /\ n = 0 /\ h.wrote > 0 => InFlight(t) = Space - 1 /\ ~t.probe
<1> DEFINE t == w.t
           h == w.h
           u == At(w.e, t.una)
           n == At(w.e, t.nxt)
           m == At(w.e, t.max)
<1>1. /\ u \in Nat /\ n \in Nat /\ m \in Nat /\ u <= m /\ n <= m /\ m <= 2 + h.wrote
      /\ 2 + h.wrote < Half /\ Half \in Nat /\ Space = 2 * Half
      /\ t.una \in SeqNums /\ t.nxt \in SeqNums /\ t.max \in SeqNums /\ t.base \in SeqNums
      /\ At(w.e, t.base) = 1 + h.settled
      /\ t.tx = h.wrote - h.settled /\ t.tx \in Nat
      /\ h.settled = IF u = 0 THEN 0 ELSE Lesser(u - 1, h.wrote)
      /\ h.settled \in Nat /\ h.wrote \in Nat /\ h.settled <= h.wrote
  BY SenderFacts
<1>2. /\ w.e \in Ends /\ n <= 1 + h.wrote
      /\ u = 0 => h.wrote = 0
      /\ n < u => n = 0 /\ u = 1 /\ ~t.probe
  BY WorkFacts DEF Sender
<1>3. Unsent(t) = IF Lt(t.nxt, t.base) THEN t.tx ELSE Left(t.tx, Diff(t.nxt, t.base))
  BY DEF Unsent
<1>4. /\ Lt(t.nxt, t.base) <=> IF n >= 1 + h.settled THEN n - (1 + h.settled) >= Half
                               ELSE (1 + h.settled) - n <= Half
      /\ n >= 1 + h.settled => Diff(t.nxt, t.base) = n - (1 + h.settled)
      /\ Diff(t.nxt, t.una) = IF n >= u THEN n - u ELSE (n - u) + Space
  <2>1. /\ Lt(t.nxt, t.base) <=> IF n >= At(w.e, t.base) THEN n - At(w.e, t.base) >= Half
                                 ELSE At(w.e, t.base) - n <= Half
        /\ Diff(t.nxt, t.base) = IF n >= At(w.e, t.base) THEN n - At(w.e, t.base)
                                 ELSE (n - At(w.e, t.base)) + Space
    BY <1>1, <1>2, ByPosition
  <2>2. Diff(t.nxt, t.una) = IF n >= u THEN n - u ELSE (n - u) + Space
    BY <1>1, <1>2, ByPosition
  <2> QED BY <1>1, <2>1, <2>2
<1>5. h.settled <= IF u = 0 THEN 0 ELSE u - 1
  BY <1>1 DEF Lesser
<1> HIDE DEF u, n, m
<1>6. CASE n > 0
  <2>1. n >= 1 + h.settled
    BY <1>1, <1>2, <1>5, <1>6
  <2>2. ~Lt(t.nxt, t.base) /\ Diff(t.nxt, t.base) = n - (1 + h.settled)
    BY <1>1, <1>4, <2>1
  <2>3. Unsent(t) = 1 + h.wrote - n
    BY <1>1, <1>2, <1>3, <2>1, <2>2 DEF Left
  <2> QED BY <1>1, <1>2, <1>6, <2>1, <2>2, <2>3 DEF n
<1>7. CASE n = 0
  <2>1. h.settled = 0
    BY <1>1, <1>2, <1>5, <1>7
  <2>2. Lt(t.nxt, t.base)
    BY <1>1, <1>4, <1>7, <2>1
  <2>3. Unsent(t) = h.wrote
    BY <1>1, <1>3, <2>1, <2>2
  <2>4. h.wrote > 0 => InFlight(t) = Space - 1 /\ ~t.probe
    BY <1>1, <1>2, <1>4, <1>7 DEF InFlight
  <2> QED BY <1>1, <1>2, <1>7, <2>1, <2>3, <2>4 DEF n
<1> QED BY <1>1, <1>6, <1>7

\* Lesser and Greater of two numbers, and what is left of one.
LEMMA PairProperty ==
  ASSUME NEW m \in Nat, NEW n \in Nat
  PROVE  /\ Lesser(m, n) \in Nat /\ Lesser(m, n) <= m /\ Lesser(m, n) <= n
         /\ Greater(m, n) \in Nat /\ Greater(m, n) >= m /\ Greater(m, n) >= n
         /\ Left(m, n) \in Nat /\ Left(m, n) <= m
BY DEF Lesser, Greater, Left

\* Where the highest number sent is, once more was sent.
LEMMA AdvanceProperty ==
  ASSUME NEW e \in Ends, NEW t \in Tcbs, NEW to \in SeqNums,
         At(e, t.max) < Half, At(e, to) < Half
  PROVE  LET s == Advance(t, to)
         IN  /\ s \in Tcbs /\ Changed(t, s, {"nxt", "max"}) /\ s.nxt = to
             /\ s.max = (IF Lt(t.max, to) THEN to ELSE t.max)
             /\ At(e, s.max) = Greater(At(e, t.max), At(e, to))
<1> DEFINE s == Advance(t, to)
           m == IF Lt(t.max, to) THEN to ELSE t.max
<1>1. t.max \in SeqNums /\ m \in SeqNums
  BY DEF Tcbs
<1>2. s = [t EXCEPT !.nxt = to, !.max = m]
  BY DEF Advance
<1>3. /\ At(e, t.max) \in Nat /\ At(e, to) \in Nat /\ Half \in Nat
      /\ Lt(t.max, to) <=> IF At(e, t.max) >= At(e, to) THEN At(e, t.max) - At(e, to) >= Half
                           ELSE At(e, to) - At(e, t.max) <= Half
  BY <1>1, AtProperty, ByPosition, HalfProperty DEF SeqNums
<1>4. At(e, m) = Greater(At(e, t.max), At(e, to))
  BY <1>3 DEF Greater
<1> HIDE DEF s, m
<1>5. Changed(t, s, {"nxt", "max"}) /\ s.nxt = to /\ s.max = m
  BY <1>2 DEF Changed, Tcbs
<1>6. s \in Tcbs
  <2>1. \A f \in {"nxt", "max"} : s[f] \in TcbTypes[f]
    BY <1>1, <1>5 DEF TcbTypes
  <2> QED BY <1>5, <2>1, TcbKept
<1> QED BY <1>4, <1>5, <1>6 DEF s, m

\* What a round of tcp_output sends: nothing while the SYN is to be sent again
\* and bytes wait behind it.
Most(w) ==
  LET window == Left(Lesser(w.t.wnd, w.cwnd), InFlight(w.t))
  IN  Lesser(Lesser(Unsent(w.t), Mss), IF w.t.probe THEN Greater(window, 1) ELSE window)
Fin(w) == w.t.finQueued /\ Most(w) = Unsent(w.t)
GoesOut(w) == w.sent /\ ~w.t.finSent /\ (Fin(w) \/ WorthSending(w.t, Most(w)))

\* When output has something to send, where in the stream it starts and where it ends.
LEMMA GoesOutProperty ==
  ASSUME NEW w, NEW o, HasTcb(w, o), Synchronized(w.t), GoesOut(w)
  PROVE  LET t == w.t
             h == w.h
             n == At(w.e, t.nxt)
             k == Most(w)
         IN  /\ k \in Nat /\ k <= Unsent(t)
             /\ n = 0 => h.wrote = 0 /\ k = 0 /\ Fin(w)
             /\ n > 0 => n + k <= 1 + h.wrote
             /\ Fin(w) => k = 1 + h.wrote - n \/ n = 0
<1> DEFINE t == w.t
           h == w.h
           n == At(w.e, t.nxt)
           k == Most(w)
           window == Left(Lesser(t.wnd, w.cwnd), InFlight(t))
<1>1. ~t.finSent
  BY DEF GoesOut
<1>2. /\ Unsent(t) = (IF n = 0 THEN h.wrote ELSE 1 + h.wrote - n)
      /\ n <= 1 + h.wrote /\ Unsent(t) \in Nat
      /\ n = 0 /\ h.wrote > 0 => InFlight(t) = Space - 1 /\ ~t.probe
  BY <1>1, UnsentProperty
<1>3. n \in Nat /\ h.wrote \in Nat /\ 2 + h.wrote < Half /\ Half \in Nat /\ Space = 2 * Half
      /\ t.una \in SeqNums /\ t.nxt \in SeqNums
  BY SenderFacts
<1>4. t.wnd \in Nat /\ t.wnd < Half /\ w.cwnd \in Nat /\ Mss \in Nat
  <2>1. t.wnd \in Windows
    BY WorkFacts DEF Tcbs
  <2> QED BY <2>1, BoundsProperty, WorkFacts, TcpAssumption, HalfProperty DEF Windows, TcpAssumption
<1>5. InFlight(t) \in Nat
  BY <1>3, DiffProperty DEF InFlight, SeqNums
<1>6. /\ Lesser(t.wnd, w.cwnd) \in Nat /\ Lesser(t.wnd, w.cwnd) <= t.wnd
      /\ window \in Nat /\ Greater(window, 1) \in Nat
  BY <1>4, <1>5, PairProperty
<1>7. k = Lesser(Lesser(Unsent(t), Mss), IF t.probe THEN Greater(window, 1) ELSE window)
  BY DEF Most
<1> HIDE DEF k, window
<1>8. k \in Nat /\ k <= Unsent(t)
  BY <1>2, <1>4, <1>6, <1>7, PairProperty
<1>9. n = 0 => h.wrote = 0
  <2> SUFFICES ASSUME n = 0, h.wrote > 0 PROVE FALSE
    BY <1>3
  <2>1. InFlight(t) = Space - 1 /\ ~t.probe /\ Unsent(t) = h.wrote
    BY <1>2
  <2>2. window = 0
    BY <1>3, <1>4, <1>6, <2>1 DEF window, Left
  <2>3. k = 0
    <3>1. Lesser(Unsent(t), Mss) \in Nat
      BY <1>2, <1>4, PairProperty
    <3>2. k = Lesser(Lesser(Unsent(t), Mss), 0)
      BY <1>7, <2>1, <2>2
    <3> QED BY <1>8, <3>1, <3>2, PairProperty
  <2>4. ~Fin(w) /\ ~WorthSending(t, Most(w))
    BY <2>1, <2>3 DEF k, Fin, WorthSending
  <2> QED BY <2>4 DEF GoesOut
<1>10. n = 0 => k = 0 /\ Fin(w)
  <2> SUFFICES ASSUME n = 0 PROVE k = 0 /\ Fin(w)
    OBVIOUS
  <2>1. Unsent(t) = 0 /\ k = 0
    BY <1>2, <1>8, <1>9
  <2> QED BY <2>1 DEF GoesOut, WorthSending, k
<1>11. n > 0 => n + k <= 1 + h.wrote
  BY <1>2, <1>3, <1>8
<1>12. Fin(w) => k = Unsent(t)
  BY DEF Fin, k
<1> QED BY <1>2, <1>3, <1>8, <1>9, <1>10, <1>11, <1>12 DEF k

\* One round keeps everything, and the state.
LEMMA SendNextProperty ==
  ASSUME NEW w, NEW o, HasTcb(w, o), Synchronized(w.t)
  PROVE  LET v == SendNext(w)
         IN  HasTcb(v, o) /\ Same(w, v) /\ v.t.state = w.t.state
<1> DEFINE t  == w.t
           h  == w.h
           n  == At(w.e, t.nxt)
           m  == At(w.e, t.max)
           k  == Most(w)
           v  == SendNext(w)
           flags == [ACK EXCEPT !.fin = Fin(w)]
           w1 == SendTcp(w, t.nxt, flags, Diff(t.nxt, t.base), k)
           to == Plus(t.nxt, k + (IF Fin(w) THEN 1 ELSE 0))
           end == IF Fin(w) THEN Plus(t.nxt, k) ELSE w1.t.finSeq
           t1 == Advance(w1.t, to)
           t2 == [t1 EXCEPT !.finSeq = end, !.finSent = @ \/ Fin(w), !.probe = FALSE, !.rtx = TRUE]
<1>1. v = IF ~GoesOut(w) THEN w ELSE IF ~w1.sent THEN w1 ELSE On(w1, t2)
  <2>1. v = IF ~w.sent \/ t.finSent \/ ~(Fin(w) \/ WorthSending(t, k)) THEN w
            ELSE IF ~w1.sent THEN w1
            ELSE On(w1, [t1 EXCEPT !.finSeq = IF Fin(w) THEN Plus(t.nxt, k) ELSE @,
                                   !.finSent = @ \/ Fin(w), !.probe = FALSE, !.rtx = TRUE])
    BY DEF SendNext, Most, Fin
  <2>2. t1.finSeq = w1.t.finSeq
    BY DEF Advance
  <2> QED BY <2>1, <2>2 DEF GoesOut
<1>2. CASE ~GoesOut(w)
  BY <1>1, <1>2 DEF Same
<1>3. CASE GoesOut(w)
  <2>1. /\ k \in Nat /\ k <= Unsent(t)
        /\ n = 0 => h.wrote = 0 /\ k = 0 /\ Fin(w)
        /\ n > 0 => n + k <= 1 + h.wrote
        /\ Fin(w) => k = 1 + h.wrote - n \/ n = 0
    BY <1>3, GoesOutProperty
  <2>2. ~t.finSent
    BY <1>3 DEF GoesOut
  <2>3. /\ n <= 1 + h.wrote
        /\ n > 0 => Diff(t.nxt, t.base) = n - (1 + h.settled) /\ n >= 1 + h.settled
    BY <2>2, UnsentProperty
  <2>4. /\ n \in Nat /\ m \in Nat /\ n <= m /\ m <= 2 + h.wrote
        /\ 2 + h.wrote < Half /\ Half \in Nat /\ Space = 2 * Half
        /\ t.nxt \in SeqNums /\ t.max \in SeqNums /\ t.base \in SeqNums
        /\ At(w.e, t.base) = 1 + h.settled
        /\ t.tx = h.wrote - h.settled /\ h.wrote \in Nat /\ h.settled \in Nat
    BY SenderFacts
  <2>5. w.e \in Ends /\ w.t \in Tcbs /\ w.h \in Hists /\ Sender(w.e, t, h) /\ w.h.opened
    BY WorkFacts
  <2>6. Fin(w) \in BOOLEAN /\ (Fin(w) => h.shut /\ t.finQueued) /\ flags \in Flags
        /\ flags.syn = FALSE /\ flags.fin = Fin(w) /\ flags.acks = TRUE
    <3>1. t.finQueued \in BOOLEAN /\ t.finQueued = h.shut
      BY <2>5 DEF Tcbs, Sender
    <3>2. Fin(w) \in BOOLEAN /\ (Fin(w) => h.shut /\ t.finQueued)
      BY <3>1 DEF Fin
    <3> QED BY <3>2 DEF ACK, Flags
  <2> HIDE DEF k, n, m
  <2>7. At(w.e, Plus(t.nxt, k)) = n + k /\ Plus(t.nxt, k) \in SeqNums
    BY <2>1, <2>4, <2>5, SumPosition DEF n
  <2>8. At(w.e, to) = n + k + Bit(Fin(w)) /\ to \in SeqNums
    <3> DEFINE j == k + (IF Fin(w) THEN 1 ELSE 0)
    <3>1. j = k + Bit(Fin(w)) /\ j \in Nat /\ n + j < Space
      BY <2>1, <2>3, <2>4, <2>6 DEF Bit
    <3> HIDE DEF j
    <3>2. At(w.e, Plus(t.nxt, j)) = n + j /\ Plus(t.nxt, j) \in SeqNums
      BY <2>4, <2>5, <3>1, SumPosition DEF n
    <3>3. n + j = n + k + Bit(Fin(w))
      BY <2>1, <2>4, <3>1, <2>6 DEF Bit
    <3>4. to = Plus(t.nxt, j)
      BY DEF j
    <3> QED BY <3>2, <3>3, <3>4
  <2> HIDE DEF to, flags
  <2>9. Diff(t.nxt, t.base) \in Nat
    BY <2>4, DiffProperty DEF SeqNums
  <2>10. Sendable(w, t.nxt, flags, Diff(t.nxt, t.base), k)
    <3>1. ASSUME k > 0
          PROVE  t.nxt = Plus(t.base, Diff(t.nxt, t.base)) /\ Diff(t.nxt, t.base) + k <= t.tx
      <4>1. n > 0
        BY <2>1, <2>4, <3>1
      <4>2. Diff(t.nxt, t.base) = n - (1 + h.settled) /\ n >= 1 + h.settled
        BY <2>3, <4>1
      <4> DEFINE d == n - (1 + h.settled)
      <4>3. d \in Nat /\ At(w.e, t.base) + d = n /\ n < Space
        BY <2>3, <2>4, <4>2
      <4>4. Plus(t.base, d) \in SeqNums /\ At(w.e, Plus(t.base, d)) = n
        <5> HIDE DEF d
        <5>1. At(w.e, t.base) + d < Space
          BY <4>3
        <5>2. Plus(t.base, d) \in SeqNums /\ At(w.e, Plus(t.base, d)) = At(w.e, t.base) + d
          BY <2>4, <2>5, <4>3, <5>1, SumPosition
        <5> QED BY <4>3, <5>2
      <4>5. t.nxt = Plus(t.base, d)
        BY <2>4, <2>5, <4>4, ByPosition DEF n
      <4>6. d + k <= t.tx
        BY <2>1, <2>4, <4>1
      <4> QED BY <4>2, <4>5, <4>6
    <3>2. ASSUME flags.fin
          PROVE  (t.nxt = Iss[w.e] /\ k = 0) \/ Plus(t.nxt, k) = Plus(Iss[w.e], 1 + h.wrote)
      <4>1. CASE n = 0
        <5>1. t.nxt = Plus(Iss[w.e], 0) /\ Iss[w.e] \in SeqNums
          BY <2>4, <2>5, <4>1, AtProperty, HalfProperty DEF n
        <5>2. Plus(Iss[w.e], 0) = Iss[w.e]
          <6>1. 0 \in 0 .. Space
            BY <2>4
          <6> QED BY <2>4, <5>1, <6>1, PlusProperty DEF SeqNums
        <5> QED BY <2>1, <4>1, <5>1, <5>2
      <4>2. CASE n # 0
        <5>1. n + k = 1 + h.wrote
          BY <2>1, <2>4, <2>6, <3>2, <4>2
        <5>2. Plus(t.nxt, k) = Plus(Iss[w.e], 1 + h.wrote)
          BY <2>5, <2>7, <5>1, AtProperty
        <5> QED BY <5>2
      <4> QED BY <4>1, <4>2
    <3>3. t.state # "SynSent"
      BY DEF Synchronized
    <3> QED BY <2>1, <2>4, <2>6, <2>9, <3>1, <3>2, <3>3 DEF Sendable
  <2>11. t.state # "Closed"
    BY DEF Synchronized
  <2>12. HasTcb(w1, o) /\ Same(w, w1) /\ Sending(w.t, w1.t)
    BY <2>10, <2>11, SendTcpProperty DEF w1
  <2> HIDE DEF w1
  <2>13. w1.t \in Tcbs /\ w1.t.max = t.max /\ TcbOK(w1.t) /\ w1 \in Works /\ w1.e = w.e /\ w1.h = h
         /\ w1.t.state = w.t.state /\ Receiver(w.e, w1.t, h, o) /\ Sender(w.e, w1.t, h)
    BY <2>12, WorkFacts DEF Sending, Same, HasTcb, WorkOK
  <2>14. /\ t1 \in Tcbs /\ Changed(w1.t, t1, {"nxt", "max"}) /\ t1.nxt = to
         /\ At(w.e, t1.max) = Greater(m, n + k + Bit(Fin(w)))
    <3>1. m < Half /\ n + k + Bit(Fin(w)) < Half
      BY <2>1, <2>3, <2>4, <2>6 DEF Bit
    <3> QED BY <2>5, <2>8, <2>13, <3>1, AdvanceProperty DEF m
  <2> HIDE DEF t1
  <2>15. CASE ~w1.sent
    BY <1>1, <1>3, <2>12, <2>13, <2>15
  <2>16. CASE w1.sent
    <3>1. v = On(w1, t2)
      BY <1>1, <1>3, <2>16
    <3>2. end \in MaybeSeqNums
      BY <2>7, <2>13 DEF MaybeSeqNums, Tcbs
    <3>3. w1.t.finSeq = t.finSeq /\ w1.t.finSent = FALSE /\ w1.t.una = t.una
          /\ w1.t.finQueued = t.finQueued
      BY <2>2, <2>5, <2>12 DEF Sending, Tcbs
    <3>4. Changed(t1, t2, {"finSeq", "finSent", "probe", "rtx"}) /\ t2.finSeq = end
          /\ t2.finSent = (t1.finSent \/ Fin(w)) /\ ~t2.probe /\ t2.rtx
          /\ t2.probe \in BOOLEAN /\ t2.rtx \in BOOLEAN
      <4> HIDE DEF end
      <4> QED BY <2>14 DEF Changed, Tcbs
    <3> HIDE DEF t2, v
    <3>5. Changed(w1.t, t2, {"nxt", "max", "finSeq", "finSent", "probe", "rtx"})
      BY <2>14, <3>4 DEF Changed
    <3>6. t2.nxt = to /\ t2.max = t1.max /\ t1.finSent = FALSE /\ t2.finSent = Fin(w)
      BY <2>13, <2>14, <3>3, <3>4, <2>6 DEF Changed, Tcbs
    <3>7. t2 \in Tcbs /\ t2 # None
      <4>1. t1.max \in SeqNums
        BY <2>14 DEF Tcbs
      <4>2. \A f \in {"nxt", "max", "finSeq", "finSent", "probe", "rtx"} : t2[f] \in TcbTypes[f]
        <5> HIDE DEF end
        <5>1. /\ t2.nxt \in SeqNums /\ t2.max \in SeqNums /\ t2.finSeq \in MaybeSeqNums
              /\ t2.finSent \in BOOLEAN /\ t2.probe \in BOOLEAN /\ t2.rtx \in BOOLEAN
          BY <2>6, <2>8, <3>2, <3>4, <3>6, <4>1
        <5> QED BY <5>1 DEF TcbTypes
      <4> QED BY <2>13, <3>5, <4>2, TcbKept
    <3>8. /\ t2.state = w1.t.state /\ t2.iss = w1.t.iss /\ t2.base = w1.t.base /\ t2.tx = w1.t.tx
          /\ t2.una = w1.t.una /\ t2.finQueued = w1.t.finQueued /\ t2.persist = w1.t.persist
          /\ t2.finReceived = w1.t.finReceived /\ t2.rnxt = w1.t.rnxt /\ t2.adv = w1.t.adv
          /\ t2.rxRing = w1.t.rxRing /\ t2.rx = w1.t.rx /\ t2.asm = w1.t.asm
          /\ t2.txRing = w1.t.txRing
      BY <2>13, <3>5 DEF Changed, Tcbs
    <3>9. Receiver(w.e, t2, h, o)
      BY <2>13, <3>8, ReceiverSame
    <3>10. Sender(w.e, t2, h)
      <4> DEFINE u == At(w.e, t.una)
                 n2 == At(w.e, t2.nxt)
                 m2 == At(w.e, t2.max)
      <4>1. u \in Nat /\ u <= m
        BY SenderFacts DEF m
      <4>2. n2 = n + k + Bit(Fin(w)) /\ m2 = Greater(m, n2) /\ n2 <= 1 + h.wrote + Bit(Fin(w))
            /\ (~Fin(w) => n > 0) /\ n2 \in Nat /\ n2 >= n
        BY <2>1, <2>3, <2>4, <2>6, <2>8, <2>14, <3>6 DEF Bit
      <4> HIDE DEF u, n2, m2
      <4>3. m2 >= m /\ m2 >= n2 /\ m2 \in {m, n2} /\ m2 \in Nat
        BY <2>4, <4>2 DEF Greater
      <4>4. /\ w1.t.iss = Iss[w.e]
            /\ w1.t.base = Plus(Iss[w.e], 1 + h.settled)
            /\ w1.t.tx = h.wrote - h.settled
            /\ h.settled = IF u = 0 THEN 0 ELSE Lesser(u - 1, h.wrote)
            /\ m <= 1 + h.wrote + (IF t.finSeq = None THEN 0 ELSE 1)
            /\ u = 2 + h.wrote => w1.t.finSent
            /\ t.finSeq # None => t.finQueued /\ (At(w.e, t.finSeq) = 1 + h.wrote
                                                  \/ (At(w.e, t.finSeq) = 0 /\ h.wrote = 0))
            /\ w1.t.finQueued = h.shut
            /\ u = 0 => h.wrote = 0 /\ w1.t.state \notin {"Established", "CloseWait"}
            /\ n < u => n = 0 /\ u = 1
            /\ w1.t.state \in {"FinWait2", "TimeWait"} => w1.t.tx = 0
        BY <2>12, <2>13, <3>3 DEF Sender, Sending, u, m, n
      <4>5. /\ end # None => t.finQueued /\ (At(w.e, end) = 1 + h.wrote
                                             \/ (At(w.e, end) = 0 /\ h.wrote = 0))
            /\ Fin(w) => end # None
            /\ t.finSeq # None => end # None
        <5>1. CASE Fin(w)
          <6>1. end = Plus(t.nxt, k) /\ At(w.e, end) = n + k /\ end \in SeqNums
            BY <2>7, <5>1
          <6>2. end # None
            BY <6>1, HalfProperty
          <6>3. n + k = 1 + h.wrote \/ (n + k = 0 /\ h.wrote = 0)
            BY <2>1, <2>4, <5>1
          <6> QED BY <2>6, <5>1, <6>1, <6>2, <6>3
        <5>2. CASE ~Fin(w)
          <6>1. end = t.finSeq
            BY <3>3, <5>2
          <6> QED BY <4>4, <5>2, <6>1
        <5> QED BY <5>1, <5>2
      <4>6. u # 2 + h.wrote
        BY <3>3, <4>4
      <4>7. m2 <= 1 + h.wrote + (IF end = None THEN 0 ELSE 1)
        BY <2>4, <2>6, <4>2, <4>3, <4>4, <4>5 DEF Bit
      <4>8. n2 <= 1 + h.wrote \/ Fin(w)
        BY <2>4, <4>2 DEF Bit
      <4>9. u <= n2
        BY <2>1, <2>4, <4>1, <4>2, <4>4 DEF Bit
      <4>10. t2.state \notin {"SynSent", "SynReceived"}
        BY <2>13, <3>8 DEF Synchronized
      <4>11. /\ t2.iss = Iss[w.e] /\ t2.base = Plus(Iss[w.e], 1 + h.settled)
             /\ t2.tx = h.wrote - h.settled /\ t2.finSeq = end /\ t2.finSent = Fin(w)
             /\ t2.finQueued = h.shut /\ t2.finQueued = t.finQueued
             /\ At(w.e, t2.una) = u /\ At(w.e, t2.nxt) = n2 /\ At(w.e, t2.max) = m2
        BY <3>3, <3>4, <3>6, <3>8, <4>4 DEF u, n2, m2
      <4> HIDE DEF end
      <4>12. u <= m2 /\ n2 <= m2 /\ ~(n2 < u)
        BY <2>4, <4>1, <4>2, <4>3, <4>9
      <4> QED BY <3>8, <4>4, <4>5, <4>6, <4>7, <4>8, <4>10, <4>11, <4>12 DEF Sender
    <3>11. EndOK(w.e, t2, h, o)
      <4>1. Len(t2.rx) <= t2.rxRing /\ t2.tx <= t2.txRing
        BY <2>13, <3>8 DEF TcbOK
      <4> QED BY <2>5, <3>7, <3>9, <3>10, <4>1 DEF EndOK, TcbOK
    <3>12. v \in Works /\ v.t = t2 /\ v.e = w.e /\ v.h = h /\ v.out = w1.out /\ Same(w, v)
      BY <2>12, <2>13, <3>1, <3>7 DEF On, Works, Same
    <3>13. WorkOK(v, o)
      BY <2>12, <2>13, <3>11, <3>12 DEF WorkOK, HasTcb
    <3> QED BY <2>13, <3>7, <3>8, <3>12, <3>13 DEF HasTcb, v
  <2> QED BY <2>15, <2>16
<1> QED BY <1>2, <1>3

\* The loop is well defined: rounds one after another make one function.
Chain(g, n, w) == DOMAIN g = 0 .. n /\ g[0] = w /\ \A i \in 1 .. n : g[i] = SendNext(g[i - 1])

\* The rounds of output's loop can be laid out as far as one likes.
LEMMA ChainExists ==
  ASSUME NEW w
  PROVE  \A n \in Nat : \E g : Chain(g, n, w)
<1> DEFINE Bad == {n \in Nat : ~\E g : Chain(g, n, w)}
<1> SUFFICES ASSUME Bad # {} PROVE FALSE
  OBVIOUS
<1>1. Min(Bad) \in Bad /\ \A y \in Bad : Min(Bad) <= y
  <2>1. Bad \in SUBSET Nat
    OBVIOUS
  <2> HIDE DEF Bad
  <2> QED BY <2>1, MinProperty
<1>2. PICK m \in Nat : (~\E g : Chain(g, m, w)) /\ \A y \in Bad : m <= y
  BY <1>1
<1>3. m # 0
  <2> SUFFICES ASSUME m = 0 PROVE FALSE
    OBVIOUS
  <2>1. Chain([i \in 0 .. 0 |-> w], 0, w)
    BY DEF Chain
  <2> QED BY <1>2, <2>1
<1>4. m - 1 \in Nat /\ m - 1 \notin Bad
  BY <1>2, <1>3
<1>5. PICK g : Chain(g, m - 1, w)
  BY <1>4
<1> DEFINE g2 == [i \in 0 .. m |-> IF i < m THEN g[i] ELSE SendNext(g[m - 1])]
<1>6. DOMAIN g2 = 0 .. m /\ g2[0] = w
  BY <1>3, <1>5 DEF Chain
<1>7. ASSUME NEW i \in 1 .. m PROVE g2[i] = SendNext(g2[i - 1])
  <2>1. i - 1 \in 0 .. m /\ i - 1 < m /\ g2[i - 1] = g[i - 1]
    OBVIOUS
  <2>2. CASE i < m
    <3>1. g2[i] = g[i] /\ i \in 1 .. m - 1
      BY <2>2
    <3> QED BY <1>5, <2>1, <3>1 DEF Chain
  <2>3. CASE i = m
    BY <2>1, <2>3
  <2> QED BY <2>2, <2>3
<1>8. Chain(g2, m, w)
  <2> HIDE DEF g2
  <2> QED BY <1>6, <1>7 DEF Chain
<1> QED BY <1>2, <1>8

\* Two layouts of the rounds agree as far as both go.
LEMMA ChainUnique ==
  ASSUME NEW w, NEW m \in Nat, NEW n \in Nat, NEW f, NEW g, Chain(f, m, w), Chain(g, n, w)
  PROVE  \A i \in Nat : i <= m /\ i <= n => f[i] = g[i]
<1> DEFINE Bad == {i \in Nat : i <= m /\ i <= n /\ f[i] # g[i]}
<1> SUFFICES ASSUME Bad # {} PROVE FALSE
  OBVIOUS
<1>1. Min(Bad) \in Bad /\ \A y \in Bad : Min(Bad) <= y
  <2>1. Bad \in SUBSET Nat
    OBVIOUS
  <2> HIDE DEF Bad
  <2> QED BY <2>1, MinProperty
<1>2. PICK i \in Nat : i <= m /\ i <= n /\ f[i] # g[i] /\ \A y \in Bad : i <= y
  BY <1>1
<1>3. i # 0
  BY <1>2 DEF Chain
<1>4. i - 1 \in Nat /\ i - 1 \notin Bad /\ i \in 1 .. m /\ i \in 1 .. n
  BY <1>2, <1>3
<1>5. f[i - 1] = g[i - 1]
  BY <1>2, <1>4
<1> QED BY <1>2, <1>4, <1>5 DEF Chain

\* What Rounds is: each round of output's loop starts from what the last one left.
LEMMA RoundsProperty ==
  ASSUME NEW w
  PROVE  /\ Rounds(w)[0] = w
         /\ \A i \in Nat \ {0} : Rounds(w)[i] = SendNext(Rounds(w)[i - 1])
<1> DEFINE Of(i) == CHOOSE g : Chain(g, i, w)
           f     == [i \in Nat |-> Of(i)[i]]
<1>1. \A i \in Nat : Chain(Of(i), i, w)
  BY ChainExists
<1>2. f[0] = w
  BY <1>1 DEF Chain
<1>3. ASSUME NEW i \in Nat \ {0} PROVE f[i] = SendNext(f[i - 1])
  <2>1. i - 1 \in Nat /\ i \in 1 .. i
    OBVIOUS
  <2>2. Chain(Of(i), i, w) /\ Chain(Of(i - 1), i - 1, w)
    BY <1>1, <2>1
  <2> HIDE DEF Of
  <2>3. Of(i)[i - 1] = Of(i - 1)[i - 1]
    BY <2>1, <2>2, ChainUnique
  <2>4. Of(i)[i] = SendNext(Of(i)[i - 1])
    BY <2>1, <2>2 DEF Chain
  <2> QED BY <2>1, <2>3, <2>4
<1> HIDE DEF Of
<1>4. f = [i \in Nat |-> IF i = 0 THEN w ELSE SendNext(f[i - 1])]
  <2>1. \A i \in Nat : f[i] = IF i = 0 THEN w ELSE SendNext(f[i - 1])
    BY <1>2, <1>3
  <2> DEFINE f2 == [i \in Nat |-> IF i = 0 THEN w ELSE SendNext(f[i - 1])]
  <2>2. \A i \in Nat : f2[i] = f[i]
    BY <2>1
  <2>3. f = [i \in Nat |-> f[i]] /\ f2 = [i \in Nat |-> f2[i]]
    OBVIOUS
  <2> HIDE DEF f, f2
  <2>4. f = f2
    BY <2>2, <2>3
  <2> QED BY <2>4 DEF f2
<1> HIDE DEF f
<1>5. Rounds(w) = CHOOSE g : g = [i \in Nat |-> IF i = 0 THEN w ELSE SendNext(g[i - 1])]
  BY DEF Rounds
<1>6. Rounds(w) = [i \in Nat |-> IF i = 0 THEN w ELSE SendNext(Rounds(w)[i - 1])]
  BY <1>4, <1>5
<1> DEFINE r == Rounds(w)
<1> HIDE DEF r
<1>7. r = [i \in Nat |-> IF i = 0 THEN w ELSE SendNext(r[i - 1])]
  BY <1>6 DEF r
<1>8. r[0] = w /\ \A i \in Nat \ {0} : r[i] = SendNext(r[i - 1])
  BY <1>7
<1> QED BY <1>8 DEF r

\* Every round keeps what one of them keeps.
LEMMA LoopProperty ==
  ASSUME NEW w, NEW o, HasTcb(w, o), Synchronized(w.t), NEW i \in Nat
  PROVE  LET v == Rounds(w)[i]
         IN  HasTcb(v, o) /\ Same(w, v) /\ v.t.state = w.t.state
<1> DEFINE Good(v) == HasTcb(v, o) /\ Same(w, v) /\ v.t.state = w.t.state
           r   == Rounds(w)
           Bad == {j \in Nat : ~Good(r[j])}
<1>1. r[0] = w /\ \A j \in Nat \ {0} : r[j] = SendNext(r[j - 1])
  BY RoundsProperty
<1>2. Good(w)
  BY DEF Same
<1>3. ASSUME NEW v, Good(v) PROVE Good(SendNext(v))
  <2>1. HasTcb(v, o) /\ Same(w, v) /\ v.t.state = w.t.state /\ Synchronized(v.t)
    BY <1>3 DEF Synchronized
  <2>2. HasTcb(SendNext(v), o) /\ Same(v, SendNext(v)) /\ SendNext(v).t.state = v.t.state
    BY <2>1, SendNextProperty
  <2> QED BY <2>1, <2>2 DEF Same
<1> SUFFICES ASSUME Bad # {} PROVE FALSE
  OBVIOUS
<1>4. Min(Bad) \in Bad /\ \A y \in Bad : Min(Bad) <= y
  <2>1. Bad \in SUBSET Nat
    OBVIOUS
  <2> HIDE DEF Bad
  <2> QED BY <2>1, MinProperty
<1>5. PICK j \in Nat : ~Good(r[j]) /\ \A y \in Bad : j <= y
  BY <1>4
<1> HIDE DEF r
<1>6. j # 0
  BY <1>1, <1>2, <1>5
<1>7. j - 1 \in Nat /\ Good(r[j - 1])
  BY <1>5, <1>6
<1>8. r[j] = SendNext(r[j - 1])
  BY <1>1, <1>6
<1> QED BY <1>3, <1>5, <1>7, <1>8

\* What neither half of the invariant looks at.
Neutral ==
  {"listener", "ready", "released", "error", "wnd", "maxWnd", "wl1", "wl2", "retries", "ackAt",
   "ackNow", "unacked", "linkRetry", "closeAt", "dupacks", "recover"}

\* A step that goes on with another control block.
Moved(w, s, v) == v = [w EXCEPT !.t = s] \/ v = [w EXCEPT !.t = s, !.sent = TRUE]

\* Going on with another sound control block is sound.
LEMMA OnProperty ==
  ASSUME NEW w, NEW o, HasTcb(w, o), NEW s \in Tcbs, EndOK(w.e, s, w.h, o), NEW v, Moved(w, s, v)
  PROVE  HasTcb(v, o) /\ Same(w, v) /\ v.t = s /\ v.out = w.out
<1>1. w \in Works /\ s # None
  BY NoneAssumption DEF HasTcb, WorkOK, NoneAssumption
<1>2. v \in Works /\ v.t = s /\ v.e = w.e /\ v.h = w.h /\ v.out = w.out /\ Same(w, v)
  <2>1. CASE v = [w EXCEPT !.t = s]
    BY <1>1, <2>1 DEF Works, Same
  <2>2. CASE v = [w EXCEPT !.t = s, !.sent = TRUE]
    BY <1>1, <2>2 DEF Works, Same
  <2> QED BY <2>1, <2>2 DEF Moved
<1> QED BY <1>1, <1>2 DEF HasTcb, WorkOK

Touched(t, s, fields) ==
  fields \subseteq Neutral /\ Changed(t, s, fields) /\ \A f \in fields : s[f] \in TcbTypes[f]

\* Fields that no part of the invariant reads may change freely.
LEMMA EndTouched ==
  ASSUME NEW e, NEW t, NEW h, NEW o, EndOK(e, t, h, o), NEW s, NEW fields, Touched(t, s, fields)
  PROVE  EndOK(e, s, h, o) /\ s \in Tcbs /\ s.state = t.state
<1>1. t \in Tcbs /\ Sender(e, t, h) /\ Receiver(e, t, h, o) /\ TcbOK(t) /\ h.opened
  BY DEF EndOK, TcbOK
<1>2. s \in Tcbs
  BY <1>1, TcbKept DEF Touched
<1>3. DOMAIN t = DOMAIN TcbTypes
  BY <1>1, TcbIs
<1>4. \A f \in DOMAIN TcbTypes \ Neutral : s[f] = t[f]
  BY <1>3 DEF Changed, Touched
<1>5. /\ s.iss = t.iss /\ s.base = t.base /\ s.tx = t.tx /\ s.una = t.una
      /\ s.nxt = t.nxt /\ s.max = t.max /\ s.finSeq = t.finSeq
      /\ s.finSent = t.finSent /\ s.finQueued = t.finQueued /\ s.state = t.state
      /\ s.rtx = t.rtx /\ s.probe = t.probe /\ s.persist = t.persist
      /\ s.finReceived = t.finReceived /\ s.rnxt = t.rnxt /\ s.adv = t.adv
      /\ s.rxRing = t.rxRing /\ s.rx = t.rx /\ s.asm = t.asm /\ s.txRing = t.txRing
  BY <1>4 DEF TcbTypes, Neutral
<1>6. Sender(e, s, h)
  BY <1>1, <1>5, SenderSame
<1>7. Receiver(e, s, h, o)
  BY <1>1, <1>5, ReceiverSame
<1> QED BY <1>1, <1>2, <1>5, <1>6, <1>7 DEF EndOK, TcbOK

\* A handler may go on with such fields changed.
LEMMA NeutralProperty ==
  ASSUME NEW w, NEW o, HasTcb(w, o), NEW s, NEW fields, Touched(w.t, s, fields),
         NEW v, Moved(w, s, v)
  PROVE  HasTcb(v, o) /\ Same(w, v) /\ v.t = s /\ v.t.state = w.t.state
<1>1. EndOK(w.e, w.t, w.h, o)
  BY DEF HasTcb, WorkOK
<1>2. EndOK(w.e, s, w.h, o) /\ s \in Tcbs /\ s.state = w.t.state
  BY <1>1, EndTouched
<1> QED BY <1>2, OnProperty

\* One flag of the control block that is of no account is set or reset.
LEMMA RetryProperty ==
  ASSUME NEW w, NEW o, HasTcb(w, o)
  PROVE  HasTcb(Retry(w), o) /\ Same(w, Retry(w)) /\ Retry(w).t.state = w.t.state
<1> DEFINE s == [w.t EXCEPT !.linkRetry = TRUE]
<1>1. w.t \in Tcbs /\ w \in Works
  BY WorkFacts DEF HasTcb, WorkOK
<1>2. Moved(w, s, Retry(w))
  BY <1>1 DEF Retry, Works, Moved
<1>3. Changed(w.t, s, {"linkRetry"}) /\ s.linkRetry \in BOOLEAN
  BY <1>1 DEF Changed, Tcbs
<1> HIDE DEF s
<1>4. Touched(w.t, s, {"linkRetry"})
  BY <1>3 DEF Touched, Neutral, TcbTypes
<1> QED BY <1>2, <1>4, NeutralProperty

\* The SYN goes out, once.
LEMMA OutputSynProperty ==
  ASSUME NEW w, NEW o, HasTcb(w, o), w.t.state \in {"SynSent", "SynReceived"}
  PROVE  LET v == OutputSyn(w)
         IN  HasTcb(v, o) /\ Same(w, v) /\ v.t.state = w.t.state
<1> DEFINE t  == w.t
           h  == w.h
           flags == [SYN EXCEPT !.acks = t.state = "SynReceived"]
           w1 == SendTcp(w, t.iss, flags, 0, 0)
           to == Plus(t.iss, 1)
           t1 == Advance(w1.t, to)
           t2 == [t1 EXCEPT !.rtx = TRUE]
           v  == OutputSyn(w)
<1>1. v = IF t.nxt # t.iss THEN w ELSE IF ~w1.sent THEN Retry(w1) ELSE On(w1, t2)
  BY DEF OutputSyn
<1>2. /\ w.e \in Ends /\ t \in Tcbs /\ Sender(w.e, t, h) /\ Receiver(w.e, t, h, o) /\ TcbOK(t)
      /\ h.opened /\ t.state # "Closed" /\ h.wrote \in Nat
  BY WorkFacts
<1>3. flags \in Flags /\ flags.syn /\ ~flags.fin /\ (flags.acks => t.state # "SynSent")
  BY DEF SYN, Flags
<1>4. t.iss = Iss[w.e] /\ Iss[w.e] \in SeqNums
  BY <1>2, HalfProperty DEF Sender
<1> HIDE DEF flags
<1>5. Sendable(w, t.iss, flags, 0, 0)
  BY <1>3, <1>4 DEF Sendable
<1>6. HasTcb(w1, o) /\ Same(w, w1) /\ Sending(t, w1.t)
  BY <1>2, <1>5, SendTcpProperty
<1> HIDE DEF w1
<1>7. /\ w1.t \in Tcbs /\ TcbOK(w1.t) /\ w1.e = w.e /\ w1.h = h /\ w1.t.state = t.state
      /\ w1.t.max = t.max /\ Receiver(w.e, w1.t, h, o) /\ Sender(w.e, w1.t, h)
      /\ w1.t.una = t.una /\ w1.t.max \in SeqNums
  BY <1>6, WorkFacts, SenderFacts DEF Sending, Same
<1>8. CASE t.nxt # t.iss
  BY <1>1, <1>8 DEF Same
<1>9. CASE t.nxt = t.iss /\ ~w1.sent
  <2>1. v = Retry(w1)
    BY <1>1, <1>9
  <2>2. HasTcb(v, o) /\ Same(w1, v) /\ v.t.state = t.state
    BY <1>6, <1>7, <2>1, RetryProperty
  <2> QED BY <1>6, <2>2 DEF Same
<1>10. CASE t.nxt = t.iss /\ w1.sent
  <2>1. v = On(w1, t2)
    BY <1>1, <1>10
  <2>2. /\ At(w.e, t.una) = 0 /\ At(w.e, t.max) <= 1 /\ At(w.e, t.max) \in Nat
        /\ Half \in Nat /\ 2 + h.wrote < Half
    BY <1>2, SenderFacts DEF Sender
  <2>3. to \in SeqNums /\ At(w.e, to) = 1
    <3>1. 1 \in SeqNums /\ 1 \in 0 .. Space
      BY <1>2, <2>2, HalfProperty DEF SeqNums
    <3>2. to \in SeqNums
      BY <1>4, <3>1, PlusProperty
    <3>3. At(w.e, to) = 1
      BY <1>2, <1>4, <3>1, AtProperty
    <3> QED BY <3>2, <3>3
  <2> HIDE DEF to
  <2>4. /\ t1 \in Tcbs /\ Changed(w1.t, t1, {"nxt", "max"}) /\ t1.nxt = to
        /\ At(w.e, t1.max) = 1
    <3>1. At(w.e, w1.t.max) < Half /\ At(w.e, to) < Half
      BY <1>2, <1>7, <2>2, <2>3
    <3>2. /\ t1 \in Tcbs /\ Changed(w1.t, t1, {"nxt", "max"}) /\ t1.nxt = to
          /\ At(w.e, t1.max) = Greater(At(w.e, t.max), At(w.e, to))
      BY <1>2, <1>7, <2>3, <3>1, AdvanceProperty
    <3> QED BY <2>2, <2>3, <3>2 DEF Greater
  <2> HIDE DEF t1
  <2>5. t2 \in Tcbs /\ Changed(t1, t2, {"rtx"}) /\ t2.rtx = TRUE
    BY <2>4 DEF Changed, Tcbs
  <2> HIDE DEF t2
  <2>6. Changed(w1.t, t2, {"nxt", "max", "rtx"}) /\ t2.nxt = to /\ At(w.e, t2.max) = 1
    <3>1. t2.nxt = t1.nxt /\ t2.max = t1.max
      BY <2>4, <2>5 DEF Changed, Tcbs
    <3>2. Changed(w1.t, t2, {"nxt", "max", "rtx"})
      BY <2>4, <2>5 DEF Changed
    <3> QED BY <2>4, <3>1, <3>2
  <2>7. /\ t2.state = w1.t.state /\ t2.iss = w1.t.iss /\ t2.base = w1.t.base /\ t2.tx = w1.t.tx
        /\ t2.una = w1.t.una /\ t2.finQueued = w1.t.finQueued /\ t2.finSeq = w1.t.finSeq
        /\ t2.finSent = w1.t.finSent /\ t2.persist = w1.t.persist /\ t2.probe = w1.t.probe
        /\ t2.finReceived = w1.t.finReceived /\ t2.rnxt = w1.t.rnxt /\ t2.adv = w1.t.adv
        /\ t2.rxRing = w1.t.rxRing /\ t2.rx = w1.t.rx /\ t2.asm = w1.t.asm
        /\ t2.txRing = w1.t.txRing
    BY <1>7, <2>6 DEF Changed, Tcbs
  <2>8. Receiver(w.e, t2, h, o)
    BY <1>7, <2>7, ReceiverSame
  <2>9. Sender(w.e, t2, h)
    <3>1. At(w.e, t2.una) = 0 /\ At(w.e, t2.nxt) = 1
      BY <1>7, <2>2, <2>3, <2>6, <2>7
    <3> QED BY <1>2, <1>7, <2>2, <2>6, <2>7, <3>1 DEF Sender
  <2>10. EndOK(w1.e, t2, w1.h, o)
    BY <1>2, <1>7, <2>5, <2>7, <2>8, <2>9 DEF EndOK, TcbOK
  <2>11. HasTcb(v, o) /\ Same(w1, v) /\ v.t = t2
    <3>1. Moved(w1, t2, v)
      BY <2>1 DEF On, Moved
    <3> HIDE DEF v
    <3> QED BY <1>6, <2>5, <2>10, <3>1, OnProperty
  <2> QED BY <1>6, <1>7, <2>7, <2>11 DEF Same
<1> QED BY <1>8, <1>9, <1>10

\* The timers of a window that is shut, which run only where nothing is behind
\* una.
Probes(w) == w.t.persist \/ w.t.probe
             \/ (At(w.e, w.t.nxt) >= At(w.e, w.t.una) /\ Synchronized(w.t))

Retimed(w, s, fields) ==
  /\ fields \subseteq Neutral \cup {"persist", "probe"} /\ Changed(w.t, s, fields)
  /\ \A f \in fields : s[f] \in TcbTypes[f]
  /\ s.persist \/ s.probe => Probes(w)

\* Arming or clearing timers keeps the connection sound.
LEMMA TimerProperty ==
  ASSUME NEW w, NEW o, HasTcb(w, o), NEW s, NEW fields, Retimed(w, s, fields),
         NEW v, Moved(w, s, v)
  PROVE  HasTcb(v, o) /\ Same(w, v) /\ v.t = s /\ v.t.state = w.t.state
<1>1. /\ w.t \in Tcbs /\ Sender(w.e, w.t, w.h) /\ Receiver(w.e, w.t, w.h, o) /\ TcbOK(w.t)
      /\ w.h.opened
  BY WorkFacts
<1>2. s \in Tcbs
  BY <1>1, TcbKept DEF Retimed
<1>3. DOMAIN w.t = DOMAIN TcbTypes
  BY <1>1, TcbIs
<1>4. \A f \in DOMAIN TcbTypes \ (Neutral \cup {"persist", "probe"}) : s[f] = w.t[f]
  BY <1>3 DEF Changed, Retimed
<1>5. /\ s.iss = w.t.iss /\ s.base = w.t.base /\ s.tx = w.t.tx /\ s.una = w.t.una
      /\ s.nxt = w.t.nxt /\ s.max = w.t.max /\ s.finSeq = w.t.finSeq
      /\ s.finSent = w.t.finSent /\ s.finQueued = w.t.finQueued /\ s.state = w.t.state
      /\ s.rtx = w.t.rtx
      /\ s.finReceived = w.t.finReceived /\ s.rnxt = w.t.rnxt /\ s.adv = w.t.adv
      /\ s.rxRing = w.t.rxRing /\ s.rx = w.t.rx /\ s.asm = w.t.asm /\ s.txRing = w.t.txRing
  BY <1>4 DEF TcbTypes, Neutral
<1>6. Sender(w.e, s, w.h)
  <2>1. At(w.e, w.t.nxt) \in Nat /\ At(w.e, w.t.una) \in Nat
    BY SenderFacts
  <2>2. /\ At(w.e, w.t.nxt) < At(w.e, w.t.una) => ~s.probe /\ ~s.persist
        /\ w.t.state \in {"SynSent", "SynReceived"} => ~s.probe /\ ~s.persist
    BY <1>1, <2>1 DEF Retimed, Probes, Sender, Synchronized
  <2> QED BY <1>1, <1>5, <2>2 DEF Sender
<1>7. Receiver(w.e, s, w.h, o)
  BY <1>1, <1>5, ReceiverSame
<1>8. EndOK(w.e, s, w.h, o)
  BY <1>1, <1>2, <1>5, <1>6, <1>7 DEF EndOK, TcbOK
<1> QED BY <1>2, <1>5, <1>8, OnProperty

\* The acknowledgement goes out, and the persist timer is armed.
LEMMA OutputAckProperty ==
  ASSUME NEW w, NEW o, HasTcb(w, o), Synchronized(w.t)
  PROVE  LET v == OutputAck(w)
         IN  HasTcb(v, o) /\ Same(w, v) /\ v.t.state = w.t.state
<1> DEFINE w1 == SendTcp(w, w.t.nxt, ACK, 0, 0)
           w2 == IF ~w.t.ackNow THEN w ELSE IF w1.sent THEN w1 ELSE Retry(w1)
           s  == Probing(w2.t)
           v  == OutputAck(w)
<1>1. v = On(w2, s)
  BY DEF OutputAck
<1>2. w.t.state # "Closed" /\ w.t.state # "SynSent" /\ w.t.nxt \in SeqNums
  BY SenderFacts DEF Synchronized
<1>3. Sendable(w, w.t.nxt, ACK, 0, 0)
  BY <1>2 DEF Sendable, ACK, Flags
<1>4. HasTcb(w1, o) /\ Same(w, w1) /\ Sending(w.t, w1.t)
  BY <1>2, <1>3, SendTcpProperty
<1> HIDE DEF w1
<1>5. HasTcb(Retry(w1), o) /\ Same(w1, Retry(w1)) /\ Retry(w1).t.state = w1.t.state
  BY <1>4, RetryProperty
<1>6. HasTcb(w2, o) /\ Same(w, w2) /\ w2.t.state = w.t.state /\ Synchronized(w2.t)
  BY <1>4, <1>5 DEF Same, Sending, Synchronized
<1> HIDE DEF w2
<1>7. w2.t \in Tcbs /\ w2.e \in Ends /\ w2.t.una \in SeqNums /\ w2.t.nxt \in SeqNums
      /\ At(w2.e, w2.t.nxt) \in Nat /\ At(w2.e, w2.t.una) \in Nat
  BY <1>6, WorkFacts, SenderFacts
<1>8. CASE Unsent(w2.t) > 0 /\ InFlight(w2.t) = 0
  <2>1. s = [w2.t EXCEPT !.persist = TRUE]
    BY <1>8 DEF Probing
  <2>2. Changed(w2.t, s, {"persist"}) /\ s.persist \in BOOLEAN
    BY <1>7, <2>1 DEF Changed, Tcbs
  <2>3. At(w2.e, w2.t.nxt) >= At(w2.e, w2.t.una)
    <3>1. Diff(w2.t.nxt, w2.t.una) = 0
      BY <1>8 DEF InFlight
    <3>2. Diff(w2.t.nxt, w2.t.una) = IF w2.t.nxt >= w2.t.una THEN w2.t.nxt - w2.t.una
                                     ELSE (w2.t.nxt - w2.t.una) + Space
      BY <1>7, DiffProperty
    <3>3. w2.t.nxt \in 0 .. Space - 1 /\ w2.t.una \in 0 .. Space - 1 /\ Space \in Nat
      BY <1>7, HalfProperty DEF SeqNums
    <3>4. w2.t.nxt = w2.t.una
      BY <3>1, <3>2, <3>3
    <3> QED BY <1>7, <3>4
  <2> HIDE DEF s
  <2>4. Moved(w2, s, v)
    BY <1>1 DEF On, Moved
  <2> HIDE DEF v
  <2>5. Retimed(w2, s, {"persist"})
    <3>1. \A f \in {"persist"} : s[f] \in TcbTypes[f]
      BY <2>2 DEF TcbTypes
    <3>2. Probes(w2)
      BY <1>6, <2>3 DEF Probes
    <3> QED BY <2>2, <3>1, <3>2 DEF Retimed
  <2>6. HasTcb(v, o) /\ Same(w2, v) /\ v.t.state = w2.t.state
    BY <1>6, <2>4, <2>5, TimerProperty
  <2> QED BY <1>6, <2>6 DEF Same, v
<1>9. CASE ~(Unsent(w2.t) > 0 /\ InFlight(w2.t) = 0)
  <2>1. s = w2.t
    BY <1>9 DEF Probing
  <2>2. v = w2
    BY <1>1, <1>6, <2>1 DEF On, HasTcb, WorkOK, Works
  <2> QED BY <1>6, <2>2
<1> QED BY <1>8, <1>9

\* tcp_output keeps everything, and the state.
LEMMA OutputProperty ==
  ASSUME NEW w, NEW o, HasTcb(w, o)
  PROVE  LET v == Output(w)
         IN  HasTcb(v, o) /\ Same(w, v) /\ v.t.state = w.t.state
<1> DEFINE s  == [w.t EXCEPT !.linkRetry = FALSE]
           w0 == [w EXCEPT !.t.linkRetry = FALSE, !.sent = TRUE]
           w1 == Rounds(w0)[w.t.tx + 1]
           v  == Output(w)
<1>1. w.t \in Tcbs /\ w \in Works /\ w.t.tx + 1 \in Nat
  <2>1. w.t.tx \in Nat
    BY SenderFacts
  <2>2. w.t.tx + 1 \in Nat
    BY <2>1
  <2>3. w.t \in Tcbs /\ w \in Works
    BY WorkFacts DEF HasTcb, WorkOK
  <2> QED BY <2>2, <2>3
<1>2. HasTcb(w0, o) /\ Same(w, w0) /\ w0.t.state = w.t.state
  <2>1. Moved(w, s, w0)
    BY <1>1 DEF Moved, Works
  <2>2. Changed(w.t, s, {"linkRetry"}) /\ s.linkRetry \in BOOLEAN
    BY <1>1 DEF Changed, Tcbs
  <2> HIDE DEF s, w0
  <2>3. Touched(w.t, s, {"linkRetry"})
    BY <2>2 DEF Touched, Neutral, TcbTypes
  <2> QED BY <2>1, <2>3, NeutralProperty
<1>3. v = IF w.t.state = "Closed" THEN w0
          ELSE IF ~Synchronized(w.t) THEN OutputSyn(w0)
          ELSE IF ~w1.sent THEN Retry(w1) ELSE OutputAck(w1)
  BY DEF Output
<1> HIDE DEF w0, v
<1>4. CASE w.t.state = "Closed"
  BY <1>2, <1>3, <1>4 DEF v
<1>5. CASE w.t.state # "Closed" /\ ~Synchronized(w.t)
  <2>1. w0.t.state \in {"SynSent", "SynReceived"}
    BY <1>2, <1>5 DEF Synchronized
  <2>2. HasTcb(v, o) /\ Same(w0, v) /\ v.t.state = w0.t.state
    BY <1>2, <1>3, <1>5, <2>1, OutputSynProperty
  <2> QED BY <1>2, <2>2 DEF Same, v
<1>6. CASE w.t.state # "Closed" /\ Synchronized(w.t)
  <2>1. Synchronized(w0.t)
    BY <1>2, <1>6 DEF Synchronized
  <2>2. HasTcb(w1, o) /\ Same(w0, w1) /\ w1.t.state = w0.t.state
    BY <1>1, <1>2, <2>1, LoopProperty
  <2> HIDE DEF w1
  <2>3. Synchronized(w1.t)
    BY <1>2, <1>6, <2>2 DEF Synchronized
  <2>4. HasTcb(Retry(w1), o) /\ Same(w1, Retry(w1)) /\ Retry(w1).t.state = w1.t.state
    BY <2>2, RetryProperty
  <2>5. HasTcb(OutputAck(w1), o) /\ Same(w1, OutputAck(w1)) /\ OutputAck(w1).t.state = w1.t.state
    BY <2>2, <2>3, OutputAckProperty
  <2>6. v \in {Retry(w1), OutputAck(w1)}
    BY <1>3, <1>6
  <2> QED BY <1>2, <2>2, <2>4, <2>5, <2>6 DEF Same, v
<1> QED BY <1>4, <1>5, <1>6

\* Asking for an acknowledgement at once (ack_now) keeps the connection sound.
LEMMA AckNowProperty ==
  ASSUME NEW w, NEW o, HasTcb(w, o)
  PROVE  LET v == AckNow(w)
         IN  HasTcb(v, o) /\ Same(w, v) /\ v.t.state = w.t.state
<1> DEFINE s  == [w.t EXCEPT !.ackNow = TRUE]
           w1 == [w EXCEPT !.t.ackNow = TRUE]
<1>1. w.t \in Tcbs /\ w \in Works
  BY WorkFacts DEF HasTcb, WorkOK
<1>2. Moved(w, s, w1)
  BY <1>1 DEF Moved, Works
<1>3. Changed(w.t, s, {"ackNow"}) /\ s.ackNow \in BOOLEAN
  BY <1>1 DEF Changed, Tcbs
<1>4. AckNow(w) = Output(w1)
  BY DEF AckNow
<1> HIDE DEF s, w1
<1>5. Touched(w.t, s, {"ackNow"})
  BY <1>3 DEF Touched, Neutral, TcbTypes
<1>6. HasTcb(w1, o) /\ Same(w, w1) /\ w1.t.state = w.t.state
  BY <1>2, <1>5, NeutralProperty
<1>7. HasTcb(Output(w1), o) /\ Same(w1, Output(w1)) /\ Output(w1).t.state = w1.t.state
  BY <1>6, OutputProperty
<1> QED BY <1>4, <1>6, <1>7 DEF Same

\* A connection closes: what it held stays, and nothing is due any more.
LEMMA CloseProperty ==
  ASSUME NEW e, NEW t, NEW h, NEW o, EndOK(e, t, h, o), NEW error \in BOOLEAN
  PROVE  LET s == CloseWith(t, error)
         IN  EndOK(e, s, h, o) /\ s \in Tcbs /\ s.state = "Closed"
<1> DEFINE s == CloseWith(t, error)
<1>1. t \in Tcbs /\ Sender(e, t, h) /\ Receiver(e, t, h, o) /\ TcbOK(t) /\ h.opened
  BY DEF EndOK, TcbOK
<1>2. /\ Changed(t, s, {"state", "error", "rtx", "ackAt", "persist", "closeAt"})
      /\ s.state = "Closed" /\ s.error = (t.error \/ error) /\ s.rtx = FALSE /\ s.ackAt = FALSE
      /\ s.persist = FALSE /\ s.closeAt = FALSE
  BY <1>1 DEF Changed, Tcbs, CloseWith
<1> HIDE DEF s
<1>3. s \in Tcbs
  <2>1. /\ s.error \in BOOLEAN /\ s.state \in States /\ s.rtx \in BOOLEAN /\ s.ackAt \in BOOLEAN
        /\ s.persist \in BOOLEAN /\ s.closeAt \in BOOLEAN
    BY <1>1, <1>2 DEF Tcbs, States
  <2>2. \A f \in {"state", "error", "rtx", "ackAt", "persist", "closeAt"} : s[f] \in TcbTypes[f]
    BY <2>1 DEF TcbTypes
  <2> QED BY <1>1, <1>2, <2>2, TcbKept
<1>4. DOMAIN t = DOMAIN TcbTypes
  BY <1>1, TcbIs
<1>5. /\ s.iss = t.iss /\ s.base = t.base /\ s.tx = t.tx /\ s.una = t.una
      /\ s.nxt = t.nxt /\ s.max = t.max /\ s.finSeq = t.finSeq
      /\ s.finSent = t.finSent /\ s.finQueued = t.finQueued /\ s.probe = t.probe
      /\ s.finReceived = t.finReceived /\ s.rnxt = t.rnxt /\ s.adv = t.adv
      /\ s.rxRing = t.rxRing /\ s.rx = t.rx /\ s.asm = t.asm /\ s.txRing = t.txRing
  BY <1>2, <1>4 DEF TcbTypes, Changed
<1>6. Sender(e, s, h)
  BY <1>1, <1>2, <1>5 DEF Sender
<1>7. Receiver(e, s, h, o)
  BY <1>1, <1>2, <1>5 DEF Receiver
<1> QED BY <1>1, <1>2, <1>3, <1>5, <1>6, <1>7 DEF EndOK, TcbOK, s

\* Closing the connection, with an error or without, keeps it sound.
LEMMA ClosedProperty ==
  ASSUME NEW w, NEW o, HasTcb(w, o), NEW error \in BOOLEAN
  PROVE  LET v == On(w, CloseWith(w.t, error))
         IN  HasTcb(v, o) /\ Same(w, v) /\ v.t = CloseWith(w.t, error) /\ v.t.state = "Closed"
<1> DEFINE s == CloseWith(w.t, error)
           v == On(w, s)
<1>1. EndOK(w.e, s, w.h, o) /\ s \in Tcbs /\ s.state = "Closed"
  BY CloseProperty DEF HasTcb, WorkOK
<1>2. Moved(w, s, v)
  BY DEF Moved, On
<1> HIDE DEF s, v
<1>3. HasTcb(v, o) /\ Same(w, v) /\ v.t = s
  BY <1>1, <1>2, OnProperty
<1> QED BY <1>1, <1>3 DEF s, v

\* A connection is aborted; the reset is sent where the other end knows of it.
LEMMA AbortProperty ==
  ASSUME NEW w, NEW o, HasTcb(w, o)
  PROVE  LET v == Abort(w)
         IN  HasTcb(v, o) /\ Same(w, v) /\ v.t.state = "Closed"
<1> DEFINE flags == [RST EXCEPT !.acks = TRUE]
           w1 == SendTcp(w, w.t.nxt, flags, 0, 0)
           w2 == IF Synchronized(w.t) \/ w.t.state = "SynReceived" THEN w1 ELSE w
           v  == Abort(w)
<1>1. v = On(w2, CloseWith(w2.t, FALSE))
  BY DEF Abort
<1>2. flags \in Flags /\ ~flags.syn /\ ~flags.fin /\ flags.acks
  <2>1. RST \in Flags /\ ~RST.syn /\ ~RST.fin
    BY DEF RST, Flags
  <2>2. \A r \in Flags : LET f == [r EXCEPT !.acks = TRUE]
                         IN  f \in Flags /\ f.syn = r.syn /\ f.fin = r.fin /\ f.acks
    BY DEF Flags
  <2> QED BY <2>1, <2>2
<1> HIDE DEF flags
<1>3. HasTcb(w2, o) /\ Same(w, w2)
  <2>1. CASE Synchronized(w.t) \/ w.t.state = "SynReceived"
    <3>1. w.t.state # "Closed" /\ w.t.state # "SynSent" /\ w.t.nxt \in SeqNums
      BY <2>1, SenderFacts DEF Synchronized
    <3>2. Sendable(w, w.t.nxt, flags, 0, 0)
      BY <1>2, <3>1 DEF Sendable
    <3>3. HasTcb(w1, o) /\ Same(w, w1) /\ Sending(w.t, w1.t)
      BY <3>1, <3>2, SendTcpProperty
    <3> QED BY <2>1, <3>3
  <2>2. CASE ~(Synchronized(w.t) \/ w.t.state = "SynReceived")
    BY <2>2 DEF Same
  <2> QED BY <2>1, <2>2
<1> HIDE DEF w2, v
<1>4. HasTcb(v, o) /\ Same(w2, v) /\ v.t.state = "Closed"
  BY <1>1, <1>3, ClosedProperty
<1> QED BY <1>3, <1>4 DEF Same, v

-----------------------------------------------------------------------------
(* A segment that arrives. *)

Arrives(w, o, seg) == seg \in Segments /\ SegOK(Peer(w.e), o, seg)

\* What an end may do to the streams in a step, and what it does by input.
Grown(h, h2) ==
  /\ h2 \in Hists /\ (h.opened => h2.opened)
  /\ h.wrote <= h2.wrote /\ (h.shut => h2.shut /\ h2.wrote = h.wrote)
  /\ h.took <= h2.took /\ (h.ended => h2.ended)

Fed(h, h2) ==
  /\ h2 \in Hists /\ h2.opened = h.opened /\ h2.wrote = h.wrote /\ h2.shut = h.shut
  /\ h.took <= h2.took /\ (h.ended => h2.ended /\ h2.took = h.took)
  /\ h.settled <= h2.settled

Onward(w, v) == v.e = w.e /\ Fed(w.h, v.h)

\* Going onward composes, and holds of what leaves the streams alone.
LEMMA OnwardProperty ==
  ASSUME NEW u, NEW v, NEW w, u.h \in Hists
  PROVE  /\ Same(u, v) => Onward(u, v)
         /\ Onward(u, v) /\ Onward(v, w) => Onward(u, w)
         /\ Onward(u, v) /\ Same(v, w) => Onward(u, w)
<1>1. Same(u, v) => Onward(u, v)
  BY DEF Same, Onward, Fed, Hists
<1>2. Onward(u, v) /\ Onward(v, w) => Onward(u, w)
  BY DEF Onward, Fed, Hists
<1>3. Onward(u, v) /\ Same(v, w) => Onward(u, w)
  BY DEF Same, Onward, Fed, Hists
<1> QED BY <1>1, <1>2, <1>3

\* A segment stays what it is while the streams go on.
LEMMA SegGrown ==
  ASSUME NEW e \in Ends, NEW h \in Hists, NEW h2, Grown(h, h2),
         NEW seg \in Segments, SegOK(e, h, seg)
  PROVE  SegOK(e, h2, seg)
<1>1. h2 \in Hists /\ h.wrote <= h2.wrote /\ h.wrote \in Nat /\ h2.wrote \in Nat
      /\ h.took \in Nat /\ h2.took \in Nat /\ h.ended \in BOOLEAN /\ h2.ended \in BOOLEAN
  BY DEF Grown, Hists
<1>2. seg.data # <<>> =>
        \E k \in Nat : /\ seg.seq = Plus(Iss[e], 1 + k) /\ k + Len(seg.data) <= h2.wrote
                       /\ \A i \in DOMAIN seg.data : seg.data[i] = k + i - 1
  <2> SUFFICES ASSUME seg.data # <<>>
               PROVE  \E k \in Nat : /\ seg.seq = Plus(Iss[e], 1 + k)
                                     /\ k + Len(seg.data) <= h2.wrote
                                     /\ \A i \in DOMAIN seg.data : seg.data[i] = k + i - 1
    OBVIOUS
  <2>1. PICK k \in Nat : /\ seg.seq = Plus(Iss[e], 1 + k) /\ k + Len(seg.data) <= h.wrote
                         /\ \A i \in DOMAIN seg.data : seg.data[i] = k + i - 1
    BY DEF SegOK
  <2>2. Len(seg.data) \in Nat
    BY DEF Segments
  <2>3. k + Len(seg.data) <= h2.wrote
    BY <1>1, <2>1, <2>2
  <2> QED BY <2>1, <2>3
<1>3. seg.flags.fin =>
       /\ h2.shut
       /\ \/ seg.seq = Iss[e] /\ seg.data = <<>>
          \/ Plus(seg.seq, Len(seg.data)) = Plus(Iss[e], 1 + h2.wrote)
  BY DEF SegOK, Grown
<1>4. seg.flags.acks /\ ~seg.flags.rst =>
        At(Peer(e), seg.ack) <= 1 + h2.took + Bit(h2.ended)
  <2> SUFFICES ASSUME seg.flags.acks, ~seg.flags.rst
               PROVE  At(Peer(e), seg.ack) <= 1 + h2.took + Bit(h2.ended)
    OBVIOUS
  <2>1. At(Peer(e), seg.ack) <= 1 + h.took + Bit(h.ended)
    BY DEF SegOK
  <2>2. At(Peer(e), seg.ack) \in Int
    BY EndsProperty, AtProperty DEF Segments, SeqNums
  <2>3. h.took <= h2.took /\ Bit(h.ended) <= Bit(h2.ended)
        /\ Bit(h.ended) \in Nat /\ Bit(h2.ended) \in Nat
    BY <1>1 DEF Grown, Bit
  <2> QED BY <1>1, <2>1, <2>2, <2>3
<1> QED BY <1>2, <1>3, <1>4 DEF SegOK

\* A further stream is a grown one.
LEMMA FedGrown ==
  ASSUME NEW h \in Hists, NEW h2, Fed(h, h2)
  PROVE  Grown(h, h2)
BY DEF Fed, Grown, Hists

\* A step that goes on with another control block, and further streams.
Fits(w, s, h2, v) ==
  v.t = s /\ v.h = h2 /\ v.e = w.e /\ v.out = w.out /\ v \in Works

\* Such a step is sound when the streams and the control block it leaves are.
LEMMA FedProperty ==
  ASSUME NEW w, NEW o, HasTcb(w, o), NEW s \in Tcbs, NEW h2, Fed(w.h, h2),
         HistOK(w.e, h2, o), EndOK(w.e, s, h2, o), NEW v, Fits(w, s, h2, v)
  PROVE  HasTcb(v, o) /\ Onward(w, v)
<1>1. w.e \in Ends /\ w.h \in Hists /\ w.out \in Seq(Segments) /\ s # None
  BY WorkFacts, NoneAssumption DEF NoneAssumption
<1>2. Grown(w.h, h2)
  BY <1>1, FedGrown
<1>3. \A seg \in Range(v.out) : SegOK(v.e, v.h, seg)
  <2>1. \A seg \in Range(w.out) : seg \in Segments /\ SegOK(w.e, w.h, seg)
    BY <1>1 DEF HasTcb, WorkOK, Range
  <2> QED BY <1>1, <1>2, <2>1, SegGrown DEF Fits
<1>4. HistOK(v.e, v.h, o)
  BY DEF Fits
<1>5. HistOK(Peer(v.e), o, v.h)
  <2>1. HistOK(Peer(w.e), o, w.h) /\ o \in Hists
    BY DEF HasTcb, WorkOK, HistOK
  <2>2. h2 \in Hists /\ h2.wrote = w.h.wrote /\ h2.shut = w.h.shut /\ w.h.took <= h2.took
    BY DEF Fed
  <2>3. o.settled <= h2.took
    <3>1. o.settled <= w.h.took /\ o.settled \in Nat /\ w.h.took \in Nat /\ h2.took \in Nat
      BY <1>1, <2>1, <2>2 DEF HistOK, Hists
    <3> QED BY <2>2, <3>1
  <2>4. HistOK(Peer(w.e), o, h2)
    BY <2>1, <2>2, <2>3 DEF HistOK
  <2> QED BY <2>4 DEF Fits
<1>6. WorkOK(v, o)
  BY <1>3, <1>4, <1>5 DEF WorkOK, Fits
<1> QED BY <1>1, <1>6 DEF HasTcb, Onward, Fits

\* What is acknowledged was written.
LEMMA AckProperty ==
  ASSUME NEW w, NEW o, HasTcb(w, o), NEW seg, Arrives(w, o, seg), seg.flags.acks, ~seg.flags.rst
  PROVE  LET a == At(w.e, seg.ack)
         IN  /\ seg.ack \in SeqNums /\ a \in Nat /\ a <= 2 + w.h.wrote /\ a < Half
             /\ Lesser(Left(a, 1), w.h.wrote) <= o.took
<1> DEFINE a == At(w.e, seg.ack)
<1>1. w.e \in Ends /\ w.h.wrote \in Nat /\ 2 + w.h.wrote < Half /\ Half \in Nat
  BY WorkFacts, SenderFacts
<1>2. Peer(w.e) \in Ends /\ Peer(Peer(w.e)) = w.e
  BY <1>1, EndsProperty
<1>3. seg.ack \in SeqNums
  BY DEF Arrives, Segments
<1>4. a \in Nat
  BY <1>1, <1>3, AtProperty DEF SeqNums
<1>5. a <= 1 + o.took + Bit(o.ended)
  BY <1>2 DEF Arrives, SegOK
<1>6. HistOK(Peer(w.e), o, w.h)
  BY DEF HasTcb, WorkOK
<1>7. o.took \in Nat /\ o.took <= w.h.wrote /\ (o.ended => o.took = w.h.wrote)
      /\ o.ended \in BOOLEAN
  BY <1>6 DEF HistOK, Hists
<1> HIDE DEF a
<1>8. a <= 2 + w.h.wrote /\ Lesser(Left(a, 1), w.h.wrote) <= o.took
  BY <1>1, <1>4, <1>5, <1>7 DEF Bit, Lesser, Left
<1> QED BY <1>1, <1>3, <1>4, <1>8 DEF a

\* A SYN names the first of the numbers that follow.
LEMMA SynProperty ==
  ASSUME NEW w, NEW o, w.e \in Ends, NEW seg, Arrives(w, o, seg), seg.flags.syn
  PROVE  /\ Plus(seg.seq, 1) = Plus(Iss[Peer(w.e)], 1) /\ Plus(seg.seq, 1) \in SeqNums
         /\ At(Peer(w.e), Plus(seg.seq, 1)) = 1
         /\ seg.seq \in SeqNums /\ seg.ack \in SeqNums /\ seg.wnd \in Windows
         /\ seg.data = <<>> /\ ~seg.flags.fin
<1>1. seg.seq = Iss[Peer(w.e)] /\ seg.data = <<>> /\ ~seg.flags.fin
  BY DEF Arrives, SegOK
<1>2. seg.seq \in SeqNums /\ seg.ack \in SeqNums /\ seg.wnd \in Windows
  BY DEF Arrives, Segments
<1>3. Peer(w.e) \in Ends /\ 1 \in SeqNums /\ 1 \in 0 .. Space
  <2>1. Half \in Nat \ {0} /\ Space = 2 * Half
    BY HalfProperty
  <2> QED BY <2>1, EndsProperty DEF SeqNums
<1>4. Plus(seg.seq, 1) \in SeqNums
  BY <1>2, <1>3, PlusProperty
<1> QED BY <1>1, <1>2, <1>3, <1>4, AtProperty

\* The counters start at 0, and what is not too many retries is counted.
LEMMA RetriesProperty ==
  /\ 0 \in Retries /\ 0 \in Dups /\ DupAcks \in Nat
  /\ MaxRetries \in Nat /\ MaxSynRetries \in Nat
  /\ \A r \in Nat : (r <= MaxRetries \/ r <= MaxSynRetries) => r \in Retries
<1> DEFINE S == {MaxRetries, MaxSynRetries}
<1>1. S \in SUBSET Nat /\ DupAcks \in Nat
  BY TcpAssumption DEF TcpAssumption
<1>2. \E m \in S : \A y \in S : m >= y
  BY <1>1
<1>3. Max(S) \in S /\ \A y \in S : Max(S) >= y
  <2> HIDE DEF S
  <2> QED BY <1>2 DEF Max
<1>4. MaxRetries \in Nat /\ MaxSynRetries \in Nat /\ Max(S) \in Nat
  BY <1>1, <1>3
<1>5. MaxRetries <= Max(S) /\ MaxSynRetries <= Max(S)
  BY <1>3, <1>4
<1>6. \A r \in Nat : (r <= MaxRetries \/ r <= MaxSynRetries) => r \in Retries
  <2> HIDE DEF S
  <2>1. Retries = 0 .. Max(S)
    BY DEF Retries, S
  <2> QED BY <1>4, <1>5, <2>1
<1> QED BY <1>1, <1>3, <1>4, <1>6 DEF Retries, Dups

\* The answer to a SYN: the SYN of a simultaneous open.
LEMMA CrossedProperty ==
  ASSUME NEW w, NEW o, HasTcb(w, o), w.t.state = "SynSent",
         NEW seg, Arrives(w, o, seg), seg.flags.syn
  PROVE  LET v == On(w, [OnSyn(w.t, seg) EXCEPT !.state = "SynReceived", !.nxt = w.t.iss])
         IN  HasTcb(v, o) /\ Same(w, v)
<1> DEFINE t == w.t
           h == w.h
           s == [OnSyn(t, seg) EXCEPT !.state = "SynReceived", !.nxt = t.iss]
           v == On(w, s)
           fields == {"state", "nxt", "rnxt", "adv", "wnd", "maxWnd", "wl1", "wl2"}
<1>1. w.e \in Ends /\ t \in Tcbs /\ Sender(w.e, t, h) /\ Receiver(w.e, t, h, o) /\ TcbOK(t)
      /\ h.opened /\ h \in Hists
  BY WorkFacts
<1>2. /\ Plus(seg.seq, 1) = Plus(Iss[Peer(w.e)], 1) /\ Plus(seg.seq, 1) \in SeqNums
      /\ At(Peer(w.e), Plus(seg.seq, 1)) = 1
      /\ seg.seq \in SeqNums /\ seg.ack \in SeqNums /\ seg.wnd \in Windows
  BY <1>1, SynProperty
<1> DEFINE first == Plus(seg.seq, 1)
<1> HIDE DEF first
<1>3. s = [t EXCEPT !.rnxt = first, !.adv = first, !.wnd = seg.wnd, !.maxWnd = seg.wnd,
                    !.wl1 = seg.seq, !.wl2 = seg.ack, !.state = "SynReceived", !.nxt = t.iss]
  BY DEF OnSyn, first
<1> HIDE DEF s
<1>4. /\ Changed(t, s, fields)
      /\ s.state = "SynReceived" /\ s.nxt = t.iss /\ s.rnxt = first /\ s.adv = first
      /\ s.wnd = seg.wnd /\ s.maxWnd = seg.wnd /\ s.wl1 = seg.seq /\ s.wl2 = seg.ack
  BY <1>1, <1>3 DEF Changed, Tcbs
<1>5. s \in Tcbs
  <2>1. /\ s.state \in States /\ s.nxt \in SeqNums /\ s.rnxt \in SeqNums /\ s.adv \in SeqNums
        /\ s.wnd \in Windows /\ s.maxWnd \in Windows /\ s.wl1 \in SeqNums /\ s.wl2 \in SeqNums
    BY <1>1, <1>2, <1>4 DEF Tcbs, States, first
  <2>2. \A f \in fields : s[f] \in TcbTypes[f]
    BY <2>1 DEF TcbTypes
  <2> QED BY <1>1, <1>4, <2>2, TcbKept
<1>6. DOMAIN t = DOMAIN TcbTypes
  BY <1>1, TcbIs
<1>7. /\ s.iss = t.iss /\ s.base = t.base /\ s.tx = t.tx /\ s.una = t.una /\ s.max = t.max
      /\ s.finSeq = t.finSeq /\ s.finSent = t.finSent /\ s.finQueued = t.finQueued
      /\ s.rtx = t.rtx /\ s.probe = t.probe /\ s.persist = t.persist
      /\ s.finReceived = t.finReceived
      /\ s.rxRing = t.rxRing /\ s.rx = t.rx /\ s.asm = t.asm /\ s.txRing = t.txRing
  BY <1>4, <1>6 DEF TcbTypes, Changed
<1>8. Sender(w.e, s, h)
  <2>1. At(w.e, s.nxt) = 0
    <3>1. t.iss = Iss[w.e]
      BY <1>1 DEF Sender
    <3> QED BY <1>1, <1>4, <3>1, FirstPosition
  <2>2. At(w.e, t.una) = 0 /\ At(w.e, t.max) \in Nat /\ h.wrote \in Nat
    BY <1>1, SenderFacts DEF Sender
  <2> QED BY <1>1, <1>4, <1>7, <2>1, <2>2 DEF Sender
<1>9. Receiver(w.e, s, h, o)
  <2>1. h.took = 0 /\ ~h.ended
    BY <1>1 DEF Receiver
  <2>2. 1 + h.took + Bit(h.ended) = 1 /\ RxRing[w.e] \in Nat
    BY <1>1, <2>1, HalfProperty DEF Bit
  <2>3. s.rnxt = Plus(Iss[Peer(w.e)], 1) /\ At(Peer(w.e), s.adv) <= 1 + RxRing[w.e]
    BY <1>2, <1>4, <2>2 DEF first
  <2> QED BY <1>1, <1>4, <1>7, <2>1, <2>2, <2>3 DEF Receiver
<1>10. EndOK(w.e, s, h, o)
  BY <1>1, <1>5, <1>7, <1>8, <1>9 DEF EndOK, TcbOK
<1>11. Moved(w, s, v)
  BY DEF Moved, On
<1> HIDE DEF v
<1>12. HasTcb(v, o) /\ Same(w, v)
  BY <1>5, <1>10, <1>11, OnProperty
<1> QED BY <1>12 DEF v, s

\* The connection is there: SYN and acknowledgement.
LEMMA OpenedProperty ==
  ASSUME NEW w, NEW o, HasTcb(w, o), w.t.state = "SynSent",
         NEW seg, Arrives(w, o, seg), seg.flags.syn, seg.flags.acks, ~seg.flags.rst,
         Lt(w.t.una, seg.ack), Le(seg.ack, w.t.max)
  PROVE  LET v == On(w, [OnSyn(w.t, seg) EXCEPT !.una = seg.ack, !.state = "Established",
                                                !.rtx = FALSE, !.retries = 0])
         IN  HasTcb(v, o) /\ Same(w, v)
<1> DEFINE t == w.t
           h == w.h
           s == [OnSyn(t, seg) EXCEPT !.una = seg.ack, !.state = "Established", !.rtx = FALSE,
                                      !.retries = 0]
           v == On(w, s)
           fields == {"state", "una", "rtx", "retries", "rnxt", "adv", "wnd", "maxWnd", "wl1",
                      "wl2"}
<1>1. w.e \in Ends /\ t \in Tcbs /\ Sender(w.e, t, h) /\ Receiver(w.e, t, h, o) /\ TcbOK(t)
      /\ h.opened /\ h \in Hists
  BY WorkFacts
<1>2. /\ Plus(seg.seq, 1) = Plus(Iss[Peer(w.e)], 1) /\ Plus(seg.seq, 1) \in SeqNums
      /\ At(Peer(w.e), Plus(seg.seq, 1)) = 1
      /\ seg.seq \in SeqNums /\ seg.ack \in SeqNums /\ seg.wnd \in Windows
  BY <1>1, SynProperty
<1> DEFINE first == Plus(seg.seq, 1)
<1> HIDE DEF first
<1>3. s = [t EXCEPT !.rnxt = first, !.adv = first, !.wnd = seg.wnd, !.maxWnd = seg.wnd,
                    !.wl1 = seg.seq, !.wl2 = seg.ack, !.una = seg.ack, !.state = "Established",
                    !.rtx = FALSE, !.retries = 0]
  BY DEF OnSyn, first
<1> HIDE DEF s
<1>4. /\ Changed(t, s, fields)
      /\ s.state = "Established" /\ s.una = seg.ack /\ s.rtx = FALSE /\ s.retries = 0
      /\ s.rnxt = first /\ s.adv = first
      /\ s.wnd = seg.wnd /\ s.maxWnd = seg.wnd /\ s.wl1 = seg.seq /\ s.wl2 = seg.ack
  BY <1>1, <1>3 DEF Changed, Tcbs
<1>5. s \in Tcbs
  <2>1. /\ s.state \in States /\ s.una \in SeqNums /\ s.rnxt \in SeqNums /\ s.adv \in SeqNums
        /\ s.wnd \in Windows /\ s.maxWnd \in Windows /\ s.wl1 \in SeqNums /\ s.wl2 \in SeqNums
        /\ s.rtx \in BOOLEAN
    BY <1>1, <1>2, <1>4 DEF Tcbs, States, first
  <2>2. s.retries \in Retries
    BY <1>4, RetriesProperty
  <2>3. \A f \in fields : s[f] \in TcbTypes[f]
    BY <2>1, <2>2 DEF TcbTypes
  <2> QED BY <1>1, <1>4, <2>3, TcbKept
<1>6. DOMAIN t = DOMAIN TcbTypes
  BY <1>1, TcbIs
<1>7. /\ s.iss = t.iss /\ s.base = t.base /\ s.tx = t.tx /\ s.nxt = t.nxt /\ s.max = t.max
      /\ s.finSeq = t.finSeq /\ s.finSent = t.finSent /\ s.finQueued = t.finQueued
      /\ s.probe = t.probe /\ s.persist = t.persist
      /\ s.finReceived = t.finReceived
      /\ s.rxRing = t.rxRing /\ s.rx = t.rx /\ s.asm = t.asm /\ s.txRing = t.txRing
  BY <1>4, <1>6 DEF TcbTypes, Changed
<1>8. Sender(w.e, s, h)
  <2>1. /\ At(w.e, t.una) = 0 /\ At(w.e, t.max) <= 1 /\ At(w.e, t.max) \in Nat
        /\ At(w.e, t.nxt) \in Nat /\ At(w.e, t.nxt) <= At(w.e, t.max)
        /\ h.wrote \in Nat /\ h.settled = 0 /\ t.una \in SeqNums /\ t.max \in SeqNums
        /\ Half \in Nat /\ 2 + h.wrote < Half
    BY <1>1, SenderFacts DEF Sender
  <2>2. seg.ack \in SeqNums /\ At(w.e, seg.ack) \in Nat /\ At(w.e, seg.ack) < Half
    BY AckProperty
  <2>3. At(w.e, t.una) < Half /\ At(w.e, t.max) < Half
    BY <2>1
  <2>4. At(w.e, t.una) < At(w.e, seg.ack)
    BY <1>1, <2>1, <2>2, <2>3, BelowHalf
  <2>5. At(w.e, seg.ack) <= At(w.e, t.max)
    BY <1>1, <2>1, <2>2, <2>3, BelowHalf
  <2>6. At(w.e, s.una) = 1 /\ At(w.e, s.max) = 1
    BY <1>4, <1>7, <2>1, <2>2, <2>4, <2>5
  <2>7. At(w.e, s.nxt) = At(w.e, t.nxt)
    BY <1>7
  <2>8. /\ h.settled = Lesser(1 - 1, h.wrote)
    BY <2>1 DEF Lesser
  <2> QED BY <1>1, <1>4, <1>7, <2>1, <2>6, <2>7, <2>8 DEF Sender
<1>9. Receiver(w.e, s, h, o)
  <2>1. h.took = 0 /\ ~h.ended
    BY <1>1 DEF Receiver
  <2>2. 1 + h.took + Bit(h.ended) = 1 /\ RxRing[w.e] \in Nat
    BY <1>1, <2>1, HalfProperty DEF Bit
  <2>3. s.rnxt = Plus(Iss[Peer(w.e)], 1) /\ At(Peer(w.e), s.adv) <= 1 + RxRing[w.e]
    BY <1>2, <1>4, <2>2 DEF first
  <2> QED BY <1>1, <1>4, <1>7, <2>1, <2>2, <2>3 DEF Receiver
<1>10. EndOK(w.e, s, h, o)
  BY <1>1, <1>5, <1>7, <1>8, <1>9 DEF EndOK, TcbOK
<1>11. Moved(w, s, v)
  BY DEF Moved, On
<1> HIDE DEF v
<1>12. HasTcb(v, o) /\ Same(w, v)
  BY <1>5, <1>10, <1>11, OnProperty
<1> QED BY <1>12 DEF v, s

\* A segment that arrives while the SYN is out.
LEMMA SynSentInputProperty ==
  ASSUME NEW w, NEW o, HasTcb(w, o), w.t.state = "SynSent", NEW seg, Arrives(w, o, seg)
  PROVE  LET v == SynSentInput(w, seg) IN HasTcb(v, o) /\ Same(w, v)
<1> DEFINE t == w.t
           v == SynSentInput(w, seg)
           ackOk == Lt(t.una, seg.ack) /\ Le(seg.ack, t.max)
           crossed == On(w, [OnSyn(t, seg) EXCEPT !.state = "SynReceived", !.nxt = t.iss])
           opened == On(w, [OnSyn(t, seg) EXCEPT !.una = seg.ack, !.state = "Established",
                                                 !.rtx = FALSE, !.retries = 0])
<1>1. v = IF seg.flags.acks /\ ~ackOk THEN IF seg.flags.rst THEN w ELSE SendReset(w, seg)
          ELSE IF seg.flags.rst THEN IF seg.flags.acks THEN On(w, CloseWith(t, TRUE)) ELSE w
          ELSE IF ~seg.flags.syn THEN w
          ELSE IF ~seg.flags.acks THEN Output(crossed)
          ELSE AckNow(opened)
  BY DEF SynSentInput
<1>2. HasTcb(w, o) /\ Same(w, w)
  BY DEF Same
<1>3. HasTcb(SendReset(w, seg), o) /\ Same(w, SendReset(w, seg))
  BY ResetProperty DEF HasTcb, Arrives
<1>4. HasTcb(On(w, CloseWith(t, TRUE)), o) /\ Same(w, On(w, CloseWith(t, TRUE)))
  BY ClosedProperty
<1>5. ASSUME seg.flags.syn PROVE HasTcb(Output(crossed), o) /\ Same(w, Output(crossed))
  <2>1. HasTcb(crossed, o) /\ Same(w, crossed)
    BY <1>5, CrossedProperty
  <2> HIDE DEF crossed
  <2>2. HasTcb(Output(crossed), o) /\ Same(crossed, Output(crossed))
    BY <2>1, OutputProperty
  <2> QED BY <2>1, <2>2 DEF Same
<1>6. ASSUME seg.flags.syn, seg.flags.acks, ~seg.flags.rst, ackOk
      PROVE  HasTcb(AckNow(opened), o) /\ Same(w, AckNow(opened))
  <2>1. HasTcb(opened, o) /\ Same(w, opened)
    BY <1>6, OpenedProperty
  <2> HIDE DEF opened
  <2>2. HasTcb(AckNow(opened), o) /\ Same(opened, AckNow(opened))
    BY <2>1, AckNowProperty
  <2> QED BY <2>1, <2>2 DEF Same
<1> HIDE DEF crossed, opened, ackOk, v
<1>7. HasTcb(v, o) /\ Same(w, v)
  BY <1>1, <1>2, <1>3, <1>4, <1>5, <1>6
<1> QED BY <1>7 DEF v

\* A SYN that was seen already is like an empty segment.
LEMMA TrimmedProperty ==
  ASSUME NEW w, NEW o, HasTcb(w, o), NEW seg, Arrives(w, o, seg)
  PROVE  /\ Arrives(w, o, Trimmed(w.t, seg))
         /\ Trimmed(w.t, seg).flags.acks = seg.flags.acks
         /\ Trimmed(w.t, seg).flags.rst = seg.flags.rst
<1> DEFINE s == [seg EXCEPT !.seq = w.t.rnxt, !.flags.syn = FALSE]
<1>1. w.t.rnxt \in SeqNums
  BY WorkFacts DEF Tcbs
<1>2. seg \in Segments /\ SegOK(Peer(w.e), o, seg)
  BY DEF Arrives
<1>3. CASE seg.flags.syn /\ Trimmed(w.t, seg) = s
  <2>1. /\ s \in Segments /\ s.flags.syn = FALSE /\ s.flags.fin = seg.flags.fin
        /\ s.flags.rst = seg.flags.rst /\ s.flags.acks = seg.flags.acks
        /\ s.data = seg.data /\ s.ack = seg.ack
    BY <1>1, <1>2 DEF Segments, Flags
  <2> HIDE DEF s
  <2>2. SegOK(Peer(w.e), o, s)
    BY <1>2, <1>3, <2>1 DEF SegOK
  <2> QED BY <1>3, <2>1, <2>2 DEF Arrives
<1>4. CASE Trimmed(w.t, seg) = seg
  BY <1>4
<1>5. Trimmed(w.t, seg) = seg \/ (seg.flags.syn /\ Trimmed(w.t, seg) = s)
  BY DEF Trimmed
<1> HIDE DEF s
<1> QED BY <1>3, <1>4, <1>5

\* A reset closes the connection.
LEMMA ResetByProperty ==
  ASSUME NEW w, NEW o, HasTcb(w, o)
  PROVE  LET v == On(w, ResetBy(w.t)) IN HasTcb(v, o) /\ Same(w, v)
<1> DEFINE t  == w.t
           t1 == IF t.state = "SynReceived" THEN [t EXCEPT !.released = @ \/ t.listener] ELSE t
           error == t.state \in {"Established", "FinWait1", "FinWait2", "CloseWait"}
           s  == ResetBy(t)
           v  == On(w, s)
<1>1. s = CloseWith(t1, error)
  BY DEF ResetBy
<1>2. EndOK(w.e, t, w.h, o) /\ t \in Tcbs
  BY WorkFacts DEF HasTcb, WorkOK
<1>3. EndOK(w.e, t1, w.h, o)
  <2>1. CASE t.state = "SynReceived"
    <3>1. t1 = [t EXCEPT !.released = @ \/ t.listener]
      BY <2>1
    <3> HIDE DEF t1
    <3>2. Changed(t, t1, {"released"}) /\ t1.released \in BOOLEAN
      BY <1>2, <3>1 DEF Changed, Tcbs
    <3>3. Touched(t, t1, {"released"})
      BY <3>2 DEF Touched, Neutral, TcbTypes
    <3> QED BY <1>2, <3>3, EndTouched
  <2>2. CASE t.state # "SynReceived"
    BY <1>2, <2>2
  <2> QED BY <2>1, <2>2
<1>4. error \in BOOLEAN
  OBVIOUS
<1>5. Moved(w, s, v)
  BY DEF Moved, On
<1> HIDE DEF t1, error, s, v
<1>6. EndOK(w.e, s, w.h, o) /\ s \in Tcbs
  BY <1>1, <1>3, <1>4, CloseProperty
<1>7. HasTcb(v, o) /\ Same(w, v)
  BY <1>5, <1>6, OnProperty
<1> QED BY <1>7 DEF v, s

\* The connection is there: the acknowledgement of the SYN that was answered.
LEMMA EstablishProperty ==
  ASSUME NEW w, NEW o, HasTcb(w, o), w.t.state = "SynReceived",
         NEW seg, Arrives(w, o, seg), seg.flags.acks, ~seg.flags.rst,
         Lt(w.t.una, seg.ack), Le(seg.ack, w.t.max)
  PROVE  LET v == On(w, Establish(w.t, seg))
         IN  HasTcb(v, o) /\ Same(w, v) /\ v.t.state = "Established"
<1> DEFINE t == w.t
           h == w.h
           s == Establish(t, seg)
           v == On(w, s)
           most == Greater(t.maxWnd, seg.wnd)
           fields == {"state", "una", "wnd", "maxWnd", "wl1", "wl2", "rtx", "retries", "ready"}
<1>1. w.e \in Ends /\ t \in Tcbs /\ Sender(w.e, t, h) /\ Receiver(w.e, t, h, o) /\ TcbOK(t)
      /\ h.opened /\ h \in Hists
  BY WorkFacts
<1>2. seg.seq \in SeqNums /\ seg.ack \in SeqNums /\ seg.wnd \in Windows /\ t.maxWnd \in Windows
      /\ t.listener \in BOOLEAN
  BY <1>1 DEF Arrives, Segments, Tcbs
<1>3. s = [t EXCEPT !.state = "Established", !.una = seg.ack, !.wnd = seg.wnd, !.maxWnd = most,
                    !.wl1 = seg.seq, !.wl2 = seg.ack, !.rtx = FALSE, !.retries = 0,
                    !.ready = t.listener]
  BY <1>1 DEF Establish, Tcbs
<1>4. most \in Windows
  BY <1>2 DEF Greater
<1> HIDE DEF s, most
<1>5. /\ Changed(t, s, fields)
      /\ s.state = "Established" /\ s.una = seg.ack /\ s.rtx = FALSE /\ s.retries = 0
      /\ s.wnd = seg.wnd /\ s.maxWnd = most /\ s.wl1 = seg.seq /\ s.wl2 = seg.ack
      /\ s.ready = t.listener
  BY <1>1, <1>3 DEF Changed, Tcbs
<1>6. s \in Tcbs
  <2>1. /\ s.state \in States /\ s.una \in SeqNums
        /\ s.wnd \in Windows /\ s.maxWnd \in Windows /\ s.wl1 \in SeqNums /\ s.wl2 \in SeqNums
        /\ s.rtx \in BOOLEAN /\ s.ready \in BOOLEAN
    BY <1>2, <1>4, <1>5 DEF States
  <2>2. s.retries \in Retries
    BY <1>5, RetriesProperty
  <2>3. \A f \in fields : s[f] \in TcbTypes[f]
    BY <2>1, <2>2 DEF TcbTypes
  <2> QED BY <1>1, <1>5, <2>3, TcbKept
<1>7. DOMAIN t = DOMAIN TcbTypes
  BY <1>1, TcbIs
<1>8. /\ s.iss = t.iss /\ s.base = t.base /\ s.tx = t.tx /\ s.nxt = t.nxt /\ s.max = t.max
      /\ s.finSeq = t.finSeq /\ s.finSent = t.finSent /\ s.finQueued = t.finQueued
      /\ s.probe = t.probe /\ s.persist = t.persist
      /\ s.finReceived = t.finReceived /\ s.rnxt = t.rnxt /\ s.adv = t.adv
      /\ s.rxRing = t.rxRing /\ s.rx = t.rx /\ s.asm = t.asm /\ s.txRing = t.txRing
  BY <1>5, <1>7 DEF TcbTypes, Changed
<1>9. Sender(w.e, s, h)
  <2>1. /\ At(w.e, t.una) = 0 /\ At(w.e, t.max) <= 1 /\ At(w.e, t.max) \in Nat
        /\ At(w.e, t.nxt) \in Nat /\ At(w.e, t.nxt) <= At(w.e, t.max)
        /\ h.wrote \in Nat /\ h.settled = 0 /\ t.una \in SeqNums /\ t.max \in SeqNums
        /\ Half \in Nat /\ 2 + h.wrote < Half
    BY <1>1, SenderFacts DEF Sender
  <2>2. seg.ack \in SeqNums /\ At(w.e, seg.ack) \in Nat /\ At(w.e, seg.ack) < Half
    BY AckProperty
  <2>3. At(w.e, t.una) < Half /\ At(w.e, t.max) < Half
    BY <2>1
  <2>4. At(w.e, t.una) < At(w.e, seg.ack)
    BY <1>1, <2>1, <2>2, <2>3, BelowHalf
  <2>5. At(w.e, seg.ack) <= At(w.e, t.max)
    BY <1>1, <2>1, <2>2, <2>3, BelowHalf
  <2>6. At(w.e, s.una) = 1 /\ At(w.e, s.max) = 1
    BY <1>5, <1>8, <2>1, <2>2, <2>4, <2>5
  <2>7. At(w.e, s.nxt) = At(w.e, t.nxt)
    BY <1>8
  <2>8. /\ h.settled = Lesser(1 - 1, h.wrote)
    BY <2>1 DEF Lesser
  <2> QED BY <1>1, <1>5, <1>8, <2>1, <2>6, <2>7, <2>8 DEF Sender
<1>10. Receiver(w.e, s, h, o)
  BY <1>1, <1>5, <1>8 DEF Receiver
<1>11. EndOK(w.e, s, h, o)
  BY <1>1, <1>6, <1>8, <1>9, <1>10 DEF EndOK, TcbOK
<1>12. Moved(w, s, v)
  BY DEF Moved, On
<1> HIDE DEF v
<1>13. HasTcb(v, o) /\ Same(w, v) /\ v.t = s
  BY <1>6, <1>11, <1>12, OnProperty
<1> QED BY <1>5, <1>13 DEF v, s

\* The first segment that was not acknowledged is sent again.
LEMMA RetransmitFirstProperty ==
  ASSUME NEW w, NEW o, HasTcb(w, o), Synchronized(w.t)
  PROVE  LET v == RetransmitFirst(w)
         IN  HasTcb(v, o) /\ Same(w, v) /\ Sending(w.t, v.t)
<1> DEFINE t == w.t
           h == w.h
           u == At(w.e, t.una)
           offset == Diff(t.una, t.base)
           n == Lesser(Left(t.tx, offset), Mss)
           v == RetransmitFirst(w)
<1>1. v = IF n > 0 THEN SendTcp(w, t.una, ACK, offset, n) ELSE w
  BY DEF RetransmitFirst
<1>2. /\ u \in Nat /\ u <= 2 + h.wrote
      /\ 2 + h.wrote < Half /\ Half \in Nat /\ Space = 2 * Half
      /\ t.una \in SeqNums /\ t.base \in SeqNums
      /\ At(w.e, t.base) = 1 + h.settled
      /\ t.tx = h.wrote - h.settled /\ t.tx \in Nat
      /\ h.settled = IF u = 0 THEN 0 ELSE Lesser(u - 1, h.wrote)
      /\ h.settled \in Nat /\ h.wrote \in Nat /\ h.settled <= h.wrote
  BY SenderFacts
<1>3. w.e \in Ends /\ Mss \in Nat /\ t.state # "Closed" /\ t.state # "SynSent"
  BY WorkFacts, TcpAssumption DEF TcpAssumption, Synchronized
<1>4. offset \in Nat
  <2>1. offset \in SeqNums
    BY <1>2, DiffProperty
  <2> QED BY <2>1 DEF SeqNums
<1>5. Left(t.tx, offset) \in Nat
  BY <1>2, <1>4, PairProperty
<1> HIDE DEF offset, u
<1>6. n \in Nat /\ n <= Left(t.tx, offset)
  BY <1>3, <1>5, PairProperty
<1> HIDE DEF n, v
<1>7. CASE n > 0
  <2>1. offset < t.tx /\ offset + n <= t.tx
    BY <1>2, <1>4, <1>5, <1>6, <1>7 DEF Left
  <2>2. offset = IF u >= 1 + h.settled THEN u - (1 + h.settled) ELSE (u - (1 + h.settled)) + Space
    BY <1>2, <1>3, ByPosition DEF offset, u
  <2>3. u >= 1 + h.settled /\ offset = u - (1 + h.settled)
    BY <1>2, <2>1, <2>2
  <2>4. t.una = Plus(t.base, offset)
    <3>1. At(w.e, t.base) + offset = u /\ u < Space
      BY <1>2, <2>3
    <3>2. Plus(t.base, offset) \in SeqNums /\ At(w.e, Plus(t.base, offset)) = u
      <4>1. At(w.e, t.base) + offset < Space
        BY <3>1
      <4>2. /\ Plus(t.base, offset) \in SeqNums
            /\ At(w.e, Plus(t.base, offset)) = At(w.e, t.base) + offset
        BY <1>2, <1>3, <1>4, <4>1, SumPosition
      <4> QED BY <3>1, <4>2
    <3> QED BY <1>2, <1>3, <3>2, ByPosition DEF u
  <2>5. ACK \in Flags /\ ~ACK.syn /\ ~ACK.fin
    BY DEF ACK, Flags
  <2>6. Sendable(w, t.una, ACK, offset, n)
    BY <1>2, <1>3, <1>4, <1>6, <2>1, <2>4, <2>5 DEF Sendable
  <2>7. v = SendTcp(w, t.una, ACK, offset, n)
    BY <1>1, <1>7
  <2>8. HasTcb(v, o) /\ Same(w, v) /\ Sending(t, v.t)
    BY <1>3, <2>6, <2>7, SendTcpProperty
  <2> QED BY <2>8 DEF v
<1>8. CASE ~(n > 0)
  BY <1>1, <1>8 DEF Same, Sending, v
<1> QED BY <1>7, <1>8

\* What is acknowledged is forgotten: the numbers of it.
LEMMA ForgottenProperty ==
  ASSUME NEW w, NEW o, HasTcb(w, o), NEW ack \in SeqNums,
         At(w.e, w.t.una) < At(w.e, ack), At(w.e, ack) <= At(w.e, w.t.max)
  PROVE  LET t    == w.t
             h    == w.h
             a    == At(w.e, ack)
             gone == Forgotten(t, ack)
         IN  /\ gone \in Nat /\ h.settled + gone = Lesser(a - 1, h.wrote)
             /\ t.tx - gone = h.wrote - (h.settled + gone) /\ t.tx - gone \in Nat
             /\ Plus(t.base, gone) = Plus(Iss[w.e], 1 + (h.settled + gone))
             /\ Plus(t.base, gone) \in SeqNums
             /\ FinAcked(t, ack) => t.tx - gone = 0
             /\ FinAcked(t, ack) <=> t.finSeq # None /\ At(w.e, t.finSeq) < a
<1> DEFINE t == w.t
           h == w.h
           u == At(w.e, t.una)
           m == At(w.e, t.max)
           f == At(w.e, t.finSeq)
           a == At(w.e, ack)
           gone == Forgotten(t, ack)
<1>1. /\ u \in Nat /\ m \in Nat /\ u <= m /\ m <= 2 + h.wrote
      /\ 2 + h.wrote < Half /\ Half \in Nat /\ Space = 2 * Half
      /\ t.una \in SeqNums /\ t.max \in SeqNums /\ t.base \in SeqNums
      /\ At(w.e, t.base) = 1 + h.settled
      /\ t.tx = h.wrote - h.settled /\ t.tx \in Nat
      /\ h.settled = IF u = 0 THEN 0 ELSE Lesser(u - 1, h.wrote)
      /\ h.settled \in Nat /\ h.wrote \in Nat /\ h.settled <= h.wrote
  BY SenderFacts
<1>2. w.e \in Ends /\ t \in Tcbs /\ Sender(w.e, t, h)
  BY WorkFacts
<1>3. a \in Nat /\ u < a /\ a <= m /\ a < Half
  <2>1. a \in Nat
    BY <1>2, AtProperty DEF SeqNums
  <2> QED BY <1>1, <2>1
<1>4. At(w.e, t.base) < Half /\ At(w.e, ack) < Half
  BY <1>1, <1>3
<1>5. /\ Lt(t.base, ack) <=> 1 + h.settled < a
      /\ a >= 1 + h.settled => Diff(ack, t.base) = a - (1 + h.settled)
  <2>1. Lt(t.base, ack) <=> At(w.e, t.base) < At(w.e, ack)
    BY <1>1, <1>2, <1>4, BelowHalf
  <2>2. At(w.e, ack) >= At(w.e, t.base) => Diff(ack, t.base) = At(w.e, ack) - At(w.e, t.base)
    BY <1>1, <1>2, <1>4, BelowHalf
  <2> QED BY <1>1, <2>1, <2>2
<1>6. gone = IF Lt(t.base, ack) THEN Lesser(Diff(ack, t.base), t.tx) ELSE 0
  BY DEF Forgotten
<1> HIDE DEF u, m, a, gone
<1>7. gone \in Nat /\ h.settled + gone = Lesser(a - 1, h.wrote)
  <2>1. CASE 1 + h.settled < a
    BY <1>1, <1>3, <1>5, <1>6, <2>1 DEF Lesser
  <2>2. CASE ~(1 + h.settled < a)
    BY <1>1, <1>3, <1>5, <1>6, <2>2 DEF Lesser
  <2> QED BY <2>1, <2>2
<1>8. t.tx - gone = h.wrote - (h.settled + gone) /\ t.tx - gone \in Nat
  BY <1>1, <1>3, <1>7 DEF Lesser
<1>9. Plus(t.base, gone) = Plus(Iss[w.e], 1 + (h.settled + gone))
      /\ Plus(t.base, gone) \in SeqNums
  <2>1. At(w.e, t.base) + gone < Space /\ At(w.e, t.base) + gone = 1 + (h.settled + gone)
    BY <1>1, <1>3, <1>7, <1>8
  <2>2. Plus(t.base, gone) \in SeqNums /\ At(w.e, Plus(t.base, gone)) = At(w.e, t.base) + gone
    BY <1>1, <1>2, <1>7, <2>1, SumPosition
  <2> QED BY <1>2, <2>1, <2>2, AtProperty
<1>10. FinAcked(t, ack) <=> t.finSeq # None /\ f < a
  <2>1. CASE t.finSeq = None
    BY <2>1 DEF FinAcked
  <2>2. CASE t.finSeq # None
    <3>1. t.finSeq \in SeqNums
      BY <1>2, <2>2 DEF Tcbs, MaybeSeqNums
    <3>2. f = 1 + h.wrote \/ f = 0
      BY <1>2, <2>2 DEF Sender
    <3>3. f < Half
      BY <1>1, <3>2
    <3>4. Lt(t.finSeq, ack) <=> f < a
      BY <1>2, <1>4, <3>1, <3>3, BelowHalf DEF a
    <3> QED BY <2>2, <3>4 DEF FinAcked
  <2> QED BY <2>1, <2>2
<1>11. FinAcked(t, ack) => t.tx - gone = 0
  <2> SUFFICES ASSUME FinAcked(t, ack) PROVE t.tx - gone = 0
    OBVIOUS
  <2>1. f < a /\ (f = 1 + h.wrote \/ h.wrote = 0)
    BY <1>2, <1>10 DEF Sender
  <2> QED BY <1>1, <1>3, <1>7, <1>8, <2>1 DEF Lesser
<1> QED BY <1>7, <1>8, <1>9, <1>10, <1>11 DEF gone, a, f

\* tcp_acked, up to the retransmission.
AckedTcb(t, ack) ==
  [t EXCEPT !.tx = @ - Forgotten(t, ack), !.base = Plus(@, Forgotten(t, ack)), !.una = ack,
            !.nxt = IF Lt(@, ack) THEN ack ELSE @,
            !.finSent = @ \/ FinAcked(t, ack), !.retries = 0,
            !.rtx = ack # t.max, !.persist = FALSE, !.dupacks = 0,
            !.recover = IF @ # None /\ Le(@, ack) THEN None ELSE @]

\* An acknowledgement of what the peer really took (process_ack) frees only that.
LEMMA AckedCore ==
  ASSUME NEW w, NEW o, HasTcb(w, o), NEW ack \in SeqNums, Synchronized(w.t),
         At(w.e, w.t.una) < At(w.e, ack), At(w.e, ack) <= At(w.e, w.t.max),
         Lesser(Left(At(w.e, ack), 1), w.h.wrote) <= o.took
  PROVE  LET v == [w EXCEPT !.t = AckedTcb(w.t, ack), !.h.settled = @ + Forgotten(w.t, ack)]
         IN  /\ HasTcb(v, o) /\ Onward(w, v) /\ v.t.state = w.t.state
             /\ FinAcked(w.t, ack) => v.t.tx = 0
<1> DEFINE t == w.t
           h == w.h
           u == At(w.e, t.una)
           m == At(w.e, t.max)
           n == At(w.e, t.nxt)
           a == At(w.e, ack)
           gone == Forgotten(t, ack)
           s == AckedTcb(t, ack)
           h2 == [h EXCEPT !.settled = @ + gone]
           next == IF Lt(t.nxt, ack) THEN ack ELSE t.nxt
           rec == IF t.recover # None /\ Le(t.recover, ack) THEN None ELSE t.recover
           v == [w EXCEPT !.t = s, !.h.settled = @ + gone]
           fields == {"tx", "base", "una", "nxt", "finSent", "retries", "rtx", "persist",
                      "dupacks", "recover"}
<1>1. /\ u \in Nat /\ m \in Nat /\ n \in Nat /\ u <= m /\ n <= m /\ m <= 2 + h.wrote
      /\ 2 + h.wrote < Half /\ Half \in Nat
      /\ t.una \in SeqNums /\ t.max \in SeqNums /\ t.nxt \in SeqNums
      /\ t.tx = h.wrote - h.settled /\ t.tx \in Nat
      /\ h.settled \in Nat /\ h.wrote \in Nat /\ h.settled <= h.wrote
  BY SenderFacts
<1>2. w.e \in Ends /\ t \in Tcbs /\ Sender(w.e, t, h) /\ Receiver(w.e, t, h, o) /\ TcbOK(t)
      /\ h.opened /\ h \in Hists /\ w \in Works
  BY WorkFacts DEF HasTcb, WorkOK
<1>3. a \in Nat /\ u < a /\ a <= m /\ a < Half
  <2>1. a \in Nat
    BY <1>2, AtProperty DEF SeqNums
  <2> QED BY <1>1, <2>1
<1>4. /\ gone \in Nat /\ h.settled + gone = Lesser(a - 1, h.wrote)
      /\ t.tx - gone = h.wrote - (h.settled + gone) /\ t.tx - gone \in Nat
      /\ Plus(t.base, gone) = Plus(Iss[w.e], 1 + (h.settled + gone))
      /\ Plus(t.base, gone) \in SeqNums
      /\ FinAcked(t, ack) => t.tx - gone = 0
      /\ FinAcked(t, ack) <=> t.finSeq # None /\ At(w.e, t.finSeq) < a
  BY ForgottenProperty
<1>5. FinAcked(t, ack) \in BOOLEAN /\ (ack # t.max) \in BOOLEAN
  BY DEF FinAcked
<1>6. next \in SeqNums /\ At(w.e, next) = Greater(n, a)
  <2>1. n < Half /\ a < Half
    BY <1>1, <1>3
  <2>2. Lt(t.nxt, ack) <=> n < a
    BY <1>1, <1>2, <2>1, BelowHalf
  <2> QED BY <1>1, <1>3, <2>2 DEF Greater
<1>7. rec \in MaybeSeqNums
  BY <1>2 DEF Tcbs, MaybeSeqNums
<1>8. s = [t EXCEPT !.tx = t.tx - gone, !.base = Plus(t.base, gone), !.una = ack, !.nxt = next,
                    !.finSent = t.finSent \/ FinAcked(t, ack), !.retries = 0,
                    !.rtx = ack # t.max, !.persist = FALSE, !.dupacks = 0, !.recover = rec]
  BY <1>2 DEF AckedTcb, Tcbs
<1> HIDE DEF u, m, n, a, gone, s, next, rec
<1>9. /\ Changed(t, s, fields)
      /\ s.tx = t.tx - gone /\ s.base = Plus(t.base, gone) /\ s.una = ack /\ s.nxt = next
      /\ s.finSent = (t.finSent \/ FinAcked(t, ack)) /\ s.retries = 0 /\ s.rtx = (ack # t.max)
      /\ s.persist = FALSE /\ s.dupacks = 0 /\ s.recover = rec
  BY <1>2, <1>8 DEF Changed, Tcbs
<1>10. s \in Tcbs /\ s # None
  <2>1. /\ s.tx \in Nat /\ s.base \in SeqNums /\ s.una \in SeqNums /\ s.nxt \in SeqNums
        /\ s.rtx \in BOOLEAN /\ s.persist \in BOOLEAN /\ s.recover \in MaybeSeqNums
    BY <1>1, <1>4, <1>5, <1>6, <1>7, <1>9
  <2>2. s.finSent \in BOOLEAN
    BY <1>2, <1>5, <1>9 DEF Tcbs
  <2>3. s.retries \in Retries /\ s.dupacks \in Dups
    BY <1>9, RetriesProperty
  <2>4. \A f \in fields : s[f] \in TcbTypes[f]
    BY <2>1, <2>2, <2>3 DEF TcbTypes
  <2> QED BY <1>2, <1>9, <2>4, TcbKept
<1>11. DOMAIN t = DOMAIN TcbTypes
  BY <1>2, TcbIs
<1>12. /\ s.iss = t.iss /\ s.max = t.max /\ s.finSeq = t.finSeq /\ s.finQueued = t.finQueued
       /\ s.probe = t.probe /\ s.state = t.state
       /\ s.finReceived = t.finReceived /\ s.rnxt = t.rnxt /\ s.adv = t.adv
       /\ s.rxRing = t.rxRing /\ s.rx = t.rx /\ s.asm = t.asm /\ s.txRing = t.txRing
  BY <1>9, <1>11 DEF TcbTypes, Changed
<1>13. /\ h2 \in Hists /\ h2.opened = h.opened /\ h2.wrote = h.wrote /\ h2.shut = h.shut
       /\ h2.took = h.took /\ h2.ended = h.ended /\ h2.settled = h.settled + gone
  <2>1. h.settled + gone \in Nat
    BY <1>1, <1>4
  <2> QED BY <1>2, <2>1 DEF Hists
<1> HIDE DEF h2
<1>14. Fed(h, h2)
  <2>1. h.took \in Nat
    BY <1>2 DEF Hists
  <2> QED BY <1>1, <1>4, <1>13, <2>1 DEF Fed
<1>15. HistOK(w.e, h2, o)
  <2>1. HistOK(w.e, h, o)
    BY DEF HasTcb, WorkOK
  <2>2. Left(a, 1) = a - 1
    BY <1>1, <1>3 DEF Left
  <2>3. h2.settled <= h2.wrote /\ h2.settled <= o.took
    BY <1>1, <1>3, <1>4, <1>13, <2>2 DEF Lesser, a
  <2> QED BY <1>2, <1>13, <2>1, <2>3 DEF HistOK
<1>16. Sender(w.e, s, h2)
  <2> DEFINE f == At(w.e, t.finSeq)
             n2 == At(w.e, s.nxt)
  <2>1. At(w.e, s.una) = a /\ At(w.e, s.max) = m /\ n2 = Greater(n, a) /\ At(w.e, s.finSeq) = f
    BY <1>6, <1>9, <1>12 DEF a, m
  <2>2. /\ m <= 1 + h.wrote + (IF t.finSeq = None THEN 0 ELSE 1)
        /\ n <= 1 + h.wrote \/ t.finSent
        /\ t.finSent => t.finSeq # None
        /\ t.finSeq # None => t.finQueued /\ (f = 1 + h.wrote \/ (f = 0 /\ h.wrote = 0))
        /\ t.iss = Iss[w.e] /\ t.finQueued = h.shut
        /\ t.state \in {"FinWait2", "TimeWait"} => t.tx = 0
    BY <1>2 DEF Sender, m, n
  <2>3. t.state \notin {"SynSent", "SynReceived"}
    BY DEF Synchronized
  <2> HIDE DEF f, n2
  <2>4. n2 <= m /\ ~(n2 < a) /\ n2 \in Nat /\ (n2 = n \/ n2 = a)
    BY <1>1, <1>3, <2>1 DEF Greater
  <2>5. a > 1 + h.wrote => FinAcked(t, ack) /\ ack = t.max
    <3> SUFFICES ASSUME a > 1 + h.wrote PROVE FinAcked(t, ack) /\ ack = t.max
      OBVIOUS
    <3>1. t.finSeq # None /\ a = m
      BY <1>1, <1>3, <2>2
    <3>2. f < a
      BY <1>1, <1>3, <2>2, <3>1
    <3>3. ack = t.max
      BY <1>1, <1>2, <3>1, ByPosition DEF a, m
    <3> QED BY <1>4, <3>1, <3>2, <3>3 DEF f
  <2>6. /\ a > 1 + h.wrote => s.finSent /\ ~s.rtx
        /\ t.finSent => s.finSent
    BY <1>9, <2>5
  <2>7. /\ n2 <= 1 + h.wrote \/ s.finSent
        /\ a = 2 + h.wrote => s.finSent /\ ~s.rtx
    <3>1. a > 1 + h.wrote \/ a <= 1 + h.wrote
      BY <1>1, <1>3
    <3>2. a = 2 + h.wrote => a > 1 + h.wrote
      BY <1>1, <1>3
    <3> QED BY <2>2, <2>4, <2>6, <3>1, <3>2
  <2>8. s.finSent => s.finSeq # None
    BY <1>4, <1>9, <1>12, <2>2
  <2>9. h2.settled = Lesser(a - 1, h2.wrote) /\ a # 0
    BY <1>1, <1>3, <1>4, <1>13
  <2>10. s.state \in {"FinWait2", "TimeWait"} => s.tx = 0
    BY <1>1, <1>4, <1>9, <1>12, <2>2
  <2>11. s.base = Plus(Iss[w.e], 1 + h2.settled) /\ s.tx = h2.wrote - h2.settled
    BY <1>4, <1>9, <1>13
  <2> QED BY <1>3, <1>12, <1>13, <2>1, <2>2, <2>3, <2>4, <2>6, <2>7, <2>8, <2>9, <2>10, <2>11
          DEF Sender, f, n2
<1>17. Receiver(w.e, s, h2, o)
  BY <1>2, <1>12, <1>13 DEF Receiver
<1>18. EndOK(w.e, s, h2, o)
  <2>1. t.tx <= t.txRing /\ t.txRing \in Nat /\ s.tx <= s.txRing /\ Len(s.rx) <= s.rxRing
    BY <1>1, <1>2, <1>4, <1>9, <1>12 DEF TcbOK, Tcbs
  <2> QED BY <1>2, <1>10, <1>13, <1>16, <1>17, <2>1 DEF EndOK, TcbOK
<1>19. v = [w EXCEPT !.t = s, !.h = h2]
  BY <1>2 DEF Works, h2
<1> HIDE DEF v
<1>20. Fits(w, s, h2, v)
  BY <1>2, <1>10, <1>13, <1>19 DEF Works, Fits
<1>21. HasTcb(v, o) /\ Onward(w, v)
  BY <1>10, <1>14, <1>15, <1>18, <1>20, FedProperty
<1>22. v.t = s
  BY <1>20 DEF Fits
<1> QED BY <1>4, <1>9, <1>12, <1>21, <1>22 DEF v, s, gone

\* What the acknowledgement of the end of the stream brings about.
LEMMA AckedCloseProperty ==
  ASSUME NEW e, NEW t, NEW h, NEW o, EndOK(e, t, h, o), t.tx = 0
  PROVE  LET s == AckedClose(t)
         IN  /\ EndOK(e, s, h, o) /\ s \in Tcbs
             /\ s.state # t.state =>
                  \/ t.state = "FinWait1" /\ s.state = "FinWait2"
                  \/ t.state = "Closing" /\ s.state = "TimeWait"
                  \/ t.state = "LastAck" /\ s.state = "Closed"
<1> DEFINE s == AckedClose(t)
<1>1. t \in Tcbs /\ Sender(e, t, h) /\ Receiver(e, t, h, o) /\ TcbOK(t) /\ h.opened
  BY DEF EndOK, TcbOK
<1>2. CASE t.state = "LastAck"
  <2>1. s = CloseWith(t, FALSE)
    BY <1>2 DEF AckedClose
  <2> QED BY <1>2, <2>1, CloseProperty
<1>3. CASE t.state = "FinWait1" \/ t.state = "Closing"
  <2>1. s = IF t.state = "FinWait1"
            THEN [t EXCEPT !.state = "FinWait2", !.closeAt = @ \/ t.released]
            ELSE [t EXCEPT !.state = "TimeWait"]
    BY <1>3 DEF AckedClose
  <2> HIDE DEF s
  <2>2. Changed(t, s, {"state", "closeAt"}) /\ s.closeAt \in BOOLEAN
    <3>1. CASE t.state = "FinWait1"
      BY <1>1, <2>1, <3>1 DEF Changed, Tcbs
    <3>2. CASE t.state = "Closing"
      BY <1>1, <2>1, <3>2 DEF Changed, Tcbs
    <3> QED BY <1>3, <3>1, <3>2
  <2>3. \/ t.state = "FinWait1" /\ s.state = "FinWait2"
        \/ t.state = "Closing" /\ s.state = "TimeWait"
    BY <1>1, <1>3, <2>1 DEF Tcbs
  <2>4. s.state \in States
    BY <2>3 DEF States
  <2>5. s \in Tcbs
    <3>1. \A f \in {"state", "closeAt"} : s[f] \in TcbTypes[f]
      BY <2>2, <2>4 DEF TcbTypes
    <3> QED BY <1>1, <2>2, <3>1, TcbKept
  <2>6. DOMAIN t = DOMAIN TcbTypes
    BY <1>1, TcbIs
  <2>7. /\ s.iss = t.iss /\ s.base = t.base /\ s.tx = t.tx /\ s.una = t.una
        /\ s.nxt = t.nxt /\ s.max = t.max /\ s.finSeq = t.finSeq /\ s.rtx = t.rtx
        /\ s.finSent = t.finSent /\ s.finQueued = t.finQueued /\ s.probe = t.probe
        /\ s.persist = t.persist
        /\ s.finReceived = t.finReceived /\ s.rnxt = t.rnxt /\ s.adv = t.adv
        /\ s.rxRing = t.rxRing /\ s.rx = t.rx /\ s.asm = t.asm /\ s.txRing = t.txRing
    BY <2>2, <2>6 DEF TcbTypes, Changed
  <2>8. Sender(e, s, h)
    BY <1>1, <2>3, <2>7 DEF Sender
  <2>9. Receiver(e, s, h, o)
    BY <1>1, <2>3, <2>7 DEF Receiver
  <2> QED BY <1>1, <2>3, <2>5, <2>7, <2>8, <2>9 DEF EndOK, TcbOK, s
<1>4. CASE t.state \notin {"LastAck", "FinWait1", "Closing"}
  <2>1. s = t
    BY <1>4 DEF AckedClose
  <2> QED BY <1>1, <2>1
<1> QED BY <1>2, <1>3, <1>4

\* A connection that an acknowledgement closes had seen the end of the stream.
GoesOn(v) == Synchronized(v.t) \/ (v.t.state = "Closed" /\ v.h.ended)

\* tcp_acked keeps everything.
LEMMA AckedProperty ==
  ASSUME NEW w, NEW o, HasTcb(w, o), NEW ack \in SeqNums, Synchronized(w.t),
         At(w.e, w.t.una) < At(w.e, ack), At(w.e, ack) <= At(w.e, w.t.max),
         Lesser(Left(At(w.e, ack), 1), w.h.wrote) <= o.took
  PROVE  LET v == Acked(w, ack)
         IN  HasTcb(v, o) /\ Onward(w, v) /\ GoesOn(v)
<1> DEFINE t  == w.t
           w1 == [w EXCEPT !.t = AckedTcb(t, ack), !.h.settled = @ + Forgotten(t, ack)]
           w2 == IF AckedTcb(t, ack).recover # None THEN RetransmitFirst(w1) ELSE w1
           v  == Acked(w, ack)
<1>1. v = IF FinAcked(t, ack) THEN On(w2, AckedClose(w2.t)) ELSE w2
  BY DEF Acked, AckedTcb
<1>2. /\ HasTcb(w1, o) /\ Onward(w, w1) /\ w1.t.state = t.state
      /\ FinAcked(t, ack) => w1.t.tx = 0
  BY AckedCore
<1> HIDE DEF w1, v
<1>3. Synchronized(w1.t)
  BY <1>2 DEF Synchronized
<1>4. /\ HasTcb(RetransmitFirst(w1), o) /\ Same(w1, RetransmitFirst(w1))
      /\ Sending(w1.t, RetransmitFirst(w1).t)
  BY <1>2, <1>3, RetransmitFirstProperty
<1>5. w2.t.state = t.state /\ (FinAcked(t, ack) => w2.t.tx = 0)
      /\ (w2 = w1 \/ w2 = RetransmitFirst(w1))
  BY <1>2, <1>4 DEF Sending
<1> HIDE DEF w2
<1>6. HasTcb(w2, o) /\ Onward(w, w2) /\ Synchronized(w2.t)
  <2>1. w.h \in Hists
    BY WorkFacts
  <2>2. Onward(w, RetransmitFirst(w1))
    BY <1>2, <1>4, <2>1, OnwardProperty
  <2> QED BY <1>2, <1>4, <1>5, <2>2 DEF Synchronized
<1>7. CASE ~FinAcked(t, ack)
  BY <1>1, <1>6, <1>7 DEF v, GoesOn
<1>8. CASE FinAcked(t, ack)
  <2> DEFINE s == AckedClose(w2.t)
  <2>1. v = On(w2, s)
    BY <1>1, <1>8
  <2>2. EndOK(w2.e, w2.t, w2.h, o)
    BY <1>6 DEF HasTcb, WorkOK
  <2>3. /\ EndOK(w2.e, s, w2.h, o) /\ s \in Tcbs
        /\ s.state # w2.t.state =>
             \/ w2.t.state = "FinWait1" /\ s.state = "FinWait2"
             \/ w2.t.state = "Closing" /\ s.state = "TimeWait"
             \/ w2.t.state = "LastAck" /\ s.state = "Closed"
    BY <1>5, <1>8, <2>2, AckedCloseProperty
  <2>4. Moved(w2, s, v)
    BY <2>1 DEF On, Moved
  <2> HIDE DEF s
  <2>5. HasTcb(v, o) /\ Same(w2, v) /\ v.t = s
    BY <1>6, <2>3, <2>4, OnProperty
  <2>6. w2.t.state = "LastAck" => w2.h.ended
    BY <2>2 DEF EndOK, Receiver
  <2>7. w.h \in Hists /\ Onward(w, v)
    BY <1>6, <2>5, WorkFacts, OnwardProperty
  <2>8. GoesOn(v)
    BY <1>6, <2>3, <2>5, <2>6 DEF Synchronized, Same, GoesOn
  <2> QED BY <2>5, <2>7, <2>8 DEF v
<1> QED BY <1>7, <1>8

\* An acknowledgement that acknowledges nothing.
LEMMA DuplicateAckProperty ==
  ASSUME NEW w, NEW o, HasTcb(w, o), Synchronized(w.t)
  PROVE  LET v == DuplicateAck(w)
         IN  HasTcb(v, o) /\ Same(w, v) /\ v.t.state = w.t.state
<1> DEFINE n  == Lesser(w.t.dupacks, DupAcks) + 1
           t  == [w.t EXCEPT !.dupacks = n]
           s  == [t EXCEPT !.recover = t.nxt]
           v  == DuplicateAck(w)
<1>1. v = IF n = DupAcks /\ t.recover = None THEN RetransmitFirst(On(w, s)) ELSE On(w, t)
  BY DEF DuplicateAck
<1>2. w.t \in Tcbs
  BY WorkFacts
<1>3. n \in Dups
  <2>1. w.t.dupacks \in Nat /\ DupAcks \in Nat
    BY <1>2, RetriesProperty DEF Tcbs, Dups
  <2>2. Lesser(w.t.dupacks, DupAcks) \in Nat /\ Lesser(w.t.dupacks, DupAcks) <= DupAcks
    BY <2>1, PairProperty
  <2> QED BY <2>1, <2>2 DEF Dups
<1> HIDE DEF n
<1>4. Changed(w.t, t, {"dupacks"}) /\ t.dupacks = n /\ t.nxt \in SeqNums
  BY <1>2 DEF Changed, Tcbs
<1>5. Changed(w.t, s, {"dupacks", "recover"}) /\ s.dupacks = n /\ s.recover = t.nxt
  BY <1>2 DEF Changed, Tcbs
<1>6. Moved(w, t, On(w, t)) /\ Moved(w, s, On(w, s))
  BY DEF Moved, On
<1> HIDE DEF s, t, v
<1>7. Touched(w.t, t, {"dupacks"})
  BY <1>3, <1>4 DEF Touched, Neutral, TcbTypes
<1>8. Touched(w.t, s, {"dupacks", "recover"})
  <2>1. s.dupacks \in Dups /\ s.recover \in MaybeSeqNums
    BY <1>3, <1>4, <1>5 DEF MaybeSeqNums
  <2> QED BY <1>5, <2>1 DEF Touched, Neutral, TcbTypes
<1>9. HasTcb(On(w, t), o) /\ Same(w, On(w, t)) /\ On(w, t).t.state = w.t.state
  BY <1>6, <1>7, NeutralProperty
<1> DEFINE w1 == On(w, s)
<1>10. HasTcb(w1, o) /\ Same(w, w1) /\ w1.t.state = w.t.state
  BY <1>6, <1>8, NeutralProperty
<1>11. Synchronized(w1.t)
  BY <1>10 DEF Synchronized
<1> HIDE DEF w1
<1>12. HasTcb(RetransmitFirst(w1), o) /\ Same(w1, RetransmitFirst(w1))
       /\ Sending(w1.t, RetransmitFirst(w1).t)
  BY <1>10, <1>11, RetransmitFirstProperty
<1>13. Same(w, RetransmitFirst(w1)) /\ RetransmitFirst(w1).t.state = w.t.state
  BY <1>10, <1>12 DEF Same, Sending
<1>14. v = RetransmitFirst(w1) \/ v = On(w, t)
  BY <1>1 DEF w1
<1> QED BY <1>9, <1>12, <1>13, <1>14 DEF v

\* The window of the segment is taken over.
LEMMA UpdateWindowProperty ==
  ASSUME NEW w, NEW o, HasTcb(w, o), NEW seg \in Segments
  PROVE  LET v == On(w, UpdateWindow(w.t, seg))
         IN  HasTcb(v, o) /\ Same(w, v) /\ v.t.state = w.t.state
<1> DEFINE t == w.t
           s == UpdateWindow(t, seg)
           v == On(w, s)
           most == Greater(t.maxWnd, seg.wnd)
           fields == {"wnd", "maxWnd", "wl1", "wl2", "persist"}
           moves == Lt(t.wl1, seg.seq) \/ (t.wl1 = seg.seq /\ Le(t.wl2, seg.ack))
<1>1. t \in Tcbs /\ w \in Works
  BY WorkFacts DEF HasTcb, WorkOK
<1>2. Moved(w, s, v)
  BY DEF Moved, On
<1>3. CASE moves
  <2>1. s = [t EXCEPT !.wnd = seg.wnd, !.maxWnd = most, !.wl1 = seg.seq, !.wl2 = seg.ack,
                      !.persist = t.persist /\ seg.wnd = 0]
    BY <1>1, <1>3 DEF UpdateWindow, Tcbs
  <2>2. seg.wnd \in Windows /\ most \in Windows /\ seg.seq \in SeqNums /\ seg.ack \in SeqNums
    BY <1>1 DEF Tcbs, Segments, Greater
  <2> HIDE DEF s, most
  <2>3. /\ Changed(t, s, fields) /\ s.wnd = seg.wnd /\ s.maxWnd = most
        /\ s.wl1 = seg.seq /\ s.wl2 = seg.ack /\ s.persist = (t.persist /\ seg.wnd = 0)
    BY <1>1, <2>1 DEF Changed, Tcbs
  <2>4. \A f \in fields : s[f] \in TcbTypes[f]
    <3>1. s.wnd \in Windows /\ s.maxWnd \in Windows /\ s.wl1 \in SeqNums /\ s.wl2 \in SeqNums
      BY <2>2, <2>3
    <3>2. s.persist \in BOOLEAN
      BY <1>1, <2>3 DEF Tcbs
    <3> QED BY <3>1, <3>2 DEF TcbTypes
  <2>5. s.persist \/ s.probe => Probes(w)
    <3>1. DOMAIN t = DOMAIN TcbTypes
      BY <1>1, TcbIs
    <3>2. s.probe = t.probe
      BY <2>3, <3>1 DEF Changed, TcbTypes
    <3> QED BY <2>3, <3>2 DEF Probes
  <2>6. Retimed(w, s, fields)
    BY <2>3, <2>4, <2>5 DEF Retimed, Neutral
  <2> HIDE DEF v
  <2>7. HasTcb(v, o) /\ Same(w, v) /\ v.t.state = t.state
    BY <1>2, <2>6, TimerProperty
  <2> QED BY <2>7 DEF v, s
<1>4. CASE ~moves
  <2>1. v = w
    BY <1>1, <1>4 DEF UpdateWindow, On, Works
  <2> QED BY <2>1 DEF Same
<1> QED BY <1>3, <1>4

\* A window of 0 takes the retries back.
LEMMA RetriesReset ==
  ASSUME NEW w, NEW o, HasTcb(w, o)
  PROVE  LET v == [w EXCEPT !.t.retries = 0]
         IN  /\ HasTcb(v, o) /\ Same(w, v) /\ v.t.state = w.t.state
             /\ v.t.una = w.t.una /\ v.t.max = w.t.max
<1> DEFINE s == [w.t EXCEPT !.retries = 0]
           v == [w EXCEPT !.t.retries = 0]
<1>1. w.t \in Tcbs /\ w \in Works
  BY WorkFacts DEF HasTcb, WorkOK
<1>2. Moved(w, s, v)
  BY <1>1 DEF Moved, Works
<1>3. Changed(w.t, s, {"retries"}) /\ s.retries = 0 /\ s.una = w.t.una /\ s.max = w.t.max
  BY <1>1 DEF Changed, Tcbs
<1> HIDE DEF s, v
<1>4. Touched(w.t, s, {"retries"})
  BY <1>3, RetriesProperty DEF Touched, Neutral, TcbTypes
<1>5. HasTcb(v, o) /\ Same(w, v) /\ v.t = s /\ v.t.state = w.t.state
  BY <1>2, <1>4, NeutralProperty
<1> QED BY <1>3, <1>5 DEF v

-----------------------------------------------------------------------------
(* The bytes of a segment. *)

\* The states in which bytes are taken.
Taking(t) == t.state \in {"Established", "FinWait1", "FinWait2"}

\* Where they go: what is skipped came before, what is kept starts at a distance.
LEMMA PlaceProperty ==
  ASSUME NEW w, NEW o, HasTcb(w, o), Taking(w.t), NEW seg, Arrives(w, o, seg), seg.data # <<>>
  PROVE  \E k \in Nat :
           /\ k + Skip(w.t, seg) = w.h.took + Start(w.t, seg)
           /\ Skip(w.t, seg) \in Nat /\ Start(w.t, seg) \in Nat
           /\ k + Len(seg.data) <= o.wrote
           /\ \A i \in DOMAIN seg.data : seg.data[i] = k + i - 1
<1> DEFINE t == w.t
           h == w.h
           p == Peer(w.e)
<1>1. /\ w.e \in Ends /\ p \in Ends /\ t \in Tcbs /\ Receiver(w.e, t, h, o) /\ h.took <= o.wrote
      /\ o.wrote <= ToWrite[p] /\ h.took \in Nat /\ o.wrote \in Nat
  BY WorkFacts
<1>2. seg.seq \in SeqNums /\ seg.data \in Seq(ByteNums) /\ Len(seg.data) \in Nat
  BY DEF Arrives, Segments
<1>3. PICK k \in Nat : /\ seg.seq = Plus(Iss[p], 1 + k) /\ k + Len(seg.data) <= o.wrote
                       /\ \A i \in DOMAIN seg.data : seg.data[i] = k + i - 1
  BY DEF Arrives, SegOK
<1>4. Half \in Nat /\ Space = 2 * Half /\ ToWrite[p] \in Nat /\ ToWrite[p] + 3 <= Half
  <2>1. RxRing[Peer(p)] \in Nat
    BY <1>1, EndsProperty, HalfProperty
  <2> QED BY <1>1, <2>1, HalfProperty
<1>5. At(p, seg.seq) = 1 + k /\ 1 + k < Half
  <2>1. 1 + k \in SeqNums /\ 1 + k < Half
    BY <1>1, <1>2, <1>3, <1>4 DEF SeqNums
  <2>2. At(p, Plus(Iss[p], 1 + k)) = 1 + k
    BY <1>1, <1>2, <2>1, AtProperty
  <2> QED BY <1>3, <2>1, <2>2
<1>6. t.rnxt \in SeqNums /\ At(p, t.rnxt) = 1 + h.took /\ 1 + h.took < Half
  <2>1. t.state # "SynSent" /\ t.state # "Closed" /\ ~h.ended
    BY <1>1 DEF Receiver, Taking
  <2>2. 1 + h.took + Bit(h.ended) = 1 + h.took
    BY <1>1, <2>1 DEF Bit
  <2>3. t.rnxt = Plus(Iss[p], 1 + h.took)
    BY <1>1, <2>1, <2>2 DEF Receiver
  <2>4. 1 + h.took \in SeqNums /\ 1 + h.took < Half
    BY <1>1, <1>4 DEF SeqNums
  <2> QED BY <1>1, <2>3, <2>4, AtProperty DEF Tcbs
<1>7. Lt(seg.seq, t.rnxt) <=> k < h.took
  <2>1. Lt(seg.seq, t.rnxt) <=> At(p, seg.seq) < At(p, t.rnxt)
    BY <1>1, <1>2, <1>5, <1>6, BelowHalf
  <2> QED BY <1>1, <1>5, <1>6, <2>1
<1>8. CASE k < h.took
  <2>1. Diff(t.rnxt, seg.seq) = h.took - k
    <3>1. At(p, t.rnxt) >= At(p, seg.seq)
      BY <1>1, <1>5, <1>6, <1>8
    <3>2. Diff(t.rnxt, seg.seq) = At(p, t.rnxt) - At(p, seg.seq)
      BY <1>1, <1>2, <1>5, <1>6, <3>1, BelowHalf
    <3> QED BY <1>1, <1>5, <1>6, <3>2
  <2>2. Start(t, seg) = 0 /\ Skip(t, seg) = h.took - k
    BY <1>7, <1>8, <2>1 DEF Start, Skip
  <2>3. k + Skip(t, seg) = h.took + Start(t, seg) /\ Skip(t, seg) \in Nat /\ Start(t, seg) \in Nat
    BY <1>1, <1>8, <2>2
  <2> QED BY <1>3, <2>3
<1>9. CASE ~(k < h.took)
  <2>1. Diff(seg.seq, t.rnxt) = k - h.took
    <3>1. At(p, seg.seq) >= At(p, t.rnxt)
      BY <1>1, <1>5, <1>6, <1>9
    <3>2. Diff(seg.seq, t.rnxt) = At(p, seg.seq) - At(p, t.rnxt)
      BY <1>1, <1>2, <1>5, <1>6, <3>1, BelowHalf
    <3> QED BY <1>1, <1>5, <1>6, <3>2
  <2>2. Start(t, seg) = k - h.took /\ Skip(t, seg) = 0
    BY <1>7, <1>9, <2>1 DEF Start, Skip
  <2>3. k + Skip(t, seg) = h.took + Start(t, seg) /\ Skip(t, seg) \in Nat /\ Start(t, seg) \in Nat
    BY <1>1, <1>9, <2>2
  <2> QED BY <1>3, <2>3
<1> QED BY <1>8, <1>9

\* A part of a sequence.
LEMMA SubSeqProperty ==
  ASSUME NEW S, NEW s \in Seq(S), NEW m \in Nat, NEW n \in Nat, m + n <= Len(s)
  PROVE  LET part == SubSeq(s, m + 1, m + n)
         IN  /\ part \in Seq(S) /\ Len(part) = n
             /\ \A j \in 1 .. n : part[j] = s[m + j] /\ m + j \in DOMAIN s
<1>1. m + 1 \in Int /\ m + n \in Int /\ Len(s) \in Nat /\ DOMAIN s = 1 .. Len(s)
  OBVIOUS
<1>2. \A i \in (m + 1) .. (m + n) : s[i] \in S
  BY <1>1
<1> DEFINE part == SubSeq(s, m + 1, m + n)
<1>3. /\ part \in Seq(S)
      /\ Len(part) = IF m + 1 <= m + n THEN (m + n) - (m + 1) + 1 ELSE 0
      /\ \A i \in 1 .. (m + n) - (m + 1) + 1 : part[i] = s[(m + 1) + i - 1]
  BY <1>1, <1>2, SubSeqProperties
<1> HIDE DEF part
<1>4. ASSUME NEW j \in 1 .. n PROVE part[j] = s[m + j] /\ m + j \in DOMAIN s
  <2>1. (m + 1) + j - 1 = m + j /\ m + j \in 1 .. Len(s) /\ j \in 1 .. (m + n) - (m + 1) + 1
    BY <1>1
  <2> QED BY <1>1, <1>3, <2>1
<1>5. Len(part) = n
  BY <1>3
<1> QED BY <1>3, <1>4, <1>5 DEF part

\* Those kept are the bytes that belong there, and there is room for them.
LEMMA KeptProperty ==
  ASSUME NEW w, NEW o, HasTcb(w, o), Taking(w.t), NEW seg, Arrives(w, o, seg), seg.data # <<>>,
         Skip(w.t, seg) < Len(seg.data)
  PROVE  LET kept == Kept(w.t, seg)
             from == w.h.took + Start(w.t, seg)
         IN  /\ kept \in Seq(Nat) /\ Start(w.t, seg) \in Nat
             /\ \A j \in 1 .. Len(kept) : kept[j] = from + j - 1 /\ from + j - 1 < o.wrote
             /\ kept # <<>> => Start(w.t, seg) + Len(kept) <= RxFree(w.t)
<1> DEFINE t == w.t
           skip == Skip(t, seg)
           start == Start(t, seg)
           len == KeptLen(t, seg)
           data == seg.data
           kept == Kept(t, seg)
<1>1. /\ t \in Tcbs /\ w.h.took \in Nat /\ o.wrote \in Nat /\ TcbOK(t)
  BY WorkFacts
<1>2. data \in Seq(ByteNums) /\ Len(data) \in Nat
  BY DEF Arrives, Segments
<1>3. PICK k \in Nat :
        /\ k + skip = w.h.took + start /\ skip \in Nat /\ start \in Nat
        /\ k + Len(data) <= o.wrote
        /\ \A i \in DOMAIN data : data[i] = k + i - 1
  BY PlaceProperty
<1>4. RxFree(t) \in Nat
  BY <1>1 DEF TcbOK, RxFree, Tcbs
<1>5. len \in Nat /\ len <= Len(data) - skip /\ len <= Left(RxFree(t), start)
  <2>1. Left(RxFree(t), start) \in Nat /\ Len(data) - skip \in Nat
    BY <1>2, <1>3, <1>4, PairProperty
  <2> QED BY <2>1, PairProperty DEF KeptLen
<1>6. kept = SubSeq(data, skip + 1, skip + len)
  BY DEF Kept
<1> HIDE DEF skip, start, len, kept, data
<1>7. /\ kept \in Seq(ByteNums) /\ Len(kept) = len
      /\ \A j \in 1 .. len : kept[j] = data[skip + j] /\ skip + j \in DOMAIN data
  <2>1. skip + len <= Len(data)
    BY <1>2, <1>3, <1>5
  <2>2. skip \in Nat /\ len \in Nat
    BY <1>3, <1>5
  <2>3. /\ SubSeq(data, skip + 1, skip + len) \in Seq(ByteNums)
        /\ Len(SubSeq(data, skip + 1, skip + len)) = len
        /\ \A j \in 1 .. len :
             SubSeq(data, skip + 1, skip + len)[j] = data[skip + j] /\ skip + j \in DOMAIN data
    BY <1>2, <2>1, <2>2, SubSeqProperty
  <2> QED BY <1>6, <2>3
<1>8. ASSUME NEW j \in 1 .. len
      PROVE  kept[j] = w.h.took + start + j - 1 /\ w.h.took + start + j - 1 < o.wrote
             /\ kept[j] \in Nat
  <2>1. kept[j] = k + (skip + j) - 1
    BY <1>3, <1>7
  <2> QED BY <1>1, <1>2, <1>3, <1>5, <2>1
<1>9. kept \in Seq(Nat)
  BY <1>5, <1>7, <1>8
<1>10. kept # <<>> => start + Len(kept) <= RxFree(t)
  <2> SUFFICES ASSUME kept # <<>> PROVE start + Len(kept) <= RxFree(t)
    OBVIOUS
  <2>1. len > 0
    BY <1>5, <1>7
  <2> QED BY <1>3, <1>4, <1>5, <1>7, <2>1 DEF Left
<1> QED BY <1>3, <1>7, <1>8, <1>9, <1>10 DEF kept, start

\* Bytes put aside: each at its place, and with room.
Aside(asm, from, upto, room) ==
  /\ asm = [k \in DOMAIN asm |-> asm[k]] /\ DOMAIN asm \subseteq 0 .. (room - 1)
  /\ \A k \in DOMAIN asm : asm[k] = from + k /\ from + k < upto

\* Putting data aside (Assembler::add) keeps each byte at its own place in the stream.
LEMMA AddedProperty ==
  ASSUME NEW asm, NEW from \in Nat, NEW upto \in Nat, NEW room \in Nat,
         Aside(asm, from, upto, room),
         NEW start \in Nat, NEW data \in Seq(Nat), start + Len(data) <= room,
         \A j \in 1 .. Len(data) : data[j] = from + start + j - 1 /\ from + start + j - 1 < upto
  PROVE  Aside(Added(asm, start, data), from, upto, room)
<1> DEFINE dom == start .. (start + Len(data) - 1)
           new == [o \in dom |-> data[o - start + 1]]
           all == [o \in DOMAIN asm \cup DOMAIN new |-> IF o \in DOMAIN new THEN new[o] ELSE asm[o]]
<1>1. Added(asm, start, data) = IF Runs(DOMAIN all) <= Ranges THEN all ELSE asm
  BY DEF Added
<1>2. Len(data) \in Nat
  OBVIOUS
<1>3. \A o \in dom : new[o] = from + o /\ from + o < upto /\ o \in 0 .. (room - 1)
  <2> SUFFICES ASSUME NEW o \in dom
               PROVE  new[o] = from + o /\ from + o < upto /\ o \in 0 .. (room - 1)
    OBVIOUS
  <2>1. o - start + 1 \in 1 .. Len(data) /\ o \in 0 .. (room - 1)
    BY <1>2
  <2> DEFINE j == o - start + 1
  <2>2. from + start + j - 1 = from + o
    BY <1>2
  <2> HIDE DEF j
  <2>3. data[j] = from + start + j - 1 /\ from + start + j - 1 < upto
    BY <2>1 DEF j
  <2> QED BY <2>1, <2>2, <2>3 DEF j
<1>4. Aside(all, from, upto, room)
  <2>1. DOMAIN all = DOMAIN asm \cup dom /\ DOMAIN new = dom
    OBVIOUS
  <2>2. all = [k \in DOMAIN all |-> all[k]]
    OBVIOUS
  <2>3. \A o \in DOMAIN all : all[o] = IF o \in dom THEN new[o] ELSE asm[o]
    OBVIOUS
  <2> HIDE DEF all, new, dom
  <2>4. DOMAIN all \subseteq 0 .. (room - 1)
    BY <1>3, <2>1 DEF Aside
  <2>5. \A k \in DOMAIN all : all[k] = from + k /\ from + k < upto
    BY <1>3, <2>1, <2>3 DEF Aside
  <2> QED BY <2>2, <2>4, <2>5 DEF Aside
<1> HIDE DEF all
<1> QED BY <1>1, <1>4

\* The bytes in front that are together are taken.
LEMMA FrontProperty ==
  ASSUME NEW asm, NEW from \in Nat, NEW upto \in Nat, NEW room \in Nat, Aside(asm, from, upto, room)
  PROVE  LET n == Front(asm)
         IN  n \in Nat /\ n \notin DOMAIN asm /\ \A j \in 0 .. (n - 1) : j \in DOMAIN asm
<1> DEFINE D == DOMAIN asm
           c == Cardinality(D)
           S == {n \in 0 .. c : n \notin D}
<1>1. D \subseteq 0 .. (room - 1)
  BY DEF Aside
<1>2. IsFiniteSet(D) /\ c \in Nat
  <2>1. IsFiniteSet(0 .. (room - 1))
    BY FS_Interval
  <2>2. IsFiniteSet(D)
    BY <1>1, <2>1, FS_Subset
  <2> QED BY <2>2, FS_CardinalityType
<1>3. S # {}
  <2> SUFFICES ASSUME 0 .. c \subseteq D PROVE FALSE
    OBVIOUS
  <2>1. Cardinality(0 .. c) = c - 0 + 1
    BY <1>2, FS_Interval
  <2>2. Cardinality(0 .. c) <= c
    BY <1>2, FS_Subset
  <2> QED BY <1>2, <2>1, <2>2
<1>4. S \in SUBSET Nat
  BY <1>2
<1>5. Front(asm) = Min(S)
  BY DEF Front
<1> HIDE DEF S
<1>6. Min(S) \in S /\ \A y \in S : Min(S) <= y
  BY <1>3, <1>4, MinProperty
<1> DEFINE n == Min(S)
<1>7. n \in 0 .. c /\ n \notin D
  BY <1>6 DEF S
<1>8. ASSUME NEW j \in 0 .. (n - 1) PROVE j \in D
  <2>1. j \in 0 .. c /\ j \in Nat /\ ~(n <= j)
    BY <1>2, <1>7
  <2>2. j \notin S
    BY <1>6, <2>1
  <2> QED BY <2>1, <2>2 DEF S
<1> HIDE DEF n, c
<1> QED BY <1>2, <1>5, <1>7, <1>8 DEF n

\* What the assembler hands over is the next run of the stream, and the rest stays in place.
LEMMA TakenProperty ==
  ASSUME NEW asm, NEW from \in Nat, NEW upto \in Nat, NEW room \in Nat,
         Aside(asm, from, upto, room),
         from <= upto
  PROVE  LET n    == Front(asm)
             rest == TakenFront(asm)
         IN  /\ n \in Nat /\ n <= room /\ from + n <= upto
             /\ rest = [k \in DOMAIN rest |-> rest[k]]
             /\ \A k \in DOMAIN rest : /\ k \in Nat \ {0} /\ k + n < room
                                       /\ rest[k] = (from + n) + k /\ (from + n) + k < upto
             /\ \A i \in 1 .. n : asm[i - 1] = from + i - 1 /\ from + i - 1 < upto
<1> DEFINE n == Front(asm)
           dom == {i - n : i \in DOMAIN asm \ (0 .. (n - 1))}
           rest == TakenFront(asm)
<1>1. n \in Nat /\ n \notin DOMAIN asm /\ \A j \in 0 .. (n - 1) : j \in DOMAIN asm
  BY FrontProperty
<1>2. /\ DOMAIN asm \subseteq 0 .. (room - 1)
      /\ \A k \in DOMAIN asm : asm[k] = from + k /\ from + k < upto
  BY DEF Aside
<1>3. rest = [o \in dom |-> asm[o + n]]
  BY DEF TakenFront
<1>4. DOMAIN rest = dom /\ rest = [k \in DOMAIN rest |-> rest[k]]
      /\ \A k \in dom : rest[k] = asm[k + n]
  BY <1>3
<1> HIDE DEF n, rest
<1>5. n <= room /\ from + n <= upto
  <2>1. CASE n = 0
    BY <2>1
  <2>2. CASE n # 0
    <3>1. n - 1 \in 0 .. (n - 1)
      BY <1>1, <2>2
    <3>2. n - 1 \in DOMAIN asm
      BY <1>1, <3>1
    <3> QED BY <1>1, <1>2, <3>2
  <2> QED BY <2>1, <2>2
<1>6. ASSUME NEW k \in DOMAIN rest
      PROVE  /\ k \in Nat \ {0} /\ k + n < room
             /\ rest[k] = (from + n) + k /\ (from + n) + k < upto
  <2>1. PICK i \in DOMAIN asm : k = i - n /\ i \notin 0 .. (n - 1)
    BY <1>4
  <2>2. i \in Nat /\ i < room
    BY <1>2, <2>1
  <2>3. i # n
    BY <1>1, <2>1
  <2>4. k \in Nat \ {0} /\ k + n = i
    BY <1>1, <2>1, <2>2, <2>3
  <2>5. rest[k] = asm[i]
    BY <1>4, <2>4
  <2> QED BY <1>1, <1>2, <2>1, <2>2, <2>4, <2>5
<1>7. ASSUME NEW i \in 1 .. n PROVE asm[i - 1] = from + i - 1 /\ from + i - 1 < upto
  <2>1. i - 1 \in 0 .. (n - 1)
    BY <1>1
  <2>2. i - 1 \in DOMAIN asm
    BY <1>1, <2>1
  <2> QED BY <1>1, <1>2, <2>2
<1> QED BY <1>1, <1>4, <1>5, <1>6, <1>7 DEF n, rest

\* The bytes of a segment join those put aside.
LEMMA GatheredProperty ==
  ASSUME NEW w, NEW o, HasTcb(w, o), Taking(w.t), NEW seg, Arrives(w, o, seg), seg.data # <<>>,
         Skip(w.t, seg) < Len(seg.data)
  PROVE  /\ Aside(IF Kept(w.t, seg) = <<>> THEN w.t.asm
                  ELSE Added(w.t.asm, Start(w.t, seg), Kept(w.t, seg)),
                  w.h.took, o.wrote, RxFree(w.t))
         /\ RxFree(w.t) \in Nat
<1> DEFINE t == w.t
           start == Start(t, seg)
           kept == Kept(t, seg)
           room == RxFree(t)
           from == w.h.took
<1>1. /\ w.e \in Ends /\ t \in Tcbs /\ TcbOK(t) /\ Receiver(w.e, t, w.h, o)
      /\ from \in Nat /\ o.wrote \in Nat
  BY WorkFacts
<1>2. room \in Nat /\ room = t.rxRing - Len(t.rx)
  BY <1>1 DEF TcbOK, RxFree, Tcbs
<1>3. Aside(t.asm, from, o.wrote, room)
  <2>1. t.rxRing # 0
    BY <1>1 DEF Receiver, Taking
  <2>2. PICK dom \in SUBSET (1 .. Max(Range(RxRing))) : t.asm \in [dom -> ByteNums]
    BY <1>1 DEF Tcbs, Asms
  <2>3. DOMAIN t.asm = dom /\ t.asm = [k \in dom |-> t.asm[k]]
    BY <2>2
  <2>4. \A k \in dom : /\ t.asm[k] = from + k /\ from + k < o.wrote
                       /\ Len(t.rx) + k < t.rxRing
    BY <1>1, <2>1, <2>3 DEF Receiver
  <2>5. \A k \in dom : k \in 0 .. (room - 1)
    <3> SUFFICES ASSUME NEW k \in dom PROVE k \in 0 .. (room - 1)
      OBVIOUS
    <3>1. k \in 1 .. Max(Range(RxRing)) /\ Max(Range(RxRing)) \in Nat
      BY <2>2, BoundsProperty
    <3>2. Len(t.rx) \in Nat /\ t.rxRing \in Nat
      BY <1>1 DEF Tcbs
    <3> QED BY <1>2, <2>4, <3>1, <3>2
  <2> QED BY <2>3, <2>4, <2>5 DEF Aside
<1>4. /\ kept \in Seq(Nat) /\ start \in Nat
      /\ \A j \in 1 .. Len(kept) : /\ kept[j] = from + start + j - 1
                                   /\ from + start + j - 1 < o.wrote
      /\ kept # <<>> => start + Len(kept) <= room
  <2> DEFINE at == from + start
  <2>1. /\ kept \in Seq(Nat) /\ start \in Nat
        /\ \A j \in 1 .. Len(kept) : kept[j] = at + j - 1 /\ at + j - 1 < o.wrote
        /\ kept # <<>> => start + Len(kept) <= room
    BY KeptProperty
  <2> HIDE DEF kept, start, room, from
  <2>2. \A j \in 1 .. Len(kept) : at + j - 1 = from + start + j - 1
    BY <1>1, <2>1
  <2> QED BY <2>1, <2>2
<1> HIDE DEF kept, start, room, from
<1>5. kept # <<>> => Aside(Added(t.asm, start, kept), from, o.wrote, room)
  BY <1>1, <1>2, <1>3, <1>4, AddedProperty
<1> QED BY <1>2, <1>3, <1>5 DEF kept, start, room, from

\* One sequence after another.
LEMMA ConcatProperty ==
  ASSUME NEW S, NEW s \in Seq(S), NEW t \in Seq(S)
  PROVE  /\ s \o t \in Seq(S) /\ Len(s \o t) = Len(s) + Len(t)
         /\ \A i \in 1 .. Len(s) + Len(t) :
              (s \o t)[i] = IF i <= Len(s) THEN s[i] ELSE t[i - Len(s)]
OBVIOUS

\* What tcp_data does to the ring, and to what was put aside.
TakenTcb(t, asm) ==
  [t EXCEPT !.asm = TakenFront(asm), !.rx = @ \o [i \in 1 .. Front(asm) |-> asm[i - 1]],
            !.rnxt = Plus(@, Front(asm))]

\* Moving the assembler's front into the receive ring extends what was taken, in order.
LEMMA TakenCore ==
  ASSUME NEW w, NEW o, HasTcb(w, o), Taking(w.t), NEW asm,
         Aside(asm, w.h.took, o.wrote, RxFree(w.t)), RxFree(w.t) \in Nat
  PROVE  LET v == [w EXCEPT !.t = TakenTcb(w.t, asm), !.h.took = @ + Front(asm)]
         IN  HasTcb(v, o) /\ Onward(w, v) /\ v.t.state = w.t.state /\ v.t = TakenTcb(w.t, asm)
<1> DEFINE t == w.t
           h == w.h
           p == Peer(w.e)
           n == Front(asm)
           rest == TakenFront(asm)
           new == [i \in 1 .. n |-> asm[i - 1]]
           s == TakenTcb(t, asm)
           h2 == [h EXCEPT !.took = @ + n]
           v == [w EXCEPT !.t = s, !.h.took = @ + n]
           fields == {"asm", "rx", "rnxt"}
<1>1. /\ w.e \in Ends /\ p \in Ends /\ t \in Tcbs /\ TcbOK(t) /\ Receiver(w.e, t, h, o)
      /\ Sender(w.e, t, h) /\ h.opened /\ h \in Hists /\ w \in Works
      /\ h.took \in Nat /\ o.wrote \in Nat /\ h.took <= o.wrote /\ o.wrote <= ToWrite[p]
  BY WorkFacts DEF HasTcb, WorkOK
<1>2. /\ RxFree(t) = t.rxRing - Len(t.rx) /\ Len(t.rx) \in Nat /\ t.rxRing \in Nat
      /\ t.rxRing = RxRing[w.e]
  <2>1. t.rxRing = RxRing[w.e]
    BY <1>1 DEF Receiver, Taking
  <2> QED BY <1>1, <2>1 DEF RxFree, Tcbs
<1>3. /\ n \in Nat /\ n <= RxFree(t) /\ h.took + n <= o.wrote
      /\ rest = [k \in DOMAIN rest |-> rest[k]]
      /\ \A k \in DOMAIN rest : /\ k \in Nat \ {0} /\ k + n < RxFree(t)
                                /\ rest[k] = (h.took + n) + k /\ (h.took + n) + k < o.wrote
      /\ \A i \in 1 .. n : asm[i - 1] = h.took + i - 1 /\ h.took + i - 1 < o.wrote
  BY <1>1, TakenProperty
<1>4. \A j \in Nat : j < o.wrote => j \in ByteNums
  <2>1. 0 .. (ToWrite[p] - 1) \subseteq ByteNums /\ ToWrite[p] \in Nat
    BY <1>1, BoundsProperty, HalfProperty
  <2> QED BY <1>1, <2>1
<1>5. t.state \notin {"SynSent", "Closed", "TimeWait"} /\ ~h.ended
  BY <1>1 DEF Receiver, Taking
<1>6. t.rnxt = Plus(Iss[p], 1 + h.took) /\ At(p, t.adv) <= 1 + h.took + RxRing[w.e]
  <2>1. 1 + h.took + Bit(h.ended) = 1 + h.took
    BY <1>1, <1>5 DEF Bit
  <2>2. 1 + h.took + Bit(h.ended) + RxRing[w.e] = 1 + h.took + RxRing[w.e]
    BY <1>1, <1>5, HalfProperty DEF Bit
  <2> QED BY <1>1, <1>5, <2>1, <2>2 DEF Receiver
<1>7. Plus(t.rnxt, n) \in SeqNums /\ Plus(t.rnxt, n) = Plus(Iss[p], 1 + (h.took + n))
  <2>1. ToWrite[p] + 3 <= Half /\ Half \in Nat /\ Space = 2 * Half /\ ToWrite[p] \in Nat
    <3>1. RxRing[Peer(p)] \in Nat
      BY <1>1, EndsProperty, HalfProperty
    <3> QED BY <1>1, <3>1, HalfProperty
  <2>2. 1 + h.took \in SeqNums /\ (1 + h.took) + n < Space
    BY <1>1, <1>3, <2>1 DEF SeqNums
  <2>3. t.rnxt \in SeqNums
    BY <1>1 DEF Tcbs
  <2>4. At(p, t.rnxt) = 1 + h.took
    <3>1. At(p, Plus(Iss[p], 1 + h.took)) = 1 + h.took
      BY <1>1, <2>2, <2>3, AtProperty
    <3> QED BY <1>6, <3>1
  <2>5. Plus(t.rnxt, n) \in SeqNums /\ At(p, Plus(t.rnxt, n)) = (1 + h.took) + n
    BY <1>1, <1>3, <2>2, <2>3, <2>4, SumPosition
  <2>6. Plus(Iss[p], (1 + h.took) + n) = Plus(t.rnxt, n)
    BY <1>1, <2>5, AtProperty
  <2>7. (1 + h.took) + n = 1 + (h.took + n)
    BY <1>1, <1>3
  <2> QED BY <2>5, <2>6, <2>7
<1>8. rest \in Asms
  <2>1. /\ Max(Range(RxRing)) \in Nat /\ RxRing[w.e] <= Max(Range(RxRing))
        /\ RxRing[w.e] \in Nat
    BY <1>1, BoundsProperty, HalfProperty
  <2>2. \A k \in DOMAIN rest : k \in 1 .. Max(Range(RxRing)) /\ rest[k] \in ByteNums
    <3> SUFFICES ASSUME NEW k \in DOMAIN rest
                 PROVE  k \in 1 .. Max(Range(RxRing)) /\ rest[k] \in ByteNums
      OBVIOUS
    <3>1. /\ k \in Nat \ {0} /\ k + n < RxFree(t)
          /\ rest[k] = (h.took + n) + k /\ (h.took + n) + k < o.wrote
      BY <1>3
    <3> HIDE DEF rest, n
    <3>2. k \in 1 .. Max(Range(RxRing))
      BY <1>2, <1>3, <2>1, <3>1
    <3>3. (h.took + n) + k \in Nat
      BY <1>1, <1>3, <3>1
    <3> QED BY <1>4, <3>1, <3>2, <3>3
  <2> HIDE DEF rest
  <2>3. DOMAIN rest \in SUBSET (1 .. Max(Range(RxRing)))
    BY <2>2
  <2>4. rest \in [DOMAIN rest -> ByteNums]
    BY <1>3, <2>2
  <2> QED BY <2>3, <2>4 DEF Asms
<1>9. /\ new \in Seq(ByteNums) /\ Len(new) = n
      /\ \A i \in 1 .. n : new[i] = h.took + i - 1
  <2> HIDE DEF n
  <2>1. \A i \in 1 .. n : new[i] = h.took + i - 1 /\ new[i] \in ByteNums
    <3> SUFFICES ASSUME NEW i \in 1 .. n PROVE new[i] = h.took + i - 1 /\ new[i] \in ByteNums
      OBVIOUS
    <3>1. new[i] = h.took + i - 1 /\ h.took + i - 1 < o.wrote
      BY <1>3 DEF n
    <3>2. h.took + i - 1 \in Nat
      BY <1>1, <1>3
    <3> QED BY <1>4, <3>1, <3>2
  <2>2. new \in [1 .. n -> ByteNums]
    BY <2>1
  <2> HIDE DEF new
  <2>3. new \in Seq(ByteNums) /\ Len(new) = n
    BY <1>3, <2>2
  <2> QED BY <2>1, <2>3
<1>10. /\ Changed(t, s, fields)
       /\ s.asm = rest /\ s.rx = t.rx \o new /\ s.rnxt = Plus(t.rnxt, n)
  BY <1>1 DEF Changed, Tcbs, TakenTcb
<1> HIDE DEF n, rest, new, s
<1>11. /\ s.rx \in Seq(ByteNums) /\ Len(s.rx) = Len(t.rx) + n
       /\ \A i \in DOMAIN s.rx : s.rx[i] = (h.took + n) - Len(s.rx) + i - 1
  <2>1. t.rx \in Seq(ByteNums) /\ \A i \in DOMAIN t.rx : t.rx[i] = h.took - Len(t.rx) + i - 1
    BY <1>1 DEF Tcbs, Receiver
  <2>2. /\ s.rx \in Seq(ByteNums) /\ Len(s.rx) = Len(t.rx) + n /\ DOMAIN s.rx = 1 .. Len(t.rx) + n
        /\ \A i \in 1 .. Len(t.rx) + n :
             s.rx[i] = IF i <= Len(t.rx) THEN t.rx[i] ELSE new[i - Len(t.rx)]
    <3> DEFINE both == t.rx \o new
    <3>1. new \in Seq(ByteNums) /\ Len(new) = n /\ s.rx = both
      BY <1>9, <1>10
    <3>2. /\ both \in Seq(ByteNums) /\ Len(both) = Len(t.rx) + Len(new)
          /\ \A i \in 1 .. Len(t.rx) + Len(new) :
               both[i] = IF i <= Len(t.rx) THEN t.rx[i] ELSE new[i - Len(t.rx)]
      BY <2>1, <3>1, ConcatProperty
    <3> HIDE DEF both
    <3>3. DOMAIN both = 1 .. Len(both)
      BY <3>2
    <3> QED BY <3>1, <3>2, <3>3
  <2>3. h.took \in Nat /\ n \in Nat /\ Len(t.rx) \in Nat /\ DOMAIN t.rx = 1 .. Len(t.rx)
    BY <1>1, <1>3, <2>1
  <2>4. ASSUME NEW i \in 1 .. Len(t.rx) + n
        PROVE  s.rx[i] = (h.took + n) - Len(s.rx) + i - 1
    <3>1. i \in Int /\ 1 <= i /\ i <= Len(t.rx) + n
      BY <2>3
    <3>2. (h.took + n) - Len(s.rx) + i - 1 = h.took - Len(t.rx) + i - 1
      BY <2>2, <2>3, <3>1
    <3>3. CASE i <= Len(t.rx)
      <4>1. s.rx[i] = t.rx[i] /\ i \in DOMAIN t.rx
        BY <2>2, <2>3, <3>1, <3>3
      <4> QED BY <2>1, <3>2, <4>1
    <3>4. CASE ~(i <= Len(t.rx))
      <4>1. s.rx[i] = new[i - Len(t.rx)] /\ i - Len(t.rx) \in 1 .. n
        BY <2>2, <2>3, <3>1, <3>4
      <4>2. s.rx[i] = h.took + (i - Len(t.rx)) - 1
        BY <1>9, <4>1
      <4>3. h.took + (i - Len(t.rx)) - 1 = h.took - Len(t.rx) + i - 1
        BY <2>3, <3>1
      <4> QED BY <3>2, <4>2, <4>3
    <3> QED BY <3>3, <3>4
  <2> QED BY <2>2, <2>4
<1>12. s \in Tcbs /\ s # None
  <2>1. \A f \in fields : s[f] \in TcbTypes[f]
    <3>1. s.asm \in Asms /\ s.rx \in Seq(ByteNums) /\ s.rnxt \in SeqNums
      BY <1>7, <1>8, <1>10, <1>11
    <3> QED BY <3>1 DEF TcbTypes
  <2> QED BY <1>1, <1>10, <2>1, TcbKept
<1>13. DOMAIN t = DOMAIN TcbTypes
  BY <1>1, TcbIs
<1>14. /\ s.iss = t.iss /\ s.base = t.base /\ s.tx = t.tx /\ s.una = t.una /\ s.nxt = t.nxt
       /\ s.max = t.max /\ s.finSeq = t.finSeq /\ s.finSent = t.finSent
       /\ s.finQueued = t.finQueued /\ s.state = t.state /\ s.rtx = t.rtx /\ s.probe = t.probe
       /\ s.persist = t.persist /\ s.finReceived = t.finReceived /\ s.adv = t.adv
       /\ s.rxRing = t.rxRing /\ s.txRing = t.txRing
  BY <1>10, <1>13 DEF TcbTypes, Changed
<1>15. /\ h2 \in Hists /\ h2.opened = h.opened /\ h2.wrote = h.wrote /\ h2.shut = h.shut
       /\ h2.took = h.took + n /\ h2.ended = h.ended /\ h2.settled = h.settled
  <2>1. h.took + n \in Nat
    BY <1>1, <1>3
  <2> QED BY <1>1, <2>1 DEF Hists
<1>16. v = [w EXCEPT !.t = s, !.h = h2]
  BY <1>1 DEF Works
<1> HIDE DEF h2, v
<1>17. Fed(h, h2)
  <2>1. h.settled \in Nat
    BY <1>1 DEF Hists
  <2> QED BY <1>1, <1>3, <1>5, <1>15, <2>1 DEF Fed
<1>18. HistOK(w.e, h2, o)
  <2>1. HistOK(w.e, h, o)
    BY DEF HasTcb, WorkOK
  <2> QED BY <1>1, <1>3, <1>5, <1>15, <2>1 DEF HistOK
<1>19. Sender(w.e, s, h2)
  BY <1>1, <1>14, <1>15 DEF Sender
<1>20. Receiver(w.e, s, h2, o)
  <2>1. 1 + h2.took + Bit(h2.ended) = 1 + (h.took + n)
    BY <1>1, <1>3, <1>5, <1>15 DEF Bit
  <2>2. s.rnxt = Plus(Iss[p], 1 + h2.took + Bit(h2.ended))
    BY <1>7, <1>10, <2>1
  <2>3. At(p, s.adv) <= 1 + h2.took + Bit(h2.ended) + RxRing[w.e]
    <3>1. At(p, t.adv) \in Int /\ RxRing[w.e] \in Nat
      <4>1. t.adv \in SeqNums
        BY <1>1 DEF Tcbs
      <4> QED BY <1>1, <4>1, AtProperty, HalfProperty DEF SeqNums
    <3>2. At(p, t.adv) <= (1 + (h.took + n)) + RxRing[w.e]
      BY <1>1, <1>3, <1>6, <3>1
    <3>3. (1 + h2.took + Bit(h2.ended)) + RxRing[w.e] = 1 + h2.took + Bit(h2.ended) + RxRing[w.e]
      BY <1>1, <1>3, <1>5, <1>15, <3>1 DEF Bit
    <3> QED BY <1>14, <2>1, <3>2, <3>3
  <2>4. \A k \in DOMAIN s.asm :
          /\ s.asm[k] = h2.took + k /\ h2.took + k < o.wrote
          /\ s.rxRing # 0 => Len(s.rx) + k < s.rxRing
    <3> SUFFICES ASSUME NEW k \in DOMAIN rest
                 PROVE  /\ rest[k] = (h.took + n) + k /\ (h.took + n) + k < o.wrote
                        /\ (Len(t.rx) + n) + k < t.rxRing
      BY <1>10, <1>11, <1>14, <1>15
    <3>1. /\ k \in Nat /\ k + n < RxFree(t)
          /\ rest[k] = (h.took + n) + k /\ (h.took + n) + k < o.wrote
      BY <1>3
    <3> QED BY <1>2, <1>3, <3>1
  <2> QED BY <1>1, <1>5, <1>11, <1>14, <1>15, <2>2, <2>3, <2>4 DEF Receiver
<1>21. EndOK(w.e, s, h2, o)
  <2>1. Len(s.rx) <= s.rxRing /\ s.tx <= s.txRing
    BY <1>1, <1>2, <1>3, <1>11, <1>14 DEF TcbOK
  <2> QED BY <1>1, <1>12, <1>15, <1>19, <1>20, <2>1 DEF EndOK, TcbOK
<1>22. Fits(w, s, h2, v)
  BY <1>1, <1>12, <1>15, <1>16 DEF Works, Fits
<1>23. HasTcb(v, o) /\ Onward(w, v)
  BY <1>12, <1>17, <1>18, <1>21, <1>22, FedProperty
<1>24. v.t = s
  BY <1>22 DEF Fits
<1> QED BY <1>14, <1>23, <1>24 DEF v, s, n

\* tcp_data keeps everything, and the state.
LEMMA DataProperty ==
  ASSUME NEW w, NEW o, HasTcb(w, o), Taking(w.t), NEW seg, Arrives(w, o, seg), seg.data # <<>>
  PROVE  LET v == Data(w, seg)
         IN  HasTcb(v, o) /\ Onward(w, v) /\ v.t.state = w.t.state
<1> DEFINE t == w.t
           v == Data(w, seg)
<1>1. w.e \in Ends /\ t \in Tcbs /\ w \in Works /\ w.h \in Hists
  BY WorkFacts DEF HasTcb, WorkOK
<1>2. CASE Skip(t, seg) >= Len(seg.data)
  <2> DEFINE s == [t EXCEPT !.ackNow = TRUE]
  <2>1. v = [w EXCEPT !.t.ackNow = TRUE]
    BY <1>2 DEF Data
  <2>2. Moved(w, s, v)
    BY <1>1, <2>1 DEF Moved, Works
  <2>3. Changed(t, s, {"ackNow"}) /\ s.ackNow \in BOOLEAN
    BY <1>1 DEF Changed, Tcbs
  <2> HIDE DEF s, v
  <2>4. Touched(t, s, {"ackNow"})
    BY <2>3 DEF Touched, Neutral, TcbTypes
  <2>5. HasTcb(v, o) /\ Same(w, v) /\ v.t.state = t.state
    BY <2>2, <2>4, NeutralProperty
  <2> QED BY <1>1, <2>5, OnwardProperty DEF v
<1>3. CASE ~(Skip(t, seg) >= Len(seg.data))
  <2> DEFINE asm  == IF Kept(t, seg) = <<>> THEN t.asm
                     ELSE Added(t.asm, Start(t, seg), Kept(t, seg))
             n    == Front(asm)
             rest == TakenFront(asm)
             s    == TakenTcb(t, asm)
             w1   == [w EXCEPT !.t = s, !.h.took = @ + n]
             s1   == [s EXCEPT !.ackNow = TRUE]
             s2   == [s EXCEPT !.unacked = 2, !.ackNow = TRUE]
             s3   == [s EXCEPT !.unacked = 1, !.ackAt = TRUE]
             s4   == IF Start(t, seg) > 0 \/ n = 0 \/ rest # NoAsm THEN s1
                     ELSE IF t.unacked >= 1 THEN s2 ELSE s3
  <2>1. v = [w EXCEPT !.t = s4, !.h.took = @ + n]
    BY <1>3 DEF Data, TakenTcb
  <2>2. Skip(t, seg) < Len(seg.data)
    <3>1. Skip(t, seg) \in Nat
      BY PlaceProperty
    <3>2. Len(seg.data) \in Nat
      BY DEF Arrives, Segments
    <3> QED BY <1>3, <3>1, <3>2
  <2>3. Aside(asm, w.h.took, o.wrote, RxFree(t)) /\ RxFree(t) \in Nat
    BY <2>2, GatheredProperty
  <2> HIDE DEF asm
  <2>4. HasTcb(w1, o) /\ Onward(w, w1) /\ w1.t.state = t.state /\ w1.t = s
    BY <2>3, TakenCore
  <2>5. s \in Tcbs /\ w1 \in Works
    <3> HIDE DEF w1, s
    <3> QED BY <2>4, WorkFacts DEF HasTcb, WorkOK
  <2>6. v = [w1 EXCEPT !.t = s4]
    BY <1>1, <2>1 DEF Works
  <2> HIDE DEF v, w1, s, n, rest
  <2>7. Touched(s, s1, {"ackNow"})
    <3>1. Changed(s, s1, {"ackNow"}) /\ s1.ackNow \in BOOLEAN
      BY <2>5 DEF Changed, Tcbs
    <3> HIDE DEF s1
    <3> QED BY <3>1 DEF Touched, Neutral, TcbTypes
  <2>8. Touched(s, s2, {"unacked", "ackNow"})
    <3>1. Changed(s, s2, {"unacked", "ackNow"}) /\ s2.ackNow \in BOOLEAN /\ s2.unacked = 2
      BY <2>5 DEF Changed, Tcbs
    <3> HIDE DEF s2
    <3>2. s2.unacked \in 0 .. 2
      BY <3>1
    <3> QED BY <3>1, <3>2 DEF Touched, Neutral, TcbTypes
  <2>9. Touched(s, s3, {"unacked", "ackAt"})
    <3>1. Changed(s, s3, {"unacked", "ackAt"}) /\ s3.ackAt \in BOOLEAN /\ s3.unacked = 1
      BY <2>5 DEF Changed, Tcbs
    <3> HIDE DEF s3
    <3>2. s3.unacked \in 0 .. 2
      BY <3>1
    <3> QED BY <3>1, <3>2 DEF Touched, Neutral, TcbTypes
  <2>10. s4 = s1 \/ s4 = s2 \/ s4 = s3
    OBVIOUS
  <2> HIDE DEF s1, s2, s3, s4
  <2>11. PICK fields : Touched(w1.t, s4, fields)
    BY <2>4, <2>7, <2>8, <2>9, <2>10
  <2>12. Moved(w1, s4, v)
    BY <2>6 DEF Moved
  <2>13. HasTcb(w1, o)
    BY <2>4
  <2>14. HasTcb(v, o) /\ Same(w1, v) /\ v.t.state = w1.t.state
    BY <2>11, <2>12, <2>13, NeutralProperty
  <2> QED BY <1>1, <2>4, <2>14, OnwardProperty DEF v
<1> QED BY <1>2, <1>3

\* The end of the stream is taken when all that precedes it was.
LEMMA FinDueProperty ==
  ASSUME NEW w, NEW o, HasTcb(w, o), GoesOn(w), NEW seg, Arrives(w, o, seg), FinDue(w.t, seg)
  PROVE  LET t == w.t
             h == w.h
             p == Peer(w.e)
         IN  /\ Taking(t) /\ ~h.ended /\ o.shut /\ h.took = o.wrote
             /\ Plus(t.rnxt, 1) \in SeqNums /\ Plus(t.rnxt, 1) = Plus(Iss[p], 1 + h.took + 1)
<1> DEFINE t == w.t
           h == w.h
           p == Peer(w.e)
<1>1. /\ w.e \in Ends /\ p \in Ends /\ t \in Tcbs /\ Receiver(w.e, t, h, o) /\ h \in Hists
      /\ h.took <= o.wrote /\ o.wrote <= ToWrite[p] /\ h.took \in Nat /\ o.wrote \in Nat
  BY WorkFacts
<1>2. ~h.ended /\ Taking(t)
  <2>1. ~t.finReceived /\ t.finReceived = h.ended
    BY <1>1 DEF FinDue, Receiver
  <2>2. Synchronized(t)
    BY <2>1 DEF GoesOn
  <2>3. t.state # "Closed" /\ t.state \in States
    BY <1>1, <2>2 DEF Synchronized, Tcbs
  <2>4. t.state \notin {"CloseWait", "Closing", "LastAck", "TimeWait"}
    BY <1>1, <2>1, <2>3 DEF Receiver
  <2> QED BY <2>1, <2>2, <2>3, <2>4 DEF Synchronized, States, Taking
<1>3. ToWrite[p] + 3 <= Half /\ Half \in Nat /\ Space = 2 * Half /\ ToWrite[p] \in Nat
      /\ Iss[p] \in SeqNums
  <2>1. RxRing[Peer(p)] \in Nat
    BY <1>1, EndsProperty, HalfProperty
  <2> QED BY <1>1, <2>1, HalfProperty
<1>4. /\ 1 + h.took \in SeqNums /\ 1 + o.wrote \in SeqNums /\ (1 + h.took) + 1 < Space
      /\ 0 \in SeqNums /\ 1 + h.took # 0
  BY <1>1, <1>3 DEF SeqNums
<1>5. t.rnxt = Plus(Iss[p], 1 + h.took) /\ t.rnxt \in SeqNums
  <2>1. t.state # "SynSent" /\ t.state # "Closed"
    BY <1>2 DEF Taking
  <2>2. 1 + h.took + Bit(h.ended) = 1 + h.took
    BY <1>1, <1>2 DEF Bit
  <2> QED BY <1>1, <2>1, <2>2 DEF Receiver, Tcbs
<1>6. \A k \in SeqNums : At(p, Plus(Iss[p], k)) = k
  BY <1>1, <1>3, AtProperty
<1>7. o.shut /\ h.took = o.wrote
  <2>1. /\ o.shut
        /\ \/ seg.seq = Iss[p] /\ seg.data = <<>>
           \/ Plus(seg.seq, Len(seg.data)) = Plus(Iss[p], 1 + o.wrote)
        /\ Plus(seg.seq, Len(seg.data)) = t.rnxt
    BY DEF FinDue, Arrives, SegOK
  <2>2. ASSUME seg.seq = Iss[p], seg.data = <<>> PROVE FALSE
    <3>1. Len(seg.data) = 0
      BY <2>2
    <3>2. Plus(Iss[p], 0) = Plus(Iss[p], 1 + h.took)
      BY <1>5, <2>1, <2>2, <3>1
    <3>3. At(p, Plus(Iss[p], 0)) = 0 /\ At(p, Plus(Iss[p], 1 + h.took)) = 1 + h.took
      BY <1>4, <1>6
    <3> QED BY <1>4, <3>2, <3>3
  <2>3. Plus(Iss[p], 1 + o.wrote) = Plus(Iss[p], 1 + h.took)
    BY <1>5, <2>1, <2>2
  <2>4. 1 + o.wrote = 1 + h.took
    BY <1>4, <1>6, <2>3
  <2> QED BY <1>1, <2>1, <2>4
<1>8. Plus(t.rnxt, 1) \in SeqNums /\ Plus(t.rnxt, 1) = Plus(Iss[p], 1 + h.took + 1)
  <2>1. At(p, t.rnxt) = 1 + h.took
    BY <1>4, <1>5, <1>6
  <2>2. Plus(t.rnxt, 1) \in SeqNums /\ At(p, Plus(t.rnxt, 1)) = (1 + h.took) + 1
    BY <1>1, <1>4, <1>5, <2>1, SumPosition
  <2>3. Plus(Iss[p], (1 + h.took) + 1) = Plus(t.rnxt, 1)
    BY <1>1, <2>2, AtProperty
  <2>4. (1 + h.took) + 1 = 1 + h.took + 1
    BY <1>1
  <2> QED BY <2>2, <2>3, <2>4
<1> QED BY <1>2, <1>7, <1>8

\* An end that was acknowledged leaves no bytes behind.
LEMMA FinAckedProperty ==
  ASSUME NEW w, NEW o, HasTcb(w, o), FinAcked(w.t, w.t.una)
  PROVE  w.t.tx = 0
<1> DEFINE t == w.t
           h == w.h
           u == At(w.e, t.una)
           f == At(w.e, t.finSeq)
<1>1. /\ u \in Nat /\ At(w.e, t.max) \in Nat /\ u <= At(w.e, t.max)
      /\ At(w.e, t.max) <= 2 + h.wrote
      /\ 2 + h.wrote < Half /\ Half \in Nat /\ t.una \in SeqNums
      /\ t.tx = h.wrote - h.settled
      /\ h.settled = IF u = 0 THEN 0 ELSE Lesser(u - 1, h.wrote)
      /\ h.settled \in Nat /\ h.wrote \in Nat
  BY SenderFacts
<1>2. w.e \in Ends /\ t \in Tcbs /\ Sender(w.e, t, h)
  BY WorkFacts
<1>3. t.finSeq \in SeqNums
  BY <1>2 DEF FinAcked, Tcbs, MaybeSeqNums
<1>4. f = 1 + h.wrote \/ (f = 0 /\ h.wrote = 0)
  BY <1>2 DEF FinAcked, Sender
<1>5. f < Half /\ u < Half
  BY <1>1, <1>4
<1>6. f < u
  <2>1. Lt(t.finSeq, t.una)
    BY DEF FinAcked
  <2> QED BY <1>1, <1>2, <1>3, <1>5, <2>1, BelowHalf
<1>7. h.settled = h.wrote
  <2>1. u # 0
    BY <1>1, <1>4, <1>6
  <2>2. u - 1 >= h.wrote
    BY <1>1, <1>4, <1>6
  <2>3. h.settled = Lesser(u - 1, h.wrote)
    BY <1>1, <2>1
  <2> HIDE DEF u
  <2> QED BY <1>1, <2>2, <2>3 DEF Lesser
<1> QED BY <1>1, <1>7

\* The end of the stream arrives, or something else.
LEMMA FinArrivesProperty ==
  ASSUME NEW w, NEW o, HasTcb(w, o), GoesOn(w), NEW seg, Arrives(w, o, seg)
  PROVE  LET v == FinArrives(w, seg) IN HasTcb(v, o) /\ Onward(w, v)
<1> DEFINE t == w.t
           h == w.h
           p == Peer(w.e)
           next == CASE t.state = "Established" -> "CloseWait"
                     [] t.state = "FinWait1" ->
                          IF FinAcked(t, t.una) THEN "TimeWait" ELSE "Closing"
                     [] t.state = "FinWait2" -> "TimeWait"
                     [] OTHER -> t.state
           s == [t EXCEPT !.rnxt = Plus(@, 1), !.finReceived = TRUE, !.ackNow = TRUE,
                          !.state = next]
           h2 == [h EXCEPT !.ended = TRUE]
           v == FinArrives(w, seg)
           fields == {"rnxt", "finReceived", "ackNow", "state"}
<1>1. /\ w.e \in Ends /\ p \in Ends /\ t \in Tcbs /\ TcbOK(t) /\ Receiver(w.e, t, h, o)
      /\ Sender(w.e, t, h) /\ h.opened /\ h \in Hists /\ w \in Works
      /\ h.took \in Nat /\ o.wrote \in Nat
  BY WorkFacts DEF HasTcb, WorkOK
<1>2. CASE ~FinDue(t, seg)
  <2>1. v = w
    BY <1>2 DEF FinArrives
  <2> QED BY <1>1, <2>1, OnwardProperty DEF Same
<1>3. CASE FinDue(t, seg)
  <2>1. /\ Taking(t) /\ ~h.ended /\ o.shut /\ h.took = o.wrote
        /\ Plus(t.rnxt, 1) \in SeqNums /\ Plus(t.rnxt, 1) = Plus(Iss[p], 1 + h.took + 1)
    BY <1>3, FinDueProperty
  <2>2. v = [w EXCEPT !.t = s, !.h = h2]
    BY <1>1, <1>3 DEF FinArrives, Works
  <2>3. /\ next \in {"CloseWait", "Closing", "TimeWait"}
        /\ next = "CloseWait" => t.state = "Established"
        /\ next = "TimeWait" => t.tx = 0
    <3>1. t.state = "FinWait2" => t.tx = 0
      BY <1>1 DEF Sender
    <3>2. FinAcked(t, t.una) => t.tx = 0
      BY FinAckedProperty
    <3>3. CASE t.state = "Established"
      BY <3>3
    <3>4. CASE t.state = "FinWait1"
      BY <3>2, <3>4
    <3>5. CASE t.state = "FinWait2"
      BY <3>1, <3>5
    <3> QED BY <2>1, <3>3, <3>4, <3>5 DEF Taking
  <2> HIDE DEF v, next
  <2>4. /\ Changed(t, s, fields) /\ s.rnxt = Plus(t.rnxt, 1) /\ s.finReceived = TRUE
        /\ s.ackNow = TRUE /\ s.state = next
    BY <1>1 DEF Changed, Tcbs
  <2> HIDE DEF s
  <2>5. s \in Tcbs /\ s # None
    <3>1. s.rnxt \in SeqNums /\ s.finReceived \in BOOLEAN /\ s.ackNow \in BOOLEAN
          /\ s.state \in States
      BY <2>1, <2>3, <2>4 DEF States
    <3>2. \A f \in fields : s[f] \in TcbTypes[f]
      BY <3>1 DEF TcbTypes
    <3> QED BY <1>1, <2>4, <3>2, TcbKept
  <2>6. DOMAIN t = DOMAIN TcbTypes
    BY <1>1, TcbIs
  <2>7. /\ s.iss = t.iss /\ s.base = t.base /\ s.tx = t.tx /\ s.una = t.una /\ s.nxt = t.nxt
        /\ s.max = t.max /\ s.finSeq = t.finSeq /\ s.finSent = t.finSent
        /\ s.finQueued = t.finQueued /\ s.rtx = t.rtx /\ s.probe = t.probe
        /\ s.persist = t.persist /\ s.adv = t.adv /\ s.rx = t.rx /\ s.asm = t.asm
        /\ s.rxRing = t.rxRing /\ s.txRing = t.txRing
    BY <2>4, <2>6 DEF TcbTypes, Changed
  <2>8. /\ h2 \in Hists /\ h2.opened = h.opened /\ h2.wrote = h.wrote /\ h2.shut = h.shut
        /\ h2.took = h.took /\ h2.ended = TRUE /\ h2.settled = h.settled
    BY <1>1 DEF Hists
  <2> HIDE DEF h2
  <2>9. Fed(h, h2)
    <3>1. h.settled \in Nat
      BY <1>1 DEF Hists
    <3> QED BY <1>1, <2>1, <2>8, <3>1 DEF Fed
  <2>10. HistOK(w.e, h2, o)
    <3>1. HistOK(w.e, h, o)
      BY DEF HasTcb, WorkOK
    <3> QED BY <1>1, <2>1, <2>8, <3>1 DEF HistOK
  <2>11. Sender(w.e, s, h2)
    <3>1. s.state \notin {"SynSent", "SynReceived", "FinWait2", "Established"}
      BY <2>3, <2>4
    <3>2. s.state = "TimeWait" => t.tx = 0
      BY <2>3, <2>4
    <3>3. At(w.e, t.una) = 0 => h.wrote = 0 /\ s.state # "CloseWait"
      BY <1>1, <2>3, <2>4 DEF Sender
    <3> QED BY <1>1, <2>7, <2>8, <3>1, <3>2, <3>3 DEF Sender
  <2>12. Receiver(w.e, s, h2, o)
    <3>1. Bit(h2.ended) = 1 /\ Bit(h.ended) = 0
      BY <2>1, <2>8 DEF Bit
    <3>2. s.rnxt = Plus(Iss[p], 1 + h2.took + Bit(h2.ended))
      BY <2>1, <2>4, <2>8, <3>1
    <3>3. At(p, s.adv) <= 1 + h2.took + Bit(h2.ended) + RxRing[w.e]
      <4>1. At(p, t.adv) \in Int /\ RxRing[w.e] \in Nat
        <5>1. t.adv \in SeqNums
          BY <1>1 DEF Tcbs
        <5> QED BY <1>1, <5>1, AtProperty, HalfProperty DEF SeqNums
      <4>2. At(p, t.adv) <= 1 + h.took + 0 + RxRing[w.e]
        BY <1>1, <2>1, <3>1 DEF Receiver, Taking
      <4>3. At(p, t.adv) <= 1 + h.took + 1 + RxRing[w.e]
        BY <1>1, <4>1, <4>2
      <4> QED BY <2>7, <2>8, <3>1, <4>3
    <3>4. s.state \notin {"SynSent", "Closed"} /\ s.state \in {"CloseWait", "Closing", "TimeWait"}
      BY <2>3, <2>4
    <3>5. t.rxRing # 0
      BY <1>1, <2>1 DEF Receiver, Taking
    <3>6. /\ s.rx = t.rx /\ s.asm = t.asm /\ s.rxRing = t.rxRing /\ s.finReceived = TRUE
          /\ h2.ended = TRUE /\ h2.took = h.took
      BY <2>4, <2>7, <2>8
    <3>7. /\ t.rxRing \in {0, RxRing[w.e]}
          /\ \A i \in DOMAIN t.rx : t.rx[i] = h.took - Len(t.rx) + i - 1
          /\ \A k \in DOMAIN t.asm : /\ t.asm[k] = h.took + k /\ h.took + k < o.wrote
                                     /\ t.rxRing # 0 => Len(t.rx) + k < t.rxRing
      BY <1>1 DEF Receiver
    <3>8. /\ s.state # "SynSent" /\ s.state # "Closed"
          /\ s.state \in {"CloseWait", "Closing", "LastAck", "TimeWait"}
          /\ s.rxRing # 0
      BY <3>4, <3>5, <3>6
    <3> HIDE DEF p
    <3> QED BY <3>2, <3>3, <3>6, <3>7, <3>8 DEF Receiver, p
  <2>13. EndOK(w.e, s, h2, o)
    BY <1>1, <2>5, <2>7, <2>8, <2>11, <2>12 DEF EndOK, TcbOK
  <2>14. Fits(w, s, h2, v)
    BY <1>1, <2>2, <2>5, <2>8 DEF Works, Fits
  <2>15. HasTcb(v, o) /\ Onward(w, v)
    BY <2>5, <2>9, <2>10, <2>13, <2>14, FedProperty
  <2> QED BY <2>15 DEF v
<1> QED BY <1>2, <1>3

\* A connection that lingers awaits nothing but the time.
LEMMA LingeringProperty ==
  ASSUME NEW w, NEW o, HasTcb(w, o)
  PROVE  LET v == On(w, Lingering(w.t)) IN HasTcb(v, o) /\ Same(w, v)
<1> DEFINE t == w.t
           s == [t EXCEPT !.closeAt = TRUE, !.rtx = FALSE]
           v == On(w, Lingering(t))
<1>1. /\ w \in Works /\ t \in Tcbs /\ TcbOK(t) /\ Receiver(w.e, t, w.h, o)
      /\ Sender(w.e, t, w.h) /\ w.h.opened
  BY WorkFacts DEF HasTcb, WorkOK
<1>2. CASE t.state # "TimeWait"
  <2>1. v = w
    BY <1>1, <1>2 DEF Lingering, On, Works
  <2> QED BY <2>1 DEF Same
<1>3. CASE t.state = "TimeWait"
  <2>1. Moved(w, s, v)
    BY <1>3 DEF Moved, On, Lingering
  <2>2. Changed(t, s, {"closeAt", "rtx"}) /\ s.closeAt \in BOOLEAN /\ s.rtx = FALSE
    BY <1>1 DEF Changed, Tcbs
  <2> HIDE DEF s, v
  <2>3. s \in Tcbs
    <3>1. s.rtx \in BOOLEAN
      BY <2>2
    <3>2. \A f \in {"closeAt", "rtx"} : s[f] \in TcbTypes[f]
      BY <2>2, <3>1 DEF TcbTypes
    <3> QED BY <1>1, <2>2, <3>2, TcbKept
  <2>4. DOMAIN t = DOMAIN TcbTypes
    BY <1>1, TcbIs
  <2>5. /\ s.iss = t.iss /\ s.base = t.base /\ s.tx = t.tx /\ s.una = t.una /\ s.nxt = t.nxt
        /\ s.max = t.max /\ s.finSeq = t.finSeq /\ s.finSent = t.finSent
        /\ s.finQueued = t.finQueued /\ s.probe = t.probe /\ s.state = t.state
        /\ s.persist = t.persist /\ s.adv = t.adv /\ s.rx = t.rx /\ s.asm = t.asm
        /\ s.rxRing = t.rxRing /\ s.txRing = t.txRing /\ s.finReceived = t.finReceived
        /\ s.rnxt = t.rnxt
    BY <2>2, <2>4 DEF TcbTypes, Changed
  <2>6. Sender(w.e, s, w.h)
    BY <1>1, <2>2, <2>5 DEF Sender
  <2>7. Receiver(w.e, s, w.h, o)
    BY <1>1, <2>5, ReceiverSame
  <2>8. EndOK(w.e, s, w.h, o)
    BY <1>1, <2>3, <2>5, <2>6, <2>7 DEF EndOK, TcbOK
  <2>9. HasTcb(v, o) /\ Same(w, v)
    BY <2>1, <2>3, <2>8, OnProperty
  <2> QED BY <2>9 DEF v
<1> QED BY <1>2, <1>3

\* The numbers an acknowledgement lies between.
LEMMA BetweenProperty ==
  ASSUME NEW w, NEW o, HasTcb(w, o), NEW seg, Arrives(w, o, seg), seg.flags.acks, ~seg.flags.rst,
         ~Lt(w.t.max, seg.ack)
  PROVE  /\ At(w.e, seg.ack) <= At(w.e, w.t.max)
         /\ Lt(w.t.una, seg.ack) => At(w.e, w.t.una) < At(w.e, seg.ack)
         /\ seg.ack \in SeqNums /\ Lesser(Left(At(w.e, seg.ack), 1), w.h.wrote) <= o.took
<1> DEFINE a == At(w.e, seg.ack)
           u == At(w.e, w.t.una)
           m == At(w.e, w.t.max)
<1>1. /\ u \in Nat /\ m \in Nat /\ u <= m /\ m <= 2 + w.h.wrote
      /\ 2 + w.h.wrote < Half /\ Half \in Nat /\ w.t.una \in SeqNums /\ w.t.max \in SeqNums
      /\ w.h.wrote \in Nat
  BY SenderFacts
<1>2. seg.ack \in SeqNums /\ a \in Nat /\ a < Half /\ Lesser(Left(a, 1), w.h.wrote) <= o.took
  BY AckProperty
<1>3. w.e \in Ends
  BY WorkFacts
<1>4. m < Half /\ u < Half
  BY <1>1
<1>5. Lt(w.t.max, seg.ack) <=> m < a
  BY <1>1, <1>2, <1>3, <1>4, BelowHalf
<1>6. Lt(w.t.una, seg.ack) <=> u < a
  BY <1>1, <1>2, <1>3, <1>4, BelowHalf
<1> QED BY <1>1, <1>2, <1>5, <1>6

\* What follows the tests of tcp_process keeps everything.
LEMMA AcknowledgedProperty ==
  ASSUME NEW w, NEW o, HasTcb(w, o), Synchronized(w.t),
         NEW seg, Arrives(w, o, seg), seg.flags.acks, ~seg.flags.rst
  PROVE  LET v == Acknowledged(w, seg) IN HasTcb(v, o) /\ Onward(w, v)
<1> DEFINE t  == w.t
           w0 == [w EXCEPT !.t.retries = 0]
           w1 == IF seg.wnd = 0 THEN w0 ELSE w
           w2 == IF Lt(t.una, seg.ack) THEN Acked(w1, seg.ack)
                 ELSE IF Duplicate(t, seg) THEN DuplicateAck(w1) ELSE w1
           w3 == On(w2, UpdateWindow(w2.t, seg))
           w4 == IF seg.data # <<>> /\ w3.t.state \in {"Established", "FinWait1", "FinWait2"}
                 THEN Data(w3, seg) ELSE w3
           w5 == FinArrives(w4, seg)
           w6 == On(w5, Lingering(w5.t))
           late == Lt(t.max, seg.ack) \/ Lt(seg.ack, (t.una - t.maxWnd) % Space)
           v == Acknowledged(w, seg)
<1>1. v = IF late THEN AckNow(w) ELSE Output(w6)
  BY DEF Acknowledged
<1>2. w.h \in Hists /\ seg \in Segments /\ seg.ack \in SeqNums
  BY WorkFacts DEF Arrives, Segments
<1>3. CASE late
  <2>1. HasTcb(AckNow(w), o) /\ Same(w, AckNow(w))
    BY AckNowProperty
  <2> QED BY <1>1, <1>2, <1>3, <2>1, OnwardProperty
<1>4. CASE ~late
  <2>1. /\ HasTcb(w1, o) /\ Same(w, w1) /\ w1.t.state = t.state
        /\ w1.t.una = t.una /\ w1.t.max = t.max
    <3>1. /\ HasTcb(w0, o) /\ Same(w, w0) /\ w0.t.state = t.state
          /\ w0.t.una = t.una /\ w0.t.max = t.max
      BY RetriesReset
    <3>2. Same(w, w)
      BY DEF Same
    <3> HIDE DEF w0
    <3> QED BY <3>1, <3>2
  <2> HIDE DEF w1
  <2>2. Synchronized(w1.t) /\ Onward(w, w1) /\ w1.e = w.e /\ w1.h = w.h
    BY <1>2, <2>1, OnwardProperty DEF Synchronized, Same
  <2>3. HasTcb(w2, o) /\ Onward(w1, w2) /\ GoesOn(w2)
    <3>1. CASE Lt(t.una, seg.ack)
      <4>1. /\ At(w.e, seg.ack) <= At(w.e, t.max) /\ At(w.e, t.una) < At(w.e, seg.ack)
            /\ Lesser(Left(At(w.e, seg.ack), 1), w.h.wrote) <= o.took
        BY <1>4, <3>1, BetweenProperty
      <4>2. /\ At(w1.e, seg.ack) <= At(w1.e, w1.t.max) /\ At(w1.e, w1.t.una) < At(w1.e, seg.ack)
            /\ Lesser(Left(At(w1.e, seg.ack), 1), w1.h.wrote) <= o.took
        BY <2>1, <2>2, <4>1
      <4> DEFINE x == Acked(w1, seg.ack)
      <4>3. HasTcb(x, o) /\ Onward(w1, x) /\ GoesOn(x)
        BY <1>2, <2>1, <2>2, <4>2, AckedProperty
      <4>4. w2 = x
        BY <3>1
      <4> HIDE DEF x, w2
      <4> QED BY <4>3, <4>4
    <3>2. CASE ~Lt(t.una, seg.ack) /\ Duplicate(t, seg)
      <4> DEFINE x == DuplicateAck(w1)
      <4>1. HasTcb(x, o) /\ Same(w1, x) /\ x.t.state = w1.t.state
        BY <2>1, <2>2, DuplicateAckProperty
      <4>2. w2 = x
        BY <3>2
      <4> HIDE DEF x, w2
      <4>3. Onward(w1, x) /\ GoesOn(x)
        BY <1>2, <2>2, <4>1, OnwardProperty DEF Synchronized, GoesOn
      <4> QED BY <4>1, <4>2, <4>3
    <3>3. CASE ~Lt(t.una, seg.ack) /\ ~Duplicate(t, seg)
      <4>1. w2 = w1
        BY <3>3
      <4>2. Same(w1, w1)
        BY DEF Same
      <4> HIDE DEF w2
      <4> QED BY <1>2, <2>1, <2>2, <4>1, <4>2, OnwardProperty DEF GoesOn
    <3> QED BY <3>1, <3>2, <3>3
  <2> HIDE DEF w2
  <2>4. HasTcb(w3, o) /\ Same(w2, w3) /\ w3.t.state = w2.t.state
    BY <1>2, <2>3, UpdateWindowProperty
  <2> HIDE DEF w3
  <2>5. w2.h \in Hists /\ w3.h \in Hists /\ GoesOn(w3) /\ Onward(w2, w3)
    <3>1. w2.h \in Hists
      BY <2>3, WorkFacts
    <3>2. w3.h \in Hists
      BY <2>4, WorkFacts
    <3>3. GoesOn(w3)
      BY <2>3, <2>4 DEF GoesOn, Synchronized, Same
    <3> QED BY <2>4, <3>1, <3>2, <3>3, OnwardProperty
  <2>6. w3.e = w.e /\ Arrives(w3, o, seg)
    BY <2>2, <2>3, <2>4 DEF Same, Onward, Arrives
  <2>7. HasTcb(w4, o) /\ Onward(w3, w4) /\ GoesOn(w4) /\ w4.e = w.e
    <3>1. CASE seg.data # <<>> /\ w3.t.state \in {"Established", "FinWait1", "FinWait2"}
      <4> DEFINE x == Data(w3, seg)
      <4>1. HasTcb(x, o) /\ Onward(w3, x) /\ x.t.state = w3.t.state
        BY <2>4, <2>6, <3>1, DataProperty DEF Taking
      <4>2. w4 = x
        BY <3>1
      <4> HIDE DEF x, w4
      <4> QED BY <2>6, <3>1, <4>1, <4>2 DEF GoesOn, Synchronized, Onward
    <3>2. CASE ~(seg.data # <<>> /\ w3.t.state \in {"Established", "FinWait1", "FinWait2"})
      <4>1. w4 = w3
        BY <3>2
      <4>2. Same(w3, w3)
        BY DEF Same
      <4> HIDE DEF w4
      <4> QED BY <2>4, <2>5, <2>6, <4>1, <4>2, OnwardProperty
    <3> QED BY <3>1, <3>2
  <2> HIDE DEF w4
  <2>8. HasTcb(w5, o) /\ Onward(w4, w5)
    <3>1. Arrives(w4, o, seg)
      BY <2>7 DEF Arrives
    <3> QED BY <2>7, <3>1, FinArrivesProperty
  <2> HIDE DEF w5
  <2>9. HasTcb(w6, o) /\ Same(w5, w6)
    BY <2>8, LingeringProperty
  <2> HIDE DEF w6
  <2>10. HasTcb(Output(w6), o) /\ Same(w6, Output(w6))
    BY <2>9, OutputProperty
  <2>11. w4.h \in Hists /\ w5.h \in Hists
    BY <2>7, <2>8, WorkFacts
  <2>12. Onward(w, w2)
    BY <1>2, <2>2, <2>3, OnwardProperty
  <2>13. Onward(w, w3)
    BY <1>2, <2>4, <2>12, OnwardProperty
  <2>14. Onward(w, w4)
    BY <1>2, <2>7, <2>13, OnwardProperty
  <2>15. Onward(w, w5)
    BY <1>2, <2>8, <2>14, OnwardProperty
  <2>16. Onward(w, w6)
    BY <1>2, <2>9, <2>15, OnwardProperty
  <2>17. Onward(w, Output(w6))
    BY <1>2, <2>10, <2>16, OnwardProperty
  <2> HIDE DEF v
  <2>18. v = Output(w6)
    BY <1>1, <1>4
  <2> QED BY <2>10, <2>17, <2>18 DEF v
<1> QED BY <1>3, <1>4

\* tcp_process keeps everything.
LEMMA ProcessProperty ==
  ASSUME NEW w, NEW o, HasTcb(w, o), w.t.state # "Closed", NEW seg0, Arrives(w, o, seg0)
  PROVE  LET v == Process(w, seg0) IN HasTcb(v, o) /\ Onward(w, v)
<1> DEFINE t == w.t
           seg == Trimmed(t, seg0)
           w1 == On(w, Establish(t, seg))
           w2 == IF t.state = "SynReceived" THEN w1 ELSE w
           v == Process(w, seg0)
           bad == t.state = "SynReceived" /\ ~(Lt(t.una, seg.ack) /\ Le(seg.ack, t.max))
<1>1. w.h \in Hists /\ t \in Tcbs /\ WorkOK(w, o) /\ t # None
  BY WorkFacts DEF HasTcb
<1>2. /\ Arrives(w, o, seg) /\ seg.flags.acks = seg0.flags.acks
      /\ seg.flags.rst = seg0.flags.rst /\ seg \in Segments
  BY TrimmedProperty DEF Arrives
<1> HIDE DEF seg
<1>3. ASSUME NEW x, HasTcb(x, o), Same(w, x) PROVE HasTcb(x, o) /\ Onward(w, x)
  BY <1>1, <1>3, OnwardProperty
<1>4. HasTcb(w, o) /\ Onward(w, w)
  <2>1. Same(w, w)
    BY DEF Same
  <2> QED BY <1>3, <2>1
<1>5. HasTcb(AckNow(w), o) /\ Onward(w, AckNow(w))
  <2>1. HasTcb(AckNow(w), o) /\ Same(w, AckNow(w))
    BY AckNowProperty
  <2> QED BY <1>3, <2>1
<1>6. CASE t.state = "SynSent"
  <2> DEFINE x == SynSentInput(w, seg0)
  <2>1. HasTcb(x, o) /\ Same(w, x)
    BY <1>6, SynSentInputProperty
  <2>2. v = x
    BY <1>6 DEF Process
  <2> HIDE DEF x, v
  <2>3. HasTcb(v, o) /\ Onward(w, v)
    BY <1>3, <2>1, <2>2
  <2> QED BY <2>3 DEF v
<1>7. CASE t.state # "SynSent" /\ ~Acceptable(t, seg)
  <2>1. v = w \/ v = AckNow(w)
    BY <1>7 DEF Process, seg
  <2> HIDE DEF v
  <2>2. HasTcb(v, o) /\ Onward(w, v)
    BY <1>4, <1>5, <2>1
  <2> QED BY <2>2 DEF v
<1>8. CASE t.state # "SynSent" /\ Acceptable(t, seg) /\ seg.flags.rst
  <2> DEFINE x == On(w, ResetBy(t))
  <2>1. HasTcb(x, o) /\ Same(w, x)
    BY ResetByProperty
  <2>2. v = AckNow(w) \/ v = x
    BY <1>8 DEF Process, seg
  <2> HIDE DEF x, v
  <2>3. HasTcb(v, o) /\ Onward(w, v)
    BY <1>3, <1>5, <2>1, <2>2
  <2> QED BY <2>3 DEF v
<1>9. CASE t.state # "SynSent" /\ Acceptable(t, seg) /\ ~seg.flags.rst
           /\ (seg.flags.syn \/ ~seg.flags.acks)
  <2>1. v = w \/ v = AckNow(w)
    BY <1>9 DEF Process, seg
  <2> HIDE DEF v
  <2>2. HasTcb(v, o) /\ Onward(w, v)
    BY <1>4, <1>5, <2>1
  <2> QED BY <2>2 DEF v
<1>10. CASE t.state # "SynSent" /\ Acceptable(t, seg) /\ ~seg.flags.rst
            /\ ~(seg.flags.syn \/ ~seg.flags.acks) /\ bad
  <2> DEFINE x == SendReset(w, seg)
  <2>1. WorkOK(x, o) /\ Same(w, x) /\ x.t = t
    BY <1>1, <1>2, ResetProperty
  <2>2. v = x
    BY <1>10 DEF Process, seg
  <2> HIDE DEF x, v
  <2>3. HasTcb(x, o)
    BY <1>1, <2>1 DEF HasTcb
  <2>4. HasTcb(v, o) /\ Onward(w, v)
    BY <1>3, <2>1, <2>2, <2>3
  <2> QED BY <2>4 DEF v
<1>11. CASE t.state # "SynSent" /\ Acceptable(t, seg) /\ ~seg.flags.rst
            /\ ~(seg.flags.syn \/ ~seg.flags.acks) /\ ~bad
  <2>1. v = Acknowledged(w2, seg)
    BY <1>11 DEF Process, seg
  <2>2. HasTcb(w2, o) /\ Same(w, w2) /\ Synchronized(w2.t)
    <3>1. CASE t.state = "SynReceived"
      <4>1. HasTcb(w1, o) /\ Same(w, w1) /\ w1.t.state = "Established"
        BY <1>2, <1>11, <3>1, EstablishProperty
      <4>2. w2 = w1
        BY <3>1
      <4> HIDE DEF w1, w2
      <4> QED BY <4>1, <4>2 DEF Synchronized
    <3>2. CASE t.state # "SynReceived"
      <4>1. w2 = w
        BY <3>2
      <4> HIDE DEF w2
      <4> QED BY <1>11, <3>2, <4>1 DEF Synchronized, Same
    <3> QED BY <3>1, <3>2
  <2> HIDE DEF w2, v
  <2>3. Arrives(w2, o, seg)
    BY <1>2, <2>2 DEF Same, Arrives
  <2>4. HasTcb(v, o) /\ Onward(w2, v)
    BY <1>11, <2>1, <2>2, <2>3, AcknowledgedProperty
  <2>5. Onward(w, v)
    <3>1. w.h \in Hists /\ w2.h \in Hists
      BY <1>1, <2>2 DEF Same
    <3>2. Onward(w, w2)
      BY <2>2, <3>1, OnwardProperty
    <3> QED BY <2>4, <3>1, <3>2, OnwardProperty
  <2> QED BY <2>4, <2>5 DEF v
<1> QED BY <1>6, <1>7, <1>8, <1>9, <1>10, <1>11

-----------------------------------------------------------------------------
(* A connection is opened. *)

\* A new control block is one, and has sent and taken nothing.
LEMMA NewTcbProperty ==
  ASSUME NEW e \in Ends, NEW state \in States
  PROVE  NewTcb(e, state) \in Tcbs
<1> DEFINE t == NewTcb(e, state)
<1>1. /\ Iss[e] \in SeqNums /\ RxRing[e] \in Nat /\ TxRing[e] \in Nat /\ 0 \in SeqNums
  BY HalfProperty DEF SeqNums
<1>2. Plus(Iss[e], 1) \in SeqNums
  <2>1. 1 \in 0 .. Space
    BY HalfProperty
  <2> QED BY <1>1, <2>1, PlusProperty
<1>3. NoAsm \in Asms
  <2>1. {} \in SUBSET (1 .. Max(Range(RxRing)))
    OBVIOUS
  <2>2. NoAsm \in [{} -> ByteNums]
    BY DEF NoAsm
  <2> QED BY <2>1, <2>2 DEF Asms
<1>4. 0 \in Windows /\ 0 \in Retries /\ 0 \in Dups /\ None \in MaybeSeqNums /\ 0 \in 0 .. 2
  BY BoundsProperty, RetriesProperty DEF Windows, MaybeSeqNums
<1>5. <<>> \in Seq(ByteNums)
  OBVIOUS
<1>6. DOMAIN t = DOMAIN TcbTypes /\ t = [f \in DOMAIN t |-> t[f]]
  BY DEF NewTcb, TcbTypes
<1>7. \A f \in DOMAIN TcbTypes : t[f] \in TcbTypes[f]
  <2>1. /\ t.listener \in BOOLEAN /\ t.ready \in BOOLEAN /\ t.released \in BOOLEAN
        /\ t.error \in BOOLEAN /\ t.finQueued \in BOOLEAN /\ t.finSent \in BOOLEAN
        /\ t.finReceived \in BOOLEAN /\ t.rtx \in BOOLEAN /\ t.ackAt \in BOOLEAN
        /\ t.ackNow \in BOOLEAN /\ t.probe \in BOOLEAN /\ t.persist \in BOOLEAN
        /\ t.linkRetry \in BOOLEAN /\ t.closeAt \in BOOLEAN
    BY DEF NewTcb
  <2>2. /\ t.state \in States /\ t.rxRing \in Nat /\ t.rx \in Seq(ByteNums) /\ t.asm \in Asms
        /\ t.txRing \in Nat /\ t.tx \in Nat
    BY <1>1, <1>3, <1>5 DEF NewTcb
  <2>3. /\ t.iss \in SeqNums /\ t.una \in SeqNums /\ t.nxt \in SeqNums /\ t.max \in SeqNums
        /\ t.base \in SeqNums /\ t.wl1 \in SeqNums /\ t.wl2 \in SeqNums
        /\ t.rnxt \in SeqNums /\ t.adv \in SeqNums
    BY <1>1, <1>2 DEF NewTcb
  <2>4. /\ t.wnd \in Windows /\ t.maxWnd \in Windows /\ t.finSeq \in MaybeSeqNums
        /\ t.retries \in Retries /\ t.unacked \in 0 .. 2 /\ t.dupacks \in Dups
        /\ t.recover \in MaybeSeqNums
    BY <1>4 DEF NewTcb
  <2> HIDE DEF t
  <2> QED BY <2>1, <2>2, <2>3, <2>4 DEF TcbTypes
<1> HIDE DEF t
<1>8. t \in Tcbs
  BY <1>6, <1>7, TcbIs
<1> QED BY <1>8 DEF t

\* A connection with nothing sent and nothing taken but a SYN.
Fresh(e, t) ==
  /\ t \in Tcbs /\ t.state \in {"SynSent", "SynReceived"}
  /\ t.rx = <<>> /\ t.asm = NoAsm /\ t.tx = 0 /\ t.rxRing = RxRing[e]
  /\ t.iss = Iss[e] /\ t.una = Iss[e] /\ t.nxt = Iss[e] /\ t.max = Iss[e]
  /\ t.base = Plus(Iss[e], 1)
  /\ ~t.finQueued /\ ~t.finSent /\ t.finSeq = None /\ ~t.finReceived /\ ~t.probe /\ ~t.persist
  /\ t.state = "SynSent" => t.rnxt = 0 /\ t.adv = 0
  /\ t.state = "SynReceived" =>
       t.rnxt = Plus(Iss[Peer(e)], 1) /\ At(Peer(e), t.adv) = 1

\* The connection is there, and has sent nothing yet.
Begun(w, t, v) == v = [w EXCEPT !.t = t, !.h.opened = TRUE]

LEMMA BegunProperty ==
  ASSUME NEW w, NEW o, WorkOK(w, o), ~w.h.opened, NEW t, Fresh(w.e, t), NEW v, Begun(w, t, v)
  PROVE  /\ HasTcb(v, o) /\ v.e = w.e /\ v.h = [w.h EXCEPT !.opened = TRUE]
         /\ v.t = t /\ v.out = w.out
<1> DEFINE h == w.h
           h2 == [h EXCEPT !.opened = TRUE]
<1>1. /\ w \in Works /\ w.e \in Ends /\ h \in Hists /\ o \in Hists
      /\ HistOK(w.e, h, o) /\ HistOK(Peer(w.e), o, h)
      /\ \A seg \in Range(w.out) : SegOK(w.e, h, seg)
      /\ w.out \in Seq(Segments)
  BY DEF WorkOK, HistOK, Works
<1>2. h.wrote = 0 /\ ~h.shut /\ h.took = 0 /\ ~h.ended /\ h.settled = 0
  BY <1>1 DEF HistOK
<1>3. /\ h2 \in Hists /\ h2.opened = TRUE /\ h2.wrote = 0 /\ ~h2.shut /\ h2.took = 0
      /\ ~h2.ended /\ h2.settled = 0
  BY <1>1, <1>2 DEF Hists
<1>4. v = [w EXCEPT !.t = t, !.h = h2]
  BY <1>1 DEF Works, Begun
<1> HIDE DEF h2
<1>5. t \in Tcbs /\ t # None
  BY NoneAssumption DEF Fresh, NoneAssumption
<1>6. /\ v \in Works /\ v.e = w.e /\ v.t = t /\ v.h = h2 /\ v.out = w.out
  BY <1>1, <1>3, <1>4, <1>5 DEF Works
<1>7. HistOK(w.e, h2, o) /\ HistOK(Peer(w.e), o, h2)
  BY <1>1, <1>2, <1>3 DEF HistOK
<1>8. \A seg \in Range(w.out) : SegOK(w.e, h2, seg)
  <2>1. Grown(h, h2)
    BY <1>2, <1>3 DEF Grown
  <2>2. \A seg \in Range(w.out) : seg \in Segments
    BY <1>1 DEF Range
  <2> QED BY <1>1, <2>1, <2>2, SegGrown
<1>9. Sender(w.e, t, h2)
  <2>1. At(w.e, t.una) = 0 /\ At(w.e, t.nxt) = 0 /\ At(w.e, t.max) = 0
    BY <1>1, FirstPosition DEF Fresh
  <2>2. t.base = Plus(Iss[w.e], 1 + h2.settled) /\ t.tx = h2.wrote - h2.settled
    <3>1. 1 + h2.settled = 1 /\ h2.wrote - h2.settled = 0
      BY <1>3
    <3> QED BY <3>1 DEF Fresh
  <2>3. /\ t.state \in {"SynSent", "SynReceived"} /\ t.iss = Iss[w.e]
        /\ ~t.finQueued /\ ~t.finSent /\ t.finSeq = None /\ ~t.probe /\ ~t.persist
        /\ t.finQueued \in BOOLEAN /\ h2.shut \in BOOLEAN
    BY <1>3, <1>5 DEF Fresh, Tcbs, Hists
  <2> QED BY <1>3, <2>1, <2>2, <2>3 DEF Sender
<1>10. Receiver(w.e, t, h2, o)
  <2>1. 1 + h2.took + Bit(h2.ended) = 1
    BY <1>3 DEF Bit
  <2>2. RxRing[w.e] \in Nat /\ RxRing[w.e] # 0
    BY <1>1, HalfProperty
  <2>3. t.finReceived = h2.ended
    BY <1>3, <1>5 DEF Fresh, Tcbs, Hists
  <2>4. DOMAIN t.rx = {} /\ DOMAIN t.asm = {}
    BY DEF Fresh, NoAsm
  <2>5. t.state \in {"SynSent", "SynReceived"} /\ t.rxRing = RxRing[w.e]
    BY DEF Fresh
  <2>6. t.state = "SynSent" => t.rnxt = 0 /\ h2.took = 0 /\ t.adv <= RxRing[w.e]
    BY <1>3, <2>2 DEF Fresh
  <2>7. t.state = "SynReceived" =>
          /\ t.rnxt = Plus(Iss[Peer(w.e)], 1 + h2.took + Bit(h2.ended))
          /\ At(Peer(w.e), t.adv) <= 1 + h2.took + Bit(h2.ended) + RxRing[w.e]
    <3>1. 1 + h2.took + Bit(h2.ended) + RxRing[w.e] = 1 + RxRing[w.e]
      BY <1>3, <2>2 DEF Bit
    <3> QED BY <2>1, <2>2, <3>1 DEF Fresh
  <2> QED BY <1>3, <2>2, <2>3, <2>4, <2>5, <2>6, <2>7 DEF Receiver
<1>11. EndOK(w.e, t, h2, o)
  <2>1. Len(t.rx) <= t.rxRing /\ t.tx <= t.txRing
    BY <1>1, <1>5, HalfProperty DEF Fresh, Tcbs
  <2> QED BY <1>3, <1>5, <1>9, <1>10, <2>1 DEF EndOK, TcbOK
<1>12. HasTcb(v, o)
  BY <1>5, <1>6, <1>7, <1>8, <1>11 DEF HasTcb, WorkOK
<1> QED BY <1>6, <1>12 DEF h2

\* The connection is opened, by a call or by a SYN.
LEMMA OpeningProperty ==
  ASSUME NEW w, NEW o, WorkOK(w, o), ~w.h.opened, NEW t, Fresh(w.e, t)
  PROVE  LET v == Opening(w, t)
         IN  HasTcb(v, o) /\ v.e = w.e /\ v.h = [w.h EXCEPT !.opened = TRUE]
<1> DEFINE w1 == [w EXCEPT !.t = t, !.h.opened = TRUE]
<1>1. Begun(w, t, w1)
  BY DEF Begun
<1>2. Opening(w, t) = Output(w1)
  BY DEF Opening
<1> HIDE DEF w1
<1>3. HasTcb(w1, o) /\ w1.e = w.e /\ w1.h = [w.h EXCEPT !.opened = TRUE]
  BY <1>1, BegunProperty
<1>4. HasTcb(Output(w1), o) /\ Same(w1, Output(w1))
  BY <1>3, OutputProperty
<1> QED BY <1>2, <1>3, <1>4 DEF Same

\* A connection that was called for.
LEMMA CalledProperty ==
  ASSUME NEW e \in Ends
  PROVE  Fresh(e, NewTcb(e, "SynSent"))
<1> DEFINE t == NewTcb(e, "SynSent")
<1>1. t \in Tcbs
  BY NewTcbProperty DEF States
<1>2. /\ t.state = "SynSent" /\ t.rx = <<>> /\ t.asm = NoAsm /\ t.tx = 0 /\ t.rxRing = RxRing[e]
      /\ t.iss = Iss[e] /\ t.una = Iss[e] /\ t.nxt = Iss[e] /\ t.max = Iss[e]
      /\ t.base = Plus(Iss[e], 1) /\ t.finSeq = None /\ t.rnxt = 0 /\ t.adv = 0
  BY DEF NewTcb
<1>3. ~t.finQueued /\ ~t.finSent /\ ~t.finReceived /\ ~t.probe /\ ~t.persist
  BY DEF NewTcb
<1> HIDE DEF t
<1>4. Fresh(e, t)
  BY <1>1, <1>2, <1>3 DEF Fresh
<1> QED BY <1>4 DEF t

\* A connection that a SYN opens.
LEMMA AnsweredProperty ==
  ASSUME NEW w, NEW o, w.e \in Ends, NEW seg, Arrives(w, o, seg), seg.flags.syn
  PROVE  Fresh(w.e, [OnSyn(NewTcb(w.e, "SynReceived"), seg) EXCEPT !.listener = TRUE])
<1> DEFINE n == NewTcb(w.e, "SynReceived")
           t == [OnSyn(n, seg) EXCEPT !.listener = TRUE]
           fields == {"rnxt", "adv", "wnd", "maxWnd", "wl1", "wl2", "listener"}
<1>1. n \in Tcbs
  BY NewTcbProperty DEF States
<1>2. /\ n.state = "SynReceived" /\ n.rx = <<>> /\ n.asm = NoAsm /\ n.tx = 0
      /\ n.rxRing = RxRing[w.e] /\ n.iss = Iss[w.e] /\ n.una = Iss[w.e] /\ n.nxt = Iss[w.e]
      /\ n.max = Iss[w.e] /\ n.base = Plus(Iss[w.e], 1) /\ n.finSeq = None
  BY DEF NewTcb
<1>3. ~n.finQueued /\ ~n.finSent /\ ~n.finReceived /\ ~n.probe /\ ~n.persist
  BY DEF NewTcb
<1> HIDE DEF n
<1>4. /\ Plus(seg.seq, 1) = Plus(Iss[Peer(w.e)], 1) /\ Plus(seg.seq, 1) \in SeqNums
      /\ At(Peer(w.e), Plus(seg.seq, 1)) = 1
      /\ seg.seq \in SeqNums /\ seg.ack \in SeqNums /\ seg.wnd \in Windows
  BY SynProperty
<1>5. /\ Changed(n, t, fields) /\ t.rnxt = Plus(seg.seq, 1) /\ t.adv = Plus(seg.seq, 1)
      /\ t.wnd = seg.wnd /\ t.maxWnd = seg.wnd /\ t.wl1 = seg.seq /\ t.wl2 = seg.ack
      /\ t.listener \in BOOLEAN
  BY <1>1 DEF Changed, Tcbs, OnSyn
<1> HIDE DEF t
<1>6. t \in Tcbs
  <2>1. /\ t.rnxt \in SeqNums /\ t.adv \in SeqNums /\ t.wnd \in Windows /\ t.maxWnd \in Windows
        /\ t.wl1 \in SeqNums /\ t.wl2 \in SeqNums
    BY <1>4, <1>5
  <2>2. \A f \in fields : t[f] \in TcbTypes[f]
    BY <1>5, <2>1 DEF TcbTypes
  <2> QED BY <1>1, <1>5, <2>2, TcbKept
<1>7. DOMAIN n = DOMAIN TcbTypes
  BY <1>1, TcbIs
<1>8. /\ t.state = n.state /\ t.rx = n.rx /\ t.asm = n.asm /\ t.tx = n.tx /\ t.rxRing = n.rxRing
      /\ t.iss = n.iss /\ t.una = n.una /\ t.nxt = n.nxt /\ t.max = n.max /\ t.base = n.base
      /\ t.finQueued = n.finQueued /\ t.finSent = n.finSent /\ t.finSeq = n.finSeq
      /\ t.finReceived = n.finReceived /\ t.probe = n.probe /\ t.persist = n.persist
  BY <1>5, <1>7 DEF TcbTypes, Changed
<1>9. Fresh(w.e, t)
  <2>1. t.rnxt = Plus(Iss[Peer(w.e)], 1) /\ At(Peer(w.e), t.adv) = 1
    BY <1>4, <1>5
  <2> QED BY <1>2, <1>3, <1>6, <1>8, <2>1 DEF Fresh
<1> QED BY <1>9 DEF t, n

\* What a step of an end may do to the streams, once more: input, or the opening
\* of the connection.
Opens(h, h2) == ~h.opened /\ h2 = [h EXCEPT !.opened = TRUE]

\* tcp_input keeps everything.
LEMMA ReceivedProperty ==
  ASSUME NEW w, NEW o, WorkOK(w, o), NEW seg, Arrives(w, o, seg)
  PROVE  LET v == Received(w, seg)
         IN  WorkOK(v, o) /\ v.e = w.e /\ (Fed(w.h, v.h) \/ Opens(w.h, v.h))
<1> DEFINE t == w.t
           v == Received(w, seg)
           opens == seg.flags = SYN /\ w.e = Server /\ listening
           known == t # None /\ t.state # "Closed"
           n == [OnSyn(NewTcb(w.e, "SynReceived"), seg) EXCEPT !.listener = TRUE]
<1>1. w.e \in Ends /\ w.h \in Hists /\ seg \in Segments
  BY DEF WorkOK, Works, Arrives
<1>2. v = w => WorkOK(v, o) /\ v.e = w.e /\ Fed(w.h, v.h)
  BY <1>1 DEF Fed, Hists
<1>3. CASE known
  <2>1. HasTcb(w, o)
    BY <1>3 DEF HasTcb
  <2> DEFINE x == Process(w, seg)
  <2>2. HasTcb(x, o) /\ Onward(w, x)
    BY <1>3, <2>1, ProcessProperty
  <2>3. v = x
    BY <1>3 DEF Received
  <2> HIDE DEF x, v
  <2>4. WorkOK(v, o) /\ v.e = w.e /\ Fed(w.h, v.h)
    BY <2>2, <2>3 DEF Onward, HasTcb
  <2> QED BY <2>4 DEF v
<1>4. CASE ~known /\ opens
  <2>1. v = PassiveOpen(w, seg)
    BY <1>4 DEF Received
  <2>2. CASE w.h.opened
    <3>1. v = w
      BY <2>1, <2>2 DEF PassiveOpen
    <3> QED BY <1>2, <3>1
  <2>3. CASE ~w.h.opened
    <3> DEFINE x == Opening(w, n)
    <3>1. v = x
      BY <2>1, <2>3 DEF PassiveOpen
    <3>2. seg.flags.syn
      BY <1>4 DEF SYN
    <3>3. Fresh(w.e, n)
      BY <1>1, <3>2, AnsweredProperty
    <3> HIDE DEF n
    <3>4. HasTcb(x, o) /\ x.e = w.e /\ x.h = [w.h EXCEPT !.opened = TRUE]
      BY <2>3, <3>3, OpeningProperty
    <3> HIDE DEF x, v
    <3>5. WorkOK(v, o) /\ v.e = w.e /\ Opens(w.h, v.h)
      BY <2>3, <3>1, <3>4 DEF Opens, HasTcb
    <3> QED BY <3>5 DEF v
  <2> QED BY <2>2, <2>3
<1>5. CASE ~known /\ ~opens
  <2> DEFINE x == SendReset(w, seg)
  <2>1. WorkOK(x, o) /\ Same(w, x) /\ x.t = w.t
    BY <1>1, ResetProperty
  <2>2. v = w \/ v = x
    BY <1>5 DEF Received
  <2> HIDE DEF x, v
  <2>3. Same(w, x) => Onward(w, x)
    BY <1>1, OnwardProperty
  <2>4. WorkOK(v, o) /\ v.e = w.e /\ Fed(w.h, v.h)
    BY <1>2, <2>1, <2>2, <2>3 DEF Onward
  <2> QED BY <2>4 DEF v
<1> QED BY <1>3, <1>4, <1>5

-----------------------------------------------------------------------------
(* The application's calls, and the timers. *)

Writes(h, h2) ==
  /\ h.opened /\ ~h.shut /\ h2 \in Hists
  /\ h2.wrote > h.wrote /\ h2 = [h EXCEPT !.wrote = h2.wrote]
Shuts(h, h2) == h.opened /\ h2 = [h EXCEPT !.shut = TRUE]

\* Bytes are read from the ring.
LEMMA ReadProperty ==
  ASSUME NEW w, NEW o, HasTcb(w, o), NEW n \in Nat, n <= Len(w.t.rx)
  PROVE  LET v == On(w, [w.t EXCEPT !.rx = SubSeq(@, n + 1, Len(@))])
         IN  HasTcb(v, o) /\ Same(w, v)
<1> DEFINE t == w.t
           h == w.h
           left == SubSeq(t.rx, n + 1, Len(t.rx))
           s == [t EXCEPT !.rx = SubSeq(@, n + 1, Len(@))]
           v == On(w, s)
<1>1. /\ w.e \in Ends /\ t \in Tcbs /\ TcbOK(t) /\ Receiver(w.e, t, h, o) /\ Sender(w.e, t, h)
      /\ h.opened /\ h.took \in Nat
  BY WorkFacts
<1>2. /\ t.rx \in Seq(ByteNums) /\ Len(t.rx) \in Nat /\ t.rxRing \in Nat
      /\ DOMAIN t.rx = 1 .. Len(t.rx)
  BY <1>1 DEF Tcbs
<1>3. /\ left \in Seq(ByteNums) /\ Len(left) = Len(t.rx) - n
      /\ \A j \in 1 .. (Len(t.rx) - n) : left[j] = t.rx[n + j] /\ n + j \in DOMAIN t.rx
  <2> DEFINE k == Len(t.rx) - n
             part == SubSeq(t.rx, n + 1, n + k)
  <2>1. k \in Nat /\ n + k <= Len(t.rx) /\ n + k = Len(t.rx)
    BY <1>2
  <2>2. part = left
    BY <2>1
  <2> HIDE DEF k
  <2>3. /\ part \in Seq(ByteNums) /\ Len(part) = k
        /\ \A j \in 1 .. k : part[j] = t.rx[n + j] /\ n + j \in DOMAIN t.rx
    BY <1>2, <2>1, SubSeqProperty
  <2> QED BY <2>2, <2>3 DEF k
<1>4. Moved(w, s, v)
  BY DEF Moved, On
<1>5. Changed(t, s, {"rx"}) /\ s.rx = left
  BY <1>1 DEF Changed, Tcbs
<1> HIDE DEF s, v, left
<1>6. s \in Tcbs
  <2>1. s.rx \in Seq(ByteNums)
    BY <1>3, <1>5
  <2>2. \A f \in {"rx"} : s[f] \in TcbTypes[f]
    BY <2>1 DEF TcbTypes
  <2> QED BY <1>1, <1>5, <2>2, TcbKept
<1>7. DOMAIN t = DOMAIN TcbTypes
  BY <1>1, TcbIs
<1>8. /\ s.iss = t.iss /\ s.base = t.base /\ s.tx = t.tx /\ s.una = t.una /\ s.nxt = t.nxt
      /\ s.max = t.max /\ s.finSeq = t.finSeq /\ s.finSent = t.finSent
      /\ s.finQueued = t.finQueued /\ s.probe = t.probe /\ s.state = t.state
      /\ s.persist = t.persist /\ s.adv = t.adv /\ s.asm = t.asm /\ s.rtx = t.rtx
      /\ s.rxRing = t.rxRing /\ s.txRing = t.txRing /\ s.finReceived = t.finReceived
      /\ s.rnxt = t.rnxt
  BY <1>5, <1>7 DEF TcbTypes, Changed
<1>9. Sender(w.e, s, h)
  BY <1>1, <1>8, SenderSame
<1>10. Receiver(w.e, s, h, o)
  <2>1. ASSUME NEW i \in DOMAIN s.rx PROVE s.rx[i] = h.took - Len(s.rx) + i - 1
    <3>1. i \in 1 .. (Len(t.rx) - n)
      BY <1>3, <1>5
    <3>2. s.rx[i] = t.rx[n + i] /\ n + i \in DOMAIN t.rx
      BY <1>3, <1>5, <3>1
    <3>3. t.rx[n + i] = h.took - Len(t.rx) + (n + i) - 1
      BY <1>1, <3>2 DEF Receiver
    <3>4. h.took - Len(t.rx) + (n + i) - 1 = h.took - (Len(t.rx) - n) + i - 1
      BY <1>1, <1>2, <3>1
    <3> QED BY <1>3, <1>5, <3>2, <3>3, <3>4
  <2>2. ASSUME NEW k \in DOMAIN t.asm
        PROVE  /\ t.asm[k] = h.took + k /\ h.took + k < o.wrote
               /\ t.rxRing # 0 => Len(s.rx) + k < t.rxRing
    <3>1. /\ t.asm[k] = h.took + k /\ h.took + k < o.wrote
          /\ t.rxRing # 0 => Len(t.rx) + k < t.rxRing
      BY <1>1 DEF Receiver
    <3>2. k \in Nat
      <4>1. PICK dom \in SUBSET (1 .. Max(Range(RxRing))) : t.asm \in [dom -> ByteNums]
        BY <1>1 DEF Tcbs, Asms
      <4>2. DOMAIN t.asm = dom
        BY <4>1
      <4>3. k \in 1 .. Max(Range(RxRing)) /\ Max(Range(RxRing)) \in Nat
        BY <4>1, <4>2, BoundsProperty
      <4> QED BY <4>3
    <3>3. Len(s.rx) = Len(t.rx) - n
      BY <1>3, <1>5
    <3> QED BY <1>2, <3>1, <3>2, <3>3
  <2> QED BY <1>1, <1>8, <2>1, <2>2 DEF Receiver
<1>11. EndOK(w.e, s, h, o)
  <2>1. Len(s.rx) <= s.rxRing /\ s.tx <= s.txRing
    BY <1>1, <1>2, <1>3, <1>5, <1>8 DEF TcbOK
  <2> QED BY <1>1, <1>6, <1>9, <1>10, <2>1 DEF EndOK, TcbOK
<1>12. HasTcb(v, o) /\ Same(w, v)
  BY <1>4, <1>6, <1>11, OnProperty
<1> QED BY <1>12 DEF v, s

\* A step in which the stream an end sends goes on.
Ahead(w, s, h2, v) == Fits(w, s, h2, v) /\ Grown(w.h, h2) /\ h2.took = w.h.took
                      /\ h2.settled = w.h.settled /\ h2.opened = w.h.opened
                      /\ h2.ended = w.h.ended /\ h2.wrote <= ToWrite[w.e]

\* A step ahead is sound when the control block it leaves is.
LEMMA AheadProperty ==
  ASSUME NEW w, NEW o, HasTcb(w, o), NEW s \in Tcbs, NEW h2, NEW v, Ahead(w, s, h2, v),
         EndOK(w.e, s, h2, o)
  PROVE  HasTcb(v, o) /\ v.e = w.e /\ v.h = h2
<1>1. /\ w.e \in Ends /\ w.h \in Hists /\ w.out \in Seq(Segments) /\ s # None /\ o \in Hists
      /\ HistOK(w.e, w.h, o) /\ HistOK(Peer(w.e), o, w.h)
      /\ \A seg \in Range(w.out) : SegOK(w.e, w.h, seg)
  BY WorkFacts, NoneAssumption DEF NoneAssumption, HasTcb, WorkOK
<1>2. /\ h2 \in Hists /\ w.h.wrote <= h2.wrote /\ (w.h.shut => h2.shut /\ h2.wrote = w.h.wrote)
      /\ h2.took = w.h.took /\ h2.settled = w.h.settled /\ h2.opened = w.h.opened
      /\ h2.ended = w.h.ended /\ h2.wrote <= ToWrite[w.e] /\ Grown(w.h, h2)
      /\ v.t = s /\ v.h = h2 /\ v.e = w.e /\ v.out = w.out /\ v \in Works
  BY DEF Ahead, Grown, Fits
<1>3. w.h.wrote \in Nat /\ h2.wrote \in Nat /\ w.h.settled \in Nat /\ o.took \in Nat
      /\ ToWrite[w.e] \in Nat
  BY <1>1, <1>2, HalfProperty DEF Hists
<1>4. HistOK(w.e, h2, o)
  <2>1. h2.settled <= h2.wrote
    BY <1>1, <1>2, <1>3 DEF HistOK
  <2>2. EndOK(w.e, s, h2, o) => h2.opened
    BY DEF EndOK
  <2> QED BY <1>1, <1>2, <2>1, <2>2 DEF HistOK
<1>5. HistOK(Peer(w.e), o, h2)
  <2>1. o.took <= h2.wrote
    BY <1>1, <1>2, <1>3 DEF HistOK
  <2>2. o.ended => h2.shut /\ o.took = h2.wrote
    BY <1>1, <1>2 DEF HistOK
  <2> QED BY <1>1, <1>2, <2>1, <2>2 DEF HistOK
<1>6. \A seg \in Range(w.out) : SegOK(w.e, h2, seg)
  <2>1. \A seg \in Range(w.out) : seg \in Segments
    BY <1>1 DEF Range
  <2> QED BY <1>1, <1>2, <2>1, SegGrown
<1>7. WorkOK(v, o)
  BY <1>2, <1>4, <1>5, <1>6 DEF WorkOK
<1> QED BY <1>1, <1>2, <1>7 DEF HasTcb

\* Bytes are written.
LEMMA WroteProperty ==
  ASSUME NEW w, NEW o, HasTcb(w, o), NEW n \in Nat \ {0}, n <= w.t.txRing - w.t.tx,
         n <= ToWrite[w.e] - w.h.wrote, ~w.t.finQueued, w.t.state \in {"Established", "CloseWait"}
  PROVE  LET v == [w EXCEPT !.t.tx = @ + n, !.h.wrote = @ + n]
         IN  HasTcb(v, o) /\ v.e = w.e /\ Writes(w.h, v.h)
<1> DEFINE t == w.t
           h == w.h
           more == t.tx + n
           s == [t EXCEPT !.tx = more]
           h2 == [h EXCEPT !.wrote = @ + n]
           v == [w EXCEPT !.t.tx = @ + n, !.h.wrote = @ + n]
           u == At(w.e, t.una)
           m == At(w.e, t.max)
           nx == At(w.e, t.nxt)
<1>1. /\ w \in Works /\ w.e \in Ends /\ t \in Tcbs /\ TcbOK(t) /\ Receiver(w.e, t, h, o)
      /\ Sender(w.e, t, h) /\ h.opened /\ h \in Hists /\ h.took \in Nat
  BY WorkFacts DEF HasTcb, WorkOK
<1>2. /\ u \in Nat /\ m \in Nat /\ nx \in Nat /\ u <= m /\ nx <= m
      /\ t.tx = h.wrote - h.settled /\ t.tx \in Nat
      /\ h.settled = IF u = 0 THEN 0 ELSE Lesser(u - 1, h.wrote)
      /\ h.settled \in Nat /\ h.wrote \in Nat /\ h.settled <= h.wrote
  BY SenderFacts
<1>3. ToWrite[w.e] \in Nat /\ t.txRing \in Nat
  BY <1>1, HalfProperty DEF Tcbs
<1>4. v = [w EXCEPT !.t = s, !.h = h2]
  BY <1>1 DEF Works
<1>5. Changed(t, s, {"tx"}) /\ s.tx = more
  BY <1>1 DEF Changed, Tcbs
<1> HIDE DEF s, v
<1>6. s \in Tcbs /\ s # None
  <2>1. s.tx \in Nat
    BY <1>2, <1>5
  <2>2. \A f \in {"tx"} : s[f] \in TcbTypes[f]
    BY <2>1 DEF TcbTypes
  <2> QED BY <1>1, <1>5, <2>2, TcbKept
<1>7. DOMAIN t = DOMAIN TcbTypes
  BY <1>1, TcbIs
<1>8. /\ s.iss = t.iss /\ s.base = t.base /\ s.una = t.una /\ s.nxt = t.nxt
      /\ s.max = t.max /\ s.finSeq = t.finSeq /\ s.finSent = t.finSent
      /\ s.finQueued = t.finQueued /\ s.probe = t.probe /\ s.state = t.state
      /\ s.persist = t.persist /\ s.adv = t.adv /\ s.asm = t.asm /\ s.rtx = t.rtx
      /\ s.rxRing = t.rxRing /\ s.txRing = t.txRing /\ s.finReceived = t.finReceived
      /\ s.rnxt = t.rnxt /\ s.rx = t.rx
  BY <1>5, <1>7 DEF TcbTypes, Changed
<1>9. /\ h2 \in Hists /\ h2.opened = h.opened /\ h2.wrote = h.wrote + n /\ h2.shut = h.shut
      /\ h2.took = h.took /\ h2.ended = h.ended /\ h2.settled = h.settled
  <2>1. h.wrote + n \in Nat
    BY <1>2
  <2> QED BY <1>1, <2>1 DEF Hists
<1>10. h2 = [h EXCEPT !.wrote = h2.wrote]
  BY <1>1, <1>9 DEF Hists
<1> HIDE DEF h2
<1>11. ~h.shut /\ t.finSeq = None /\ ~t.finSent /\ u # 0
  BY <1>1 DEF Sender
<1>12. Writes(h, h2)
  <2>1. h2.wrote > h.wrote
    BY <1>2, <1>9
  <2> QED BY <1>1, <1>9, <1>10, <1>11, <2>1 DEF Writes
<1>13. Sender(w.e, s, h2)
  <2>1. /\ m <= 1 + h.wrote /\ t.iss = Iss[w.e] /\ t.base = Plus(Iss[w.e], 1 + h.settled)
        /\ t.finQueued = h.shut
        /\ nx < u => nx = 0 /\ u = 1 /\ ~t.probe /\ ~t.persist
    <3>1. m <= 1 + h.wrote + (IF t.finSeq = None THEN 0 ELSE 1)
      BY <1>1 DEF Sender
    <3>2. m <= 1 + h.wrote
      BY <1>2, <1>11, <3>1
    <3> QED BY <1>1, <3>2 DEF Sender
  <2> HIDE DEF m, u, nx
  <2>2. m <= 1 + h2.wrote /\ nx <= 1 + h2.wrote /\ u # 2 + h2.wrote
    BY <1>2, <1>9, <2>1
  <2>3. h2.settled = Lesser(u - 1, h2.wrote)
    BY <1>2, <1>9, <1>11, <2>1 DEF Lesser
  <2>4. s.tx = h2.wrote - h2.settled
    BY <1>2, <1>5, <1>9
  <2>5. m <= 1 + h2.wrote + (IF s.finSeq = None THEN 0 ELSE 1)
    BY <1>2, <1>8, <1>9, <1>11, <2>2
  <2>6. u <= m /\ nx <= m /\ u # 0
    BY <1>2, <1>11
  <2>7. /\ At(w.e, s.una) = u /\ At(w.e, s.nxt) = nx /\ At(w.e, s.max) = m
    BY <1>8 DEF m, u, nx
  <2>8. s.state \in {"Established", "CloseWait"}
    BY <1>8
  <2> QED BY <1>8, <1>9, <1>11, <2>1, <2>2, <2>3, <2>4, <2>5, <2>6, <2>7, <2>8 DEF Sender
<1>14. Receiver(w.e, s, h2, o)
  BY <1>1, <1>8, <1>9 DEF Receiver
<1>15. EndOK(w.e, s, h2, o)
  <2>1. Len(s.rx) <= s.rxRing /\ s.tx <= s.txRing
    BY <1>1, <1>2, <1>3, <1>5, <1>8 DEF TcbOK
  <2> QED BY <1>1, <1>6, <1>9, <1>13, <1>14, <2>1 DEF EndOK, TcbOK
<1>16. Fits(w, s, h2, v)
  BY <1>1, <1>4, <1>6, <1>9 DEF Works, Fits
<1>17. Ahead(w, s, h2, v)
  <2>1. Grown(h, h2)
    BY <1>1, <1>2, <1>9, <1>11 DEF Grown
  <2>2. h2.wrote <= ToWrite[w.e]
    BY <1>2, <1>3, <1>9
  <2> QED BY <1>9, <1>16, <2>1, <2>2 DEF Ahead
<1>18. HasTcb(v, o) /\ v.e = w.e /\ v.h = h2
  BY <1>6, <1>15, <1>17, AheadProperty
<1>19. HasTcb(v, o) /\ v.e = w.e /\ Writes(w.h, v.h)
  BY <1>12, <1>18
<1> QED BY <1>19 DEF v

\* An end shuts its stream: from here on the state says so.
LEMMA ShutProperty ==
  ASSUME NEW w, NEW o, HasTcb(w, o), ~w.t.finQueued, NEW next,
         \/ w.t.state \in {"SynReceived", "Established"} /\ next = "FinWait1"
         \/ w.t.state = "CloseWait" /\ next = "LastAck"
  PROVE  LET v == [w EXCEPT !.t.finQueued = TRUE, !.h.shut = TRUE, !.t.state = next]
         IN  HasTcb(v, o) /\ v.e = w.e /\ Shuts(w.h, v.h)
<1> DEFINE t == w.t
           h == w.h
           s == [t EXCEPT !.finQueued = TRUE, !.state = next]
           h2 == [h EXCEPT !.shut = TRUE]
           v == [w EXCEPT !.t.finQueued = TRUE, !.h.shut = TRUE, !.t.state = next]
<1>1. /\ w \in Works /\ w.e \in Ends /\ t \in Tcbs /\ TcbOK(t) /\ Receiver(w.e, t, h, o)
      /\ Sender(w.e, t, h) /\ h.opened /\ h \in Hists /\ h.wrote <= ToWrite[w.e]
  BY WorkFacts DEF HasTcb, WorkOK
<1>2. v = [w EXCEPT !.t = s, !.h = h2]
  BY <1>1 DEF Works, Tcbs
<1>3. Changed(t, s, {"finQueued", "state"}) /\ s.finQueued = TRUE /\ s.state = next
  BY <1>1 DEF Changed, Tcbs
<1> HIDE DEF s, v
<1>4. s \in Tcbs /\ s # None
  <2>1. s.finQueued \in BOOLEAN /\ s.state \in States
    BY <1>3 DEF States
  <2>2. \A f \in {"finQueued", "state"} : s[f] \in TcbTypes[f]
    BY <2>1 DEF TcbTypes
  <2> QED BY <1>1, <1>3, <2>2, TcbKept
<1>5. DOMAIN t = DOMAIN TcbTypes
  BY <1>1, TcbIs
<1>6. /\ s.iss = t.iss /\ s.base = t.base /\ s.una = t.una /\ s.nxt = t.nxt /\ s.tx = t.tx
      /\ s.max = t.max /\ s.finSeq = t.finSeq /\ s.finSent = t.finSent
      /\ s.probe = t.probe /\ s.persist = t.persist /\ s.adv = t.adv /\ s.asm = t.asm
      /\ s.rtx = t.rtx /\ s.rxRing = t.rxRing /\ s.txRing = t.txRing
      /\ s.finReceived = t.finReceived /\ s.rnxt = t.rnxt /\ s.rx = t.rx
  BY <1>3, <1>5 DEF TcbTypes, Changed
<1>7. /\ h2 \in Hists /\ h2.opened = h.opened /\ h2.wrote = h.wrote /\ h2.shut = TRUE
      /\ h2.took = h.took /\ h2.ended = h.ended /\ h2.settled = h.settled
  BY <1>1 DEF Hists
<1>8. Shuts(h, h2)
  BY <1>1 DEF Shuts
<1> HIDE DEF h2
<1>9. Sender(w.e, s, h2)
  <2>1. s.state \notin {"Established", "CloseWait", "SynSent", "SynReceived", "FinWait2",
                        "TimeWait"}
    BY <1>3
  <2>2. t.finSeq = None
    BY <1>1 DEF Sender
  <2> DEFINE u == At(w.e, t.una)
             n == At(w.e, t.nxt)
             m == At(w.e, t.max)
  <2>3. /\ t.iss = Iss[w.e] /\ t.base = Plus(Iss[w.e], 1 + h.settled)
        /\ t.tx = h.wrote - h.settled
        /\ h.settled = (IF u = 0 THEN 0 ELSE Lesser(u - 1, h.wrote))
        /\ u <= m /\ n <= m /\ m <= 1 + h.wrote + (IF t.finSeq = None THEN 0 ELSE 1)
        /\ n <= 1 + h.wrote \/ t.finSent
        /\ u = 2 + h.wrote => t.finSent /\ ~t.rtx
        /\ t.finSent => t.finSeq # None
        /\ u = 0 => h.wrote = 0
        /\ n < u => n = 0 /\ u = 1 /\ ~t.probe /\ ~t.persist
    BY <1>1 DEF Sender
  <2>4. At(w.e, s.una) = u /\ At(w.e, s.nxt) = n /\ At(w.e, s.max) = m
    BY <1>6
  <2>5. s.finQueued = h2.shut
    BY <1>3, <1>7
  <2> HIDE DEF u, n, m
  <2> QED BY <1>6, <1>7, <2>1, <2>2, <2>3, <2>4, <2>5 DEF Sender
<1>10. Receiver(w.e, s, h2, o)
  <2>1. s.state \in {"FinWait1", "LastAck"} /\ t.state \notin {"Closed", "SynSent", "TimeWait"}
    BY <1>3
  <2>2. h2.ended <=> s.state \in {"CloseWait", "Closing", "LastAck", "TimeWait"}
    BY <1>1, <1>3, <1>7 DEF Receiver
  <2>3. /\ s.rnxt = Plus(Iss[Peer(w.e)], 1 + h2.took + Bit(h2.ended))
        /\ At(Peer(w.e), s.adv) <= 1 + h2.took + Bit(h2.ended) + RxRing[w.e]
    BY <1>1, <1>6, <1>7, <2>1 DEF Receiver
  <2> QED BY <1>1, <1>6, <1>7, <2>1, <2>2, <2>3 DEF Receiver
<1>11. EndOK(w.e, s, h2, o)
  BY <1>1, <1>4, <1>6, <1>7, <1>9, <1>10 DEF EndOK, TcbOK
<1>12. Fits(w, s, h2, v)
  BY <1>1, <1>2, <1>4, <1>7 DEF Works, Fits
<1>13. Ahead(w, s, h2, v)
  <2>1. h.wrote \in Nat /\ h.took \in Nat
    BY <1>1 DEF Hists
  <2>2. Grown(h, h2)
    BY <1>7, <2>1 DEF Grown
  <2> QED BY <1>1, <1>7, <1>12, <2>2 DEF Ahead
<1>14. HasTcb(v, o) /\ v.e = w.e /\ v.h = h2
  BY <1>4, <1>11, <1>13, AheadProperty
<1>15. HasTcb(v, o) /\ v.e = w.e /\ Shuts(w.h, v.h)
  BY <1>8, <1>14
<1> QED BY <1>15 DEF v

\* A connection is shut down: it closes, or sends the end of its stream.
LEMMA ShutDownProperty ==
  ASSUME NEW w, NEW o, HasTcb(w, o)
  PROVE  LET v == ShutDown(w)
         IN  HasTcb(v, o) /\ v.e = w.e /\ (v.h = w.h \/ Shuts(w.h, v.h))
<1> DEFINE t == w.t
           v == ShutDown(w)
           a == [w EXCEPT !.t.finQueued = TRUE, !.h.shut = TRUE, !.t.state = "FinWait1"]
           b == [w EXCEPT !.t.finQueued = TRUE, !.h.shut = TRUE, !.t.state = "LastAck"]
           c == On(w, CloseWith(t, FALSE))
<1>1. \/ v = w
      \/ ~t.finQueued /\ t.state = "SynSent" /\ v = c
      \/ ~t.finQueued /\ t.state \in {"SynReceived", "Established"} /\ v = Output(a)
      \/ ~t.finQueued /\ t.state = "CloseWait" /\ v = Output(b)
  BY DEF ShutDown
<1>2. HasTcb(c, o) /\ Same(w, c)
  BY ClosedProperty
<1> HIDE DEF v, c
<1>3. CASE v = w
  <2>1. HasTcb(v, o) /\ v.e = w.e /\ v.h = w.h
    BY <1>3
  <2> QED BY <2>1 DEF v
<1>4. CASE v = c
  <2>1. HasTcb(v, o) /\ v.e = w.e /\ v.h = w.h
    BY <1>2, <1>4 DEF Same
  <2> QED BY <2>1 DEF v
<1>5. ASSUME ~t.finQueued, t.state \in {"SynReceived", "Established"}, v = Output(a)
      PROVE  HasTcb(v, o) /\ v.e = w.e /\ Shuts(w.h, v.h)
  <2>1. HasTcb(a, o) /\ a.e = w.e /\ Shuts(w.h, a.h)
    BY <1>5, ShutProperty
  <2> HIDE DEF a
  <2>2. HasTcb(Output(a), o) /\ Same(a, Output(a))
    BY <2>1, OutputProperty
  <2> QED BY <1>5, <2>1, <2>2 DEF Same
<1>6. ASSUME ~t.finQueued, t.state = "CloseWait", v = Output(b)
      PROVE  HasTcb(v, o) /\ v.e = w.e /\ Shuts(w.h, v.h)
  <2>1. HasTcb(b, o) /\ b.e = w.e /\ Shuts(w.h, b.h)
    BY <1>6, ShutProperty
  <2> HIDE DEF b
  <2>2. HasTcb(Output(b), o) /\ Same(b, Output(b))
    BY <2>1, OutputProperty
  <2> QED BY <1>6, <2>1, <2>2 DEF Same
<1> QED BY <1>1, <1>3, <1>4, <1>5, <1>6 DEF v

\* What was sent and not acknowledged is to be sent again.
LEMMA RewoundProperty ==
  ASSUME NEW w, NEW o, HasTcb(w, o), w.t.rtx,
         w.t.retries + 1 <= MaxRetries \/ w.t.retries + 1 <= MaxSynRetries
  PROVE  LET v == On(w, Rewound(w.t))
         IN  HasTcb(v, o) /\ Same(w, v) /\ v.t.persist = w.t.persist
<1> DEFINE t == w.t
           h == w.h
           more == t.retries + 1
           s == Rewound(t)
           v == On(w, s)
           u == At(w.e, t.una)
           m == At(w.e, t.max)
           fields == {"retries", "dupacks", "recover", "nxt", "finSent", "rtx"}
<1>1. /\ w.e \in Ends /\ t \in Tcbs /\ TcbOK(t) /\ Receiver(w.e, t, h, o) /\ Sender(w.e, t, h)
      /\ h.opened
  BY WorkFacts
<1>2. /\ u \in Nat /\ m \in Nat /\ u <= m /\ m <= 2 + h.wrote /\ h.wrote \in Nat
      /\ t.una \in SeqNums
  BY SenderFacts
<1>3. Moved(w, s, v)
  BY DEF Moved, On
<1>4. /\ Changed(t, s, fields) /\ s.retries = more /\ s.dupacks = 0 /\ s.recover = None
      /\ s.nxt = t.una /\ s.finSent = FALSE /\ s.rtx \in BOOLEAN
  BY <1>1 DEF Changed, Tcbs, Rewound
<1>5. more \in Retries
  <2>1. t.retries \in Nat
    <3>1. t.retries \in Retries
      BY <1>1 DEF Tcbs
    <3> QED BY <3>1 DEF Retries
  <2>2. more \in Nat /\ (more <= MaxRetries \/ more <= MaxSynRetries)
    BY <2>1
  <2> HIDE DEF more
  <2> QED BY <2>2, RetriesProperty
<1> HIDE DEF s, v, more
<1>6. s \in Tcbs
  <2>1. /\ s.retries \in Retries /\ s.dupacks \in Dups /\ s.recover \in MaybeSeqNums
        /\ s.nxt \in SeqNums
    BY <1>2, <1>4, <1>5, RetriesProperty DEF MaybeSeqNums
  <2>2. s.finSent \in BOOLEAN
    BY <1>4
  <2>3. \A f \in fields : s[f] \in TcbTypes[f]
    BY <1>4, <2>1, <2>2 DEF TcbTypes
  <2> QED BY <1>1, <1>4, <2>3, TcbKept
<1>7. DOMAIN t = DOMAIN TcbTypes
  BY <1>1, TcbIs
<1>8. /\ s.iss = t.iss /\ s.base = t.base /\ s.una = t.una /\ s.tx = t.tx
      /\ s.max = t.max /\ s.finSeq = t.finSeq /\ s.finQueued = t.finQueued
      /\ s.probe = t.probe /\ s.persist = t.persist /\ s.adv = t.adv /\ s.asm = t.asm
      /\ s.rxRing = t.rxRing /\ s.txRing = t.txRing /\ s.state = t.state
      /\ s.finReceived = t.finReceived /\ s.rnxt = t.rnxt /\ s.rx = t.rx
  BY <1>4, <1>7 DEF TcbTypes, Changed
<1>9. Sender(w.e, s, h)
  <2>1. u # 2 + h.wrote
    BY <1>1 DEF Sender
  <2>2. u <= 1 + h.wrote /\ ~(u < u)
    BY <1>2, <2>1
  <2>3. At(w.e, s.una) = u /\ At(w.e, s.nxt) = u /\ At(w.e, s.max) = m
    BY <1>4, <1>8
  <2>4. m <= 1 + h.wrote + (IF s.finSeq = None THEN 0 ELSE 1)
    BY <1>1, <1>8 DEF Sender
  <2>5. ~s.finSent
    BY <1>4
  <2> QED BY <1>1, <1>2, <1>8, <2>1, <2>2, <2>3, <2>4, <2>5 DEF Sender
<1>10. Receiver(w.e, s, h, o)
  BY <1>1, <1>8, ReceiverSame
<1>11. EndOK(w.e, s, h, o)
  BY <1>1, <1>6, <1>8, <1>9, <1>10 DEF EndOK, TcbOK
<1>12. HasTcb(v, o) /\ Same(w, v) /\ v.t = s
  BY <1>3, <1>6, <1>11, OnProperty
<1>13. HasTcb(v, o) /\ Same(w, v) /\ v.t.persist = t.persist
  BY <1>8, <1>12
<1> QED BY <1>13 DEF v, s

\* What the timers that are due leave in the control block, before output.
Timed(t, due) ==
  LET t1 == IF "rtx" \in due THEN Rewound(t) ELSE t
      t2 == IF "ackAt" \in due THEN [t1 EXCEPT !.ackNow = TRUE] ELSE t1
  IN  IF "persist" \in due THEN [t2 EXCEPT !.persist = FALSE, !.probe = Unsent(t2) > 0] ELSE t2
TooMany(t) == t.retries + 1 > (IF Synchronized(t) THEN MaxRetries ELSE MaxSynRetries)

LEMMA TimedProperty ==
  ASSUME NEW w, NEW o, HasTcb(w, o), NEW due \in SUBSET Armed(w.t),
         ~("rtx" \in due /\ TooMany(w.t))
  PROVE  LET v == On(w, Timed(w.t, due)) IN HasTcb(v, o) /\ Same(w, v)
<1> DEFINE t  == w.t
           t1 == IF "rtx" \in due THEN Rewound(t) ELSE t
           t2 == IF "ackAt" \in due THEN [t1 EXCEPT !.ackNow = TRUE] ELSE t1
           t3 == IF "persist" \in due
                 THEN [t2 EXCEPT !.persist = FALSE, !.probe = Unsent(t2) > 0] ELSE t2
           w1 == On(w, t1)
           w2 == On(w, t2)
           w3 == On(w, t3)
<1>1. w \in Works /\ t \in Tcbs
  BY WorkFacts DEF HasTcb, WorkOK
<1>2. HasTcb(w1, o) /\ Same(w, w1) /\ w1.t = t1 /\ t1.persist = t.persist
  <2>1. CASE "rtx" \in due
    <3>1. t.rtx
      BY <2>1 DEF Armed
    <3>2. t.retries + 1 <= MaxRetries \/ t.retries + 1 <= MaxSynRetries
      <4>1. t.retries \in Nat
        <5>1. t.retries \in Retries
          BY <1>1 DEF Tcbs
        <5> QED BY <5>1 DEF Retries
      <4> QED BY <2>1, <4>1, RetriesProperty DEF TooMany
    <3> DEFINE s == Rewound(t)
               x == On(w, s)
    <3>3. HasTcb(x, o) /\ Same(w, x) /\ x.t.persist = t.persist
      BY <3>1, <3>2, RewoundProperty
    <3>4. x.t = s
      BY <1>1 DEF On, Works
    <3>5. t1 = s /\ w1 = x
      BY <2>1
    <3> HIDE DEF s, t1, w1, x
    <3> QED BY <3>3, <3>4, <3>5
  <2>2. CASE "rtx" \notin due
    <3>1. t1 = t /\ w1 = w
      BY <1>1, <2>2 DEF On, Works
    <3> HIDE DEF t1, w1
    <3> QED BY <3>1 DEF Same
  <2> QED BY <2>1, <2>2
<1>3. w2 = On(w1, t2) /\ w3 = On(w2, t3)
  BY <1>1 DEF On, Works
<1>4. t1 \in Tcbs
  <2> HIDE DEF t1, w1
  <2> QED BY <1>2, WorkFacts
<1> HIDE DEF t1, w1, w2, w3
<1>5. HasTcb(w2, o) /\ Same(w1, w2) /\ w2.t = t2 /\ t2.persist = t1.persist
  <2> DEFINE s == [t1 EXCEPT !.ackNow = TRUE]
  <2>1. CASE "ackAt" \in due
    <3>1. t2 = s
      BY <2>1
    <3>2. Changed(t1, s, {"ackNow"}) /\ s.ackNow \in BOOLEAN /\ s.persist = t1.persist
      BY <1>4 DEF Changed, Tcbs
    <3> HIDE DEF s, t2
    <3>3. Touched(w1.t, t2, {"ackNow"})
      <4>1. Touched(t1, s, {"ackNow"})
        BY <3>2 DEF Touched, Neutral, TcbTypes
      <4> QED BY <1>2, <3>1, <4>1
    <3>4. Moved(w1, t2, w2)
      BY <1>3 DEF Moved, On
    <3>5. HasTcb(w1, o)
      BY <1>2
    <3>6. HasTcb(w2, o) /\ Same(w1, w2) /\ w2.t = t2
      BY <3>3, <3>4, <3>5, NeutralProperty
    <3> QED BY <3>1, <3>2, <3>6
  <2>2. CASE "ackAt" \notin due
    <3>1. t2 = t1
      BY <2>2
    <3>2. w1 \in Works
      BY <1>2 DEF HasTcb, WorkOK
    <3> HIDE DEF t2
    <3>3. w2 = w1
      BY <1>2, <1>3, <3>1, <3>2 DEF On, Works
    <3> QED BY <1>2, <3>1, <3>3 DEF Same
  <2> QED BY <2>1, <2>2
<1>6. t2 \in Tcbs
  <2> HIDE DEF t2
  <2> QED BY <1>5, WorkFacts
<1> HIDE DEF t2
<1>7. HasTcb(w3, o) /\ Same(w2, w3)
  <2> DEFINE s == [t2 EXCEPT !.persist = FALSE, !.probe = Unsent(t2) > 0]
  <2>1. CASE "persist" \in due
    <3>1. t3 = s
      BY <2>1
    <3>2. Changed(t2, s, {"persist", "probe"}) /\ s.persist = FALSE
          /\ s.probe = (Unsent(t2) > 0)
      BY <1>6 DEF Changed, Tcbs
    <3> HIDE DEF s, t3
    <3>3. w2.t.persist
      <4>1. t.persist
        BY <2>1 DEF Armed
      <4> QED BY <1>2, <1>5, <4>1
    <3>4. Retimed(w2, t3, {"persist", "probe"})
      <4> DEFINE more == Unsent(t2) > 0
      <4>3. more \in BOOLEAN
        OBVIOUS
      <4>4. s.persist \in BOOLEAN
        BY <3>2
      <4>5. s.probe = more
        BY <3>2
      <4> HIDE DEF more
      <4>1. s.persist \in BOOLEAN /\ s.probe \in BOOLEAN
        BY <4>3, <4>4, <4>5
      <4>2. \A f \in {"persist", "probe"} : s[f] \in TcbTypes[f]
        BY <4>1 DEF TcbTypes
      <4> QED BY <1>5, <3>1, <3>2, <3>3, <4>2 DEF Retimed, Probes
    <3>5. Moved(w2, t3, w3)
      BY <1>3 DEF Moved, On
    <3>6. HasTcb(w2, o)
      BY <1>5
    <3> QED BY <3>4, <3>5, <3>6, TimerProperty
  <2>2. CASE "persist" \notin due
    <3>1. t3 = t2
      BY <2>2
    <3>2. w2 \in Works
      BY <1>5 DEF HasTcb, WorkOK
    <3> HIDE DEF t3
    <3>3. w3 = w2
      BY <1>3, <1>5, <3>1, <3>2 DEF On, Works
    <3> QED BY <1>5, <3>3 DEF Same
  <2> QED BY <2>1, <2>2
<1> HIDE DEF t3
<1>8. HasTcb(w3, o) /\ Same(w, w3)
  BY <1>2, <1>5, <1>7 DEF Same
<1>9. w3 = On(w, Timed(t, due))
  BY DEF Timed, t1, t2, t3, w3
<1> QED BY <1>8, <1>9

\* The timers that are due keep everything.
LEMMA TimersGoProperty ==
  ASSUME NEW w, NEW o, HasTcb(w, o), NEW due \in SUBSET Armed(w.t)
  PROVE  LET v == TimersGo(w, due) IN HasTcb(v, o) /\ Same(w, v)
<1> DEFINE t  == w.t
           w1 == On(w, Timed(t, due))
           g  == [t EXCEPT !.released = @ \/ t.listener]
           v  == TimersGo(w, due)
<1>1. w \in Works /\ t \in Tcbs
  BY WorkFacts DEF HasTcb, WorkOK
<1>2. CASE "closeAt" \in due
  <2> DEFINE x == On(w, CloseWith(t, FALSE))
  <2>1. HasTcb(x, o) /\ Same(w, x)
    BY ClosedProperty
  <2>2. v = x
    BY <1>2 DEF TimersGo
  <2> HIDE DEF x, v
  <2>3. HasTcb(v, o) /\ Same(w, v)
    BY <2>1, <2>2
  <2> QED BY <2>3 DEF v
<1>3. CASE "closeAt" \notin due /\ "rtx" \in due /\ TooMany(t)
  <2>1. v = On(w, CloseWith(g, TRUE))
    BY <1>3 DEF TimersGo, GivenUp, TooMany
  <2> DEFINE x == On(w, g)
             y == On(x, CloseWith(x.t, TRUE))
  <2>2. Changed(t, g, {"released"}) /\ g.released \in BOOLEAN
    BY <1>1 DEF Changed, Tcbs
  <2>3. Moved(w, g, x)
    BY DEF Moved, On
  <2> HIDE DEF g
  <2>4. Touched(t, g, {"released"})
    BY <2>2 DEF Touched, Neutral, TcbTypes
  <2>5. x.t = g /\ v = y
    BY <1>1, <2>1 DEF On, Works
  <2> HIDE DEF x
  <2>6. HasTcb(x, o) /\ Same(w, x)
    BY <2>3, <2>4, NeutralProperty
  <2>7. HasTcb(y, o) /\ Same(x, y)
    BY <2>6, ClosedProperty
  <2> HIDE DEF y, v
  <2>8. HasTcb(v, o) /\ Same(w, v)
    BY <2>5, <2>6, <2>7 DEF Same
  <2> QED BY <2>8 DEF v
<1>4. CASE "closeAt" \notin due /\ ~("rtx" \in due /\ TooMany(t))
  <2>1. HasTcb(w1, o) /\ Same(w, w1)
    BY <1>4, TimedProperty
  <2>2. v = Output(w1)
    BY <1>4 DEF TimersGo, Timed, TooMany
  <2> HIDE DEF w1, v
  <2>3. HasTcb(Output(w1), o) /\ Same(w1, Output(w1))
    BY <2>1, OutputProperty
  <2>4. HasTcb(v, o) /\ Same(w, v)
    BY <2>1, <2>2, <2>3 DEF Same
  <2> QED BY <2>4 DEF v
<1> QED BY <1>2, <1>3, <1>4

-----------------------------------------------------------------------------
(* Every step of the specification. *)

\* The segments of a step are finitely many.
LEMMA RangeFinite ==
  ASSUME NEW out \in Seq(Segments)
  PROVE  IsFiniteSet(Range(out)) /\ Range(out) \subseteq Segments
<1>1. DOMAIN out = 1 .. Len(out) /\ Len(out) \in Nat /\ \A i \in DOMAIN out : out[i] \in Segments
  OBVIOUS
<1>2. IsFiniteSet(DOMAIN out)
  <2>1. IsFiniteSet(1 .. Len(out))
    BY <1>1, FS_Interval
  <2> QED BY <1>1, <2>1
<1>3. out \in Surjection(DOMAIN out, Range(out))
  <2>1. out \in [DOMAIN out -> Range(out)]
    BY DEF Range
  <2> QED BY <2>1 DEF Surjection, Range
<1>4. IsFiniteSet(Range(out))
  BY <1>2, <1>3, FS_Surjection
<1> QED BY <1>1, <1>4 DEF Range

\* What the network keeps is among what it had and what was sent, with the
\* count of what came after it.
LEMMA CarriedProperty ==
  ASSUME NEW e \in Ends, IsFiniteSet(DOMAIN net[e]), NEW out \in Seq(Segments)
  PROVE  LET c == Carried(e, out)
         IN  /\ DOMAIN c \subseteq DOMAIN net[e] \cup Range(out) /\ IsFiniteSet(DOMAIN c)
             /\ \A seg \in DOMAIN c : c[seg] \in 0 .. (InTransit[e] - 1)
<1> DEFINE Newer(seg) ==
             {out[j] : j \in {k \in DOMAIN out : \A i \in DOMAIN out : out[i] = seg => i < k}}
             \cup {old \in DOMAIN net[e] : seg \notin Range(out) /\ net[e][old] < net[e][seg]}
           all == DOMAIN net[e] \cup Range(out)
           kept == {s \in all : Cardinality(Newer(s)) < InTransit[e]}
           c == Carried(e, out)
<1>1. c = [seg \in kept |-> Cardinality(Newer(seg))]
  BY DEF Carried
<1>2. IsFiniteSet(all)
  BY RangeFinite, FS_Union
<1>3. \A seg : Newer(seg) \subseteq all
  <2> SUFFICES ASSUME NEW seg PROVE Newer(seg) \subseteq all
    OBVIOUS
  <2>1. \A j \in DOMAIN out : out[j] \in Range(out)
    BY DEF Range
  <2> QED BY <2>1
<1> HIDE DEF Newer, all, c
<1>4. \A seg : Cardinality(Newer(seg)) \in Nat
  <2> SUFFICES ASSUME NEW seg PROVE Cardinality(Newer(seg)) \in Nat
    OBVIOUS
  <2>1. Newer(seg) \in SUBSET all
    BY <1>3
  <2>2. IsFiniteSet(Newer(seg))
    BY <1>2, <2>1, FS_Subset
  <2> QED BY <2>2, FS_CardinalityType
<1>5. kept \in SUBSET all
  OBVIOUS
<1>6. InTransit[e] \in Nat \ {0}
  BY TcpAssumption DEF TcpAssumption
<1>7. DOMAIN c = kept /\ \A seg \in kept : c[seg] = Cardinality(Newer(seg))
  BY <1>1
<1>8. \A seg \in DOMAIN c : c[seg] \in 0 .. (InTransit[e] - 1)
  <2> SUFFICES ASSUME NEW seg \in DOMAIN c PROVE c[seg] \in 0 .. (InTransit[e] - 1)
    OBVIOUS
  <2>1. seg \in kept
    BY <1>7
  <2>2. Cardinality(Newer(seg)) < InTransit[e] /\ Cardinality(Newer(seg)) \in Nat
        /\ c[seg] = Cardinality(Newer(seg))
    BY <1>4, <1>7, <2>1
  <2> QED BY <1>6, <2>2
<1>9. IsFiniteSet(kept)
  <2> HIDE DEF kept
  <2> QED BY <1>2, <1>5, FS_Subset
<1>10. DOMAIN c \subseteq all /\ IsFiniteSet(DOMAIN c)
  <2> HIDE DEF kept
  <2> QED BY <1>5, <1>7, <1>9
<1> QED BY <1>8, <1>10 DEF all, c

\* A connection that is let go of, or lets go of its memory, is one still.
LEMMA SettledProperty ==
  ASSUME NEW e \in Ends, NEW t, NEW h \in Hists, NEW o, EndOK(e, t, h, o)
  PROVE  Settled(t) = None \/ (Settled(t) \in Tcbs /\ EndOK(e, Settled(t), h, o))
<1> DEFINE s == [t EXCEPT !.rx = <<>>, !.rxRing = 0, !.tx = 0, !.txRing = 0]
           fields == {"rx", "rxRing", "tx", "txRing"}
<1>1. t \in Tcbs /\ Sender(e, t, h) /\ Receiver(e, t, h, o) /\ TcbOK(t) /\ h.opened
  BY DEF EndOK, TcbOK
<1>2. Settled(t) = None \/ Settled(t) = t \/ (t.state = "TimeWait" /\ Settled(t) = s)
  BY DEF Settled
<1>3. ASSUME t.state = "TimeWait" PROVE s \in Tcbs /\ EndOK(e, s, h, o)
  <2>1. Changed(t, s, fields) /\ s.rx = <<>> /\ s.rxRing = 0 /\ s.tx = 0 /\ s.txRing = 0
    BY <1>1 DEF Changed, Tcbs
  <2> HIDE DEF s
  <2>2. s \in Tcbs
    <3>1. s.rx \in Seq(ByteNums) /\ s.rxRing \in Nat /\ s.tx \in Nat /\ s.txRing \in Nat
      BY <2>1
    <3>2. \A f \in fields : s[f] \in TcbTypes[f]
      BY <3>1 DEF TcbTypes
    <3> QED BY <1>1, <2>1, <3>2, TcbKept
  <2>3. DOMAIN t = DOMAIN TcbTypes
    BY <1>1, TcbIs
  <2>4. \A f \in DOMAIN TcbTypes \ fields : s[f] = t[f]
    BY <2>1, <2>3 DEF Changed
  <2>5. /\ s.iss = t.iss /\ s.base = t.base /\ s.una = t.una
        /\ s.nxt = t.nxt /\ s.max = t.max /\ s.finSeq = t.finSeq
        /\ s.finSent = t.finSent /\ s.finQueued = t.finQueued /\ s.state = t.state
        /\ s.rtx = t.rtx /\ s.probe = t.probe /\ s.persist = t.persist
        /\ s.finReceived = t.finReceived /\ s.rnxt = t.rnxt /\ s.adv = t.adv /\ s.asm = t.asm
    BY <2>4 DEF TcbTypes
  <2>6. t.tx = 0
    BY <1>1, <1>3 DEF Sender
  <2>7. Sender(e, s, h)
    BY <1>1, <2>1, <2>5, <2>6, SenderSame
  <2>8. Receiver(e, s, h, o)
    <3>1. /\ t.finReceived = h.ended
          /\ t.rnxt = Plus(Iss[Peer(e)], 1 + h.took + Bit(h.ended))
          /\ At(Peer(e), t.adv) <= 1 + h.took + Bit(h.ended) + RxRing[e]
          /\ (h.ended <=> t.state \in {"CloseWait", "Closing", "LastAck", "TimeWait"})
          /\ \A k \in DOMAIN t.asm : t.asm[k] = h.took + k /\ h.took + k < o.wrote
      BY <1>1, <1>3 DEF Receiver
    <3>2. DOMAIN s.rx = {}
      BY <2>1
    <3> QED BY <1>3, <2>1, <2>5, <3>1, <3>2 DEF Receiver
  <2>9. Len(s.rx) <= s.rxRing /\ s.tx <= s.txRing
    BY <2>1
  <2> QED BY <1>1, <2>2, <2>7, <2>8, <2>9 DEF EndOK, TcbOK
<1> QED BY <1>1, <1>2, <1>3

\* What an end did stays right while the other goes on.
LEMMA PeerGrown ==
  ASSUME NEW p, NEW t, NEW o \in Hists, NEW h \in Hists, NEW h2, EndOK(p, t, o, h), Grown(h, h2)
  PROVE  EndOK(p, t, o, h2)
<1>1. \A k \in DOMAIN t.asm : o.took + k < h2.wrote
  <2> SUFFICES ASSUME NEW k \in DOMAIN t.asm PROVE o.took + k < h2.wrote
    OBVIOUS
  <2>1. o.took + k < h.wrote /\ h.wrote <= h2.wrote /\ h.wrote \in Nat /\ h2.wrote \in Nat
        /\ o.took \in Nat
    BY DEF EndOK, Receiver, Grown, Hists
  <2>2. k \in Nat
    <3>1. t.asm \in Asms
      BY DEF EndOK, TcbOK, Tcbs
    <3>2. PICK d \in SUBSET (1 .. Max(Range(RxRing))) : t.asm \in [d -> ByteNums]
      BY <3>1 DEF Asms
    <3>3. k \in 1 .. Max(Range(RxRing))
      BY <3>2
    <3> QED BY <3>3, BoundsProperty
  <2> QED BY <2>1, <2>2
<1>2. Receiver(p, t, o, h2)
  BY <1>1 DEF EndOK, Receiver
<1> QED BY <1>2 DEF EndOK

\* All that a step does to the two streams.
Goes(h, h2) == h2 = h \/ Fed(h, h2) \/ Opens(h, h2) \/ Writes(h, h2) \/ Shuts(h, h2)

\* Nothing that was done is undone.
LEMMA GoesGrown ==
  ASSUME NEW e, NEW h, NEW o, HistOK(e, h, o), NEW h2, Goes(h, h2)
  PROVE  Grown(h, h2)
<1>1. h \in Hists
  BY DEF HistOK
<1>2. CASE h2 = h
  BY <1>1, <1>2 DEF Grown, Hists
<1>3. CASE Fed(h, h2)
  BY <1>1, <1>3, FedGrown
<1>4. CASE Opens(h, h2)
  <2>1. /\ h2 \in Hists /\ h2.opened /\ h2.wrote = h.wrote /\ h2.shut = h.shut
        /\ h2.took = h.took /\ h2.ended = h.ended
    BY <1>1, <1>4 DEF Opens, Hists
  <2> QED BY <1>1, <2>1 DEF Grown, Hists
<1>5. CASE Writes(h, h2)
  <2>1. /\ h2 \in Hists /\ h2.opened = h.opened /\ h2.wrote > h.wrote /\ ~h.shut
        /\ h2.took = h.took /\ h2.ended = h.ended
    BY <1>1, <1>5 DEF Writes, Hists
  <2> QED BY <1>1, <2>1 DEF Grown, Hists
<1>6. CASE Shuts(h, h2)
  <2>1. /\ h2 \in Hists /\ h2.opened = h.opened /\ h2.wrote = h.wrote /\ h2.shut
        /\ h2.took = h.took /\ h2.ended = h.ended
    BY <1>1, <1>6 DEF Shuts, Hists
  <2> QED BY <1>1, <2>1 DEF Grown, Hists
<1> QED BY <1>2, <1>3, <1>4, <1>5, <1>6 DEF Goes

\* What a step of e has come to.
Reached(e, w) == WorkOK(w, hist[Peer(e)]) /\ w.e = e /\ Goes(hist[e], w.h)

\* A step begins with what there is.
LEMMA WorkStart ==
  ASSUME IInv, NEW e \in Ends, NEW c \in Conditions
  PROVE  LET w == Work(e, c)
         IN  /\ WorkOK(w, hist[Peer(e)]) /\ w.e = e /\ w.t = tcb[e] /\ w.h = hist[e]
             /\ Reached(e, w)
<1> DEFINE w == Work(e, c)
<1>1. /\ w.e = e /\ w.t = tcb[e] /\ w.h = hist[e] /\ w.out = <<>> /\ w.sent = TRUE
      /\ w.full = FALSE /\ w.cwnd = c.cwnd /\ w.room = c.room
      /\ w = [e |-> w.e, t |-> w.t, h |-> w.h, out |-> w.out, sent |-> w.sent, full |-> w.full,
              cwnd |-> w.cwnd, room |-> w.room]
  BY DEF Work
<1>2. c.cwnd \in Nat /\ c.room \in Nat \cup {None}
  BY TcpAssumption DEF TcpAssumption, Conditions
<1>3. Peer(e) \in Ends /\ Peer(Peer(e)) = e
  BY EndsProperty
<1>4. /\ tcb[e] \in Tcbs \cup {None} /\ hist[e] \in Hists
      /\ HistOK(e, hist[e], hist[Peer(e)]) /\ HistOK(Peer(e), hist[Peer(e)], hist[e])
      /\ (tcb[e] # None => EndOK(e, tcb[e], hist[e], hist[Peer(e)]))
  BY <1>3 DEF IInv
<1> HIDE DEF w
<1>5. w.sent \in BOOLEAN /\ w.full \in BOOLEAN /\ w.out \in Seq(Segments) /\ Range(w.out) = {}
  <2>1. DOMAIN w.out = {} /\ w.out \in Seq(Segments)
    BY <1>1
  <2> QED BY <1>1, <2>1 DEF Range
<1>6. w \in Works
  BY <1>1, <1>2, <1>4, <1>5 DEF Works
<1>7. WorkOK(w, hist[Peer(e)])
  BY <1>1, <1>4, <1>5, <1>6 DEF WorkOK
<1> QED BY <1>1, <1>7 DEF Reached, Goes, w

\* What a step has come to is written back, and sent.
LEMMA DoneProperty ==
  ASSUME IInv, NEW e \in Ends, NEW c \in Conditions, NEW w, Reached(e, w), Done(e, c, w),
         listening' \in BOOLEAN
  PROVE  IInv'
<1> DEFINE t2 == IF w.t = None THEN None ELSE Settled(w.t)
           net2 == Carried(e, w.out)
           p == Peer(e)
<1>1. /\ p \in Ends /\ p # e /\ Peer(p) = e /\ \A d \in Ends : d = e \/ d = p
  BY EndsProperty
<1>2. /\ w \in Works /\ w.e = e /\ HistOK(e, w.h, hist[p]) /\ HistOK(p, hist[p], w.h)
      /\ \A seg \in Range(w.out) : SegOK(e, w.h, seg)
      /\ (w.t # None => EndOK(e, w.t, w.h, hist[p]))
      /\ w.h \in Hists /\ w.out \in Seq(Segments)
  BY DEF Reached, WorkOK, Works
<1>3. /\ tcb \in [Ends -> Tcbs \cup {None}] /\ hist \in [Ends -> Hists] /\ DOMAIN net = Ends
      /\ DOMAIN refusals = Ends
      /\ HistOK(e, hist[e], hist[p])
      /\ (tcb[p] # None => EndOK(p, tcb[p], hist[p], hist[e]))
      /\ IsFiniteSet(DOMAIN net[e]) /\ IsFiniteSet(DOMAIN net[p])
      /\ \A d \in Ends : \A seg \in DOMAIN net[d] :
           /\ seg \in Segments /\ SegOK(d, hist[d], seg)
           /\ net[d][seg] \in 0 .. (InTransit[d] - 1)
  BY <1>1 DEF IInv
<1>4. Grown(hist[e], w.h)
  BY <1>3, GoesGrown DEF Reached
<1>5. t2 \in Tcbs \cup {None} /\ (t2 # None => EndOK(e, t2, w.h, hist[p]))
  <2>1. CASE w.t = None
    BY <2>1
  <2>2. CASE w.t # None
    <3>1. Settled(w.t) = None \/ (Settled(w.t) \in Tcbs /\ EndOK(e, Settled(w.t), w.h, hist[p]))
      BY <1>2, <2>2, SettledProperty
    <3> QED BY <2>2, <3>1
  <2> QED BY <2>1, <2>2
<1>6. tcb[p] # None => EndOK(p, tcb[p], hist[p], w.h)
  BY <1>1, <1>2, <1>3, <1>4, PeerGrown
<1>7. /\ DOMAIN net2 \subseteq DOMAIN net[e] \cup Range(w.out) /\ IsFiniteSet(DOMAIN net2)
      /\ \A seg \in DOMAIN net2 : net2[seg] \in 0 .. (InTransit[e] - 1)
  BY <1>2, <1>3, CarriedProperty
<1>8. /\ tcb' = [tcb EXCEPT ![e] = t2] /\ hist' = [hist EXCEPT ![e] = w.h]
      /\ net' = [net EXCEPT ![e] = net2]
      /\ refusals' = IF w.full THEN [refusals EXCEPT ![e] = @ + 1] ELSE refusals
  BY DEF Done
<1> HIDE DEF t2, net2
<1>9. /\ tcb' \in [Ends -> Tcbs \cup {None}] /\ hist' \in [Ends -> Hists] /\ DOMAIN net' = Ends
      /\ DOMAIN refusals' = Ends
      /\ tcb'[e] = t2 /\ tcb'[p] = tcb[p] /\ hist'[e] = w.h /\ hist'[p] = hist[p]
      /\ net'[e] = net2 /\ net'[p] = net[p]
  BY <1>1, <1>2, <1>3, <1>5, <1>8
<1>10. \A seg \in DOMAIN net2 : seg \in Segments /\ SegOK(e, w.h, seg)
  <2> SUFFICES ASSUME NEW seg \in DOMAIN net2 PROVE seg \in Segments /\ SegOK(e, w.h, seg)
    OBVIOUS
  <2>1. CASE seg \in DOMAIN net[e]
    <3>1. seg \in Segments /\ SegOK(e, hist[e], seg) /\ hist[e] \in Hists
      BY <1>3, <2>1
    <3> QED BY <1>4, <3>1, SegGrown
  <2>2. CASE seg \in Range(w.out)
    <3>1. seg \in Segments
      BY <1>2, <2>2, RangeFinite
    <3> QED BY <1>2, <2>2, <3>1
  <2> QED BY <1>7, <2>1, <2>2
<1>11. ASSUME NEW d \in Ends
       PROVE  /\ HistOK(d, hist'[d], hist'[Peer(d)])
              /\ (tcb'[d] # None => EndOK(d, tcb'[d], hist'[d], hist'[Peer(d)]))
              /\ \A seg \in DOMAIN net'[d] : /\ seg \in Segments /\ SegOK(d, hist'[d], seg)
                                             /\ net'[d][seg] \in 0 .. (InTransit[d] - 1)
              /\ IsFiniteSet(DOMAIN net'[d])
  <2>1. CASE d = e
    BY <1>1, <1>2, <1>5, <1>7, <1>9, <1>10, <2>1
  <2>2. CASE d = p
    BY <1>1, <1>2, <1>3, <1>6, <1>9, <2>2
  <2> QED BY <1>1, <2>1, <2>2
<1> QED BY <1>9, <1>11 DEF IInv

\* A step of one end.
EndStep(e, c, w) == Reached(e, w) /\ Done(e, c, w) /\ listening' \in BOOLEAN
Steps == \E e \in Ends, c \in Conditions : \E w : EndStep(e, c, w)

\* What goes on from the start of a step, with its streams as they are, or further.
LEMMA ReachedProperty ==
  ASSUME IInv, NEW e \in Ends, NEW c \in Conditions, NEW w, w = Work(e, c), NEW v,
         WorkOK(v, hist[Peer(e)]), v.e = w.e, Goes(w.h, v.h)
  PROVE  Reached(e, v)
<1>1. w.e = e /\ w.h = hist[e]
  BY WorkStart
<1> QED BY <1>1 DEF Reached

\* tcp_connect.
LEMMA ConnectStep ==
  ASSUME IInv, NEW e \in Ends, NEW c \in Conditions, Connect(e, c)
  PROVE  EndStep(e, c, Opening(Work(e, c), NewTcb(e, "SynSent")))
<1> DEFINE w == Work(e, c)
           n == NewTcb(e, "SynSent")
           v == Opening(w, n)
<1>1. WorkOK(w, hist[Peer(e)]) /\ w.e = e /\ w.h = hist[e]
  BY WorkStart
<1>2. ~hist[e].opened /\ Done(e, c, v) /\ listening' = listening
  BY DEF Connect
<1>3. Fresh(e, n)
  BY CalledProperty
<1>4. w = Work(e, c)
  OBVIOUS
<1> HIDE DEF w, n
<1>5. ~w.h.opened /\ Fresh(w.e, n)
  BY <1>1, <1>2, <1>3
<1>6. HasTcb(v, hist[Peer(e)]) /\ v.e = w.e /\ v.h = [w.h EXCEPT !.opened = TRUE]
  BY <1>1, <1>5, OpeningProperty
<1> HIDE DEF v
<1>7. WorkOK(v, hist[Peer(e)]) /\ v.e = w.e /\ Goes(w.h, v.h)
  BY <1>5, <1>6 DEF HasTcb, Goes, Opens
<1>8. Reached(e, v)
  BY <1>4, <1>7, ReachedProperty
<1>9. EndStep(e, c, v)
  BY <1>2, <1>8 DEF EndStep, IInv
<1> QED BY <1>9 DEF v, w, n

\* An application that has the connection.
LEMMA OwnedStart ==
  ASSUME IInv, NEW e \in Ends, NEW c \in Conditions, tcb[e] # None
  PROVE  LET w == Work(e, c)
         IN  HasTcb(w, hist[Peer(e)]) /\ w.e = e /\ w.t = tcb[e] /\ w.h = hist[e]
<1> DEFINE w == Work(e, c)
<1>1. WorkOK(w, hist[Peer(e)]) /\ w.e = e /\ w.t = tcb[e] /\ w.h = hist[e]
  BY WorkStart
<1> HIDE DEF w
<1>2. HasTcb(w, hist[Peer(e)]) /\ w.e = e /\ w.t = tcb[e] /\ w.h = hist[e]
  BY <1>1 DEF HasTcb
<1> QED BY <1>2 DEF w

\* How much is written: no more than there is room for, nor than there is.
LEMMA PieceProperty ==
  ASSUME NEW w, NEW o, HasTcb(w, o), NEW e \in Ends, w.e = e, NEW size \in Pieces,
         LET n == Lesser(Lesser(size, w.t.txRing - w.t.tx), ToWrite[e] - w.h.wrote) IN n > 0
  PROVE  LET n == Lesser(Lesser(size, w.t.txRing - w.t.tx), ToWrite[e] - w.h.wrote)
         IN  n \in Nat \ {0} /\ n <= w.t.txRing - w.t.tx /\ n <= ToWrite[w.e] - w.h.wrote
<1> DEFINE n == Lesser(Lesser(size, w.t.txRing - w.t.tx), ToWrite[e] - w.h.wrote)
<1>1. /\ size \in Nat /\ w.t.txRing \in Nat /\ w.t.tx \in Nat /\ ToWrite[e] \in Nat
      /\ w.h.wrote \in Nat
  <2>1. w.t \in Tcbs /\ w.h \in Hists
    BY WorkFacts
  <2>2. size \in Nat
    BY TcpAssumption DEF TcpAssumption
  <2>3. w.t.txRing \in Nat /\ w.t.tx \in Nat
    BY <2>1 DEF Tcbs
  <2>4. w.h.wrote \in Nat
    BY <2>1 DEF Hists
  <2> QED BY <2>2, <2>3, <2>4, HalfProperty
<1>2. n \in Nat \ {0} /\ n <= w.t.txRing - w.t.tx /\ n <= ToWrite[w.e] - w.h.wrote
  <2> DEFINE a == w.t.txRing - w.t.tx
             b == ToWrite[e] - w.h.wrote
  <2>1. a \in Int /\ b \in Int
    BY <1>1
  <2>2. n > 0 /\ w.e = e
    OBVIOUS
  <2> HIDE DEF a, b
  <2>3. n = Lesser(Lesser(size, a), b)
    BY DEF a, b
  <2> HIDE DEF n
  <2>4. n \in Int /\ n <= a /\ n <= b
    BY <1>1, <2>1, <2>3 DEF Lesser
  <2> QED BY <2>2, <2>4 DEF a, b
<1> QED BY <1>2

\* tcp_write.
LEMMA WriteStep ==
  ASSUME IInv, NEW e \in Ends, NEW c \in Conditions, NEW size \in Pieces, Write(e, size, c)
  PROVE  LET w == Work(e, c)
             n == Lesser(Lesser(size, w.t.txRing - w.t.tx), ToWrite[e] - w.h.wrote)
         IN  EndStep(e, c, Output([w EXCEPT !.t.tx = @ + n, !.h.wrote = @ + n]))
<1> DEFINE w == Work(e, c)
           n == Lesser(Lesser(size, w.t.txRing - w.t.tx), ToWrite[e] - w.h.wrote)
           x == [w EXCEPT !.t.tx = @ + n, !.h.wrote = @ + n]
           v == Output(x)
<1>1. HasTcb(w, hist[Peer(e)]) /\ w.e = e /\ w.t = tcb[e] /\ w.h = hist[e]
  BY OwnedStart DEF Write, Owned
<1>2. /\ ~w.t.finQueued /\ w.t.state \in {"Established", "CloseWait"} /\ n > 0
      /\ Done(e, c, v) /\ listening' = listening
  BY DEF Write
<1>3. w = Work(e, c)
  OBVIOUS
<1> HIDE DEF w
<1>4. n \in Nat \ {0} /\ n <= w.t.txRing - w.t.tx /\ n <= ToWrite[w.e] - w.h.wrote
  BY <1>1, <1>2, PieceProperty
<1> HIDE DEF n
<1>5. HasTcb(x, hist[Peer(e)]) /\ x.e = w.e /\ Writes(w.h, x.h)
  BY <1>1, <1>2, <1>4, WroteProperty
<1> HIDE DEF x
<1>6. HasTcb(v, hist[Peer(e)]) /\ Same(x, v)
  BY <1>5, OutputProperty
<1> HIDE DEF v
<1>7. WorkOK(v, hist[Peer(e)]) /\ v.e = w.e /\ Goes(w.h, v.h)
  BY <1>5, <1>6 DEF HasTcb, Goes, Same
<1>8. Reached(e, v)
  BY <1>3, <1>7, ReachedProperty
<1>9. EndStep(e, c, v)
  BY <1>2, <1>8 DEF EndStep, IInv
<1> QED BY <1>9 DEF v, x, n, w

\* tcp_read.
LEMMA ReadStep ==
  ASSUME IInv, NEW e \in Ends, NEW c \in Conditions, NEW size \in Pieces, Read(e, size, c)
  PROVE  LET w == Work(e, c)
             n == Lesser(size, Len(w.t.rx))
             t == [w.t EXCEPT !.rx = SubSeq(@, n + 1, Len(@))]
         IN  EndStep(e, c, IF Synchronized(t) /\ Grew(t) THEN AckNow(On(w, t)) ELSE On(w, t))
<1> DEFINE w == Work(e, c)
           n == Lesser(size, Len(w.t.rx))
           t == [w.t EXCEPT !.rx = SubSeq(@, n + 1, Len(@))]
           x == On(w, t)
           v == IF Synchronized(t) /\ Grew(t) THEN AckNow(x) ELSE x
<1>1. HasTcb(w, hist[Peer(e)]) /\ w.e = e /\ w.t = tcb[e] /\ w.h = hist[e]
  BY OwnedStart DEF Read, Owned
<1>2. n > 0 /\ Done(e, c, v) /\ listening' = listening
  BY DEF Read
<1>3. w = Work(e, c)
  OBVIOUS
<1> HIDE DEF w
<1>4. size \in Nat /\ Len(w.t.rx) \in Nat
  <2>1. w.t \in Tcbs
    BY <1>1, WorkFacts
  <2>2. size \in Nat
    BY TcpAssumption DEF TcpAssumption
  <2> QED BY <2>1, <2>2 DEF Tcbs
<1>5. n \in Nat /\ n <= Len(w.t.rx)
  BY <1>4 DEF Lesser
<1> HIDE DEF n
<1>6. HasTcb(x, hist[Peer(e)]) /\ Same(w, x)
  BY <1>1, <1>5, ReadProperty
<1> HIDE DEF x
<1>7. HasTcb(AckNow(x), hist[Peer(e)]) /\ Same(x, AckNow(x))
  BY <1>6, AckNowProperty
<1> HIDE DEF t
<1>8. v = x \/ v = AckNow(x)
  OBVIOUS
<1> HIDE DEF v
<1>9. WorkOK(v, hist[Peer(e)]) /\ v.e = w.e /\ Goes(w.h, v.h)
  BY <1>6, <1>7, <1>8 DEF HasTcb, Goes, Same
<1>10. Reached(e, v)
  BY <1>3, <1>9, ReachedProperty
<1>11. EndStep(e, c, v)
  BY <1>2, <1>10 DEF EndStep, IInv
<1> QED BY <1>11 DEF v, x, t, n, w

\* tcp_shutdown.
LEMMA ShutdownStep ==
  ASSUME IInv, NEW e \in Ends, NEW c \in Conditions, Shutdown(e, c)
  PROVE  EndStep(e, c, ShutDown(Work(e, c)))
<1> DEFINE w == Work(e, c)
           v == ShutDown(w)
<1>1. HasTcb(w, hist[Peer(e)]) /\ w.e = e /\ w.t = tcb[e] /\ w.h = hist[e]
  BY OwnedStart DEF Shutdown, Owned
<1>2. Done(e, c, v) /\ listening' = listening
  BY DEF Shutdown
<1>3. w = Work(e, c)
  OBVIOUS
<1> HIDE DEF w
<1>4. HasTcb(v, hist[Peer(e)]) /\ v.e = w.e /\ (v.h = w.h \/ Shuts(w.h, v.h))
  BY <1>1, ShutDownProperty
<1> HIDE DEF v
<1>5. WorkOK(v, hist[Peer(e)]) /\ v.e = w.e /\ Goes(w.h, v.h)
  BY <1>4 DEF HasTcb, Goes
<1>6. Reached(e, v)
  BY <1>3, <1>5, ReachedProperty
<1>7. EndStep(e, c, v)
  BY <1>2, <1>6 DEF EndStep, IInv
<1> QED BY <1>7 DEF v, w

\* A field of the control block that is of no account changes.
LEMMA NeutralWork ==
  ASSUME NEW w, NEW o, HasTcb(w, o), NEW s, NEW fields, Touched(w.t, s, fields), NEW v,
         v = [w EXCEPT !.t = s]
  PROVE  HasTcb(v, o) /\ Same(w, v) /\ v.t = s
<1>1. Moved(w, s, v)
  BY DEF Moved
<1> QED BY <1>1, NeutralProperty

\* tcp_release: what the application let go of is shut down or aborted.
LEMMA ReleaseStep ==
  ASSUME IInv, NEW e \in Ends, NEW c \in Conditions, Release(e, c)
  PROVE  LET w  == [Work(e, c) EXCEPT !.t.released = TRUE]
             w1 == ShutDown(w)
             w2 == On(w1, Awaited(w1.t))
         IN  EndStep(e, c, IF w.t.rx # <<>> \/ w.t.state = "SynSent" THEN Abort(w) ELSE w2)
<1> DEFINE o  == hist[Peer(e)]
           w0 == Work(e, c)
           s  == [w0.t EXCEPT !.released = TRUE]
           w  == [w0 EXCEPT !.t.released = TRUE]
           w1 == ShutDown(w)
           w2 == On(w1, Awaited(w1.t))
           v  == IF w.t.rx # <<>> \/ w.t.state = "SynSent" THEN Abort(w) ELSE w2
<1>1. HasTcb(w0, o) /\ w0.e = e /\ w0.t = tcb[e] /\ w0.h = hist[e]
  BY OwnedStart DEF Release, Owned
<1>2. Done(e, c, v) /\ listening' = listening
  BY DEF Release
<1>3. w0 = Work(e, c)
  OBVIOUS
<1> HIDE DEF w0
<1>4. HasTcb(w, o) /\ Same(w0, w)
  <2>1. w0 \in Works /\ w0.t \in Tcbs
    BY <1>1, WorkFacts DEF HasTcb, WorkOK
  <2>2. w = [w0 EXCEPT !.t = s]
    BY <2>1 DEF Works
  <2>3. Changed(w0.t, s, {"released"}) /\ s.released \in BOOLEAN
    BY <2>1 DEF Changed, Tcbs
  <2> HIDE DEF s, w
  <2>4. Touched(w0.t, s, {"released"})
    BY <2>3 DEF Touched, Neutral, TcbTypes
  <2> QED BY <1>1, <2>2, <2>4, NeutralWork
<1> HIDE DEF w
<1>5. HasTcb(Abort(w), o) /\ Same(w, Abort(w))
  BY <1>4, AbortProperty
<1>6. HasTcb(w1, o) /\ w1.e = w.e /\ (w1.h = w.h \/ Shuts(w.h, w1.h))
  BY <1>4, ShutDownProperty
<1> HIDE DEF w1
<1>7. HasTcb(w2, o) /\ Same(w1, w2)
  <2> DEFINE t == w1.t
             x == [t EXCEPT !.closeAt = TRUE]
             a == Awaited(t)
  <2>1. w1 \in Works /\ t \in Tcbs
    BY <1>6, WorkFacts DEF HasTcb, WorkOK
  <2>2. a = x \/ a = t
    BY DEF Awaited
  <2>3. Changed(t, x, {"closeAt"}) /\ x.closeAt \in BOOLEAN
    BY <2>1 DEF Changed, Tcbs
  <2>4. w2 = [w1 EXCEPT !.t = a]
    BY DEF On
  <2>5. [w1 EXCEPT !.t = t] = w1
    BY <2>1 DEF Works
  <2> HIDE DEF x, a, w2
  <2>6. Touched(t, x, {"closeAt"})
    BY <2>3 DEF Touched, Neutral, TcbTypes
  <2>7. CASE a = x
    BY <1>6, <2>4, <2>6, <2>7, NeutralWork
  <2>8. CASE a = t
    BY <1>6, <2>4, <2>5, <2>8 DEF Same
  <2> QED BY <2>2, <2>7, <2>8
<1>8. v = w2 \/ v = Abort(w)
  OBVIOUS
<1> HIDE DEF v, w2, o
<1>9. WorkOK(v, o) /\ v.e = w0.e /\ Goes(w0.h, v.h)
  BY <1>4, <1>5, <1>6, <1>7, <1>8 DEF HasTcb, Goes, Same
<1>10. Reached(e, v)
  BY <1>3, <1>9, ReachedProperty DEF o
<1>11. EndStep(e, c, v)
  BY <1>2, <1>10 DEF EndStep, IInv
<1> QED BY <1>11 DEF v, w2, w1, w, w0

\* The Listener goes, and the connection nobody accepted with it.
LEMMA UnlistenStep ==
  ASSUME IInv, NEW c \in Conditions, Unlisten(c)
  PROVE  IF tcb[Server] # None /\ tcb[Server].listener
         THEN EndStep(Server, c, Abort([Work(Server, c) EXCEPT !.t.released = TRUE,
                                                               !.t.listener = FALSE,
                                                               !.t.ready = FALSE]))
         ELSE UNCHANGED <<tcb, hist, net, refusals>> /\ listening' \in BOOLEAN
<1>1. CASE tcb[Server] # None /\ tcb[Server].listener
  <2> DEFINE e  == Server
             o  == hist[Peer(e)]
             w0 == Work(e, c)
             s  == [w0.t EXCEPT !.released = TRUE, !.listener = FALSE, !.ready = FALSE]
             w  == [w0 EXCEPT !.t.released = TRUE, !.t.listener = FALSE, !.t.ready = FALSE]
             v  == Abort(w)
  <2>1. e \in Ends
    BY DEF Ends
  <2>2. HasTcb(w0, o) /\ w0.e = e /\ w0.t = tcb[e] /\ w0.h = hist[e]
    BY <1>1, <2>1, OwnedStart
  <2>3. Done(e, c, v) /\ listening' = FALSE
    BY <1>1 DEF Unlisten
  <2>4. w0 = Work(e, c)
    OBVIOUS
  <2> HIDE DEF w0
  <2>5. HasTcb(w, o) /\ Same(w0, w)
    <3>1. w0 \in Works /\ w0.t \in Tcbs
      BY <2>2, WorkFacts DEF HasTcb, WorkOK
    <3>2. w = [w0 EXCEPT !.t = s]
      BY <3>1 DEF Works
    <3>3. /\ Changed(w0.t, s, {"released", "listener", "ready"})
          /\ s.released \in BOOLEAN /\ s.listener \in BOOLEAN /\ s.ready \in BOOLEAN
      BY <3>1 DEF Changed, Tcbs
    <3> HIDE DEF s, w
    <3>4. Touched(w0.t, s, {"released", "listener", "ready"})
      BY <3>3 DEF Touched, Neutral, TcbTypes
    <3> QED BY <2>2, <3>2, <3>4, NeutralWork
  <2> HIDE DEF w
  <2>6. HasTcb(v, o) /\ Same(w, v)
    BY <2>5, AbortProperty
  <2> HIDE DEF v, o
  <2>7. WorkOK(v, o) /\ v.e = w0.e /\ Goes(w0.h, v.h)
    BY <2>5, <2>6 DEF HasTcb, Goes, Same
  <2>8. Reached(e, v)
    BY <2>1, <2>4, <2>7, ReachedProperty DEF o
  <2>9. EndStep(e, c, v)
    BY <2>3, <2>8 DEF EndStep
  <2> QED BY <1>1, <2>9 DEF v, w, w0
<1>2. CASE ~(tcb[Server] # None /\ tcb[Server].listener)
  BY <1>2 DEF Unlisten
<1> QED BY <1>1, <1>2

\* tcp_input.
LEMMA InputStep ==
  ASSUME IInv, NEW e \in Ends, NEW c \in Conditions, Input(e, c)
  PROVE  \E seg \in DOMAIN net[Peer(e)] : EndStep(e, c, Received(Work(e, c), seg))
<1> DEFINE w == Work(e, c)
<1>1. PICK seg \in DOMAIN net[Peer(e)] : Done(e, c, Received(w, seg))
  BY DEF Input
<1> DEFINE v == Received(w, seg)
<1>2. WorkOK(w, hist[Peer(e)]) /\ w.e = e /\ w.h = hist[e]
  BY WorkStart
<1>3. w = Work(e, c) /\ Done(e, c, v) /\ listening' = listening
  BY <1>1 DEF Input
<1>4. seg \in Segments /\ SegOK(Peer(e), hist[Peer(e)], seg)
  <2>1. Peer(e) \in Ends
    BY EndsProperty
  <2> QED BY <2>1 DEF IInv
<1> HIDE DEF w
<1>5. Arrives(w, hist[Peer(e)], seg)
  BY <1>2, <1>4 DEF Arrives
<1>6. WorkOK(v, hist[Peer(e)]) /\ v.e = w.e /\ (Fed(w.h, v.h) \/ Opens(w.h, v.h))
  BY <1>2, <1>5, ReceivedProperty
<1> HIDE DEF v
<1>7. WorkOK(v, hist[Peer(e)]) /\ v.e = w.e /\ Goes(w.h, v.h)
  BY <1>6 DEF Goes
<1>8. Reached(e, v)
  BY <1>3, <1>7, ReachedProperty
<1>9. EndStep(e, c, v)
  BY <1>3, <1>8 DEF EndStep, IInv
<1> QED BY <1>9 DEF v, w

\* tcp_poll, tcp_timers and tcp_link_ready.
LEMMA TimersStep ==
  ASSUME IInv, NEW e \in Ends, NEW c \in Conditions, Timers(e, c)
  PROVE  \E due \in SUBSET Armed(tcb[e]) : EndStep(e, c, TimersGo(Work(e, c), due))
<1> DEFINE w == Work(e, c)
<1>1. PICK due \in SUBSET Armed(tcb[e]) : Done(e, c, TimersGo(w, due))
  BY DEF Timers
<1> DEFINE v == TimersGo(w, due)
<1>2. HasTcb(w, hist[Peer(e)]) /\ w.e = e /\ w.t = tcb[e] /\ w.h = hist[e]
  BY OwnedStart DEF Timers
<1>3. w = Work(e, c) /\ Done(e, c, v) /\ listening' = listening
  BY <1>1 DEF Timers
<1> HIDE DEF w
<1>4. due \in SUBSET Armed(w.t)
  BY <1>1, <1>2
<1>5. HasTcb(v, hist[Peer(e)]) /\ Same(w, v)
  BY <1>2, <1>4, TimersGoProperty
<1> HIDE DEF v
<1>6. WorkOK(v, hist[Peer(e)]) /\ v.e = w.e /\ Goes(w.h, v.h)
  BY <1>5 DEF HasTcb, Goes, Same
<1>7. Reached(e, v)
  BY <1>3, <1>6, ReachedProperty
<1>8. EndStep(e, c, v)
  BY <1>3, <1>7 DEF EndStep, IInv
<1> QED BY <1>8 DEF v, w

\* The backlog hands over the connection it held.
LEMMA AcceptStep ==
  ASSUME IInv, Accept
  PROVE  IInv' /\ hist' = hist
<1> DEFINE t == tcb[Server]
           s == [t EXCEPT !.listener = FALSE, !.ready = FALSE]
<1>1. Server \in Ends /\ t # None /\ tcb \in [Ends -> Tcbs \cup {None}]
  BY DEF Ends, Accept, IInv
<1>2. t \in Tcbs /\ EndOK(Server, t, hist[Server], hist[Peer(Server)])
  BY <1>1 DEF IInv
<1>3. tcb' = [tcb EXCEPT ![Server] = s] /\ UNCHANGED <<hist, listening, net, refusals>>
  BY <1>1 DEF Accept
<1>4. Changed(t, s, {"listener", "ready"}) /\ s.listener \in BOOLEAN /\ s.ready \in BOOLEAN
  BY <1>2 DEF Changed, Tcbs
<1> HIDE DEF s
<1>5. Touched(t, s, {"listener", "ready"})
  BY <1>4 DEF Touched, Neutral, TcbTypes
<1>6. EndOK(Server, s, hist[Server], hist[Peer(Server)]) /\ s \in Tcbs
  BY <1>2, <1>5, EndTouched
<1>7. tcb' \in [Ends -> Tcbs \cup {None}] /\ tcb'[Server] = s
      /\ \A e \in Ends : e # Server => tcb'[e] = tcb[e]
  BY <1>1, <1>3, <1>6
<1>8. \A e \in Ends : tcb'[e] # None => EndOK(e, tcb'[e], hist[e], hist[Peer(e)])
  <2> SUFFICES ASSUME NEW e \in Ends, tcb'[e] # None
               PROVE  EndOK(e, tcb'[e], hist[e], hist[Peer(e)])
    OBVIOUS
  <2>1. CASE e = Server
    BY <1>6, <1>7, <2>1
  <2>2. CASE e # Server
    BY <1>7, <2>2 DEF IInv
  <2> QED BY <2>1, <2>2
<1> QED BY <1>3, <1>7, <1>8 DEF IInv

\* Every step is one of an end, unless it leaves the connections alone.
LEMMA NextProperty ==
  ASSUME IInv, Next
  PROVE  \/ Steps \/ Accept
         \/ UNCHANGED <<tcb, hist, net, refusals>> /\ listening' \in BOOLEAN
<1>1. CASE Accept
  BY <1>1
<1>2. ASSUME NEW c \in Conditions, Unlisten(c)
      PROVE  Steps \/ (UNCHANGED <<tcb, hist, net, refusals>> /\ listening' \in BOOLEAN)
  <2>1. Server \in Ends
    BY DEF Ends
  <2> QED BY <1>2, <2>1, UnlistenStep DEF Steps
<1>3. ASSUME NEW c \in Conditions, NEW e \in Ends,
             \/ Connect(e, c)
             \/ \E size \in Pieces : Write(e, size, c)
             \/ \E size \in Pieces : Read(e, size, c)
             \/ Shutdown(e, c)
             \/ Release(e, c)
             \/ Input(e, c)
             \/ Timers(e, c)
      PROVE  Steps
  <2>1. CASE Connect(e, c)
    BY <2>1, ConnectStep DEF Steps
  <2>2. CASE \E size \in Pieces : Write(e, size, c)
    BY <2>2, WriteStep DEF Steps
  <2>3. CASE \E size \in Pieces : Read(e, size, c)
    BY <2>3, ReadStep DEF Steps
  <2>4. CASE Shutdown(e, c)
    BY <2>4, ShutdownStep DEF Steps
  <2>5. CASE Release(e, c)
    BY <2>5, ReleaseStep DEF Steps
  <2>6. CASE Input(e, c)
    BY <2>6, InputStep DEF Steps
  <2>7. CASE Timers(e, c)
    BY <2>7, TimersStep DEF Steps
  <2> QED BY <1>3, <2>1, <2>2, <2>3, <2>4, <2>5, <2>6, <2>7
<1> QED BY <1>1, <1>2, <1>3 DEF Next

\* The invariant holds where nothing was done yet.
LEMMA IInvInit ==
  ASSUME Init
  PROVE  IInv
<1> DEFINE h0 == [opened |-> FALSE, wrote |-> 0, shut |-> FALSE, took |-> 0, ended |-> FALSE,
                  settled |-> 0]
<1>1. /\ h0 \in Hists /\ ~h0.opened /\ h0.wrote = 0 /\ ~h0.shut /\ h0.took = 0 /\ ~h0.ended
      /\ h0.settled = 0
  BY DEF Hists
<1>2. /\ tcb = [e \in Ends |-> None] /\ hist = [e \in Ends |-> h0] /\ listening = TRUE
      /\ net = [e \in Ends |-> [seg \in {} |-> 0]] /\ refusals = [e \in Ends |-> 0]
  BY DEF Init
<1> HIDE DEF h0
<1>3. ASSUME NEW e \in Ends
      PROVE  /\ HistOK(e, hist[e], hist[Peer(e)]) /\ tcb[e] = None /\ DOMAIN net[e] = {}
             /\ IsFiniteSet(DOMAIN net[e])
  <2>1. Peer(e) \in Ends /\ ToWrite[e] \in Nat
    BY EndsProperty, HalfProperty
  <2>2. hist[e] = h0 /\ hist[Peer(e)] = h0 /\ tcb[e] = None /\ DOMAIN net[e] = {}
    BY <1>2, <2>1
  <2>3. HistOK(e, h0, h0)
    BY <1>1, <2>1 DEF HistOK
  <2> QED BY <2>2, <2>3, FS_EmptySet
<1> QED BY <1>1, <1>2, <1>3 DEF IInv

\* Every step keeps it.
LEMMA IInvNext ==
  ASSUME IInv, [Next]_vars
  PROVE  IInv'
<1>1. CASE Next
  <2>1. CASE Steps
    <3>1. PICK e \in Ends, c \in Conditions : \E w : EndStep(e, c, w)
      BY <2>1 DEF Steps
    <3>2. PICK w : EndStep(e, c, w)
      BY <3>1
    <3> QED BY <3>2, DoneProperty DEF EndStep
  <2>2. CASE Accept
    BY <2>2, AcceptStep
  <2>3. CASE UNCHANGED <<tcb, hist, net, refusals>> /\ listening' \in BOOLEAN
    BY <2>3 DEF IInv
  <2> QED BY <1>1, <2>1, <2>2, <2>3, NextProperty
<1>2. CASE UNCHANGED vars
  BY <1>2 DEF IInv, vars
<1> QED BY <1>1, <1>2

\* The inductive invariant holds of every state.
THEOREM Inductive == Spec => []IInv
<1>1. Init => IInv
  BY IInvInit
<1>2. IInv /\ [Next]_vars => IInv'
  BY IInvNext
<1> QED BY <1>1, <1>2, PTL DEF Spec

\* Every field of either connection, and every segment on its way, stays what
\* the code's types say: a ring never holds more than it has room for.
THEOREM TypeCorrect == Spec => []TypeOK
<1>1. IInv => TypeOK
  <2> SUFFICES ASSUME IInv PROVE TypeOK
    OBVIOUS
  <2>1. ASSUME NEW e \in Ends
        PROVE  /\ tcb[e] = None \/ tcb[e] \in Tcbs
               /\ tcb[e] # None => Len(tcb[e].rx) <= tcb[e].rxRing /\ tcb[e].tx <= tcb[e].txRing
               /\ DOMAIN net[e] \subseteq Segments
               /\ \A seg \in DOMAIN net[e] : net[e][seg] \in 0 .. (InTransit[e] - 1)
    BY DEF IInv, EndOK, TcbOK
  <2> QED BY <2>1 DEF IInv, TypeOK
<1> QED BY <1>1, Inductive, PTL

\* What waits to be read, and what was put aside for later, are the very bytes
\* the peer wrote at those places, whatever the network does to the segments.
THEOREM StreamsIntact == Spec => []StreamIntact
<1>1. IInv => StreamIntact
  <2> SUFFICES ASSUME IInv, NEW e \in Ends, tcb[e] # None
               PROVE  /\ \A i \in DOMAIN tcb[e].rx :
                           tcb[e].rx[i] = hist[e].took - Len(tcb[e].rx) + i - 1
                      /\ \A k \in DOMAIN tcb[e].asm : tcb[e].asm[k] = hist[e].took + k
    BY DEF StreamIntact
  <2> QED BY DEF IInv, EndOK, Receiver
<1> QED BY <1>1, Inductive, PTL

\* A step of an end is one of its stream's, or none.
LEMMA StreamStep ==
  ASSUME IInv, NEW e \in Ends, NEW c \in Conditions, NEW w, EndStep(e, c, w)
  PROVE  Streams!Next \/ hist' = hist
<1> DEFINE h == hist[e]
           h2 == w.h
           o == hist[Peer(e)]
<1>1. /\ h \in Hists /\ h2 \in Hists /\ o \in Hists /\ hist \in [Ends -> Hists]
      /\ HistOK(e, h2, o) /\ Goes(h, h2) /\ Peer(e) \in Ends
  BY EndsProperty DEF EndStep, Reached, WorkOK, Works, IInv
<1>2. hist' = [hist EXCEPT ![e] = h2] /\ hist'[e] = h2
  <2>1. hist' = [hist EXCEPT ![e] = h2]
    BY DEF EndStep, Done
  <2> QED BY <1>1, <2>1
<1>3. CASE h2 = h
  BY <1>1, <1>2, <1>3
<1>4. CASE Opens(h, h2)
  <2>1. Streams!Open(e)
    BY <1>2, <1>4 DEF Opens, Streams!Open, Streams!Becomes
  <2> QED BY <2>1 DEF Streams!Next
<1>5. CASE Writes(h, h2)
  <2>1. Streams!Write(e)
    BY <1>2, <1>5 DEF Writes, Streams!Write, Streams!Becomes
  <2> QED BY <2>1 DEF Streams!Next
<1>6. CASE Shuts(h, h2)
  <2>1. Streams!Shut(e)
    BY <1>2, <1>6 DEF Shuts, Streams!Shut, Streams!Becomes
  <2> QED BY <2>1 DEF Streams!Next
<1>7. CASE Fed(h, h2)
  <2> DEFINE fed == [h EXCEPT !.took = h2.took, !.ended = h2.ended, !.settled = h2.settled]
  <2>1. h2 = fed
    BY <1>1, <1>7 DEF Fed, Hists
  <2>2. /\ h.took \in Nat /\ h2.took \in Nat /\ o.wrote \in Nat /\ h.settled \in Nat
        /\ h2.settled \in Nat /\ o.took \in Nat
    BY <1>1 DEF Hists
  <2>3. /\ h.took <= h2.took /\ h2.took <= o.wrote /\ (h.ended => h2.took = h.took)
        /\ h.settled <= h2.settled /\ h2.settled <= o.took
    BY <1>1, <1>7 DEF Fed, HistOK
  <2>4. h2.took \in h.took .. (IF h.ended THEN h.took ELSE o.wrote)
    BY <2>2, <2>3
  <2>5. (h.ended => h2.ended) /\ (h2.ended => o.shut /\ h2.took = o.wrote)
    BY <1>1, <1>7 DEF Fed, HistOK
  <2>6. h2.settled \in h.settled .. o.took
    BY <2>2, <2>3
  <2>7. Streams!Becomes(e, fed)
    BY <1>2, <2>1 DEF Streams!Becomes
  <2>8. Streams!Input(e)
    <3> HIDE DEF h2, fed
    <3>1. /\ hist'[e].took \in h.took .. (IF h.ended THEN h.took ELSE o.wrote)
          /\ h.ended => hist'[e].ended
          /\ hist'[e].ended => o.shut /\ hist'[e].took = o.wrote
          /\ hist'[e].settled \in h.settled .. o.took
      BY <1>2, <2>4, <2>5, <2>6
    <3>2. Streams!Becomes(e, [hist[e] EXCEPT !.took = hist'[e].took, !.ended = hist'[e].ended,
                                             !.settled = hist'[e].settled])
      BY <1>2, <2>7 DEF fed
    <3> QED BY <3>1, <3>2 DEF Streams!Input
  <2> QED BY <2>8 DEF Streams!Next
<1> QED BY <1>1, <1>3, <1>4, <1>5, <1>6, <1>7 DEF Goes

\* The connection is the two pipes its ends were promised: what arrives is what
\* was written, in order and once, its end last, and only what arrived is forgotten.
THEOREM StreamsAsPromised == Spec => Implements
<1>1. Init => Streams!Init
  BY DEF Init, Streams!Init
<1>2. IInv /\ [Next]_vars => [Streams!Next]_hist
  <2> SUFFICES ASSUME IInv, [Next]_vars PROVE [Streams!Next]_hist
    OBVIOUS
  <2>1. CASE UNCHANGED vars
    BY <2>1 DEF vars
  <2>2. CASE Next
    <3>1. CASE Steps
      <4>1. PICK e \in Ends, c \in Conditions : \E w : EndStep(e, c, w)
        BY <3>1 DEF Steps
      <4>2. PICK w : EndStep(e, c, w)
        BY <4>1
      <4> QED BY <4>2, StreamStep
    <3>2. CASE Accept
      BY <3>2 DEF Accept
    <3> QED BY <2>2, <3>1, <3>2, NextProperty
  <2> QED BY <2>1, <2>2
<1> QED BY <1>1, <1>2, Inductive, PTL DEF Spec, Implements, Streams!Spec

-----------------------------------------------------------------------------
(* What is owed has a timer: a second invariant, on top of the first.  It     *)
(* needs a link that takes the segments of a handshake, and one end that      *)
(* does not connect: without either a SYN is not sent again when it should    *)
(* be, and README.md says what comes of it.                                   *)

OneCaller == ~HandshakeMeetsFullLink /\ Callers # Ends

\* An end of the stream was asked for, by the application or for it.
Ending == {"FinWait1", "FinWait2", "Closing", "LastAck", "TimeWait"}

\* What holds of a connection all through a step: what is not acknowledged is
\* timed, an acknowledgement that is put off is due or timed, a SYN that was not
\* acknowledged is a caller's or a Listener's, and the state says how far the
\* end of the stream has got.
Tended(e, t, h, o) ==
  LET u == At(e, t.una)
      n == At(e, t.nxt)
      m == At(e, t.max)
      end == 2 + h.wrote
  IN  t.state # "Closed" =>
        /\ t.una # t.max => t.rtx
        /\ t.unacked > 0 => t.ackAt \/ t.ackNow
        /\ t.state = "SynSent" => e \in Callers
        /\ t.state = "SynReceived" => t.listener /\ ~t.ready
        /\ Synchronized(t) => u > 0 /\ n > 0
        /\ t.finQueued <=> t.state \in Ending
        /\ t.released => t.state \in Ending
        /\ t.finSeq # None => m = end /\ At(e, t.finSeq) = 1 + h.wrote
        /\ t.state \in {"FinWait1", "Closing", "LastAck"} => u < end
        /\ t.state \in {"FinWait2", "TimeWait"} => u = end
        /\ t.state = "FinWait2" /\ t.released => t.closeAt
        /\ u <= 1 + o.took + Bit(o.ended)

\* What holds of it besides between the steps, when output has run or had no
\* reason to.
Lingers(t) == t.state = "TimeWait" => t.closeAt
Rested(e, t) ==
  /\ Lingers(t)
  /\ Synchronized(t) /\ t.ackNow => t.linkRetry
  /\ Synchronized(t) /\ (Unsent(t) > 0 \/ (t.finQueued /\ ~t.finSent)) =>
       t.rtx \/ t.linkRetry \/ t.persist
  /\ t.state \in {"SynSent", "SynReceived"} => At(e, t.nxt) = 1

\* Only a caller asks for a connection.
Asks(e, seg) == seg.flags.syn /\ ~seg.flags.acks => e \in Callers

AllTended ==
  \A e \in Ends :
    /\ tcb[e] # None => /\ Tended(e, tcb[e], hist[e], hist[Peer(e)]) /\ Rested(e, tcb[e])
                        /\ tcb[e].state = "Closed" => ~tcb[e].released
    /\ \A seg \in DOMAIN net[e] : Asks(e, seg)

\* The same of a step that is under way.
Quiet(w) == \A seg \in Range(w.out) : Asks(w.e, seg)
Minded(w, o) == Quiet(w) /\ (w.t # None => Tended(w.e, w.t, w.h, o))
Reposed(w, o) == Minded(w, o) /\ (w.t # None => Rested(w.e, w.t))

\* A change of the control block that none of this is about.
Calm(t, s) ==
  /\ s.state = t.state /\ s.una = t.una /\ s.nxt = t.nxt /\ s.max = t.max /\ s.rtx = t.rtx
  /\ s.listener = t.listener /\ s.ready = t.ready /\ s.released = t.released
  /\ s.finQueued = t.finQueued /\ s.finSeq = t.finSeq /\ s.closeAt = t.closeAt
  /\ \/ s.unacked = t.unacked /\ s.ackAt = t.ackAt /\ s.ackNow = t.ackNow
     \/ s.unacked = 0 \/ s.ackNow = TRUE \/ s.ackAt = TRUE

\* Such a change keeps what holds all through a step.
LEMMA CalmProperty ==
  ASSUME NEW e, NEW t, NEW h, NEW o, Tended(e, t, h, o), NEW s, Calm(t, s),
         NEW h2, h2.wrote = h.wrote
  PROVE  Tended(e, s, h2, o)
<1>1. CASE s.state = "Closed"
  BY <1>1 DEF Tended
<1>2. CASE s.state # "Closed"
  <2>1. s.unacked > 0 => s.ackAt \/ s.ackNow
    BY <1>2 DEF Tended, Calm
  <2>2. /\ s.state = t.state /\ s.una = t.una /\ s.nxt = t.nxt /\ s.max = t.max /\ s.rtx = t.rtx
        /\ s.listener = t.listener /\ s.ready = t.ready /\ s.released = t.released
        /\ s.finQueued = t.finQueued /\ s.finSeq = t.finSeq /\ s.closeAt = t.closeAt
    BY DEF Calm
  <2> QED BY <1>2, <2>1, <2>2 DEF Tended, Synchronized
<1> QED BY <1>1, <1>2

\* A step that goes on with another control block, where nothing is sent.
LEMMA MindedOn ==
  ASSUME NEW w, NEW o, HasTcb(w, o), Minded(w, o), NEW s, Tended(w.e, s, w.h, o),
         NEW v, Moved(w, s, v)
  PROVE  Minded(v, o) /\ v.t = s /\ v.e = w.e /\ v.h = w.h /\ v.out = w.out
<1>1. w \in Works
  BY DEF HasTcb, WorkOK
<1>2. v.t = s /\ v.e = w.e /\ v.h = w.h /\ v.out = w.out
  <2>1. CASE v = [w EXCEPT !.t = s]
    BY <1>1, <2>1 DEF Works
  <2>2. CASE v = [w EXCEPT !.t = s, !.sent = TRUE]
    BY <1>1, <2>2 DEF Works
  <2> QED BY <2>1, <2>2 DEF Moved
<1> QED BY <1>2 DEF Minded, Quiet

\* One of them that none of this is about.
LEMMA MindedCalm ==
  ASSUME NEW w, NEW o, HasTcb(w, o), Minded(w, o), NEW s, Calm(w.t, s), NEW v, Moved(w, s, v)
  PROVE  Minded(v, o) /\ v.t = s /\ v.e = w.e /\ v.h = w.h /\ v.out = w.out
<1>1. Tended(w.e, w.t, w.h, o)
  BY DEF HasTcb, Minded
<1>2. Tended(w.e, s, w.h, o)
  BY <1>1, CalmProperty
<1> QED BY <1>2, MindedOn

\* A segment that goes out.
LEMMA OutProperty ==
  ASSUME NEW e, NEW out \in Seq(Segments), \A x \in Range(out) : Asks(e, x),
         NEW seg, Asks(e, seg)
  PROVE  \A x \in Range(Append(out, seg)) : Asks(e, x)
<1>1. Range(Append(out, seg)) \subseteq Range(out) \cup {seg}
  BY DEF Range
<1> QED BY <1>1

\* What a segment that is sent changes.
Sends(t, s) == Calm(t, s) /\ Changed(t, s, {"adv", "ackNow", "ackAt", "unacked"})

\* It goes out where there is room, and what is due with it.
Answers(w, flags, v) == v.sent = Room(w) /\ (v.sent /\ flags.acks => v.t.ackNow = FALSE)

\* SendTcp leaves the timers alone, and an acknowledgement that goes out is not
\* due any more.
LEMMA QuietSent ==
  ASSUME NEW w, NEW o, HasTcb(w, o), Quiet(w), NEW seq, NEW flags \in Flags,
         NEW offset, NEW n, flags.syn /\ ~flags.acks => w.e \in Callers
  PROVE  LET v == SendTcp(w, seq, flags, offset, n)
         IN  Quiet(v) /\ Sends(w.t, v.t) /\ Same(w, v) /\ Answers(w, flags, v)
<1> DEFINE t   == [w.t EXCEPT !.adv = Edge(w.t)]
           seg == Segment(seq, IF flags.acks THEN t.rnxt ELSE 0, flags, Bytes(w, offset, n),
                          Diff(t.adv, t.rnxt))
           t2  == [t EXCEPT !.ackNow = FALSE, !.ackAt = FALSE, !.unacked = 0]
           v   == SendTcp(w, seq, flags, offset, n)
<1>1. w \in Works /\ w.t \in Tcbs /\ w.t # None /\ w.out \in Seq(Segments)
  BY WorkFacts DEF HasTcb, WorkOK
<1>2. v = IF ~Room(w) THEN [w EXCEPT !.t = t, !.sent = FALSE, !.full = TRUE]
          ELSE [w EXCEPT !.t = IF flags.acks THEN t2 ELSE t, !.out = Append(@, seg), !.sent = TRUE]
  BY DEF SendTcp
<1>3. Calm(w.t, t) /\ Calm(w.t, t2) /\ t2.ackNow = FALSE /\ t.persist = w.t.persist
      /\ t2.persist = w.t.persist
  BY <1>1 DEF Calm, Tcbs
<1>9. /\ Changed(w.t, t, {"adv", "ackNow", "ackAt", "unacked"})
      /\ Changed(w.t, t2, {"adv", "ackNow", "ackAt", "unacked"})
  <2>1. DOMAIN w.t = DOMAIN TcbTypes /\ w.t = [f \in DOMAIN w.t |-> w.t[f]]
    BY <1>1, TcbIs
  <2> QED BY <2>1 DEF Changed
<1>4. Asks(w.e, seg)
  BY DEF Asks, Segment
<1> HIDE DEF t, t2, seg, v
<1>5. /\ v.e = w.e /\ v.h = w.h /\ v.cwnd = w.cwnd /\ v.room = w.room /\ v.sent = Room(w)
      /\ v.t = IF Room(w) /\ flags.acks THEN t2 ELSE t
      /\ v.out = IF Room(w) THEN Append(w.out, seg) ELSE w.out
  <2>0. Room(w) \in BOOLEAN
    BY DEF Room
  <2>1. CASE Room(w)
    BY <1>1, <1>2, <2>1 DEF Works
  <2>2. CASE ~Room(w)
    BY <1>1, <1>2, <2>0, <2>2 DEF Works
  <2> QED BY <2>1, <2>2
<1>6. Calm(w.t, v.t) /\ (v.sent /\ flags.acks => v.t.ackNow = FALSE) /\ v.t.persist = w.t.persist
  BY <1>3, <1>5
<1>8. \A x \in Range(v.out) : Asks(v.e, x)
  BY <1>1, <1>4, <1>5, OutProperty DEF Quiet
<1> QED BY <1>5, <1>6, <1>8, <1>9 DEF Quiet, Sends, Same, Answers, v

\* What holds all through a step holds after it.
LEMMA MindedSent ==
  ASSUME NEW w, NEW o, HasTcb(w, o), Minded(w, o), NEW seq, NEW flags \in Flags,
         NEW offset, NEW n, flags.syn /\ ~flags.acks => w.e \in Callers
  PROVE  LET v == SendTcp(w, seq, flags, offset, n)
         IN  Minded(v, o) /\ Sends(w.t, v.t) /\ Same(w, v) /\ Answers(w, flags, v)
<1> DEFINE v == SendTcp(w, seq, flags, offset, n)
<1>1. Quiet(w) /\ Tended(w.e, w.t, w.h, o)
  BY DEF HasTcb, Minded
<1>2. Quiet(v) /\ Sends(w.t, v.t) /\ Same(w, v) /\ Answers(w, flags, v)
  BY <1>1, QuietSent
<1> HIDE DEF v
<1>3. Tended(w.e, v.t, v.h, o) /\ v.e = w.e
  BY <1>1, <1>2, CalmProperty DEF Sends, Same
<1> QED BY <1>2, <1>3 DEF Minded, v

\* A RST asks for nothing.
LEMMA RepliedReset ==
  ASSUME NEW w, NEW o, WorkOK(w, o), Reposed(w, o), NEW seg
  PROVE  Reposed(SendReset(w, seg), o)
<1> DEFINE reply == IF seg.flags.acks THEN Segment(seg.ack, 0, RST, <<>>, 0)
                    ELSE Segment(0, Plus(seg.seq, SegLen(seg)), [RST EXCEPT !.acks = TRUE],
                                 <<>>, 0)
           v     == SendReset(w, seg)
<1>1. Asks(w.e, reply)
  BY DEF Asks, Segment, RST
<1>2. v = IF Room(w) THEN [w EXCEPT !.out = Append(@, reply)] ELSE [w EXCEPT !.full = TRUE]
  BY DEF SendReset
<1> HIDE DEF reply, v
<1>3. w \in Works /\ w.out \in Seq(Segments)
  BY DEF WorkOK, Works
<1>4. v.e = w.e /\ v.h = w.h /\ v.t = w.t /\ (v.out = w.out \/ v.out = Append(w.out, reply))
  <2>1. CASE Room(w)
    BY <1>2, <1>3, <2>1 DEF Works
  <2>2. CASE ~Room(w)
    BY <1>2, <1>3, <2>2 DEF Works
  <2> QED BY <2>1, <2>2
<1>5. \A x \in Range(v.out) : Asks(v.e, x)
  BY <1>1, <1>3, <1>4, OutProperty DEF Reposed, Minded, Quiet
<1> QED BY <1>4, <1>5 DEF Reposed, Minded, Quiet, v

\* A round of output: what is sent is timed, and where nothing is, there was
\* nothing that may go out.
LEMMA MindedNext ==
  ASSUME NEW w, NEW o, HasTcb(w, o), Synchronized(w.t), Minded(w, o)
  PROVE  LET v == SendNext(w)
         IN  /\ Minded(v, o) /\ v.t.closeAt = w.t.closeAt
             /\ ~v.sent \/ v.t.rtx \/ (v = w /\ ~GoesOut(w))
<1> DEFINE t  == w.t
           h  == w.h
           n  == At(w.e, t.nxt)
           m  == At(w.e, t.max)
           k  == Most(w)
           v  == SendNext(w)
           flags == [ACK EXCEPT !.fin = Fin(w)]
           w1 == SendTcp(w, t.nxt, flags, Diff(t.nxt, t.base), k)
           j  == k + (IF Fin(w) THEN 1 ELSE 0)
           to == Plus(t.nxt, j)
           end == IF Fin(w) THEN Plus(t.nxt, k) ELSE w1.t.finSeq
           t1 == Advance(w1.t, to)
           t2 == [t1 EXCEPT !.finSeq = end, !.finSent = @ \/ Fin(w), !.probe = FALSE, !.rtx = TRUE]
<1>1. v = IF ~GoesOut(w) THEN w ELSE IF ~w1.sent THEN w1 ELSE On(w1, t2)
  <2>1. v = IF ~w.sent \/ t.finSent \/ ~(Fin(w) \/ WorthSending(t, k)) THEN w
            ELSE IF ~w1.sent THEN w1
            ELSE On(w1, [t1 EXCEPT !.finSeq = IF Fin(w) THEN Plus(t.nxt, k) ELSE @,
                                   !.finSent = @ \/ Fin(w), !.probe = FALSE, !.rtx = TRUE])
    BY DEF SendNext, Most, Fin
  <2>2. t1.finSeq = w1.t.finSeq
    BY DEF Advance
  <2> QED BY <2>1, <2>2 DEF GoesOut
<1>2. CASE ~GoesOut(w)
  BY <1>1, <1>2
<1>3. CASE GoesOut(w)
  <2>1. HasTcb(v, o) /\ Same(w, v) /\ v.t.state = t.state
    BY SendNextProperty
  <2>2. Fin(w) \in BOOLEAN /\ flags \in Flags /\ ~(flags.syn /\ ~flags.acks)
    BY WorkFacts DEF Fin, Tcbs, ACK, Flags
  <2> HIDE DEF flags
  <2>3. Minded(w1, o) /\ Sends(t, w1.t) /\ w1.e = w.e /\ w1.h = h
    <3>1. Minded(w1, o) /\ Sends(w.t, w1.t) /\ Same(w, w1)
      BY <2>2, MindedSent
    <3> HIDE DEF w1
    <3> QED BY <3>1 DEF Same
  <2>4. n > 0 /\ t.state # "Closed" /\ Tended(w.e, t, h, o) /\ t \in Tcbs
    <3>1. t.state # "Closed" /\ Tended(w.e, t, h, o) /\ t \in Tcbs
      BY WorkFacts DEF Synchronized, HasTcb, Minded
    <3> QED BY <3>1 DEF Tended
  <2>5. CASE ~w1.sent
    <3>1. v = w1 /\ ~v.sent /\ w1.t.closeAt = t.closeAt
      BY <1>1, <1>3, <2>3, <2>5 DEF Sends, Calm
    <3> QED BY <2>3, <3>1
  <2>6. CASE w1.sent
    <3>1. v = On(w1, t2)
      BY <1>1, <1>3, <2>6
    <3>2. /\ k \in Nat /\ k <= Unsent(t) /\ n + k <= 1 + h.wrote
          /\ Fin(w) => k = 1 + h.wrote - n
      BY <1>3, <2>4, GoesOutProperty
    <3>3. /\ n \in Nat /\ m \in Nat /\ n <= m /\ h.wrote \in Nat /\ m <= 2 + h.wrote
          /\ 2 + h.wrote < Half /\ Half \in Nat /\ Space = 2 * Half
          /\ t.nxt \in SeqNums /\ t.max \in SeqNums /\ w.e \in Ends
      BY SenderFacts, WorkFacts
    <3> HIDE DEF n, m, k
    <3>4. /\ j \in Nat /\ n + j < Space /\ n + j >= n /\ n + j < Half
          /\ Fin(w) => n + j = 2 + h.wrote
      BY <3>2, <3>3
    <3> HIDE DEF j
    <3>5. At(w.e, to) = n + j /\ to \in SeqNums
      BY <3>3, <3>4, SumPosition DEF n
    <3> HIDE DEF to, w1, end
    <3>6. Changed(w1.t, t2, {"nxt", "max", "finSeq", "finSent", "probe", "rtx"})
      BY <2>3 DEF Sends, Changed, Advance
    <3>7. /\ t2.nxt = to /\ t2.max = (IF Lt(w1.t.max, to) THEN to ELSE w1.t.max)
          /\ t2.finSeq = end /\ t2.rtx = TRUE
      BY <2>3, <2>4 DEF Sends, Changed, Advance, Tcbs
    <3> HIDE DEF t2
    <3>8. v.t = t2 /\ v.e = w.e /\ v.h = h /\ v.out = w1.out
      BY <2>1, <2>3, <3>1 DEF On, HasTcb, WorkOK, Works
    <3>9. /\ t2.state = t.state /\ t2.una = t.una /\ t2.listener = t.listener
          /\ t2.ready = t.ready /\ t2.released = t.released /\ t2.finQueued = t.finQueued
          /\ t2.closeAt = t.closeAt /\ t2.unacked = w1.t.unacked /\ t2.ackAt = w1.t.ackAt
          /\ t2.ackNow = w1.t.ackNow /\ w1.t.max = t.max /\ w1.t.finSeq = t.finSeq
          /\ w1.t.state = t.state
      <4>1. /\ \A f \in DOMAIN t : f \notin {"adv", "ackNow", "ackAt", "unacked"} =>
                  w1.t[f] = t[f]
            /\ \A f \in DOMAIN t : 
                 f \notin {"nxt", "max", "finSeq", "finSent", "probe", "rtx"} => t2[f] = w1.t[f]
        BY <2>3, <3>6 DEF Sends, Changed
      <4>2. DOMAIN t = DOMAIN TcbTypes
        BY <2>4, TcbIs
      <4> HIDE DEF t
      <4> QED BY <4>1, <4>2 DEF TcbTypes
    <3>10. Tended(w.e, w1.t, h, o)
      BY <2>3, <2>4, CalmProperty DEF Sends
    <3>11. /\ At(w.e, t2.nxt) > 0
           /\ t2.finSeq # None => /\ At(w.e, t2.max) = 2 + h.wrote
                                  /\ At(w.e, t2.finSeq) = 1 + h.wrote
      <4>1. /\ At(w.e, t2.max) <= 2 + h.wrote /\ At(w.e, t2.nxt) <= At(w.e, t2.max)
            /\ At(w.e, t2.max) \in Nat /\ At(w.e, t2.nxt) = n + j
        <5>1. HasTcb(v, o)
          BY <2>1
        <5> HIDE DEF v
        <5> QED BY <3>5, <3>7, <3>8, <5>1, SenderFacts
      <4>2. CASE Fin(w)
        <5>1. Plus(t.nxt, k) \in SeqNums /\ At(w.e, Plus(t.nxt, k)) = n + k
          BY <3>2, <3>3, SumPosition DEF n
        <5>2. At(w.e, t2.finSeq) = 1 + h.wrote
          <6>1. n + k = 1 + h.wrote
            BY <3>2, <3>3, <4>2
          <6>2. t2.finSeq = Plus(t.nxt, k)
            BY <3>7, <4>2 DEF end
          <6> QED BY <5>1, <6>1, <6>2
        <5> QED BY <2>4, <3>3, <3>4, <4>1, <4>2, <5>2
      <4>3. CASE ~Fin(w)
        <5>1. t2.finSeq # None => m = 2 + h.wrote /\ At(w.e, t2.finSeq) = 1 + h.wrote
          <6>1. t2.finSeq = t.finSeq
            BY <3>7, <3>9, <4>3 DEF end
          <6>2. t.finSeq # None => m = 2 + h.wrote /\ At(w.e, t.finSeq) = 1 + h.wrote
            BY <2>4 DEF Tended, m
          <6> QED BY <6>1, <6>2
        <5>2. At(w.e, t2.max) >= m
          <6>1. m < Half /\ Lt(t.max, to) <=> m < n + j
            BY <3>3, <3>4, <3>5, BelowHalf DEF m
          <6> QED BY <3>3, <3>4, <3>5, <3>7, <3>9, <6>1 DEF m
        <5> QED BY <2>4, <3>3, <3>4, <4>1, <5>1, <5>2
      <4> QED BY <4>2, <4>3
    <3>12. Tended(w.e, t2, h, o)
      <4>1. t2.finSeq # None => At(w.e, t2.finSeq) = 1 + h.wrote
        BY <3>3, <3>11
      <4>2. /\ t2.finSeq # None => At(w.e, t2.max) = 2 + h.wrote
            /\ At(w.e, t2.nxt) > 0 /\ t2.rtx
        BY <3>7, <3>11
      <4> QED BY <2>4, <3>9, <3>10, <4>1, <4>2 DEF Tended, Synchronized
    <3> QED BY <2>3, <3>7, <3>8, <3>9, <3>12 DEF Minded, Quiet
  <2> QED BY <2>5, <2>6
<1> QED BY <1>2, <1>3

\* The rounds of output, one or more of them.
LEMMA MindedRounds ==
  ASSUME NEW w, NEW o, HasTcb(w, o), Synchronized(w.t), Minded(w, o), NEW i \in Nat \ {0}
  PROVE  LET v == Rounds(w)[i]
         IN  /\ Minded(v, o) /\ v.t.closeAt = w.t.closeAt
             /\ ~v.sent \/ v.t.rtx \/ ~GoesOut(v)
<1> DEFINE Good(v) == Minded(v, o) /\ v.t.closeAt = w.t.closeAt
           r   == Rounds(w)
           Bad == {j \in Nat : ~Good(r[j])}
<1>1. r[0] = w /\ \A j \in Nat \ {0} : r[j] = SendNext(r[j - 1])
  BY RoundsProperty
<1>2. \A j \in Nat : HasTcb(r[j], o) /\ Synchronized(r[j].t)
  BY LoopProperty DEF Synchronized
<1> HIDE DEF r
<1>3. ASSUME NEW j \in Nat, Good(r[j])
      PROVE  /\ Good(SendNext(r[j]))
             /\ ~SendNext(r[j]).sent \/ SendNext(r[j]).t.rtx \/ ~GoesOut(SendNext(r[j]))
  <2>1. HasTcb(r[j], o) /\ Synchronized(r[j].t)
    BY <1>2
  <2> QED BY <1>3, <2>1, MindedNext
<1>4. Bad = {}
  <2> SUFFICES ASSUME Bad # {} PROVE FALSE
    OBVIOUS
  <2>1. Min(Bad) \in Bad /\ \A y \in Bad : Min(Bad) <= y
    <3>1. Bad \in SUBSET Nat
      OBVIOUS
    <3> HIDE DEF Bad
    <3> QED BY <3>1, MinProperty
  <2>2. PICK j \in Nat : ~Good(r[j]) /\ \A y \in Bad : j <= y
    BY <2>1
  <2>3. j # 0
    BY <1>1, <2>2
  <2>4. j - 1 \in Nat /\ Good(r[j - 1])
    BY <2>2, <2>3
  <2>5. r[j] = SendNext(r[j - 1])
    BY <1>1, <2>3
  <2> QED BY <1>3, <2>2, <2>4, <2>5
<1>5. i - 1 \in Nat /\ r[i] = SendNext(r[i - 1])
  BY <1>1
<1>6. Good(r[i - 1])
  BY <1>4, <1>5
<1> QED BY <1>3, <1>5, <1>6 DEF r

\* The link retry is armed.
LEMMA MindedRetry ==
  ASSUME NEW w, NEW o, HasTcb(w, o), Minded(w, o)
  PROVE  LET v == Retry(w)
         IN  /\ Minded(v, o) /\ Changed(w.t, v.t, {"linkRetry"}) /\ v.t.linkRetry = TRUE
             /\ v.t.closeAt = w.t.closeAt
<1> DEFINE s == [w.t EXCEPT !.linkRetry = TRUE]
<1>1. w.t \in Tcbs /\ w \in Works
  BY WorkFacts DEF HasTcb, WorkOK
<1>2. Moved(w, s, Retry(w))
  BY <1>1 DEF Retry, Works, Moved
<1>3. Calm(w.t, s) /\ Changed(w.t, s, {"linkRetry"}) /\ s.linkRetry = TRUE
  BY <1>1 DEF Changed, Tcbs, Calm
<1> HIDE DEF s
<1>4. Minded(Retry(w), o) /\ Retry(w).t = s
  BY <1>2, <1>3, MindedCalm
<1> QED BY <1>3, <1>4 DEF Calm

\* The SYN goes out and is timed: the link has room for it.
LEMMA MindedSyn ==
  ASSUME OneCaller, NEW w, NEW o, HasTcb(w, o), w.t.state \in {"SynSent", "SynReceived"},
         Minded(w, o)
  PROVE  LET v == OutputSyn(w)
         IN  Minded(v, o) /\ At(w.e, v.t.nxt) = 1
<1> DEFINE t  == w.t
           h  == w.h
           flags == [SYN EXCEPT !.acks = t.state = "SynReceived"]
           w1 == SendTcp(w, t.iss, flags, 0, 0)
           to == Plus(t.iss, 1)
           t1 == Advance(w1.t, to)
           t2 == [t1 EXCEPT !.rtx = TRUE]
           v  == OutputSyn(w)
<1>1. v = IF t.nxt # t.iss THEN w ELSE IF ~w1.sent THEN Retry(w1) ELSE On(w1, t2)
  BY DEF OutputSyn
<1>2. /\ w.e \in Ends /\ t \in Tcbs /\ Sender(w.e, t, h) /\ h.wrote \in Nat /\ w.t # None
      /\ t.nxt \in SeqNums /\ t.max \in SeqNums
      /\ At(w.e, t.nxt) \in Nat /\ At(w.e, t.max) \in Nat /\ At(w.e, t.nxt) <= At(w.e, t.max)
      /\ Half \in Nat /\ 2 + h.wrote < Half
  BY WorkFacts, SenderFacts
<1>3. /\ t.iss = Iss[w.e] /\ Iss[w.e] \in SeqNums /\ At(w.e, t.max) <= 1
      /\ t.finSeq = None
  BY <1>2, HalfProperty DEF Sender
<1>4. Tended(w.e, t, h, o)
  BY <1>2 DEF Minded
<1>5. CASE t.nxt # t.iss
  <2>1. At(w.e, Iss[w.e]) = 0
    BY <1>2, FirstPosition
  <2>2. At(w.e, t.nxt) # 0
    BY <1>2, <1>3, <1>5, <2>1, ByPosition
  <2>3. At(w.e, t.nxt) = 1
    BY <1>2, <1>3, <2>2
  <2> QED BY <1>1, <1>5, <2>3
<1>6. CASE t.nxt = t.iss
  <2>1. flags \in Flags /\ (flags.syn /\ ~flags.acks => w.e \in Callers)
    BY <1>4 DEF SYN, Flags, Tended
  <2>2. Room(w)
    BY <1>2 DEF Room, Synchronized, OneCaller
  <2> HIDE DEF flags
  <2>3. Minded(w1, o) /\ Sends(w.t, w1.t) /\ Same(w, w1) /\ w1.sent = Room(w)
    <3>1. Minded(w1, o) /\ Sends(w.t, w1.t) /\ Same(w, w1) /\ Answers(w, flags, w1)
      BY <2>1, MindedSent
    <3> HIDE DEF w1
    <3> QED BY <3>1 DEF Answers
  <2>4. HasTcb(v, o)
    BY OutputSynProperty
  <2>5. v = On(w1, t2)
    BY <1>1, <1>6, <2>2, <2>3
  <2>6. to \in SeqNums /\ At(w.e, to) = 1
    <3>1. 1 \in SeqNums /\ 1 \in 0 .. Space
      BY <1>2, HalfProperty DEF SeqNums
    <3>2. to \in SeqNums
      BY <1>3, <3>1, PlusProperty
    <3>3. At(w.e, to) = 1
      BY <1>2, <1>3, <3>1, AtProperty
    <3> QED BY <3>2, <3>3
  <2> HIDE DEF to, w1
  <2>7. Changed(w1.t, t2, {"nxt", "max", "rtx"})
    BY <2>3 DEF Sends, Changed, Advance
  <2>8. t2.nxt = to /\ t2.rtx = TRUE
    BY <1>2, <2>3 DEF Sends, Changed, Advance, Tcbs
  <2> HIDE DEF t2
  <2>9. v.t = t2 /\ v.e = w.e /\ v.h = h /\ v.out = w1.out
    BY <2>3, <2>4, <2>5 DEF On, HasTcb, WorkOK, Works, Same
  <2>10. /\ t2.state = t.state /\ t2.una = t.una /\ t2.listener = t.listener
         /\ t2.ready = t.ready /\ t2.released = t.released /\ t2.finQueued = t.finQueued
         /\ t2.closeAt = t.closeAt /\ t2.unacked = w1.t.unacked /\ t2.ackAt = w1.t.ackAt
         /\ t2.ackNow = w1.t.ackNow /\ t2.finSeq = t.finSeq /\ w1.t.state = t.state
    <3>1. /\ \A f \in DOMAIN t : f \notin {"adv", "ackNow", "ackAt", "unacked"} => w1.t[f] = t[f]
          /\ \A f \in DOMAIN t : f \notin {"nxt", "max", "rtx"} => t2[f] = w1.t[f]
      BY <2>3, <2>7 DEF Sends, Changed
    <3>2. DOMAIN t = DOMAIN TcbTypes
      BY <1>2, TcbIs
    <3> HIDE DEF t
    <3> QED BY <3>1, <3>2 DEF TcbTypes
  <2>11. Tended(w.e, w1.t, h, o)
    BY <1>4, <2>3, CalmProperty DEF Sends
  <2>12. Tended(w.e, t2, h, o)
    BY <1>3, <1>4, <2>8, <2>10, <2>11 DEF Tended, Synchronized
  <2> QED BY <2>3, <2>6, <2>8, <2>9, <2>12 DEF Minded, Quiet, Same
<1> QED BY <1>5, <1>6

\* Where nothing is timed and nothing may go out, nothing is on its way, and the
\* end of the stream waits behind bytes.
LEMMA NothingLeft ==
  ASSUME NEW w, NEW o, HasTcb(w, o), Synchronized(w.t), Minded(w, o),
         w.sent, ~w.t.rtx, ~GoesOut(w)
  PROVE  InFlight(w.t) = 0 /\ (w.t.finQueued /\ ~w.t.finSent => Unsent(w.t) > 0)
<1> DEFINE t == w.t
           n == At(w.e, t.nxt)
           u == At(w.e, t.una)
<1>1. /\ n \in Nat /\ u \in Nat /\ t.una \in SeqNums /\ t.nxt \in SeqNums /\ w.e \in Ends
      /\ n <= At(w.e, t.max) /\ Sender(w.e, t, w.h) /\ t.state # "Closed" /\ t \in Tcbs
      /\ Tended(w.e, t, w.h, o)
  BY SenderFacts, WorkFacts DEF Synchronized, HasTcb, Minded
<1>2. n > 0 /\ t.una = t.max
  BY <1>1 DEF Tended
<1>3. n = u
  BY <1>1, <1>2 DEF Sender
<1>4. InFlight(t) = 0
  BY <1>1, <1>3, ByPosition DEF InFlight
<1>5. ASSUME t.finQueued, ~t.finSent
      PROVE  Unsent(t) > 0
  <2>1. Unsent(t) \in Nat
    BY <1>5, UnsentProperty
  <2>2. Unsent(t) # Most(w)
    BY <1>5 DEF GoesOut, Fin
  <2>3. ASSUME Unsent(t) = 0
        PROVE  Most(w) = 0
    <3> DEFINE window == Left(Lesser(t.wnd, w.cwnd), InFlight(t))
    <3>1. t.wnd \in Nat /\ w.cwnd \in Nat /\ Mss \in Nat
      BY <1>1, WorkFacts, BoundsProperty, TcpAssumption DEF Tcbs, Windows, TcpAssumption
    <3>2. window \in Nat
      BY <1>4, <3>1, PairProperty
    <3>3. Lesser(0, Mss) = 0
      BY <3>1 DEF Lesser
    <3>4. Most(w) = Lesser(0, IF t.probe THEN Greater(window, 1) ELSE window)
      BY <2>3, <3>3 DEF Most
    <3> HIDE DEF window
    <3>5. (IF t.probe THEN Greater(window, 1) ELSE window) \in Nat
      BY <3>2, PairProperty
    <3> QED BY <3>4, <3>5 DEF Lesser
  <2> QED BY <2>1, <2>2, <2>3
<1> QED BY <1>4, <1>5

\* The acknowledgement that is due goes out or is retried, and what the window
\* holds back is probed for.
LEMMA MindedAck ==
  ASSUME NEW w, NEW o, HasTcb(w, o), Synchronized(w.t), Minded(w, o), w.sent,
         w.t.rtx \/ ~GoesOut(w), Lingers(w.t)
  PROVE  LET v == OutputAck(w)
         IN  Minded(v, o) /\ Rested(w.e, v.t)
<1> DEFINE w1 == SendTcp(w, w.t.nxt, ACK, 0, 0)
           w2 == IF ~w.t.ackNow THEN w ELSE IF w1.sent THEN w1 ELSE Retry(w1)
           s  == Probing(w2.t)
           v  == OutputAck(w)
<1>1. v = On(w2, s)
  BY DEF OutputAck
<1>2. w.t.state # "Closed" /\ w.t.state # "SynSent" /\ w.t.nxt \in SeqNums /\ w.t \in Tcbs
  BY SenderFacts, WorkFacts DEF Synchronized
<1>3. Sendable(w, w.t.nxt, ACK, 0, 0) /\ ACK \in Flags /\ ~(ACK.syn /\ ~ACK.acks) /\ ACK.acks
  BY <1>2 DEF Sendable, ACK, Flags
<1>4. HasTcb(w1, o) /\ Same(w, w1)
  BY <1>2, <1>3, SendTcpProperty
<1>5. Minded(w1, o) /\ Sends(w.t, w1.t) /\ Answers(w, ACK, w1)
  BY <1>3, MindedSent
<1> HIDE DEF w1
<1>6. w1.sent => w1.t.ackNow = FALSE
  BY <1>3, <1>5 DEF Answers
<1>7. HasTcb(Retry(w1), o) /\ Same(w1, Retry(w1))
  BY <1>4, RetryProperty
<1>8. /\ Minded(Retry(w1), o) /\ Changed(w1.t, Retry(w1).t, {"linkRetry"})
      /\ Retry(w1).t.linkRetry = TRUE
  BY <1>4, <1>5, MindedRetry
<1>9. HasTcb(w2, o) /\ Same(w, w2) /\ Minded(w2, o)
  BY <1>4, <1>5, <1>7, <1>8 DEF Same
<1>10. Changed(w.t, w2.t, {"adv", "ackNow", "ackAt", "unacked", "linkRetry"})
  <2>1. Changed(w.t, w.t, {"adv", "ackNow", "ackAt", "unacked", "linkRetry"})
    BY <1>2 DEF Changed, Tcbs
  <2>2. Changed(w.t, w1.t, {"adv", "ackNow", "ackAt", "unacked"})
    BY <1>5 DEF Sends
  <2>3. Changed(w.t, w1.t, {"adv", "ackNow", "ackAt", "unacked", "linkRetry"})
    BY <2>2 DEF Changed
  <2>4. Changed(w.t, Retry(w1).t, {"adv", "ackNow", "ackAt", "unacked", "linkRetry"})
    BY <1>8, <2>2 DEF Changed
  <2> QED BY <2>1, <2>3, <2>4
<1>11. w2.t.ackNow => w2.t.linkRetry
  <2>1. CASE ~w.t.ackNow
    BY <2>1
  <2>2. CASE w.t.ackNow /\ w1.sent
    BY <1>6, <2>2
  <2>3. CASE w.t.ackNow /\ ~w1.sent
    BY <1>8, <2>3
  <2> QED BY <2>1, <2>2, <2>3
<1> HIDE DEF w2
<1>12. w2.t \in Tcbs /\ w2 \in Works
  BY <1>9, WorkFacts DEF HasTcb, WorkOK
<1>13. /\ w2.t.rtx = w.t.rtx /\ w2.t.una = w.t.una /\ w2.t.nxt = w.t.nxt /\ w2.t.base = w.t.base
       /\ w2.t.tx = w.t.tx /\ w2.t.finSent = w.t.finSent /\ w2.t.finQueued = w.t.finQueued
       /\ w2.t.state = w.t.state /\ w2.t.closeAt = w.t.closeAt
  <2>1. DOMAIN w.t = DOMAIN TcbTypes
    BY <1>2, TcbIs
  <2> QED BY <1>10, <2>1 DEF Changed, TcbTypes
<1>14. /\ Calm(w2.t, s) /\ Changed(w2.t, s, {"persist"})
       /\ Unsent(w2.t) > 0 /\ InFlight(w2.t) = 0 => s.persist = TRUE
  BY <1>12 DEF Probing, Calm, Changed, Tcbs
<1>15. s.ackNow = w2.t.ackNow /\ s.linkRetry = w2.t.linkRetry
  BY <1>12 DEF Probing, Tcbs
<1>16. /\ s.rtx = w.t.rtx /\ s.nxt = w.t.nxt /\ s.base = w.t.base /\ s.tx = w.t.tx
       /\ s.finSent = w.t.finSent /\ s.finQueued = w.t.finQueued /\ s.state = w.t.state
       /\ s.closeAt = w.t.closeAt
  BY <1>12, <1>13 DEF Probing, Tcbs
<1> HIDE DEF s
<1>17. Moved(w2, s, v)
  BY <1>1 DEF On, Moved
<1> HIDE DEF v
<1>18. Minded(v, o) /\ v.t = s
  BY <1>9, <1>14, <1>17, MindedCalm
<1>19. Unsent(s) = Unsent(w.t) /\ Unsent(w2.t) = Unsent(w.t) /\ InFlight(w2.t) = InFlight(w.t)
  BY <1>13, <1>16 DEF Unsent, InFlight
<1>20. Unsent(s) > 0 \/ (s.finQueued /\ ~s.finSent) => s.rtx \/ s.persist
  <2>1. CASE w.t.rtx
    BY <1>16, <2>1
  <2>2. CASE ~w.t.rtx
    <3>1. InFlight(w.t) = 0 /\ (w.t.finQueued /\ ~w.t.finSent => Unsent(w.t) > 0)
      BY <2>2, NothingLeft
    <3> QED BY <1>14, <1>16, <1>19, <3>1
  <2> QED BY <2>1, <2>2
<1>21. Rested(w.e, s)
  <2>1. Synchronized(s) /\ Lingers(s)
    BY <1>16 DEF Synchronized, Lingers
  <2> QED BY <1>11, <1>15, <1>20, <2>1 DEF Rested, Synchronized
<1> QED BY <1>18, <1>21 DEF v

\* Output leaves nothing behind that nothing makes it come back for.
LEMMA MindedOutput ==
  ASSUME OneCaller, NEW w, NEW o, HasTcb(w, o), Minded(w, o), Lingers(w.t)
  PROVE  LET v == Output(w)
         IN  Minded(v, o) /\ Rested(w.e, v.t)
<1> DEFINE s  == [w.t EXCEPT !.linkRetry = FALSE]
           w0 == [w EXCEPT !.t.linkRetry = FALSE, !.sent = TRUE]
           w1 == Rounds(w0)[w.t.tx + 1]
           v  == Output(w)
<1>1. w.t \in Tcbs /\ w \in Works /\ w.t.tx + 1 \in Nat \ {0}
  <2>1. w.t.tx \in Nat
    BY SenderFacts
  <2>2. w.t.tx + 1 \in Nat \ {0}
    BY <2>1
  <2>3. w.t \in Tcbs /\ w \in Works
    BY WorkFacts DEF HasTcb, WorkOK
  <2> QED BY <2>2, <2>3
<1>2. HasTcb(w0, o) /\ Same(w, w0) /\ Minded(w0, o) /\ w0.t = s
  <2>1. Moved(w, s, w0)
    BY <1>1 DEF Moved, Works
  <2>2. Changed(w.t, s, {"linkRetry"}) /\ s.linkRetry \in BOOLEAN /\ Calm(w.t, s)
    BY <1>1 DEF Changed, Tcbs, Calm
  <2> HIDE DEF s, w0
  <2>3. Touched(w.t, s, {"linkRetry"})
    BY <2>2 DEF Touched, Neutral, TcbTypes
  <2> QED BY <2>1, <2>2, <2>3, NeutralProperty, MindedCalm
<1>3. v = IF w.t.state = "Closed" THEN w0
          ELSE IF ~Synchronized(w.t) THEN OutputSyn(w0)
          ELSE IF ~w1.sent THEN Retry(w1) ELSE OutputAck(w1)
  BY DEF Output
<1>4. s.state = w.t.state /\ s.closeAt = w.t.closeAt
  BY <1>1 DEF Tcbs
<1> HIDE DEF w0, v, s
<1>5. w0.t.state = w.t.state /\ Lingers(w0.t) /\ w0.e = w.e
  BY <1>2, <1>4 DEF Lingers, Same
<1>6. CASE w.t.state = "Closed"
  BY <1>2, <1>3, <1>5, <1>6 DEF v, Rested, Synchronized
<1>7. CASE w.t.state # "Closed" /\ ~Synchronized(w.t)
  <2>1. w0.t.state \in {"SynSent", "SynReceived"}
    BY <1>5, <1>7 DEF Synchronized
  <2>2. HasTcb(v, o) /\ v.t.state = w0.t.state
    BY <1>2, <1>3, <1>7, <2>1, OutputSynProperty
  <2>3. Minded(v, o) /\ At(w0.e, v.t.nxt) = 1
    BY <1>2, <1>3, <1>7, <2>1, MindedSyn
  <2>4. Rested(w.e, v.t)
    BY <1>5, <2>1, <2>2, <2>3 DEF Rested, Lingers, Synchronized
  <2> QED BY <2>3, <2>4 DEF v
<1>8. CASE w.t.state # "Closed" /\ Synchronized(w.t)
  <2>1. Synchronized(w0.t)
    BY <1>5, <1>8 DEF Synchronized
  <2>2. HasTcb(w1, o) /\ Same(w0, w1) /\ w1.t.state = w0.t.state
    BY <1>1, <1>2, <2>1, LoopProperty
  <2>3. /\ Minded(w1, o) /\ w1.t.closeAt = w0.t.closeAt
        /\ ~w1.sent \/ w1.t.rtx \/ ~GoesOut(w1)
    BY <1>1, <1>2, <2>1, MindedRounds
  <2> HIDE DEF w1
  <2>4. Synchronized(w1.t) /\ Lingers(w1.t) /\ w1.e = w.e
    BY <1>5, <1>8, <2>2, <2>3 DEF Synchronized, Lingers, Same
  <2>5. CASE ~w1.sent
    <3>1. v = Retry(w1)
      BY <1>3, <1>8, <2>5
    <3>2. HasTcb(v, o) /\ v.t.state = w1.t.state
      BY <2>2, <3>1, RetryProperty
    <3>3. Minded(v, o) /\ v.t.linkRetry = TRUE /\ v.t.closeAt = w1.t.closeAt
      BY <2>2, <2>3, <3>1, MindedRetry
    <3>4. Rested(w.e, v.t)
      BY <2>4, <3>2, <3>3 DEF Rested, Lingers, Synchronized
    <3> QED BY <3>3, <3>4 DEF v
  <2>6. CASE w1.sent
    <3>1. v = OutputAck(w1)
      BY <1>3, <1>8, <2>6
    <3>2. Minded(v, o) /\ Rested(w1.e, v.t)
      BY <2>2, <2>3, <2>4, <2>6, <3>1, MindedAck
    <3> QED BY <2>4, <3>2 DEF v
  <2> QED BY <2>5, <2>6
<1> QED BY <1>6, <1>7, <1>8

\* After output a connection may rest.
LEMMA OutputReposes ==
  ASSUME OneCaller, NEW w, NEW o, HasTcb(w, o), Minded(w, o), Lingers(w.t)
  PROVE  Reposed(Output(w), o)
<1>1. Minded(Output(w), o) /\ Rested(w.e, Output(w).t)
  BY MindedOutput
<1>2. Same(w, Output(w))
  BY OutputProperty
<1> QED BY <1>1, <1>2 DEF Reposed, Same

\* An acknowledgement that is asked for at once goes out, or is retried.
LEMMA AckNowReposes ==
  ASSUME OneCaller, NEW w, NEW o, HasTcb(w, o), Minded(w, o), Lingers(w.t)
  PROVE  Reposed(AckNow(w), o)
<1> DEFINE s  == [w.t EXCEPT !.ackNow = TRUE]
           w1 == [w EXCEPT !.t.ackNow = TRUE]
<1>1. w.t \in Tcbs /\ w \in Works
  BY WorkFacts DEF HasTcb, WorkOK
<1>2. Moved(w, s, w1)
  BY <1>1 DEF Moved, Works
<1>3. Changed(w.t, s, {"ackNow"}) /\ s.ackNow \in BOOLEAN /\ Calm(w.t, s)
  BY <1>1 DEF Changed, Tcbs, Calm
<1>4. AckNow(w) = Output(w1)
  BY DEF AckNow
<1> HIDE DEF s, w1
<1>5. Touched(w.t, s, {"ackNow"})
  BY <1>3 DEF Touched, Neutral, TcbTypes
<1>6. HasTcb(w1, o)
  BY <1>2, <1>5, NeutralProperty
<1>7. Minded(w1, o) /\ w1.t = s
  BY <1>2, <1>3, MindedCalm
<1>8. Lingers(w1.t)
  BY <1>3, <1>7 DEF Lingers, Calm
<1> QED BY <1>4, <1>6, <1>7, <1>8, OutputReposes

\* Of a connection that is closed nothing is owed.
LEMMA ClosedRests ==
  ASSUME NEW w, NEW o, Quiet(w), w.t # None => w.t.state = "Closed"
  PROVE  Reposed(w, o)
BY DEF Reposed, Minded, Tended, Rested, Lingers, Synchronized

\* A connection that is closed at once.
LEMMA CloseReposes ==
  ASSUME NEW w, NEW o, HasTcb(w, o), Quiet(w), NEW error \in BOOLEAN
  PROVE  Reposed(On(w, CloseWith(w.t, error)), o)
<1> DEFINE v == On(w, CloseWith(w.t, error))
<1>1. HasTcb(v, o) /\ v.t.state = "Closed"
  BY ClosedProperty
<1>2. v.e = w.e /\ v.out = w.out
  BY <1>1 DEF On, HasTcb, WorkOK, Works
<1> HIDE DEF v
<1>3. Quiet(v)
  BY <1>2 DEF Quiet
<1> QED BY <1>1, <1>3, ClosedRests DEF v

\* An aborted connection asks for nothing any more.
LEMMA AbortReposes ==
  ASSUME NEW w, NEW o, HasTcb(w, o), Quiet(w)
  PROVE  Reposed(Abort(w), o)
<1> DEFINE flags == [RST EXCEPT !.acks = TRUE]
           w1 == SendTcp(w, w.t.nxt, flags, 0, 0)
           w2 == IF Synchronized(w.t) \/ w.t.state = "SynReceived" THEN w1 ELSE w
           v  == Abort(w)
<1>1. v = On(w2, CloseWith(w2.t, FALSE))
  BY DEF Abort
<1>2. flags \in Flags /\ ~(flags.syn /\ ~flags.acks)
  BY DEF RST, Flags
<1>3. HasTcb(v, o) /\ v.t.state = "Closed"
  BY AbortProperty
<1> HIDE DEF flags
<1>4. Quiet(w1)
  BY <1>2, QuietSent
<1> HIDE DEF w1
<1>5. Quiet(w2)
  BY <1>4
<1> HIDE DEF w2
<1>6. v.e = w2.e /\ v.out = w2.out
  BY <1>1, <1>3 DEF On, HasTcb, WorkOK, Works
<1> HIDE DEF v
<1>7. Quiet(v)
  BY <1>5, <1>6 DEF Quiet
<1> QED BY <1>3, <1>7, ClosedRests DEF v

\* The handshake is through: the SYN was acknowledged, and nothing else sent.
Handshaken(t, s, ack) ==
  /\ s.state = "Established" /\ s.una = ack /\ s.nxt = t.nxt /\ s.max = t.max
  /\ s.released = t.released /\ s.finQueued = t.finQueued /\ s.finSeq = t.finSeq
  /\ s.unacked = t.unacked /\ s.ackAt = t.ackAt /\ s.ackNow = t.ackNow

\* From here on the connection owes what was put off before.
LEMMA HandshakeProperty ==
  ASSUME NEW w, NEW o, HasTcb(w, o), w.t.state \in {"SynSent", "SynReceived"}, Reposed(w, o),
         NEW seg, Arrives(w, o, seg), seg.flags.acks, ~seg.flags.rst,
         Lt(w.t.una, seg.ack), Le(seg.ack, w.t.max), NEW s, Handshaken(w.t, s, seg.ack)
  PROVE  Tended(w.e, s, w.h, o)
<1> DEFINE t == w.t
           h == w.h
<1>1. /\ At(w.e, t.una) = 0 /\ At(w.e, t.max) <= 1 /\ At(w.e, t.max) \in Nat
      /\ h.wrote \in Nat /\ t.una \in SeqNums /\ t.max \in SeqNums
      /\ Half \in Nat /\ 2 + h.wrote < Half /\ w.e \in Ends /\ ~t.finQueued /\ t.finSeq = None
  BY WorkFacts, SenderFacts DEF Sender
<1>2. seg.ack \in SeqNums /\ At(w.e, seg.ack) \in Nat /\ At(w.e, seg.ack) < Half
  BY AckProperty
<1>3. At(w.e, t.una) < Half /\ At(w.e, t.max) < Half
  BY <1>1
<1>4. At(w.e, t.una) < At(w.e, seg.ack) /\ At(w.e, seg.ack) <= At(w.e, t.max)
  BY <1>1, <1>2, <1>3, BelowHalf
<1>5. At(w.e, seg.ack) = 1 /\ At(w.e, t.max) = 1
  BY <1>1, <1>2, <1>4
<1>6. seg.ack = t.max
  BY <1>1, <1>2, <1>5, ByPosition
<1>7. Tended(w.e, t, h, o) /\ Rested(w.e, t) /\ t.state # "Closed"
  BY DEF Reposed, Minded, HasTcb
<1>8. At(w.e, t.nxt) = 1
  BY <1>7 DEF Rested
<1>9. At(w.e, seg.ack) <= 1 + o.took + Bit(o.ended)
  BY <1>1, EndsProperty DEF Arrives, SegOK
<1>10. ~t.released
  BY <1>7 DEF Tended, Ending
<1>11. /\ At(w.e, s.una) = 1 /\ At(w.e, s.nxt) = 1 /\ s.una = s.max /\ s.state = "Established"
       /\ ~s.released /\ ~s.finQueued /\ s.finSeq = None
       /\ s.unacked = t.unacked /\ s.ackAt = t.ackAt /\ s.ackNow = t.ackNow
       /\ At(w.e, s.una) <= 1 + o.took + Bit(o.ended)
  BY <1>1, <1>5, <1>6, <1>8, <1>9, <1>10 DEF Handshaken
<1> QED BY <1>7, <1>11 DEF Tended, Ending, Synchronized

\* A segment that arrives while the SYN is out: that of a caller, who met none.
LEMMA SynSentReposes ==
  ASSUME OneCaller, NEW w, NEW o, HasTcb(w, o), w.t.state = "SynSent", Reposed(w, o),
         NEW seg, Arrives(w, o, seg), Asks(Peer(w.e), seg)
  PROVE  Reposed(SynSentInput(w, seg), o)
<1> DEFINE t == w.t
           v == SynSentInput(w, seg)
           ackOk == Lt(t.una, seg.ack) /\ Le(seg.ack, t.max)
           crossed == On(w, [OnSyn(t, seg) EXCEPT !.state = "SynReceived", !.nxt = t.iss])
           s == [OnSyn(t, seg) EXCEPT !.una = seg.ack, !.state = "Established",
                                      !.rtx = FALSE, !.retries = 0]
           opened == On(w, s)
<1>1. v = IF seg.flags.acks /\ ~ackOk THEN IF seg.flags.rst THEN w ELSE SendReset(w, seg)
          ELSE IF seg.flags.rst THEN IF seg.flags.acks THEN On(w, CloseWith(t, TRUE)) ELSE w
          ELSE IF ~seg.flags.syn THEN w
          ELSE IF ~seg.flags.acks THEN Output(crossed)
          ELSE AckNow(opened)
  BY DEF SynSentInput
<1>2. Quiet(w) /\ Minded(w, o) /\ t \in Tcbs /\ w.e \in Ends /\ Tended(w.e, t, w.h, o)
  BY WorkFacts DEF Reposed, Minded
<1>3. Reposed(SendReset(w, seg), o)
  BY RepliedReset DEF HasTcb
<1>4. Reposed(On(w, CloseWith(t, TRUE)), o)
  BY <1>2, CloseReposes
<1>5. seg.flags.syn => seg.flags.acks
  <2>1. w.e \in Callers
    BY <1>2 DEF Tended
  <2>2. Callers \subseteq Ends
    BY TcpAssumption DEF TcpAssumption
  <2>3. Peer(w.e) \notin Callers
    BY <1>2, <2>1, <2>2, EndsProperty DEF OneCaller
  <2> QED BY <2>3 DEF Asks
<1>6. ASSUME seg.flags.syn, seg.flags.acks, ~seg.flags.rst, ackOk
      PROVE  Reposed(AckNow(opened), o)
  <2>1. HasTcb(opened, o) /\ Same(w, opened)
    BY <1>6, OpenedProperty
  <2>2. Handshaken(t, s, seg.ack)
    BY <1>2 DEF Handshaken, OnSyn, Tcbs
  <2> HIDE DEF s
  <2>3. Tended(w.e, s, w.h, o)
    BY <1>6, <2>2, HandshakeProperty
  <2>4. Moved(w, s, opened)
    BY DEF Moved, On
  <2> HIDE DEF opened
  <2>5. Minded(opened, o) /\ opened.t = s
    BY <1>2, <2>3, <2>4, MindedOn
  <2>6. Lingers(opened.t)
    BY <2>2, <2>5 DEF Lingers, Handshaken
  <2> QED BY <2>1, <2>5, <2>6, AckNowReposes
<1> HIDE DEF crossed, opened, ackOk, v
<1>7. Reposed(v, o)
  BY <1>1, <1>3, <1>4, <1>5, <1>6
<1> QED BY <1>7 DEF v

\* The acknowledgement of the SYN that was answered.
LEMMA EstablishMinded ==
  ASSUME NEW w, NEW o, HasTcb(w, o), w.t.state = "SynReceived", Reposed(w, o),
         NEW seg, Arrives(w, o, seg), seg.flags.acks, ~seg.flags.rst,
         Lt(w.t.una, seg.ack), Le(seg.ack, w.t.max)
  PROVE  Minded(On(w, Establish(w.t, seg)), o)
<1> DEFINE s == Establish(w.t, seg)
           v == On(w, s)
<1>1. w.t \in Tcbs /\ Minded(w, o)
  BY WorkFacts DEF Reposed
<1>2. Handshaken(w.t, s, seg.ack)
  BY <1>1 DEF Handshaken, Establish, Tcbs
<1> HIDE DEF s
<1>3. Tended(w.e, s, w.h, o)
  BY <1>2, HandshakeProperty
<1>4. Moved(w, s, v)
  BY DEF Moved, On
<1> HIDE DEF v
<1>5. Minded(v, o)
  BY <1>1, <1>3, <1>4, MindedOn
<1> QED BY <1>5 DEF v, s

\* What is sent again is timed already.
LEMMA RetransmitQuiet ==
  ASSUME NEW w, NEW o, HasTcb(w, o), Synchronized(w.t), Quiet(w)
  PROVE  LET v == RetransmitFirst(w)
         IN  Quiet(v) /\ Calm(w.t, v.t)
<1> DEFINE offset == Diff(w.t.una, w.t.base)
           n == Lesser(Left(w.t.tx, offset), Mss)
           v == RetransmitFirst(w)
<1>1. v = IF n > 0 THEN SendTcp(w, w.t.una, ACK, offset, n) ELSE w
  BY DEF RetransmitFirst
<1>2. ACK \in Flags /\ ~(ACK.syn /\ ~ACK.acks)
  BY DEF ACK, Flags
<1> HIDE DEF n, offset
<1> DEFINE w1 == SendTcp(w, w.t.una, ACK, offset, n)
<1>3. Quiet(w1) /\ Sends(w.t, w1.t)
  BY <1>2, QuietSent
<1> HIDE DEF w1
<1>4. Calm(w.t, w.t)
  BY DEF Calm
<1> QED BY <1>1, <1>3, <1>4 DEF Sends, w1

\* It leaves what holds all through a step.
LEMMA RetransmitMinded ==
  ASSUME NEW w, NEW o, HasTcb(w, o), Synchronized(w.t), Minded(w, o)
  PROVE  Minded(RetransmitFirst(w), o)
<1> DEFINE v == RetransmitFirst(w)
<1>1. Tended(w.e, w.t, w.h, o) /\ Quiet(w)
  BY DEF HasTcb, Minded
<1>2. Quiet(v) /\ Calm(w.t, v.t)
  BY <1>1, RetransmitQuiet
<1>3. Same(w, v)
  BY RetransmitFirstProperty
<1> HIDE DEF v
<1>4. Tended(v.e, v.t, v.h, o)
  BY <1>1, <1>2, <1>3, CalmProperty DEF Same
<1> QED BY <1>2, <1>4 DEF Minded, v

\* What tcp_acked leaves in the control block, up to the end of the stream.
Heeds(t, s, ack) ==
  /\ s.state = t.state /\ s.una = ack /\ s.nxt = (IF Lt(t.nxt, ack) THEN ack ELSE t.nxt)
  /\ s.max = t.max /\ s.rtx = (ack # t.max)
  /\ s.listener = t.listener /\ s.ready = t.ready /\ s.released = t.released
  /\ s.finQueued = t.finQueued /\ s.finSeq = t.finSeq /\ s.closeAt = t.closeAt
  /\ \/ s.unacked = t.unacked /\ s.ackAt = t.ackAt /\ s.ackNow = t.ackNow
     \/ s.unacked = 0 \/ s.ackNow = TRUE \/ s.ackAt = TRUE

\* What it leaves when the end of the stream is acknowledged, or is not.
Concludes(t, s, acked) ==
  IF acked
  THEN \/ s.state = "Closed"
       \/ /\ \/ t.state = "FinWait1" /\ s.state = "FinWait2"
                /\ s.closeAt = (t.closeAt \/ t.released)
             \/ t.state = "Closing" /\ s.state = "TimeWait"
             \/ t.state \notin {"FinWait1", "Closing", "LastAck"} /\ s.state = t.state
                /\ s.closeAt = t.closeAt
          /\ s.una = t.una /\ s.nxt = t.nxt /\ s.max = t.max /\ s.rtx = t.rtx
          /\ s.listener = t.listener /\ s.ready = t.ready /\ s.released = t.released
          /\ s.finQueued = t.finQueued /\ s.finSeq = t.finSeq
          /\ s.unacked = t.unacked /\ s.ackAt = t.ackAt /\ s.ackNow = t.ackNow
  ELSE s = t

\* The state says how far the end of the stream has got, whatever is acknowledged.
LEMMA HeededProperty ==
  ASSUME NEW w, NEW o, HasTcb(w, o), NEW seg, Arrives(w, o, seg), seg.flags.acks, ~seg.flags.rst,
         Synchronized(w.t), Tended(w.e, w.t, w.h, o),
         At(w.e, w.t.una) < At(w.e, seg.ack), At(w.e, seg.ack) <= At(w.e, w.t.max),
         NEW t2, Heeds(w.t, t2, seg.ack),
         NEW s, Concludes(t2, s, FinAcked(w.t, seg.ack))
  PROVE  Tended(w.e, s, w.h, o)
<1> DEFINE t == w.t
           h == w.h
           u == At(w.e, t.una)
           m == At(w.e, t.max)
           n == At(w.e, t.nxt)
           a == At(w.e, seg.ack)
           end == 2 + h.wrote
<1>1. /\ u \in Nat /\ m \in Nat /\ n \in Nat /\ m <= 2 + h.wrote
      /\ t.una \in SeqNums /\ t.max \in SeqNums /\ t.nxt \in SeqNums
      /\ h.wrote \in Nat /\ w.e \in Ends /\ Sender(w.e, t, h)
  BY SenderFacts, WorkFacts
<1>2. seg.ack \in SeqNums /\ a \in Nat /\ a > 0 /\ u < a /\ a <= m
  BY <1>1, AckProperty
<1>3. a <= 1 + o.took + Bit(o.ended)
  BY <1>1, EndsProperty DEF Arrives, SegOK
<1>4. n > 0 /\ (t.finSeq # None => m = end /\ At(w.e, t.finSeq) = 1 + h.wrote)
  BY DEF Tended, Synchronized
<1>5. FinAcked(t, seg.ack) <=> a = end
  <2>1. FinAcked(t, seg.ack) <=> t.finSeq # None /\ At(w.e, t.finSeq) < a
    BY <1>2, ForgottenProperty
  <2>2. t.finSeq = None => m <= 1 + h.wrote
    BY <1>1 DEF Sender
  <2> QED BY <1>1, <1>2, <1>4, <2>1, <2>2
<1>6. t.state \notin {"FinWait2", "TimeWait"}
  <2>1. u < end
    BY <1>1, <1>2
  <2>2. t.state \in {"FinWait2", "TimeWait"} => u = end
    BY DEF Tended
  <2> QED BY <1>1, <2>1, <2>2
<1>7. a <= end /\ (a # end => a < end)
  BY <1>1, <1>2
<1>8. /\ At(w.e, t2.una) = a /\ At(w.e, t2.nxt) > 0 /\ t2.max = t.max
      /\ t2.una # t2.max => t2.rtx
  <2>1. t2.nxt \in {seg.ack, t.nxt}
    BY DEF Heeds
  <2> QED BY <1>2, <1>4, <2>1 DEF Heeds
<1>9. /\ s.state # "Closed" => At(w.e, s.una) = a /\ At(w.e, s.nxt) > 0 /\ At(w.e, s.max) = m
                                /\ (s.una # s.max => s.rtx) /\ s.finSeq = t.finSeq
                                /\ s.listener = t.listener /\ s.ready = t.ready
                                /\ s.released = t.released /\ s.finQueued = t.finQueued
                                /\ s.unacked = t2.unacked /\ s.ackAt = t2.ackAt
                                /\ s.ackNow = t2.ackNow
  BY <1>8 DEF Concludes, Heeds
<1>10. s.state # "Closed" =>
         \/ /\ a = end
            /\ \/ t.state = "FinWait1" /\ s.state = "FinWait2"
                  /\ s.closeAt = (t.closeAt \/ t.released)
               \/ t.state = "Closing" /\ s.state = "TimeWait"
               \/ t.state \notin {"FinWait1", "Closing", "LastAck"} /\ s.state = t.state
         \/ a < end /\ s.state = t.state
  BY <1>5, <1>7 DEF Concludes, Heeds
<1>11. t2.unacked > 0 => t2.ackAt \/ t2.ackNow
  BY DEF Heeds, Tended, Synchronized
<1>12. /\ t.finQueued <=> t.state \in Ending
       /\ t.released => t.state \in Ending
  BY DEF Tended, Synchronized
<1> HIDE DEF u, m, n, a, end
<1>13. CASE s.state # "Closed"
  <2>1. /\ s.state \in {"FinWait1", "Closing", "LastAck"} => a < end
        /\ s.state \in {"FinWait2", "TimeWait"} => a = end
        /\ s.state = "FinWait2" /\ s.released => s.closeAt
        /\ s.finQueued <=> s.state \in Ending
        /\ s.released => s.state \in Ending
        /\ s.state \notin {"SynSent", "SynReceived"}
    BY <1>6, <1>9, <1>10, <1>12, <1>13 DEF Ending, Synchronized
  <2>2. s.finSeq # None => m = end /\ At(w.e, s.finSeq) = 1 + h.wrote
    BY <1>4, <1>9, <1>13
  <2>3. s.unacked > 0 => s.ackAt \/ s.ackNow
    BY <1>9, <1>11, <1>13
  <2> QED BY <1>2, <1>3, <1>9, <1>13, <2>1, <2>2, <2>3 DEF Tended, Synchronized, end, a, m
<1>14. CASE s.state = "Closed"
  BY <1>14 DEF Tended
<1> QED BY <1>13, <1>14

\* tcp_acked leaves every debt with its timer.
LEMMA AckedMinded ==
  ASSUME NEW w, NEW o, HasTcb(w, o), NEW seg, Arrives(w, o, seg), seg.flags.acks, ~seg.flags.rst,
         Synchronized(w.t), Minded(w, o),
         At(w.e, w.t.una) < At(w.e, seg.ack), At(w.e, seg.ack) <= At(w.e, w.t.max)
  PROVE  Minded(Acked(w, seg.ack), o)
<1> DEFINE t  == w.t
           ack == seg.ack
           w1 == [w EXCEPT !.t = AckedTcb(t, ack), !.h.settled = @ + Forgotten(t, ack)]
           w2 == IF AckedTcb(t, ack).recover # None THEN RetransmitFirst(w1) ELSE w1
           s  == AckedClose(w2.t)
           v  == Acked(w, ack)
<1>1. v = IF FinAcked(t, ack) THEN On(w2, s) ELSE w2
  BY DEF Acked, AckedTcb
<1>2. ack \in SeqNums /\ Lesser(Left(At(w.e, ack), 1), w.h.wrote) <= o.took
  BY AckProperty
<1>3. t \in Tcbs /\ w \in Works /\ Tended(w.e, t, w.h, o) /\ Quiet(w) /\ w.h \in Hists
  BY WorkFacts DEF HasTcb, WorkOK, Minded
<1>4. HasTcb(w1, o) /\ w1.t.state = t.state
  BY <1>2, AckedCore
<1>5. HasTcb(v, o) /\ Onward(w, v)
  BY <1>2, AckedProperty
<1>6. w1.t = AckedTcb(t, ack) /\ w1.e = w.e /\ w1.out = w.out
  BY <1>3 DEF Works
<1>7. Heeds(t, w1.t, ack)
  <2> DEFINE x    == AckedTcb(t, ack)
             gone == Forgotten(t, ack)
             next == IF Lt(t.nxt, ack) THEN ack ELSE t.nxt
             rec  == IF t.recover # None /\ Le(t.recover, ack) THEN None ELSE t.recover
  <2>1. x = [t EXCEPT !.tx = t.tx - gone, !.base = Plus(t.base, gone), !.una = ack, !.nxt = next,
                      !.finSent = t.finSent \/ FinAcked(t, ack), !.retries = 0,
                      !.rtx = ack # t.max, !.persist = FALSE, !.dupacks = 0, !.recover = rec]
    BY <1>3 DEF AckedTcb, Tcbs
  <2> HIDE DEF x, gone, next, rec, t
  <2>2. /\ x.una = ack /\ x.nxt = next /\ x.rtx = (ack # t.max)
        /\ x.state = t.state /\ x.max = t.max /\ x.listener = t.listener /\ x.ready = t.ready
        /\ x.released = t.released /\ x.finQueued = t.finQueued /\ x.finSeq = t.finSeq
        /\ x.closeAt = t.closeAt /\ x.unacked = t.unacked /\ x.ackAt = t.ackAt
        /\ x.ackNow = t.ackNow
    BY <1>3, <2>1 DEF Tcbs
  <2>3. Heeds(t, x, ack)
    BY <2>2 DEF Heeds, next
  <2> QED BY <1>6, <2>3 DEF x
<1> HIDE DEF w1, v
<1>8. Quiet(w1) /\ Synchronized(w1.t)
  BY <1>3, <1>4, <1>6 DEF Quiet, Synchronized
<1>9. Quiet(RetransmitFirst(w1)) /\ Calm(w1.t, RetransmitFirst(w1).t)
      /\ HasTcb(RetransmitFirst(w1), o)
  BY <1>4, <1>8, RetransmitQuiet, RetransmitFirstProperty
<1>10. Heeds(t, RetransmitFirst(w1).t, ack)
  BY <1>7, <1>9 DEF Heeds, Calm
<1>11. w2 \in {w1, RetransmitFirst(w1)}
  OBVIOUS
<1> HIDE DEF w2
<1>12. Heeds(t, w2.t, ack) /\ Quiet(w2) /\ HasTcb(w2, o)
  BY <1>4, <1>7, <1>8, <1>9, <1>10, <1>11
<1>13. w2.t \in Tcbs /\ w2 \in Works
  BY <1>12, WorkFacts DEF HasTcb, WorkOK
<1>14. Concludes(w2.t, s, TRUE)
  <2>1. CASE w2.t.state = "LastAck"
    BY <1>13, <2>1 DEF Concludes, AckedClose, CloseWith, Tcbs
  <2>2. CASE w2.t.state = "FinWait1"
    BY <1>13, <2>2 DEF Concludes, AckedClose, Tcbs
  <2>3. CASE w2.t.state = "Closing"
    BY <1>13, <2>3 DEF Concludes, AckedClose, Tcbs
  <2>4. CASE w2.t.state \notin {"LastAck", "FinWait1", "Closing"}
    BY <2>4 DEF Concludes, AckedClose
  <2> QED BY <2>1, <2>2, <2>3, <2>4
<1> HIDE DEF s
<1>15. /\ v.out = w2.out /\ v.e = w2.e
       /\ v.t = IF FinAcked(t, ack) THEN s ELSE w2.t
  BY <1>1, <1>13 DEF On, Works
<1>16. Concludes(w2.t, v.t, FinAcked(t, ack))
  BY <1>14, <1>15 DEF Concludes
<1>17. Tended(w.e, v.t, w.h, o)
  BY <1>3, <1>12, <1>16, HeededProperty
<1>18. Tended(v.e, v.t, v.h, o)
  <2>1. Calm(v.t, v.t)
    BY DEF Calm
  <2> QED BY <1>5, <1>17, <2>1, CalmProperty DEF Onward, Fed
<1>19. Quiet(v)
  BY <1>12, <1>15 DEF Quiet
<1> QED BY <1>18, <1>19 DEF Minded, v

\* A duplicate acknowledgement changes nothing of it.
LEMMA DuplicateMinded ==
  ASSUME NEW w, NEW o, HasTcb(w, o), Synchronized(w.t), Minded(w, o)
  PROVE  Minded(DuplicateAck(w), o)
<1> DEFINE n  == Lesser(w.t.dupacks, DupAcks) + 1
           t  == [w.t EXCEPT !.dupacks = n]
           s  == [t EXCEPT !.recover = t.nxt]
           v  == DuplicateAck(w)
<1>1. v = IF n = DupAcks /\ t.recover = None THEN RetransmitFirst(On(w, s)) ELSE On(w, t)
  BY DEF DuplicateAck
<1>2. w.t \in Tcbs
  BY WorkFacts
<1>3. n \in Dups
  <2>1. w.t.dupacks \in Nat /\ DupAcks \in Nat
    BY <1>2, RetriesProperty DEF Tcbs, Dups
  <2>2. Lesser(w.t.dupacks, DupAcks) \in Nat /\ Lesser(w.t.dupacks, DupAcks) <= DupAcks
    BY <2>1, PairProperty
  <2> QED BY <2>1, <2>2 DEF Dups
<1> HIDE DEF n
<1>4. Calm(w.t, t) /\ Calm(w.t, s)
  BY <1>2 DEF Calm, Tcbs
<1>5. Changed(w.t, s, {"dupacks", "recover"}) /\ s.dupacks = n /\ s.recover \in MaybeSeqNums
  BY <1>2 DEF Changed, Tcbs, MaybeSeqNums
<1>6. Moved(w, t, On(w, t)) /\ Moved(w, s, On(w, s))
  BY DEF Moved, On
<1> HIDE DEF s, t, v
<1>7. Touched(w.t, s, {"dupacks", "recover"})
  BY <1>3, <1>5 DEF Touched, Neutral, TcbTypes
<1>8. Minded(On(w, t), o)
  BY <1>4, <1>6, MindedCalm
<1> DEFINE w1 == On(w, s)
<1>9. HasTcb(w1, o) /\ w1.t.state = w.t.state /\ Minded(w1, o)
  BY <1>4, <1>6, <1>7, NeutralProperty, MindedCalm
<1>10. Synchronized(w1.t)
  BY <1>9 DEF Synchronized
<1> HIDE DEF w1
<1>11. Minded(RetransmitFirst(w1), o)
  BY <1>9, <1>10, RetransmitMinded
<1>12. v = RetransmitFirst(w1) \/ v = On(w, t)
  BY <1>1 DEF w1
<1> QED BY <1>8, <1>11, <1>12 DEF v

\* Nor does the window that is taken over, nor a count of retries.
LEMMA WindowMinded ==
  ASSUME NEW w, NEW o, HasTcb(w, o), Minded(w, o), NEW seg
  PROVE  /\ Minded(On(w, UpdateWindow(w.t, seg)), o)
         /\ Minded([w EXCEPT !.t.retries = 0], o)
<1> DEFINE s == UpdateWindow(w.t, seg)
           r == [w.t EXCEPT !.retries = 0]
<1>1. w.t \in Tcbs /\ w \in Works
  BY WorkFacts DEF HasTcb, WorkOK
<1>2. Calm(w.t, s) /\ Calm(w.t, r)
  BY <1>1 DEF Calm, UpdateWindow, Tcbs
<1>3. Moved(w, s, On(w, s)) /\ Moved(w, r, [w EXCEPT !.t.retries = 0])
  BY <1>1 DEF Moved, On, Works
<1> HIDE DEF s, r
<1> QED BY <1>2, <1>3, MindedCalm DEF s

\* What tcp_data takes is acknowledged, at once or in time.
LEMMA DataMinded ==
  ASSUME NEW w, NEW o, HasTcb(w, o), Taking(w.t), NEW seg, Arrives(w, o, seg), seg.data # <<>>,
         Minded(w, o)
  PROVE  Minded(Data(w, seg), o)
<1> DEFINE t    == w.t
           asm  == IF Kept(t, seg) = <<>> THEN t.asm ELSE Added(t.asm, Start(t, seg), Kept(t, seg))
           n    == Front(asm)
           rest == TakenFront(asm)
           got  == t.rx \o [i \in 1 .. n |-> asm[i - 1]]
           next == Plus(t.rnxt, n)
           t1   == [t EXCEPT !.asm = rest, !.rx = got, !.rnxt = next]
           t2   == IF Start(t, seg) > 0 \/ n = 0 \/ rest # NoAsm THEN [t1 EXCEPT !.ackNow = TRUE]
                   ELSE IF t.unacked >= 1 THEN [t1 EXCEPT !.unacked = 2, !.ackNow = TRUE]
                   ELSE [t1 EXCEPT !.unacked = 1, !.ackAt = TRUE]
           t3   == [t EXCEPT !.ackNow = TRUE]
           v    == Data(w, seg)
<1>1. t \in Tcbs /\ w \in Works /\ Tended(w.e, t, w.h, o) /\ Quiet(w)
  BY WorkFacts DEF HasTcb, WorkOK, Minded
<1>2. v = IF Skip(t, seg) >= Len(seg.data) THEN [w EXCEPT !.t.ackNow = TRUE]
          ELSE [w EXCEPT !.t = t2, !.h.took = @ + n]
  BY <1>1 DEF Data, Tcbs
<1>3. HasTcb(v, o) /\ Onward(w, v)
  BY DataProperty
<1> HIDE DEF asm, n, rest, got, next
<1>4. Calm(t, t2) /\ Calm(t, t3)
  BY <1>1 DEF Calm, Tcbs
<1> HIDE DEF t2
<1>5. v.out = w.out /\ v.t \in {t2, t3}
  BY <1>1, <1>2 DEF Works
<1> HIDE DEF t3, v
<1>6. Tended(v.e, v.t, v.h, o)
  BY <1>1, <1>3, <1>4, <1>5, CalmProperty DEF Onward, Fed
<1>7. Quiet(v)
  BY <1>1, <1>3, <1>5 DEF Quiet, Onward
<1> QED BY <1>6, <1>7 DEF Minded, v

\* The end of the peer's stream is acknowledged at once, and the own end is not
\* taken for acknowledged.
LEMMA FinMinded ==
  ASSUME NEW w, NEW o, HasTcb(w, o), GoesOn(w), NEW seg, Arrives(w, o, seg), Minded(w, o)
  PROVE  Minded(FinArrives(w, seg), o)
<1> DEFINE t == w.t
           next == CASE t.state = "Established" -> "CloseWait"
                     [] t.state = "FinWait1" -> IF FinAcked(t, t.una) THEN "TimeWait" ELSE "Closing"
                     [] t.state = "FinWait2" -> "TimeWait"
                     [] OTHER -> t.state
           past == Plus(t.rnxt, 1)
           s == [t EXCEPT !.rnxt = past, !.finReceived = TRUE, !.ackNow = TRUE, !.state = next]
           v == FinArrives(w, seg)
<1>1. t \in Tcbs /\ w \in Works /\ Tended(w.e, t, w.h, o) /\ Quiet(w) /\ w.e \in Ends
  BY WorkFacts DEF HasTcb, WorkOK, Minded
<1>2. v = IF FinDue(t, seg) THEN [w EXCEPT !.t = s, !.h.ended = TRUE] ELSE w
  BY <1>1 DEF FinArrives, Tcbs
<1>3. HasTcb(v, o) /\ Onward(w, v)
  BY FinArrivesProperty
<1>4. CASE ~FinDue(t, seg)
  BY <1>2, <1>4
<1>5. CASE FinDue(t, seg)
  <2>1. Taking(t)
    BY <1>5, FinDueProperty
  <2>2. t.state = "FinWait1" => ~FinAcked(t, t.una)
    <3> SUFFICES ASSUME t.state = "FinWait1", t.finSeq # None PROVE ~Lt(t.finSeq, t.una)
      BY DEF FinAcked
    <3>1. /\ At(w.e, t.una) < 2 + w.h.wrote /\ At(w.e, t.finSeq) = 1 + w.h.wrote
      BY <1>1 DEF Tended
    <3>2. /\ At(w.e, t.una) \in Nat /\ w.h.wrote \in Nat /\ 2 + w.h.wrote < Half /\ Half \in Nat
          /\ t.una \in SeqNums
      BY SenderFacts
    <3>3. t.finSeq \in SeqNums
      BY <1>1 DEF Tcbs, MaybeSeqNums
    <3>4. At(w.e, t.una) < Half /\ At(w.e, t.finSeq) < Half /\ ~(At(w.e, t.finSeq) < At(w.e, t.una))
      BY <3>1, <3>2
    <3> QED BY <1>1, <3>2, <3>3, <3>4, BelowHalf
  <2>3. \/ t.state = "Established" /\ next = "CloseWait"
        \/ t.state = "FinWait1" /\ next = "Closing"
        \/ t.state = "FinWait2" /\ next = "TimeWait"
    BY <2>1, <2>2 DEF Taking
  <2> HIDE DEF next, past
  <2>4. /\ s.una = t.una /\ s.nxt = t.nxt /\ s.max = t.max /\ s.rtx = t.rtx
        /\ s.listener = t.listener /\ s.ready = t.ready /\ s.released = t.released
        /\ s.finQueued = t.finQueued /\ s.finSeq = t.finSeq /\ s.closeAt = t.closeAt
        /\ s.ackNow = TRUE /\ s.state = next
    BY <1>1 DEF Tcbs
  <2>5. v.t = s /\ v.out = w.out
    BY <1>1, <1>2, <1>5 DEF Works
  <2> HIDE DEF s, v
  <2>6. Tended(w.e, s, w.h, o)
    BY <1>1, <2>3, <2>4 DEF Tended, Synchronized, Ending
  <2>7. Tended(v.e, v.t, v.h, o)
    <3>1. Calm(s, s)
      BY DEF Calm
    <3> QED BY <1>3, <2>5, <2>6, <3>1, CalmProperty DEF Onward, Fed
  <2>8. Quiet(v)
    BY <1>1, <1>3, <2>5 DEF Quiet, Onward
  <2> QED BY <2>7, <2>8 DEF Minded, v
<1> QED BY <1>4, <1>5

\* A connection that lingers has nothing to send again, and ends in time.
LEMMA LingeringMinded ==
  ASSUME NEW w, NEW o, HasTcb(w, o), Minded(w, o)
  PROVE  LET v == On(w, Lingering(w.t)) IN Minded(v, o) /\ Lingers(v.t)
<1> DEFINE t == w.t
           s == Lingering(t)
           v == On(w, s)
<1>1. t \in Tcbs /\ w \in Works /\ Tended(w.e, t, w.h, o) /\ w.e \in Ends
  BY WorkFacts DEF HasTcb, WorkOK, Minded
<1>2. Moved(w, s, v)
  BY DEF Moved, On
<1>3. Tended(w.e, s, w.h, o) /\ Lingers(s)
  <2>1. CASE t.state = "TimeWait"
    <3>1. /\ s.state = "TimeWait" /\ s.closeAt = TRUE
          /\ s.una = t.una /\ s.nxt = t.nxt /\ s.max = t.max
          /\ s.listener = t.listener /\ s.ready = t.ready /\ s.released = t.released
          /\ s.finQueued = t.finQueued /\ s.finSeq = t.finSeq
          /\ s.unacked = t.unacked /\ s.ackAt = t.ackAt /\ s.ackNow = t.ackNow
      BY <1>1, <2>1 DEF Lingering, Tcbs
    <3>2. t.una = t.max
      <4>1. At(w.e, t.una) = 2 + w.h.wrote
        BY <1>1, <2>1 DEF Tended
      <4>2. /\ At(w.e, t.una) <= At(w.e, t.max) /\ At(w.e, t.max) <= 2 + w.h.wrote
            /\ At(w.e, t.max) \in Nat /\ At(w.e, t.una) \in Nat /\ w.h.wrote \in Nat
            /\ t.una \in SeqNums /\ t.max \in SeqNums
        BY SenderFacts
      <4>3. At(w.e, t.una) = At(w.e, t.max)
        BY <4>1, <4>2
      <4> QED BY <1>1, <4>2, <4>3, ByPosition
    <3> HIDE DEF s
    <3> QED BY <1>1, <2>1, <3>1, <3>2 DEF Tended, Synchronized, Lingers
  <2>2. CASE t.state # "TimeWait"
    BY <1>1, <2>2 DEF Lingering, Lingers
  <2> QED BY <2>1, <2>2
<1> HIDE DEF s, v
<1>4. Minded(v, o) /\ v.t = s
  BY <1>2, <1>3, MindedOn
<1> QED BY <1>3, <1>4 DEF v, s

\* What follows the tests of tcp_process leaves every debt with its timer.
LEMMA AcknowledgedReposes ==
  ASSUME OneCaller, NEW w, NEW o, HasTcb(w, o), Synchronized(w.t), Minded(w, o), Lingers(w.t),
         NEW seg, Arrives(w, o, seg), seg.flags.acks, ~seg.flags.rst
  PROVE  Reposed(Acknowledged(w, seg), o)
<1> DEFINE t  == w.t
           w0 == [w EXCEPT !.t.retries = 0]
           w1 == IF seg.wnd = 0 THEN w0 ELSE w
           w2 == IF Lt(t.una, seg.ack) THEN Acked(w1, seg.ack)
                 ELSE IF Duplicate(t, seg) THEN DuplicateAck(w1) ELSE w1
           w3 == On(w2, UpdateWindow(w2.t, seg))
           w4 == IF seg.data # <<>> /\ w3.t.state \in {"Established", "FinWait1", "FinWait2"}
                 THEN Data(w3, seg) ELSE w3
           w5 == FinArrives(w4, seg)
           w6 == On(w5, Lingering(w5.t))
           late == Lt(t.max, seg.ack) \/ Lt(seg.ack, (t.una - t.maxWnd) % Space)
           v == Acknowledged(w, seg)
<1>1. v = IF late THEN AckNow(w) ELSE Output(w6)
  BY DEF Acknowledged
<1>2. seg \in Segments /\ seg.ack \in SeqNums
  BY DEF Arrives, Segments
<1>3. CASE late
  <2>1. Reposed(AckNow(w), o)
    BY AckNowReposes
  <2> QED BY <1>1, <1>3, <2>1
<1>4. CASE ~late
  <2>1. /\ HasTcb(w1, o) /\ Minded(w1, o) /\ w1.t.state = t.state /\ w1.e = w.e /\ w1.h = w.h
        /\ w1.t.una = t.una /\ w1.t.max = t.max
    <3>1. HasTcb(w0, o) /\ Same(w, w0) /\ w0.t.state = t.state
          /\ w0.t.una = t.una /\ w0.t.max = t.max
      BY RetriesReset
    <3>2. Minded(w0, o)
      BY WindowMinded
    <3> HIDE DEF w0
    <3> QED BY <3>1, <3>2 DEF Same
  <2> HIDE DEF w1
  <2>2. Synchronized(w1.t) /\ Arrives(w1, o, seg)
    BY <2>1 DEF Synchronized, Arrives
  <2>3. HasTcb(w2, o) /\ GoesOn(w2) /\ Minded(w2, o) /\ w2.e = w.e
    <3>1. CASE Lt(t.una, seg.ack)
      <4>1. /\ At(w.e, seg.ack) <= At(w.e, t.max) /\ At(w.e, t.una) < At(w.e, seg.ack)
            /\ Lesser(Left(At(w.e, seg.ack), 1), w.h.wrote) <= o.took
        BY <1>4, <3>1, BetweenProperty
      <4>2. /\ At(w1.e, seg.ack) <= At(w1.e, w1.t.max) /\ At(w1.e, w1.t.una) < At(w1.e, seg.ack)
            /\ Lesser(Left(At(w1.e, seg.ack), 1), w1.h.wrote) <= o.took
        BY <2>1, <4>1
      <4> DEFINE x == Acked(w1, seg.ack)
      <4>3. HasTcb(x, o) /\ Onward(w1, x) /\ GoesOn(x)
        BY <1>2, <2>1, <2>2, <4>2, AckedProperty
      <4>4. Minded(x, o)
        BY <2>1, <2>2, <4>2, AckedMinded
      <4>5. w2 = x
        BY <3>1
      <4> HIDE DEF x, w2
      <4> QED BY <2>1, <4>3, <4>4, <4>5 DEF Onward
    <3>2. CASE ~Lt(t.una, seg.ack) /\ Duplicate(t, seg)
      <4> DEFINE x == DuplicateAck(w1)
      <4>1. HasTcb(x, o) /\ Same(w1, x) /\ x.t.state = w1.t.state
        BY <2>1, <2>2, DuplicateAckProperty
      <4>2. Minded(x, o)
        BY <2>1, <2>2, DuplicateMinded
      <4>3. w2 = x
        BY <3>2
      <4> HIDE DEF x, w2
      <4> QED BY <2>1, <2>2, <4>1, <4>2, <4>3 DEF Synchronized, GoesOn, Same
    <3>3. CASE ~Lt(t.una, seg.ack) /\ ~Duplicate(t, seg)
      <4>1. w2 = w1
        BY <3>3
      <4> HIDE DEF w2
      <4> QED BY <2>1, <2>2, <4>1 DEF GoesOn
    <3> QED BY <3>1, <3>2, <3>3
  <2> HIDE DEF w2
  <2>4. HasTcb(w3, o) /\ Same(w2, w3) /\ w3.t.state = w2.t.state
    BY <1>2, <2>3, UpdateWindowProperty
  <2>5. Minded(w3, o)
    BY <2>3, WindowMinded
  <2> HIDE DEF w3
  <2>6. GoesOn(w3) /\ w3.e = w.e /\ Arrives(w3, o, seg)
    BY <2>3, <2>4 DEF GoesOn, Synchronized, Same, Arrives
  <2>7. HasTcb(w4, o) /\ GoesOn(w4) /\ w4.e = w.e /\ Minded(w4, o)
    <3>1. CASE seg.data # <<>> /\ w3.t.state \in {"Established", "FinWait1", "FinWait2"}
      <4> DEFINE x == Data(w3, seg)
      <4>1. HasTcb(x, o) /\ Onward(w3, x) /\ x.t.state = w3.t.state
        BY <2>4, <2>6, <3>1, DataProperty DEF Taking
      <4>2. Minded(x, o)
        BY <2>4, <2>5, <2>6, <3>1, DataMinded DEF Taking
      <4>3. w4 = x
        BY <3>1
      <4> HIDE DEF x, w4
      <4> QED BY <2>6, <3>1, <4>1, <4>2, <4>3 DEF GoesOn, Synchronized, Onward
    <3>2. CASE ~(seg.data # <<>> /\ w3.t.state \in {"Established", "FinWait1", "FinWait2"})
      <4>1. w4 = w3
        BY <3>2
      <4> HIDE DEF w4
      <4> QED BY <2>4, <2>5, <2>6, <4>1
    <3> QED BY <3>1, <3>2
  <2> HIDE DEF w4
  <2>8. HasTcb(w5, o) /\ Minded(w5, o)
    <3>1. Arrives(w4, o, seg)
      BY <2>6, <2>7 DEF Arrives
    <3> QED BY <2>7, <3>1, FinArrivesProperty, FinMinded
  <2> HIDE DEF w5
  <2>9. HasTcb(w6, o) /\ Minded(w6, o) /\ Lingers(w6.t)
    BY <2>8, LingeringProperty, LingeringMinded
  <2> HIDE DEF w6
  <2>10. Reposed(Output(w6), o)
    BY <2>9, OutputReposes
  <2> QED BY <1>1, <1>4, <2>10
<1> QED BY <1>3, <1>4

\* tcp_process leaves every debt with its timer.
LEMMA ProcessReposes ==
  ASSUME OneCaller, NEW w, NEW o, HasTcb(w, o), w.t.state # "Closed", Reposed(w, o),
         NEW seg0, Arrives(w, o, seg0), Asks(Peer(w.e), seg0)
  PROVE  Reposed(Process(w, seg0), o)
<1> DEFINE t == w.t
           seg == Trimmed(t, seg0)
           w1 == On(w, Establish(t, seg))
           w2 == IF t.state = "SynReceived" THEN w1 ELSE w
           v == Process(w, seg0)
           bad == t.state = "SynReceived" /\ ~(Lt(t.una, seg.ack) /\ Le(seg.ack, t.max))
<1>1. WorkOK(w, o) /\ t # None /\ Minded(w, o) /\ Lingers(t) /\ Quiet(w)
  BY DEF HasTcb, Reposed, Rested, Minded
<1>2. /\ Arrives(w, o, seg) /\ seg.flags.acks = seg0.flags.acks
      /\ seg.flags.rst = seg0.flags.rst
  BY TrimmedProperty
<1> HIDE DEF seg
<1>3. Reposed(AckNow(w), o)
  BY <1>1, AckNowReposes
<1>4. CASE t.state = "SynSent"
  <2>1. Reposed(SynSentInput(w, seg0), o)
    BY <1>4, SynSentReposes
  <2> QED BY <1>4, <2>1 DEF Process
<1>5. CASE t.state # "SynSent" /\ ~Acceptable(t, seg)
  <2>1. v = w \/ v = AckNow(w)
    BY <1>5 DEF Process, seg
  <2> QED BY <1>3, <2>1
<1>6. CASE t.state # "SynSent" /\ Acceptable(t, seg) /\ seg.flags.rst
  <2> DEFINE x == On(w, ResetBy(t))
  <2>1. v = AckNow(w) \/ v = x
    BY <1>6 DEF Process, seg
  <2>2. Reposed(x, o)
    <3>1. HasTcb(x, o)
      BY ResetByProperty
    <3>2. x.e = w.e /\ x.out = w.out /\ x.t = ResetBy(t)
      BY <1>1 DEF On, WorkOK, Works
    <3>3. ResetBy(t).state = "Closed"
      <4> DEFINE t1 == IF t.state = "SynReceived" THEN [t EXCEPT !.released = @ \/ t.listener]
                       ELSE t
                 error == t.state \in {"Established", "FinWait1", "FinWait2", "CloseWait"}
      <4>1. ResetBy(t) = CloseWith(t1, error)
        BY DEF ResetBy
      <4>2. t \in Tcbs
        BY WorkFacts
      <4>3. t1 \in Tcbs
        BY <4>2 DEF Tcbs
      <4> HIDE DEF t1, error
      <4> QED BY <4>1, <4>3 DEF CloseWith, Tcbs
    <3> HIDE DEF x
    <3>4. Quiet(x)
      BY <1>1, <3>2 DEF Quiet
    <3> QED BY <3>2, <3>3, <3>4, ClosedRests
  <2> HIDE DEF x, v
  <2>3. Reposed(v, o)
    BY <1>3, <2>1, <2>2
  <2> QED BY <2>3 DEF v
<1>7. CASE t.state # "SynSent" /\ Acceptable(t, seg) /\ ~seg.flags.rst
           /\ (seg.flags.syn \/ ~seg.flags.acks)
  <2>1. v = w \/ v = AckNow(w)
    BY <1>7 DEF Process, seg
  <2> QED BY <1>3, <2>1
<1>8. CASE t.state # "SynSent" /\ Acceptable(t, seg) /\ ~seg.flags.rst
            /\ ~(seg.flags.syn \/ ~seg.flags.acks) /\ bad
  <2>1. Reposed(SendReset(w, seg), o)
    BY <1>1, RepliedReset
  <2>2. v = SendReset(w, seg)
    BY <1>8 DEF Process, seg
  <2> QED BY <2>1, <2>2
<1>9. CASE t.state # "SynSent" /\ Acceptable(t, seg) /\ ~seg.flags.rst
            /\ ~(seg.flags.syn \/ ~seg.flags.acks) /\ ~bad
  <2>1. v = Acknowledged(w2, seg)
    BY <1>9 DEF Process, seg
  <2>2. HasTcb(w2, o) /\ Same(w, w2) /\ Synchronized(w2.t) /\ Minded(w2, o) /\ Lingers(w2.t)
    <3>1. CASE t.state = "SynReceived"
      <4>1. HasTcb(w1, o) /\ Same(w, w1) /\ w1.t.state = "Established"
        BY <1>2, <1>9, <3>1, EstablishProperty
      <4>2. Minded(w1, o)
        BY <1>2, <1>9, <3>1, EstablishMinded
      <4>3. w2 = w1
        BY <3>1
      <4> HIDE DEF w1, w2
      <4> QED BY <4>1, <4>2, <4>3 DEF Synchronized, Lingers
    <3>2. CASE t.state # "SynReceived"
      <4>1. w2 = w
        BY <3>2
      <4> HIDE DEF w2
      <4> QED BY <1>1, <1>9, <3>2, <4>1 DEF Synchronized, Same
    <3> QED BY <3>1, <3>2
  <2> HIDE DEF w2, v
  <2>3. Arrives(w2, o, seg)
    BY <1>2, <2>2 DEF Same, Arrives
  <2>4. Reposed(v, o)
    BY <1>9, <2>1, <2>2, <2>3, AcknowledgedReposes
  <2> QED BY <2>4 DEF v
<1> QED BY <1>4, <1>5, <1>6, <1>7, <1>8, <1>9

\* A connection that owes nothing yet.
Blank(e, t) ==
  /\ t.unacked = 0 /\ ~t.released
  /\ t.state = "SynSent" => e \in Callers
  /\ t.state = "SynReceived" => t.listener /\ ~t.ready

\* A connection that is opened sends its SYN, or tries to again.
LEMMA OpeningReposes ==
  ASSUME OneCaller, NEW w, NEW o, WorkOK(w, o), ~w.h.opened, Quiet(w),
         NEW t, Fresh(w.e, t), Blank(w.e, t)
  PROVE  Reposed(Opening(w, t), o)
<1> DEFINE w1 == [w EXCEPT !.t = t, !.h.opened = TRUE]
           h2 == [w.h EXCEPT !.opened = TRUE]
<1>1. Begun(w, t, w1)
  BY DEF Begun
<1>2. Opening(w, t) = Output(w1)
  BY DEF Opening
<1> HIDE DEF w1
<1>3. HasTcb(w1, o) /\ w1.e = w.e /\ w1.h = h2 /\ w1.t = t /\ w1.out = w.out
  BY <1>1, BegunProperty
<1> HIDE DEF h2
<1>4. w.e \in Ends /\ o.took \in Nat /\ o.ended \in BOOLEAN
  BY <1>3, WorkFacts DEF Hists
<1>5. At(w.e, t.una) = 0 /\ t.una = t.max
  BY <1>4, FirstPosition DEF Fresh
<1>6. 0 <= 1 + o.took + Bit(o.ended)
  BY <1>4 DEF Bit
<1>7. t.state \in {"SynSent", "SynReceived"} /\ ~t.finQueued /\ t.finSeq = None
  BY DEF Fresh
<1>8. Tended(w.e, t, h2, o)
  BY <1>5, <1>6, <1>7 DEF Tended, Synchronized, Ending, Blank
<1>9. Minded(w1, o) /\ Lingers(w1.t)
  BY <1>3, <1>7, <1>8 DEF Minded, Quiet, Lingers
<1>10. Reposed(Output(w1), o)
  BY <1>3, <1>9, OutputReposes
<1> QED BY <1>2, <1>10

\* tcp_input leaves every debt with its timer.
LEMMA ReceivedReposes ==
  ASSUME OneCaller, NEW w, NEW o, WorkOK(w, o), Reposed(w, o),
         NEW seg, Arrives(w, o, seg), Asks(Peer(w.e), seg)
  PROVE  Reposed(Received(w, seg), o)
<1> DEFINE known == w.t # None /\ w.t.state # "Closed"
           opens == seg.flags = SYN /\ w.e = Server /\ listening
           m == NewTcb(w.e, "SynReceived")
           n == [OnSyn(m, seg) EXCEPT !.listener = TRUE]
           v == Received(w, seg)
<1>1. w.e \in Ends
  BY DEF WorkOK, Works
<1>2. CASE known
  <2>1. HasTcb(w, o)
    BY <1>2 DEF HasTcb
  <2>2. Reposed(Process(w, seg), o)
    BY <1>2, <2>1, ProcessReposes
  <2> QED BY <1>2, <2>2 DEF Received
<1>3. CASE ~known /\ opens
  <2>1. v = PassiveOpen(w, seg)
    BY <1>3 DEF Received
  <2>2. CASE w.h.opened
    BY <2>1, <2>2 DEF PassiveOpen
  <2>3. CASE ~w.h.opened
    <3>1. v = Opening(w, n)
      BY <2>1, <2>3 DEF PassiveOpen
    <3>2. seg.flags.syn
      BY <1>3 DEF SYN
    <3>3. Fresh(w.e, n)
      BY <1>1, <3>2, AnsweredProperty
    <3>4. Blank(w.e, n)
      <4>1. m \in Tcbs
        BY <1>1, NewTcbProperty DEF States
      <4>2. m.unacked = 0 /\ m.released = FALSE /\ m.state = "SynReceived" /\ m.ready = FALSE
        BY DEF NewTcb
      <4> HIDE DEF m
      <4> QED BY <4>1, <4>2 DEF Blank, OnSyn, Tcbs
    <3>5. Quiet(w)
      BY DEF Reposed, Minded
    <3> HIDE DEF n, v
    <3>6. Reposed(v, o)
      BY <2>3, <3>1, <3>3, <3>4, <3>5, OpeningReposes
    <3> QED BY <3>6 DEF v
  <2> QED BY <2>2, <2>3
<1>4. CASE ~known /\ ~opens
  <2>1. v = w \/ v = SendReset(w, seg)
    BY <1>4 DEF Received
  <2>2. Reposed(SendReset(w, seg), o)
    BY RepliedReset
  <2> QED BY <2>1, <2>2
<1> QED BY <1>2, <1>3, <1>4

\* What is written is sent, or will be.
LEMMA WroteReposes ==
  ASSUME OneCaller, NEW w, NEW o, HasTcb(w, o), Reposed(w, o),
         NEW n \in Nat \ {0}, n <= w.t.txRing - w.t.tx,
         n <= ToWrite[w.e] - w.h.wrote, ~w.t.finQueued, w.t.state \in {"Established", "CloseWait"}
  PROVE  Reposed(Output([w EXCEPT !.t.tx = @ + n, !.h.wrote = @ + n]), o)
<1> DEFINE t  == w.t
           s  == [t EXCEPT !.tx = @ + n]
           h2 == [w.h EXCEPT !.wrote = @ + n]
           v  == [w EXCEPT !.t.tx = @ + n, !.h.wrote = @ + n]
<1>1. /\ w \in Works /\ t \in Tcbs /\ Sender(w.e, t, w.h) /\ Tended(w.e, t, w.h, o) /\ Quiet(w)
  BY WorkFacts DEF HasTcb, WorkOK, Reposed, Minded
<1>2. HasTcb(v, o) /\ v.e = w.e
  BY WroteProperty
<1>3. v.t = s /\ v.h = h2 /\ v.out = w.out
  BY <1>1 DEF Works
<1>4. /\ s.state = t.state /\ s.una = t.una /\ s.nxt = t.nxt /\ s.max = t.max /\ s.rtx = t.rtx
      /\ s.listener = t.listener /\ s.ready = t.ready /\ s.released = t.released
      /\ s.finQueued = t.finQueued /\ s.finSeq = t.finSeq /\ s.closeAt = t.closeAt
      /\ s.unacked = t.unacked /\ s.ackAt = t.ackAt /\ s.ackNow = t.ackNow
  BY <1>1 DEF Tcbs
<1>5. t.finSeq = None
  BY <1>1 DEF Sender
<1> HIDE DEF s, h2, v
<1>6. Tended(w.e, s, h2, o) /\ Lingers(s)
  BY <1>1, <1>4, <1>5 DEF Tended, Synchronized, Lingers
<1>7. Minded(v, o) /\ Lingers(v.t)
  BY <1>1, <1>2, <1>3, <1>6 DEF Minded, Quiet
<1>8. Reposed(Output(v), o)
  BY <1>2, <1>7, OutputReposes
<1> QED BY <1>8 DEF v

\* What is read owes nothing, and makes room that is told of when it should be.
LEMMA ReadReposes ==
  ASSUME OneCaller, NEW w, NEW o, HasTcb(w, o), Reposed(w, o),
         NEW n \in Nat, n <= Len(w.t.rx)
  PROVE  LET s == [w.t EXCEPT !.rx = SubSeq(@, n + 1, Len(@))]
         IN  Reposed(On(w, s), o) /\ Reposed(AckNow(On(w, s)), o)
<1> DEFINE t == w.t
           s == [w.t EXCEPT !.rx = SubSeq(@, n + 1, Len(@))]
           v == On(w, s)
<1>1. t \in Tcbs /\ Minded(w, o) /\ Rested(w.e, t)
  BY WorkFacts DEF Reposed, HasTcb
<1>2. HasTcb(v, o)
  BY ReadProperty
<1>3. Calm(t, s) /\ Moved(w, s, v)
  BY <1>1 DEF Calm, Tcbs, Moved, On
<1>4. /\ s.state = t.state /\ s.nxt = t.nxt /\ s.rtx = t.rtx /\ s.ackNow = t.ackNow
      /\ s.closeAt = t.closeAt /\ s.linkRetry = t.linkRetry /\ s.persist = t.persist
      /\ s.finSent = t.finSent /\ s.finQueued = t.finQueued /\ s.tx = t.tx /\ s.base = t.base
  BY <1>1 DEF Tcbs
<1> HIDE DEF s, v
<1>5. Minded(v, o) /\ v.t = s /\ v.e = w.e
  BY <1>1, <1>3, MindedCalm
<1>6. Rested(w.e, s)
  <2>1. Unsent(s) = Unsent(t)
    BY <1>4 DEF Unsent
  <2> QED BY <1>1, <1>4, <2>1 DEF Rested, Lingers, Synchronized
<1>7. Reposed(v, o) /\ Reposed(AckNow(v), o)
  BY <1>2, <1>5, <1>6, AckNowReposes DEF Reposed, Rested
<1> QED BY <1>7 DEF v, s

\* A connection that is as it was, whether or not the application let go of it.
LetGo(t, s) ==
  /\ s.state = t.state /\ s.una = t.una /\ s.nxt = t.nxt /\ s.max = t.max /\ s.rtx = t.rtx
  /\ s.listener = t.listener /\ s.ready = t.ready
  /\ s.finQueued = t.finQueued /\ s.finSeq = t.finSeq /\ s.closeAt = t.closeAt
  /\ s.unacked = t.unacked /\ s.ackAt = t.ackAt /\ s.ackNow = t.ackNow

\* The end of the stream is sent, or will be.
LEMMA ShutReposes ==
  ASSUME OneCaller, NEW w, NEW o, HasTcb(w, o), Quiet(w), ~w.t.finQueued,
         NEW t, Tended(w.e, t, w.h, o), LetGo(t, w.t), NEW next,
         \/ w.t.state = "Established" /\ next = "FinWait1"
         \/ w.t.state = "CloseWait" /\ next = "LastAck"
  PROVE  Reposed(Output([w EXCEPT !.t.finQueued = TRUE, !.h.shut = TRUE, !.t.state = next]), o)
<1> DEFINE s  == [w.t EXCEPT !.finQueued = TRUE, !.state = next]
           h2 == [w.h EXCEPT !.shut = TRUE]
           v  == [w EXCEPT !.t.finQueued = TRUE, !.h.shut = TRUE, !.t.state = next]
           u  == At(w.e, w.t.una)
           m  == At(w.e, w.t.max)
<1>1. w \in Works /\ w.t \in Tcbs /\ w.h \in Hists /\ Sender(w.e, w.t, w.h)
  BY WorkFacts DEF HasTcb, WorkOK
<1>2. HasTcb(v, o) /\ v.e = w.e
  BY ShutProperty
<1>3. v.t = s /\ v.h = h2 /\ v.out = w.out
  BY <1>1 DEF Works
<1>4. /\ s.state = next /\ s.finQueued = TRUE
      /\ s.una = w.t.una /\ s.nxt = w.t.nxt /\ s.max = w.t.max /\ s.rtx = w.t.rtx
      /\ s.listener = w.t.listener /\ s.ready = w.t.ready
      /\ s.finSeq = w.t.finSeq /\ s.closeAt = w.t.closeAt
      /\ s.unacked = w.t.unacked /\ s.ackAt = w.t.ackAt /\ s.ackNow = w.t.ackNow
  BY <1>1 DEF Tcbs
<1>5. u < 2 + h2.wrote /\ w.t.finSeq = None /\ h2.wrote = w.h.wrote
  <2>1. w.t.finSeq = None
    BY <1>1 DEF Sender
  <2>2. u <= m /\ u \in Nat /\ m \in Nat /\ w.h.wrote \in Nat
    BY SenderFacts
  <2>3. m <= 1 + w.h.wrote
    BY <1>1, <2>1, <2>2 DEF Sender
  <2>4. h2.wrote = w.h.wrote
    BY <1>1 DEF Hists
  <2> QED BY <2>1, <2>2, <2>3, <2>4
<1> HIDE DEF s, h2, v
<1>6. Tended(w.e, s, h2, o) /\ Lingers(s)
  BY <1>4, <1>5 DEF Tended, Synchronized, Lingers, LetGo, Ending
<1>7. Minded(v, o) /\ Lingers(v.t)
  BY <1>2, <1>3, <1>6 DEF Minded, Quiet
<1>8. Reposed(Output(v), o)
  BY <1>2, <1>7, OutputReposes
<1> QED BY <1>8 DEF v

\* tcp_shutdown leaves every debt with its timer, where there is an end to send.
LEMMA ShutDownReposes ==
  ASSUME OneCaller, NEW w, NEW o, HasTcb(w, o), Quiet(w), ~w.t.finQueued,
         w.t.state # "SynReceived", NEW t, Tended(w.e, t, w.h, o), LetGo(t, w.t)
  PROVE  Reposed(ShutDown(w), o)
<1> DEFINE a == [w EXCEPT !.t.finQueued = TRUE, !.h.shut = TRUE, !.t.state = "FinWait1"]
           b == [w EXCEPT !.t.finQueued = TRUE, !.h.shut = TRUE, !.t.state = "LastAck"]
           v == ShutDown(w)
<1>1. \/ w.t.state = "SynSent" /\ v = On(w, CloseWith(w.t, FALSE))
      \/ w.t.state = "Established" /\ v = Output(a)
      \/ w.t.state = "CloseWait" /\ v = Output(b)
      \/ w.t.state \notin {"SynSent", "SynReceived", "Established", "CloseWait"} /\ v = w
  BY DEF ShutDown
<1>2. Reposed(On(w, CloseWith(w.t, FALSE)), o)
  BY CloseReposes
<1>3. w.t.state = "Established" => Reposed(Output(a), o)
  BY ShutReposes
<1>4. w.t.state = "CloseWait" => Reposed(Output(b), o)
  BY ShutReposes
<1>5. ASSUME w.t.state \notin {"SynSent", "SynReceived", "Established", "CloseWait"}
      PROVE  Reposed(w, o)
  <2>1. w.t.state = "Closed"
    <3>1. w.t.state \in States
      BY WorkFacts DEF Tcbs
    <3>2. w.t.state \notin Ending \/ w.t.state = "Closed"
      BY DEF Tended, LetGo
    <3> QED BY <1>5, <3>1, <3>2 DEF States, Ending
  <2> QED BY <2>1, ClosedRests
<1> HIDE DEF v, a, b
<1>6. Reposed(v, o)
  BY <1>1, <1>2, <1>3, <1>4, <1>5
<1> QED BY <1>6 DEF v

\* The peer's end is not awaited for ever.
LEMMA AwaitedReposes ==
  ASSUME NEW w, NEW o, HasTcb(w, o), Quiet(w), NEW t, Tended(w.e, t, w.h, o), Rested(w.e, t),
         \/ w.t = t
         \/ LetGo(t, w.t) /\ t.finQueued /\ w.t.linkRetry = t.linkRetry
            /\ w.t.persist = t.persist /\ w.t.finSent = t.finSent /\ w.t.tx = t.tx
            /\ w.t.base = t.base
  PROVE  Reposed(On(w, Awaited(w.t)), o)
<1> DEFINE s == Awaited(w.t)
           v == On(w, s)
<1>1. w \in Works /\ w.t \in Tcbs
  BY WorkFacts DEF HasTcb, WorkOK
<1>2. /\ s.state = w.t.state /\ s.una = w.t.una /\ s.nxt = w.t.nxt /\ s.max = w.t.max
      /\ s.rtx = w.t.rtx /\ s.listener = w.t.listener /\ s.ready = w.t.ready
      /\ s.released = w.t.released /\ s.finQueued = w.t.finQueued /\ s.finSeq = w.t.finSeq
      /\ s.unacked = w.t.unacked /\ s.ackAt = w.t.ackAt /\ s.ackNow = w.t.ackNow
      /\ s.linkRetry = w.t.linkRetry /\ s.persist = w.t.persist /\ s.finSent = w.t.finSent
      /\ s.tx = w.t.tx /\ s.base = w.t.base
  BY <1>1 DEF Awaited, Tcbs
<1>3. IF w.t.state = "FinWait2" THEN s.closeAt = TRUE ELSE s.closeAt = w.t.closeAt
  BY <1>1 DEF Awaited, Tcbs
<1>4. v.t = s /\ v.e = w.e /\ v.h = w.h /\ v.out = w.out
  BY <1>1 DEF On, Works
<1> HIDE DEF s, v
<1>5. Tended(w.e, s, w.h, o)
  BY <1>2, <1>3 DEF Tended, LetGo, Synchronized
<1>6. Rested(w.e, s)
  <2>1. Unsent(s) = Unsent(t)
    BY <1>2 DEF Unsent, LetGo
  <2>2. /\ s.state = t.state /\ s.nxt = t.nxt /\ s.rtx = t.rtx /\ s.ackNow = t.ackNow
        /\ s.linkRetry = t.linkRetry /\ s.persist = t.persist
        /\ s.finSent = t.finSent /\ s.finQueued = t.finQueued
    BY <1>2 DEF LetGo
  <2>3. s.state = "TimeWait" => s.closeAt = t.closeAt
    BY <1>2, <1>3 DEF LetGo
  <2> QED BY <2>1, <2>2, <2>3 DEF Rested, Lingers, Synchronized
<1>7. Reposed(v, o)
  BY <1>4, <1>5, <1>6 DEF Reposed, Minded, Quiet
<1> QED BY <1>7 DEF v, s

\* tcp_release leaves every debt with its timer.
LEMMA ReleaseReposes ==
  ASSUME OneCaller, NEW w0, NEW o, HasTcb(w0, o), Reposed(w0, o), w0.t.state # "SynReceived"
  PROVE  LET w  == [w0 EXCEPT !.t.released = TRUE]
             w1 == ShutDown(w)
         IN  Reposed(Abort(w), o) /\ Reposed(On(w1, Awaited(w1.t)), o)
<1> DEFINE t  == w0.t
           s  == [t EXCEPT !.released = TRUE]
           w  == [w0 EXCEPT !.t.released = TRUE]
           w1 == ShutDown(w)
           v  == On(w1, Awaited(w1.t))
<1>1. w0 \in Works /\ t \in Tcbs /\ Quiet(w0) /\ Tended(w0.e, t, w0.h, o) /\ Rested(w0.e, t)
  BY WorkFacts DEF HasTcb, WorkOK, Reposed, Minded
<1>2. w = [w0 EXCEPT !.t = s]
  BY <1>1 DEF Works
<1>3. LetGo(t, s) /\ s.linkRetry = t.linkRetry /\ s.persist = t.persist
      /\ s.finSent = t.finSent /\ s.tx = t.tx /\ s.base = t.base
  BY <1>1 DEF LetGo, Tcbs
<1>4. Changed(t, s, {"released"}) /\ s.released \in BOOLEAN
  BY <1>1 DEF Changed, Tcbs
<1>5. w.t = s /\ w.e = w0.e /\ w.h = w0.h /\ w.out = w0.out
  BY <1>1, <1>2 DEF Works
<1> HIDE DEF s, w
<1>6. HasTcb(w, o)
  <2>1. Touched(t, s, {"released"})
    BY <1>4 DEF Touched, Neutral, TcbTypes
  <2> QED BY <1>2, <2>1, NeutralWork
<1>7. Quiet(w)
  BY <1>1, <1>5 DEF Quiet
<1>8. Reposed(Abort(w), o)
  BY <1>6, <1>7, AbortReposes
<1>9. Reposed(v, o)
  <2>1. CASE w.t.finQueued
    <3>1. w1 = w
      BY <2>1 DEF ShutDown
    <3>2. t.finQueued
      BY <1>3, <1>5, <2>1 DEF LetGo
    <3> QED BY <1>1, <1>3, <1>5, <1>6, <1>7, <3>1, <3>2, AwaitedReposes
  <2>2. CASE ~w.t.finQueued
    <3>1. LetGo(t, w.t) /\ Tended(w.e, t, w.h, o) /\ w.t.state # "SynReceived"
      BY <1>1, <1>3, <1>5 DEF LetGo
    <3>2. Reposed(w1, o)
      BY <1>6, <1>7, <2>2, <3>1, ShutDownReposes
    <3>3. HasTcb(w1, o)
      BY <1>6, ShutDownProperty
    <3> HIDE DEF w1
    <3>4. Quiet(w1) /\ Tended(w1.e, w1.t, w1.h, o) /\ Rested(w1.e, w1.t)
      BY <3>2, <3>3 DEF Reposed, Minded, HasTcb
    <3> QED BY <3>3, <3>4, AwaitedReposes
  <2> QED BY <2>1, <2>2
<1> QED BY <1>8, <1>9 DEF w

\* What is to be sent again is timed again.
LEMMA RewoundMinded ==
  ASSUME NEW e, NEW t \in Tcbs, NEW h, NEW o, Tended(e, t, h, o)
  PROVE  LET s == Rewound(t)
         IN  Tended(e, s, h, o) /\ s.state = t.state /\ s.closeAt = t.closeAt
<1> DEFINE s == Rewound(t)
<1>1. /\ s.state = t.state /\ s.una = t.una /\ s.nxt = t.una /\ s.max = t.max /\ s.rtx = TRUE
      /\ s.listener = t.listener /\ s.ready = t.ready /\ s.released = t.released
      /\ s.finQueued = t.finQueued /\ s.finSeq = t.finSeq /\ s.closeAt = t.closeAt
      /\ s.unacked = t.unacked /\ s.ackAt = t.ackAt /\ s.ackNow = t.ackNow
  BY DEF Rewound, Tcbs
<1> HIDE DEF s
<1>2. Tended(e, s, h, o) /\ s.state = t.state /\ s.closeAt = t.closeAt
  BY <1>1 DEF Tended, Synchronized
<1> QED BY <1>2 DEF s

\* The timers leave no debt without one.
LEMMA TimersGoReposes ==
  ASSUME OneCaller, NEW w, NEW o, HasTcb(w, o), Reposed(w, o), NEW due \in SUBSET Armed(w.t)
  PROVE  Reposed(TimersGo(w, due), o)
<1> DEFINE t  == w.t
           t1 == IF "rtx" \in due THEN Rewound(t) ELSE t
           t2 == IF "ackAt" \in due THEN [t1 EXCEPT !.ackNow = TRUE] ELSE t1
           s  == Timed(t, due)
           g  == [t EXCEPT !.released = @ \/ t.listener]
           v  == TimersGo(w, due)
<1>1. w \in Works /\ t \in Tcbs /\ Tended(w.e, t, w.h, o) /\ Lingers(t) /\ Quiet(w) /\ Minded(w, o)
  BY WorkFacts DEF HasTcb, WorkOK, Reposed, Minded, Rested
<1>2. CASE "closeAt" \in due
  <2>1. Reposed(On(w, CloseWith(t, FALSE)), o)
    BY <1>1, CloseReposes
  <2> QED BY <1>2, <2>1 DEF TimersGo
<1>3. CASE "closeAt" \notin due /\ "rtx" \in due /\ TooMany(t)
  <2>1. v = On(w, CloseWith(g, TRUE))
    BY <1>3 DEF TimersGo, GivenUp, TooMany
  <2>2. CloseWith(g, TRUE).state = "Closed"
    <3>1. g \in Tcbs
      BY <1>1 DEF Tcbs
    <3> HIDE DEF g
    <3> QED BY <3>1 DEF CloseWith, Tcbs
  <2> HIDE DEF g, v
  <2>3. v.t.state = "Closed" /\ v.e = w.e /\ v.out = w.out
    BY <1>1, <2>1, <2>2 DEF On, Works
  <2>4. Quiet(v)
    BY <1>1, <2>3 DEF Quiet
  <2>5. Reposed(v, o)
    BY <2>3, <2>4, ClosedRests
  <2> QED BY <2>5 DEF v
<1>4. CASE "closeAt" \notin due /\ ~("rtx" \in due /\ TooMany(t))
  <2> DEFINE w1 == On(w, s)
  <2>1. HasTcb(w1, o)
    BY <1>4, TimedProperty
  <2>2. v = Output(w1)
    BY <1>4 DEF TimersGo, Timed, TooMany
  <2>3. Tended(w.e, t1, w.h, o) /\ t1.state = t.state /\ t1.closeAt = t.closeAt /\ t1 \in Tcbs
    <3>1. LET r == Rewound(t)
          IN  Tended(w.e, r, w.h, o) /\ r.state = t.state /\ r.closeAt = t.closeAt
      BY <1>1, RewoundMinded
    <3>2. CASE "rtx" \in due
      <4>1. t1 = Rewound(t)
        BY <3>2
      <4>2. Rewound(t) \in Tcbs
        <5>1. t.rtx
          BY <3>2 DEF Armed
        <5>2. HasTcb(On(w, Rewound(t)), o)
          <6>1. t.retries + 1 <= MaxRetries \/ t.retries + 1 <= MaxSynRetries
            <7>1. t.retries \in Retries
              BY <1>1 DEF Tcbs
            <7>2. t.retries \in Nat
              BY <7>1 DEF Retries
            <7> QED BY <1>4, <3>2, <7>2, RetriesProperty DEF TooMany
          <6> QED BY <5>1, <6>1, RewoundProperty
        <5>3. On(w, Rewound(t)).t = Rewound(t)
          BY <1>1 DEF On, Works
        <5> QED BY <5>2, <5>3, WorkFacts
      <4> HIDE DEF t1
      <4> QED BY <3>1, <4>1, <4>2
    <3>3. CASE "rtx" \notin due
      BY <1>1, <3>3
    <3> QED BY <3>2, <3>3
  <2> HIDE DEF t1
  <2>4. Calm(t1, t2) /\ t2 \in Tcbs
    <3> DEFINE x == [t1 EXCEPT !.ackNow = TRUE]
    <3>1. Calm(t1, x) /\ Calm(t1, t1)
      BY <2>3 DEF Calm, Tcbs
    <3>2. x \in Tcbs
      BY <2>3 DEF Tcbs
    <3> HIDE DEF x
    <3> QED BY <2>3, <3>1, <3>2 DEF x
  <2>5. s = IF "persist" \in due THEN [t2 EXCEPT !.persist = FALSE, !.probe = Unsent(t2) > 0]
            ELSE t2
    BY DEF Timed, t1
  <2> HIDE DEF t2
  <2>6. Calm(t2, s)
    BY <2>4, <2>5 DEF Calm, Tcbs
  <2> HIDE DEF s
  <2>7. Tended(w.e, s, w.h, o)
    <3>1. Tended(w.e, t2, w.h, o)
      BY <2>3, <2>4, CalmProperty
    <3> QED BY <2>6, <3>1, CalmProperty
  <2>8. Lingers(s)
    BY <1>1, <2>3, <2>4, <2>6 DEF Lingers, Calm
  <2>9. Moved(w, s, w1)
    BY DEF Moved, On
  <2> HIDE DEF w1, v
  <2>10. Minded(w1, o) /\ w1.t = s
    BY <1>1, <2>7, <2>9, MindedOn
  <2>11. Reposed(Output(w1), o)
    BY <2>1, <2>8, <2>10, OutputReposes
  <2> QED BY <2>2, <2>11 DEF v
<1> QED BY <1>2, <1>3, <1>4

\* A connection that lets go of its memory owes no less, and one that is closed and
\* let go of is gone.
LEMMA SettledTended ==
  ASSUME NEW w, NEW o, HasTcb(w, o), Reposed(w, o), Settled(w.t) # None
  PROVE  LET s == Settled(w.t)
         IN  Tended(w.e, s, w.h, o) /\ Rested(w.e, s) /\ (s.state = "Closed" => ~s.released)
<1> DEFINE t == w.t
           x == [t EXCEPT !.rx = <<>>, !.rxRing = 0, !.tx = 0, !.txRing = 0]
           s == Settled(t)
<1>1. t \in Tcbs /\ Sender(w.e, t, w.h) /\ Tended(w.e, t, w.h, o) /\ Rested(w.e, t)
  BY WorkFacts DEF HasTcb, Reposed, Minded
<1>2. s = t \/ (t.state = "TimeWait" /\ s = x)
  BY DEF Settled
<1>3. t.state = "Closed" => ~t.released
  BY DEF Settled
<1>4. ASSUME t.state = "TimeWait"
      PROVE  Tended(w.e, x, w.h, o) /\ Rested(w.e, x) /\ x.state = "TimeWait"
  <2>1. Calm(t, x)
    BY <1>1 DEF Calm, Tcbs
  <2>2. /\ x.state = t.state /\ x.nxt = t.nxt /\ x.rtx = t.rtx /\ x.ackNow = t.ackNow
        /\ x.closeAt = t.closeAt /\ x.linkRetry = t.linkRetry /\ x.persist = t.persist
        /\ x.finSent = t.finSent /\ x.finQueued = t.finQueued /\ x.base = t.base /\ x.tx = 0
    BY <1>1 DEF Tcbs
  <2>3. t.tx = 0
    BY <1>1, <1>4 DEF Sender
  <2> HIDE DEF x
  <2>4. Tended(w.e, x, w.h, o)
    BY <1>1, <2>1, CalmProperty
  <2>5. Unsent(x) = Unsent(t)
    BY <2>2, <2>3 DEF Unsent
  <2> QED BY <1>1, <1>4, <2>2, <2>4, <2>5 DEF Rested, Lingers, Synchronized
<1> HIDE DEF s, x
<1>5. Tended(w.e, s, w.h, o) /\ Rested(w.e, s) /\ (s.state = "Closed" => ~s.released)
  BY <1>1, <1>2, <1>3, <1>4
<1> QED BY <1>5 DEF s

\* Nor does it owe more because the other end goes on.
LEMMA PeerTended ==
  ASSUME NEW p \in Ends, NEW t \in Tcbs, NEW o, NEW h \in Hists, NEW h2, Tended(p, t, o, h),
         Grown(h, h2)
  PROVE  Tended(p, t, o, h2)
<1>1. /\ h2 \in Hists /\ h.took <= h2.took /\ (h.ended => h2.ended)
      /\ h.took \in Nat /\ h2.took \in Nat
  BY DEF Grown, Hists
<1>2. 1 + h.took + Bit(h.ended) <= 1 + h2.took + Bit(h2.ended)
  BY <1>1 DEF Bit
<1>3. CASE t.state = "Closed"
  BY <1>3 DEF Tended
<1>4. CASE t.state # "Closed"
  <2> DEFINE u == At(p, t.una)
  <2>1. u <= 1 + h.took + Bit(h.ended)
    BY <1>4 DEF Tended
  <2>2. u \in Nat
    BY AtProperty DEF Tcbs, SeqNums
  <2> HIDE DEF u
  <2>3. u <= 1 + h2.took + Bit(h2.ended)
    BY <1>1, <1>2, <2>1, <2>2 DEF Bit
  <2> QED BY <1>4, <2>3 DEF Tended, u
<1> QED BY <1>3, <1>4

\* A step that ends with every debt timed.
TendedStep(e, c, w) == EndStep(e, c, w) /\ Reposed(w, hist[Peer(e)])

\* What such a step has come to is written back, and sent.
LEMMA DoneTended ==
  ASSUME IInv, AllTended, NEW e \in Ends, NEW c \in Conditions, NEW w, TendedStep(e, c, w)
  PROVE  AllTended'
<1> DEFINE t2 == IF w.t = None THEN None ELSE Settled(w.t)
           net2 == Carried(e, w.out)
           p == Peer(e)
           o == hist[p]
<1>1. /\ p \in Ends /\ p # e /\ Peer(p) = e /\ \A d \in Ends : d = e \/ d = p
  BY EndsProperty
<1>2. /\ Done(e, c, w) /\ WorkOK(w, o) /\ w.e = e /\ Reposed(w, o) /\ Goes(hist[e], w.h)
      /\ w.out \in Seq(Segments)
  BY DEF TendedStep, EndStep, Reached, WorkOK, Works
<1>3. /\ tcb \in [Ends -> Tcbs \cup {None}] /\ hist \in [Ends -> Hists] /\ DOMAIN net = Ends
      /\ HistOK(e, hist[e], o) /\ IsFiniteSet(DOMAIN net[e]) /\ hist[e] \in Hists
  BY <1>1 DEF IInv
<1>4. Grown(hist[e], w.h)
  BY <1>2, <1>3, GoesGrown
<1>5. t2 # None => Tended(e, t2, w.h, o) /\ Rested(e, t2) /\ (t2.state = "Closed" => ~t2.released)
  <2>1. CASE w.t = None
    BY <2>1
  <2>2. CASE w.t # None
    <3>1. HasTcb(w, o)
      BY <1>2, <2>2 DEF HasTcb
    <3>2. t2 = Settled(w.t)
      BY <2>2
    <3> HIDE DEF t2
    <3> QED BY <1>2, <3>1, <3>2, SettledTended
  <2> QED BY <2>1, <2>2
<1>6. tcb[p] # None => /\ Tended(p, tcb[p], o, w.h) /\ Rested(p, tcb[p])
                       /\ tcb[p].state = "Closed" => ~tcb[p].released
  <2> SUFFICES ASSUME tcb[p] # None
               PROVE  /\ Tended(p, tcb[p], o, w.h) /\ Rested(p, tcb[p])
                      /\ tcb[p].state = "Closed" => ~tcb[p].released
    OBVIOUS
  <2>1. /\ Tended(p, tcb[p], o, hist[e]) /\ Rested(p, tcb[p])
        /\ tcb[p].state = "Closed" => ~tcb[p].released
    BY <1>1 DEF AllTended
  <2>2. tcb[p] \in Tcbs
    BY <1>1, <1>3
  <2> QED BY <1>1, <1>3, <1>4, <2>1, <2>2, PeerTended
<1>7. DOMAIN net2 \subseteq DOMAIN net[e] \cup Range(w.out)
  BY <1>2, <1>3, CarriedProperty
<1>8. tcb' = [tcb EXCEPT ![e] = t2] /\ hist' = [hist EXCEPT ![e] = w.h]
      /\ net' = [net EXCEPT ![e] = net2]
  BY <1>2 DEF Done
<1> HIDE DEF t2, net2
<1>9. /\ tcb'[e] = t2 /\ tcb'[p] = tcb[p] /\ hist'[e] = w.h /\ hist'[p] = o
      /\ net'[e] = net2 /\ net'[p] = net[p]
  BY <1>1, <1>3, <1>8
<1>10. \A seg \in DOMAIN net2 : Asks(e, seg)
  <2>1. /\ \A seg \in DOMAIN net[e] : Asks(e, seg)
        /\ \A seg \in Range(w.out) : Asks(e, seg)
    BY <1>2 DEF AllTended, Reposed, Minded, Quiet
  <2> QED BY <1>7, <2>1
<1>11. \A seg \in DOMAIN net[p] : Asks(p, seg)
  BY <1>1 DEF AllTended
<1>12. ASSUME NEW d \in Ends
       PROVE  /\ tcb'[d] # None => /\ Tended(d, tcb'[d], hist'[d], hist'[Peer(d)])
                                   /\ Rested(d, tcb'[d])
                                   /\ tcb'[d].state = "Closed" => ~tcb'[d].released
              /\ \A seg \in DOMAIN net'[d] : Asks(d, seg)
  <2>1. CASE d = e
    BY <1>5, <1>9, <1>10, <2>1
  <2>2. CASE d = p
    BY <1>1, <1>6, <1>9, <1>11, <2>2
  <2> QED BY <1>1, <2>1, <2>2
<1> QED BY <1>12 DEF AllTended

\* A step begins with every debt timed.
LEMMA WorkReposed ==
  ASSUME IInv, AllTended, NEW e \in Ends, NEW c \in Conditions
  PROVE  Reposed(Work(e, c), hist[Peer(e)])
<1> DEFINE w == Work(e, c)
<1>1. w.e = e /\ w.t = tcb[e] /\ w.h = hist[e]
  BY WorkStart
<1>2. Range(w.out) = {}
  <2>1. w.out = <<>>
    BY DEF Work
  <2> QED BY <2>1 DEF Range
<1> HIDE DEF w
<1>3. Reposed(w, hist[Peer(e)])
  BY <1>1, <1>2 DEF AllTended, Reposed, Minded, Quiet
<1> QED BY <1>3 DEF w

\* The application has no connection that still waits for its SYN to be answered by
\* an acknowledgement: the Listener keeps that one.
LEMMA OwnedTended ==
  ASSUME IInv, AllTended, NEW e \in Ends, NEW c \in Conditions, Owned(e)
  PROVE  LET w == Work(e, c)
         IN  /\ HasTcb(w, hist[Peer(e)]) /\ w.e = e /\ Reposed(w, hist[Peer(e)])
             /\ w.t.state # "SynReceived"
<1> DEFINE w == Work(e, c)
<1>1. HasTcb(w, hist[Peer(e)]) /\ w.e = e /\ w.t = tcb[e]
  BY OwnedStart DEF Owned
<1>2. Reposed(w, hist[Peer(e)])
  BY WorkReposed
<1>3. tcb[e].state # "SynReceived"
  <2>1. Tended(e, tcb[e], hist[e], hist[Peer(e)])
    BY DEF AllTended, Owned
  <2> QED BY <2>1 DEF Tended, Owned
<1> QED BY <1>1, <1>2, <1>3

Tends == \E e \in Ends, c \in Conditions : \E w : TendedStep(e, c, w)

\* Each call, arrival and timer leaves every debt with its timer: a SYN is timed.
LEMMA ConnectTended ==
  ASSUME OneCaller, IInv, AllTended, NEW e \in Ends, NEW c \in Conditions, Connect(e, c)
  PROVE  Tends
<1> DEFINE w == Work(e, c)
           n == NewTcb(e, "SynSent")
           v == Opening(w, n)
           o == hist[Peer(e)]
<1>1. EndStep(e, c, v)
  BY ConnectStep
<1>2. WorkOK(w, o) /\ w.e = e /\ w.h = hist[e] /\ Reposed(w, o)
  BY WorkStart, WorkReposed
<1>3. Fresh(e, n) /\ ~hist[e].opened /\ e \in Callers
  BY CalledProperty DEF Connect
<1>4. Blank(e, n)
  BY <1>3 DEF Blank, NewTcb
<1> HIDE DEF w, n, o
<1>5. Reposed(v, o)
  BY <1>2, <1>3, <1>4, OpeningReposes DEF Reposed, Minded
<1> HIDE DEF v
<1>6. TendedStep(e, c, v)
  BY <1>1, <1>5 DEF TendedStep, o
<1> QED BY <1>6 DEF Tends

\* A write is sent, or waits for a timer.
LEMMA WriteTended ==
  ASSUME OneCaller, IInv, AllTended, NEW e \in Ends, NEW c \in Conditions,
         NEW size \in Pieces, Write(e, size, c)
  PROVE  Tends
<1> DEFINE w == Work(e, c)
           n == Lesser(Lesser(size, w.t.txRing - w.t.tx), ToWrite[e] - w.h.wrote)
           v == Output([w EXCEPT !.t.tx = @ + n, !.h.wrote = @ + n])
           o == hist[Peer(e)]
<1>1. EndStep(e, c, v)
  BY WriteStep
<1>2. HasTcb(w, o) /\ w.e = e /\ Reposed(w, o)
  BY OwnedTended DEF Write
<1>3. ~w.t.finQueued /\ w.t.state \in {"Established", "CloseWait"} /\ n > 0
  BY DEF Write
<1> HIDE DEF w
<1>4. n \in Nat \ {0} /\ n <= w.t.txRing - w.t.tx /\ n <= ToWrite[w.e] - w.h.wrote
  BY <1>2, <1>3, PieceProperty
<1> HIDE DEF n, o
<1>5. Reposed(v, o)
  BY <1>2, <1>3, <1>4, WroteReposes
<1> HIDE DEF v
<1>6. TendedStep(e, c, v)
  BY <1>1, <1>5 DEF TendedStep, o
<1> QED BY <1>6 DEF Tends

\* A read leaves the timers alone, or tells of the room it made.
LEMMA ReadTended ==
  ASSUME OneCaller, IInv, AllTended, NEW e \in Ends, NEW c \in Conditions,
         NEW size \in Pieces, Read(e, size, c)
  PROVE  Tends
<1> DEFINE w == Work(e, c)
           n == Lesser(size, Len(w.t.rx))
           t == [w.t EXCEPT !.rx = SubSeq(@, n + 1, Len(@))]
           x == On(w, t)
           v == IF Synchronized(t) /\ Grew(t) THEN AckNow(x) ELSE x
           o == hist[Peer(e)]
<1>1. EndStep(e, c, v)
  BY ReadStep
<1>2. HasTcb(w, o) /\ w.e = e /\ Reposed(w, o)
  BY OwnedTended DEF Read
<1> HIDE DEF w
<1>3. n \in Nat /\ n <= Len(w.t.rx)
  <2>1. w.t \in Tcbs
    BY <1>2, WorkFacts
  <2>2. size \in Nat /\ Len(w.t.rx) \in Nat
    BY <2>1, TcpAssumption DEF TcpAssumption, Tcbs
  <2> QED BY <2>2 DEF Lesser
<1> HIDE DEF n, o
<1>4. Reposed(x, o) /\ Reposed(AckNow(x), o)
  BY <1>2, <1>3, ReadReposes
<1>5. v = x \/ v = AckNow(x)
  OBVIOUS
<1> HIDE DEF v, x
<1>6. TendedStep(e, c, v)
  BY <1>1, <1>4, <1>5 DEF TendedStep, o
<1> QED BY <1>6 DEF Tends

\* The end of the stream is sent, or waits for a timer.
LEMMA ShutdownTended ==
  ASSUME OneCaller, IInv, AllTended, NEW e \in Ends, NEW c \in Conditions, Shutdown(e, c)
  PROVE  Tends
<1> DEFINE w == Work(e, c)
           v == ShutDown(w)
           o == hist[Peer(e)]
<1>1. EndStep(e, c, v)
  BY ShutdownStep
<1>2. HasTcb(w, o) /\ w.e = e /\ Reposed(w, o) /\ w.t.state # "SynReceived"
  BY OwnedTended DEF Shutdown
<1> HIDE DEF w, o
<1>3. Reposed(v, o)
  <2>1. CASE w.t.finQueued
    BY <1>2, <2>1 DEF ShutDown
  <2>2. CASE ~w.t.finQueued
    <3>1. Quiet(w) /\ Tended(w.e, w.t, w.h, o) /\ LetGo(w.t, w.t)
      BY <1>2 DEF Reposed, Minded, HasTcb, LetGo
    <3> QED BY <1>2, <2>2, <3>1, ShutDownReposes
  <2> QED BY <2>1, <2>2
<1> HIDE DEF v
<1>4. TendedStep(e, c, v)
  BY <1>1, <1>3 DEF TendedStep, o
<1> QED BY <1>4 DEF Tends

\* A connection that is let go of has a timer until it is gone.
LEMMA ReleaseTended ==
  ASSUME OneCaller, IInv, AllTended, NEW e \in Ends, NEW c \in Conditions, Release(e, c)
  PROVE  Tends
<1> DEFINE w0 == Work(e, c)
           w  == [w0 EXCEPT !.t.released = TRUE]
           w1 == ShutDown(w)
           w2 == On(w1, Awaited(w1.t))
           v  == IF w.t.rx # <<>> \/ w.t.state = "SynSent" THEN Abort(w) ELSE w2
           o  == hist[Peer(e)]
<1>1. EndStep(e, c, v)
  BY ReleaseStep
<1>2. HasTcb(w0, o) /\ w0.e = e /\ Reposed(w0, o) /\ w0.t.state # "SynReceived"
  BY OwnedTended DEF Release
<1> HIDE DEF w0, o
<1>3. Reposed(Abort(w), o) /\ Reposed(w2, o)
  BY <1>2, ReleaseReposes
<1>4. v = w2 \/ v = Abort(w)
  OBVIOUS
<1> HIDE DEF v, w2, w
<1>5. TendedStep(e, c, v)
  BY <1>1, <1>3, <1>4 DEF TendedStep, o
<1> QED BY <1>5 DEF Tends

\* What a segment makes due is sent, or timed.
LEMMA InputTended ==
  ASSUME OneCaller, IInv, AllTended, NEW e \in Ends, NEW c \in Conditions, Input(e, c)
  PROVE  Tends
<1> DEFINE w == Work(e, c)
           o == hist[Peer(e)]
<1>1. PICK seg \in DOMAIN net[Peer(e)] : EndStep(e, c, Received(w, seg))
  BY InputStep
<1> DEFINE v == Received(w, seg)
<1>2. WorkOK(w, o) /\ w.e = e /\ Reposed(w, o)
  BY WorkStart, WorkReposed
<1>3. Arrives(w, o, seg) /\ Asks(Peer(e), seg)
  <2>1. Peer(e) \in Ends
    BY EndsProperty
  <2>2. seg \in Segments /\ SegOK(Peer(e), o, seg)
    BY <2>1 DEF IInv
  <2>3. Asks(Peer(e), seg)
    BY <2>1 DEF AllTended
  <2> HIDE DEF w
  <2> QED BY <1>2, <2>2, <2>3 DEF Arrives
<1>4. EndStep(e, c, v)
  BY <1>1
<1> HIDE DEF w, o
<1>5. Reposed(v, o)
  BY <1>2, <1>3, ReceivedReposes
<1> HIDE DEF v
<1>6. TendedStep(e, c, v)
  BY <1>4, <1>5 DEF TendedStep, o
<1> QED BY <1>6 DEF Tends

\* A timer that goes off is set again where anything is still owed.
LEMMA TimersTended ==
  ASSUME OneCaller, IInv, AllTended, NEW e \in Ends, NEW c \in Conditions, Timers(e, c)
  PROVE  Tends
<1> DEFINE w == Work(e, c)
           o == hist[Peer(e)]
<1>1. PICK due \in SUBSET Armed(tcb[e]) : EndStep(e, c, TimersGo(w, due))
  BY TimersStep
<1> DEFINE v == TimersGo(w, due)
<1>2. HasTcb(w, o) /\ w.t = tcb[e] /\ Reposed(w, o)
  BY OwnedStart, WorkReposed DEF Timers
<1>3. EndStep(e, c, v)
  BY <1>1
<1> HIDE DEF w, o
<1>4. Reposed(v, o)
  BY <1>2, TimersGoReposes
<1> HIDE DEF v
<1>5. TendedStep(e, c, v)
  BY <1>3, <1>4 DEF TendedStep, o
<1> QED BY <1>5 DEF Tends

\* A Listener that goes takes the connection it held along.
LEMMA UnlistenTended ==
  ASSUME OneCaller, IInv, AllTended, NEW c \in Conditions, Unlisten(c)
  PROVE  Tends \/ UNCHANGED <<tcb, hist, net>>
<1>1. CASE tcb[Server] # None /\ tcb[Server].listener
  <2> DEFINE w0 == Work(Server, c)
             s  == [w0.t EXCEPT !.released = TRUE, !.listener = FALSE, !.ready = FALSE]
             w  == [w0 EXCEPT !.t.released = TRUE, !.t.listener = FALSE, !.t.ready = FALSE]
             v  == Abort(w)
             o  == hist[Peer(Server)]
  <2>1. Server \in Ends
    BY DEF Ends
  <2>2. EndStep(Server, c, v)
    BY <1>1, UnlistenStep
  <2>3. HasTcb(w0, o) /\ Reposed(w0, o)
    BY <1>1, <2>1, OwnedStart, WorkReposed
  <2> HIDE DEF w0, o
  <2>4. w0 \in Works /\ w0.t \in Tcbs
    BY <2>3, WorkFacts DEF HasTcb, WorkOK
  <2>5. w = [w0 EXCEPT !.t = s]
    BY <2>4 DEF Works
  <2>6. /\ Changed(w0.t, s, {"released", "listener", "ready"})
        /\ s.released \in BOOLEAN /\ s.listener \in BOOLEAN /\ s.ready \in BOOLEAN
    BY <2>4 DEF Changed, Tcbs
  <2>7. w.e = w0.e /\ w.out = w0.out
    BY <2>4, <2>5 DEF Works
  <2> HIDE DEF s, w
  <2>8. HasTcb(w, o)
    <3>1. Touched(w0.t, s, {"released", "listener", "ready"})
      BY <2>6 DEF Touched, Neutral, TcbTypes
    <3> QED BY <2>3, <2>5, <3>1, NeutralWork
  <2>9. Quiet(w)
    BY <2>3, <2>7 DEF Reposed, Minded, Quiet
  <2>10. Reposed(v, o)
    BY <2>8, <2>9, AbortReposes
  <2> HIDE DEF v
  <2>11. TendedStep(Server, c, v)
    BY <2>2, <2>10 DEF TendedStep, o
  <2> QED BY <2>1, <2>11 DEF Tends
<1>2. CASE ~(tcb[Server] # None /\ tcb[Server].listener)
  BY <1>2 DEF Unlisten
<1> QED BY <1>1, <1>2

\* The backlog hands over no connection that still waits for its SYN to be answered.
LEMMA AcceptTended ==
  ASSUME IInv, AllTended, Accept
  PROVE  AllTended'
<1> DEFINE t == tcb[Server]
           s == [t EXCEPT !.listener = FALSE, !.ready = FALSE]
           h == hist[Server]
           o == hist[Peer(Server)]
<1>1. Server \in Ends /\ t # None /\ t.ready /\ tcb \in [Ends -> Tcbs \cup {None}]
  BY DEF Ends, Accept, IInv
<1>2. /\ t \in Tcbs /\ Tended(Server, t, h, o) /\ Rested(Server, t)
      /\ t.state = "Closed" => ~t.released
  BY <1>1 DEF IInv, AllTended
<1>3. tcb' = [tcb EXCEPT ![Server] = s] /\ UNCHANGED <<hist, listening, net, refusals>>
  BY <1>1 DEF Accept
<1>4. Changed(t, s, {"listener", "ready"})
  BY <1>2 DEF Changed, Tcbs
<1>5. /\ s.state = t.state /\ s.una = t.una /\ s.nxt = t.nxt /\ s.max = t.max /\ s.rtx = t.rtx
      /\ s.unacked = t.unacked /\ s.ackAt = t.ackAt /\ s.ackNow = t.ackNow
      /\ s.released = t.released /\ s.finQueued = t.finQueued /\ s.finSeq = t.finSeq
      /\ s.finSent = t.finSent /\ s.closeAt = t.closeAt /\ s.linkRetry = t.linkRetry
      /\ s.persist = t.persist /\ s.base = t.base /\ s.tx = t.tx
  BY <1>2 DEF Tcbs
<1> HIDE DEF s
<1>6. t.state # "Closed" => t.state # "SynReceived"
  BY <1>1, <1>2 DEF Tended
<1> HIDE DEF t, h, o
<1>7. Tended(Server, s, h, o)
  BY <1>2, <1>5, <1>6 DEF Tended, Synchronized
<1>8. Unsent(s) = Unsent(t)
  BY <1>5 DEF Unsent
<1>9. Rested(Server, s)
  BY <1>2, <1>5, <1>8 DEF Rested, Lingers, Synchronized
<1>10. tcb'[Server] = s /\ \A e \in Ends : e # Server => tcb'[e] = tcb[e]
  BY <1>1, <1>3
<1>11. ASSUME NEW e \in Ends
       PROVE  /\ tcb'[e] # None => /\ Tended(e, tcb'[e], hist[e], hist[Peer(e)])
                                   /\ Rested(e, tcb'[e])
                                   /\ tcb'[e].state = "Closed" => ~tcb'[e].released
              /\ \A seg \in DOMAIN net[e] : Asks(e, seg)
  <2>1. CASE e = Server
    BY <1>1, <1>2, <1>5, <1>7, <1>9, <1>10, <2>1 DEF AllTended, h, o
  <2>2. CASE e # Server
    BY <1>10, <2>2 DEF AllTended
  <2> QED BY <2>1, <2>2
<1>12. hist' = hist /\ net' = net
  BY <1>3
<1> QED BY <1>11, <1>12 DEF AllTended

\* Nothing is owed where nothing was done yet.
LEMMA TendedInit ==
  ASSUME Init
  PROVE  AllTended
<1>1. ASSUME NEW e \in Ends
      PROVE  tcb[e] = None /\ DOMAIN net[e] = {}
  BY DEF Init
<1> QED BY <1>1 DEF AllTended

\* No step leaves anything owed without its timer.
LEMMA TendedNext ==
  ASSUME OneCaller, IInv, AllTended, [Next]_vars
  PROVE  AllTended'
<1>1. CASE Tends
  <2>1. PICK e \in Ends, c \in Conditions : \E w : TendedStep(e, c, w)
    BY <1>1 DEF Tends
  <2>2. PICK w : TendedStep(e, c, w)
    BY <2>1
  <2> QED BY <2>2, DoneTended
<1>2. CASE Accept
  BY <1>2, AcceptTended
<1>3. CASE UNCHANGED <<tcb, hist, net>>
  BY <1>3 DEF AllTended
<1>4. CASE UNCHANGED vars
  BY <1>3, <1>4 DEF vars
<1>5. ASSUME NEW c \in Conditions, Unlisten(c)
      PROVE  Tends \/ UNCHANGED <<tcb, hist, net>>
  BY <1>5, UnlistenTended
<1>6. ASSUME NEW c \in Conditions, NEW e \in Ends,
             \/ Connect(e, c)
             \/ \E size \in Pieces : Write(e, size, c)
             \/ \E size \in Pieces : Read(e, size, c)
             \/ Shutdown(e, c)
             \/ Release(e, c)
             \/ Input(e, c)
             \/ Timers(e, c)
      PROVE  Tends
  <2>1. CASE Connect(e, c)
    BY <2>1, ConnectTended
  <2>2. CASE \E size \in Pieces : Write(e, size, c)
    BY <2>2, WriteTended
  <2>3. CASE \E size \in Pieces : Read(e, size, c)
    BY <2>3, ReadTended
  <2>4. CASE Shutdown(e, c)
    BY <2>4, ShutdownTended
  <2>5. CASE Release(e, c)
    BY <2>5, ReleaseTended
  <2>6. CASE Input(e, c)
    BY <2>6, InputTended
  <2>7. CASE Timers(e, c)
    BY <2>7, TimersTended
  <2> QED BY <1>6, <2>1, <2>2, <2>3, <2>4, <2>5, <2>6, <2>7
<1> QED BY <1>1, <1>2, <1>3, <1>4, <1>5, <1>6 DEF Next

\* Both invariants hold of every state.
LEMMA InductiveTended ==
  ASSUME OneCaller
  PROVE  Spec => [](IInv /\ AllTended)
<1>1. Init => AllTended
  BY TendedInit
<1>2. IInv /\ AllTended /\ [Next]_vars => AllTended'
  BY TendedNext
<1> QED BY <1>1, <1>2, Inductive, PTL DEF Spec

\* The position of a connection's number, and what its peer took of its stream.
LEMMA TendedFacts ==
  ASSUME IInv, AllTended, NEW e \in Ends, tcb[e] # None
  PROVE  LET t == tcb[e]
             h == hist[e]
             o == hist[Peer(e)]
         IN  /\ t \in Tcbs /\ Sender(e, t, h) /\ Tended(e, t, h, o) /\ Rested(e, t)
             /\ t.state = "Closed" => ~t.released
             /\ h.wrote \in Nat /\ o.took \in Nat /\ o.took <= h.wrote /\ o.ended \in BOOLEAN
             /\ o.ended => o.took = h.wrote
<1>1. Peer(e) \in Ends /\ Peer(Peer(e)) = e
  BY EndsProperty
<1>2. /\ hist[e] \in Hists /\ hist[Peer(e)] \in Hists
      /\ HistOK(Peer(e), hist[Peer(e)], hist[e]) /\ EndOK(e, tcb[e], hist[e], hist[Peer(e)])
  BY <1>1 DEF IInv
<1> QED BY <1>2 DEF AllTended, EndOK, TcbOK, HistOK, Hists

\* An end that has come to FIN-WAIT-2 or TIME-WAIT was heard to its end: the
\* acknowledgement that took it there is never that of something else.
LEMMA EndsHeard ==
  ASSUME IInv, AllTended
  PROVE  EndHeard
<1>1. ASSUME IInv, AllTended, NEW e \in Ends, tcb[e] # None,
             tcb[e].state \in {"FinWait2", "TimeWait"}
      PROVE  hist[Peer(e)].ended /\ hist[Peer(e)].took = hist[e].wrote
  <2> DEFINE t == tcb[e]
             h == hist[e]
             o == hist[Peer(e)]
             u == At(e, t.una)
  <2>1. /\ t \in Tcbs /\ Tended(e, t, h, o)
        /\ h.wrote \in Nat /\ o.took \in Nat /\ o.took <= h.wrote
        /\ o.ended => o.took = h.wrote
    BY <1>1, TendedFacts
  <2> HIDE DEF h, o
  <2>2. u = 2 + h.wrote /\ u <= 1 + o.took + Bit(o.ended)
    BY <1>1, <2>1 DEF Tended
  <2> HIDE DEF u, t
  <2>3. o.ended
    BY <2>1, <2>2 DEF Bit
  <2> QED BY <2>1, <2>3 DEF h, o
<1> QED BY <1>1 DEF EndHeard

\* Where one end alone connects, over links that take the segments of a handshake,
\* a stack forgets nothing it owes: what it has to send, to send again or to
\* acknowledge has a timer that makes it, and so has every state that only time
\* ends, and every connection the application let go of, and an end that will send
\* nothing again was heard out, whatever is lost on the way and whichever link is full.
THEOREM NothingIsForgotten == OneCaller => (Spec => []NothingForgotten)
<1>1. ASSUME IInv, AllTended, NEW e \in Ends, tcb[e] # None
      PROVE  LET t == tcb[e]
             IN  /\ Synchronized(t) /\ Unsent(t) > 0 => t.rtx \/ t.persist \/ t.linkRetry
                 /\ t.una # t.max /\ t.state # "Closed" => t.rtx \/ t.linkRetry
                 /\ t.finQueued /\ ~t.finSent /\ Synchronized(t) =>
                      t.rtx \/ t.linkRetry \/ t.persist
                 /\ t.ackNow /\ Synchronized(t) => t.linkRetry
                 /\ t.unacked > 0 /\ Synchronized(t) => t.ackAt \/ t.linkRetry
                 /\ t.state = "TimeWait" => t.closeAt
                 /\ t.released => t.rtx \/ t.linkRetry \/ t.persist \/ t.closeAt
  <2> DEFINE t == tcb[e]
             h == hist[e]
             o == hist[Peer(e)]
  <2>1. /\ t \in Tcbs /\ Sender(e, t, h) /\ Tended(e, t, h, o) /\ Rested(e, t)
        /\ t.state = "Closed" => ~t.released
        /\ h.wrote \in Nat
    BY <1>1, TendedFacts
  <2> HIDE DEF t, h, o
  <2>2. t.una # t.max /\ t.state # "Closed" => t.rtx
    BY <2>1 DEF Tended
  <2>3. /\ Synchronized(t) /\ (Unsent(t) > 0 \/ (t.finQueued /\ ~t.finSent)) =>
             t.rtx \/ t.linkRetry \/ t.persist
        /\ t.ackNow /\ Synchronized(t) => t.linkRetry
        /\ t.state = "TimeWait" => t.closeAt
    BY <2>1 DEF Rested, Lingers
  <2>4. t.unacked > 0 /\ Synchronized(t) => t.ackAt \/ t.linkRetry
    BY <2>1, <2>3 DEF Tended, Synchronized
  <2>5. ASSUME t.released
        PROVE  t.rtx \/ t.linkRetry \/ t.persist \/ t.closeAt
    <3>1. /\ t.state \in Ending /\ t.finQueued /\ t.state # "Closed"
          /\ t.state = "FinWait2" => t.closeAt
      BY <2>1, <2>5 DEF Tended, Ending
    <3>2. CASE t.state \in {"FinWait2", "TimeWait"}
      BY <2>3, <3>1, <3>2
    <3>3. CASE t.state \in {"FinWait1", "Closing", "LastAck"}
      <4>1. CASE ~t.finSent
        BY <2>3, <3>1, <3>3, <4>1 DEF Synchronized
      <4>2. CASE t.finSent
        <5>1. t.finSeq # None
          BY <2>1, <4>2 DEF Sender
        <5>2. At(e, t.max) = 2 + h.wrote /\ At(e, t.una) < 2 + h.wrote
          BY <2>1, <3>1, <3>3, <5>1 DEF Tended
        <5>3. t.una # t.max
          BY <2>1, <5>2
        <5> QED BY <2>2, <3>1, <5>3
      <4> QED BY <4>1, <4>2
    <3> QED BY <3>1, <3>2, <3>3 DEF Ending
  <2>6. t = tcb[e]
    BY DEF t
  <2> QED BY <2>2, <2>3, <2>4, <2>5, <2>6
<1>2. IInv /\ AllTended => NothingForgotten
  BY <1>1, EndsHeard DEF NothingForgotten, OutputGoesOn
<1>3. ASSUME OneCaller
      PROVE  Spec => []NothingForgotten
  BY <1>2, <1>3, InductiveTended, PTL
<1> QED BY <1>3

=============================================================================
