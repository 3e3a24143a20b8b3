---------------------------- MODULE HostedProofs ----------------------------
(***************************************************************************)
(* Proofs about Hosted: neither end of the link loses a buffer, a call     *)
(* that waits on unwoken still matches its answer, the two ends agree on   *)
(* the coprocessor's receive buffers, and while the count the host keeps   *)
(* is right and a transfer has one packet data spares the buffers kept for *)
(* control packets; for any numbers of buffers, tokens and requests.       *)
(***************************************************************************)
EXTENDS Hosted, FiniteSetTheorems, TLAPS

-----------------------------------------------------------------------------
(* Facts about numbers and sequences. *)

\* What a remainder is, where the difference is at most one span off.
LEMMA ModProperty ==
  ASSUME NEW a \in Int, NEW n \in Nat \ {0}
  PROVE  /\ (a % n) \in 0 .. n - 1
         /\ a \in 0 .. n - 1 => a % n = a
         /\ a \in n .. 2 * n - 1 => a % n = a - n
         /\ a \in -n .. -1 => a % n = a + n
OBVIOUS

\* What a concatenation holds.
LEMMA ConcatProperty ==
  ASSUME NEW S, NEW s \in Seq(S), NEW t \in Seq(S)
  PROVE  /\ s \o t \in Seq(S)
         /\ Len(s \o t) = Len(s) + Len(t)
         /\ \A i \in 1 .. Len(s) + Len(t) :
              (s \o t)[i] = IF i <= Len(s) THEN s[i] ELSE t[i - Len(s)]
OBVIOUS

\* RemoveAt drops the element at place k and moves those after it by one.
LEMMA RemoveAtProperty ==
  ASSUME NEW S, NEW q \in Seq(S), NEW k \in 1 .. Len(q)
  PROVE  /\ RemoveAt(q, k) \in Seq(S)
         /\ Len(RemoveAt(q, k)) = Len(q) - 1
         /\ \A i \in 1 .. Len(q) - 1 :
              RemoveAt(q, k)[i] = IF i < k THEN q[i] ELSE q[i + 1]
<1> DEFINE front == SubSeq(q, 1, k - 1)
           back  == SubSeq(q, k + 1, Len(q))
<1>1. /\ front \in Seq(S) /\ Len(front) = k - 1
      /\ \A i \in 1 .. k - 1 : front[i] = q[i]
  OBVIOUS
<1>2. /\ back \in Seq(S) /\ Len(back) = Len(q) - k
      /\ \A i \in 1 .. Len(q) - k : back[i] = q[k + i]
  OBVIOUS
<1>3. RemoveAt(q, k) = front \o back
  BY DEF RemoveAt
<1> HIDE DEF front, back
<1>4. /\ front \o back \in Seq(S)
      /\ Len(front \o back) = Len(q) - 1
      /\ \A i \in 1 .. Len(q) - 1 :
            (front \o back)[i] = IF i < k THEN front[i] ELSE back[i - (k - 1)]
  <2>1. /\ front \o back \in Seq(S)
        /\ Len(front \o back) = Len(front) + Len(back)
        /\ \A i \in 1 .. Len(front) + Len(back) : (front \o back)[i] =
              IF i <= Len(front) THEN front[i] ELSE back[i - Len(front)]
    BY <1>1, <1>2, ConcatProperty
  <2>2. Len(front) = k - 1 /\ Len(back) = Len(q) - k /\ k \in Nat /\ Len(q) \in Nat
    BY <1>1, <1>2
  <2> QED BY <2>1, <2>2
<1>5. \A i \in 1 .. Len(q) - 1 : RemoveAt(q, k)[i] = IF i < k THEN q[i] ELSE q[i + 1]
  <2> SUFFICES ASSUME NEW i \in 1 .. Len(q) - 1
               PROVE  RemoveAt(q, k)[i] = IF i < k THEN q[i] ELSE q[i + 1]
    OBVIOUS
  <2>1. CASE i < k
    BY <1>1, <1>3, <1>4, <2>1
  <2>2. CASE i >= k
    <3>1. i - (k - 1) \in 1 .. Len(q) - k /\ k + (i - (k - 1)) = i + 1
      BY <2>2
    <3> QED BY <1>2, <1>3, <1>4, <2>2, <3>1
  <2> QED BY <2>1, <2>2
<1> QED BY <1>3, <1>4, <1>5

-----------------------------------------------------------------------------
\* Nothing was sent since the coprocessor booted, and nothing but INIT is on
\* its way to the host.
AllInit(messages) == \A i \in DOMAIN messages : messages[i] = INIT
Untouched ==
  /\ \A l \in Lanes : queue[l] = <<>> /\ held[l] = <<>>
  /\ batch = <<>> /\ pc["tx"] \in {"peek", "sleep"}
  /\ link.txCount = 0
  /\ cp.inbox = <<>> /\ cp.dataQueue = <<>> /\ cp.rpcQueue = <<>>
  /\ cp.loaded = RxBufNum /\ cp.tokens = RxBufNum
  /\ AllInit(cp.sending) /\ AllInit(cp.shown) /\ AllInit(rx.stream)
  /\ pc["rx"] \notin {"put", "give", "open"} /\ ~HandingOver

\* Nor is INIT.
Silent ==
  /\ ~cp.opening /\ cp.sending = <<>> /\ cp.shown = <<>>
  /\ pc["rx"] \in {"off", "wait"} /\ link.signal = 0

\* start resets a coprocessor only while nothing was sent to it, and others
\* send only when it is done.
StartPlace ==
  /\ pc["start"] \in {"reset", "connect", "notify", "failed"} => Untouched /\ Silent
  /\ pc["start"] = "await" =>
       link.signal = 1 \/ pc["rx"] \in {"put", "give", "open"} \/ Untouched
  /\ pc["start"] # "done" => pc["call"] = "idle" /\ pc["net"] = "put"
  /\ pc["start"] = "reset" => tries < StartAttempts

\* rx_task reads when there is something to read, and has the message at hand
\* that it works on.
RxPlace ==
  /\ pc["rx"] \in {"off", "wait", "store", "fetch"} <=> rx.stream = <<>>
  /\ pc["rx"] \in {"store", "fetch"} \/ cp.interrupt => cp.shown # <<>>
  /\ pc["rx"] = "fetch" => ~cp.interrupt
  /\ HandingOver => rx.stream[1] # INIT

\* Only a task that is about to write has a transfer.
Sending == pc["tx"] \in {"fill", "await", "query", "write"}
TxPlace == Sending <=> batch # <<>>

\* A call puts in the chunks of its request; data is counted before the bound.
SendersPlace ==
  /\ pc["call"] = "idle" => rpc.part = 1
  /\ pc["call"] # "idle" => rpc.uid \in Requests
  /\ pc["call"] \in {"put", "give"} => rpc.part \in 1 .. Chunks[rpc.uid]
  /\ pc["net"] = "give" => sent < MaxData

IInv == TypeOK /\ BuffersKept /\ StartPlace /\ RxPlace /\ TxPlace /\ SendersPlace

-----------------------------------------------------------------------------
(* Counting the elements of a list. *)

\* Where a list has elements of a set.
Places(q, T) == {i \in DOMAIN q : q[i] \in T}

\* There are at most as many such places as the list is long.
LEMMA PlacesCounted ==
  ASSUME NEW S, NEW q \in Seq(S), NEW T
  PROVE  IsFiniteSet(Places(q, T)) /\ Cardinality(Places(q, T)) \in 0 .. Len(q)
<1>1. Len(q) \in Nat /\ DOMAIN q = 1 .. Len(q)
  OBVIOUS
<1>2. IsFiniteSet(1 .. Len(q)) /\ Cardinality(1 .. Len(q)) = Len(q)
  BY <1>1, FS_Interval
<1>3. Places(q, T) \in SUBSET (1 .. Len(q))
  BY <1>1 DEF Places
<1>4. IsFiniteSet(Places(q, T)) /\ Cardinality(Places(q, T)) <= Len(q)
  BY <1>2, <1>3, FS_Subset
<1>5. Cardinality(Places(q, T)) \in Nat
  BY <1>4, FS_CardinalityType
<1> QED BY <1>1, <1>4, <1>5

\* An element more is at most one place more.
LEMMA PlacesAppended ==
  ASSUME NEW S, NEW q \in Seq(S), NEW e \in S, NEW T
  PROVE  Cardinality(Places(Append(q, e), T))
           = Cardinality(Places(q, T)) + (IF e \in T THEN 1 ELSE 0)
<1> DEFINE r == Append(q, e)
<1>1. /\ Len(q) \in Nat /\ DOMAIN q = 1 .. Len(q) /\ DOMAIN r = 1 .. Len(q) + 1
      /\ \A i \in 1 .. Len(q) : r[i] = q[i]
      /\ r[Len(q) + 1] = e
  OBVIOUS
<1> HIDE DEF r
<1>2. IsFiniteSet(Places(q, T)) /\ Cardinality(Places(q, T)) \in Nat
  BY PlacesCounted
<1>3. Len(q) + 1 \notin Places(q, T)
  BY <1>1 DEF Places
<1>4. CASE e \in T
  <2>1. Places(r, T) = Places(q, T) \cup {Len(q) + 1}
    BY <1>1, <1>4 DEF Places
  <2> QED BY <1>2, <1>3, <1>4, <2>1, FS_AddElement DEF r
<1>5. CASE e \notin T
  <2>1. Places(r, T) = Places(q, T)
    BY <1>1, <1>5 DEF Places
  <2> QED BY <1>2, <1>5, <2>1 DEF r
<1> QED BY <1>4, <1>5

\* Without its first element a list has at most one place less.
LEMMA PlacesTail ==
  ASSUME NEW S, NEW q \in Seq(S), q # <<>>, NEW T
  PROVE  Cardinality(Places(Tail(q), T)) + (IF Head(q) \in T THEN 1 ELSE 0)
           <= Cardinality(Places(q, T))
<1> DEFINE r == Tail(q)
           P == Places(r, T)
           R == Places(q, T) \ {1}
           f == [i \in P |-> i + 1]
<1>1. /\ Len(q) \in Nat \ {0} /\ DOMAIN q = 1 .. Len(q) /\ DOMAIN r = 1 .. Len(q) - 1
      /\ \A i \in 1 .. Len(q) - 1 : r[i] = q[i + 1]
      /\ Head(q) = q[1] /\ r \in Seq(S)
  OBVIOUS
<1> HIDE DEF r
<1>2. IsFiniteSet(Places(q, T)) /\ Cardinality(Places(q, T)) \in Nat
  BY PlacesCounted
<1>3. /\ IsFiniteSet(R)
      /\ Cardinality(R) = IF 1 \in Places(q, T) THEN Cardinality(Places(q, T)) - 1
                          ELSE Cardinality(Places(q, T))
  BY <1>2, FS_RemoveElement
<1>4. \A i \in P : i \in 1 .. Len(q) - 1 /\ i + 1 \in R
  BY <1>1 DEF Places
<1>5. f \in [P -> R]
  BY <1>4
<1>6. \A i, j \in P : f[i] = f[j] => i = j
  BY <1>1, <1>4
<1>7. f \in Injection(P, R)
  BY <1>5, <1>6 DEF Injection, IsInjective
<1> HIDE DEF f
<1>8. Cardinality(P) <= Cardinality(R)
  BY <1>3, <1>7, FS_Injection
<1>9. Cardinality(P) \in Nat /\ Cardinality(R) \in Nat
  <2>1. Cardinality(P) \in Nat
    BY <1>1, PlacesCounted
  <2> QED BY <1>3, <2>1, FS_CardinalityType
<1>10. 1 \in Places(q, T) <=> Head(q) \in T
  BY <1>1 DEF Places
<1> QED BY <1>2, <1>3, <1>8, <1>9, <1>10 DEF r

\* A first element replaced by one that counts no more adds no place.
LEMMA PlacesReplaced ==
  ASSUME NEW S, NEW q \in Seq(S), NEW T, NEW e, e \in T => q[1] \in T
  PROVE  Cardinality(Places([q EXCEPT ![1] = e], T)) <= Cardinality(Places(q, T))
<1>1. IsFiniteSet(Places(q, T))
  BY PlacesCounted
<1>2. Places([q EXCEPT ![1] = e], T) \in SUBSET Places(q, T)
  BY DEF Places
<1> QED BY <1>1, <1>2, FS_Subset

-----------------------------------------------------------------------------
(* The coprocessor. *)

\* The assumptions on both ends, apart.
LEMMA Constants ==
  /\ RxBufNum \in Nat \ {0} /\ CpCtrlBufNum \in Nat \ {0} /\ QueueDepth \in Nat \ {0}
  /\ TokenSpan \in Nat \ {0} /\ TokenSpan > RxBufNum
  /\ LengthSpan \in Nat \ {0} /\ Chunks \in Seq(Nat \ {0})
  /\ CtrlBufNum \in Nat \ {0} /\ TxBufNum \in Nat \ {0} /\ CtrlTokens \in Nat
  /\ CtrlTokens < RxBufNum /\ StartAttempts \in Nat \ {0}
  /\ MaxData \in Nat /\ MaxFailures \in Nat
BY CoprocessorAssumption, HostedAssumption DEF CoprocessorAssumption, HostedAssumption

\* What is offered stays until it is fetched.
LEMMA OfferedEffect ==
  ASSUME NEW c \in CpStates
  PROVE  /\ Offered(c) \in CpStates
         /\ Offered(c) = [c EXCEPT !.sending = Offered(c).sending, !.shown = Offered(c).shown,
                                   !.length = Offered(c).length,
                                   !.interrupt = Offered(c).interrupt]
         /\ Len(Offered(c).sending) + Len(Offered(c).shown) = Len(c.sending) + Len(c.shown)
         /\ c.shown # <<>> => Offered(c) = c
         /\ Offered(c).interrupt => c.interrupt \/ Offered(c).shown # <<>>
         /\ c.sending = <<>> => Offered(c) = c
         /\ AllInit(c.sending) /\ AllInit(c.shown)
              => AllInit(Offered(c).sending) /\ AllInit(Offered(c).shown)
<1> USE DEF CpStates
<1>1. CASE c.shown # <<>> \/ c.sending = <<>>
  BY <1>1 DEF Offered
<1>2. CASE c.shown = <<>> /\ c.sending # <<>>
  <2> DEFINE n == (c.length + Len(c.sending)) % LengthSpan
  <2>1. n \in 0 .. LengthSpan - 1
    <3>1. c.length + Len(c.sending) \in Int
      OBVIOUS
    <3> QED BY <3>1, ModProperty, Constants
  <2>2. Offered(c) = [c EXCEPT !.shown = c.sending, !.sending = <<>>,
                               !.length = n, !.interrupt = TRUE]
    BY <1>2 DEF Offered
  <2> HIDE DEF n
  <2>3. /\ Offered(c) \in CpStates
        /\ Offered(c).shown = c.sending /\ Offered(c).sending = <<>>
        /\ Offered(c).length = n /\ Offered(c).interrupt = TRUE
    <3>1. /\ Offered(c).shown = c.sending /\ Offered(c).sending = <<>>
          /\ Offered(c).length = n /\ Offered(c).interrupt = TRUE
      BY <2>2
    <3>2. c.sending \in Seq(Messages) /\ <<>> \in Seq(Messages)
      OBVIOUS
    <3>3. Offered(c) \in CpStates
      BY <2>1, <2>2, <3>2
    <3> QED BY <3>1, <3>3
  <2>4. Len(Offered(c).sending) + Len(Offered(c).shown) = Len(c.sending) + Len(c.shown)
    <3>1. Len(c.sending) \in Nat /\ Len(<<>>) = 0
      OBVIOUS
    <3> QED BY <1>2, <2>3, <3>1
  <2>5. AllInit(<<>>)
    BY DEF AllInit
  <2> QED BY <1>2, <2>2, <2>3, <2>4, <2>5
<1> QED BY <1>1, <1>2

\* transport_send (transport.c:87): a free buffer goes to the driver, offered or queued,
\* and nothing else changes.
LEMMA SendsEffect ==
  ASSUME NEW c \in CpStates, c.free > 0, NEW m \in Messages
  PROVE  /\ Sends(c, m) \in CpStates
         /\ Sends(c, m) = [c EXCEPT !.free = c.free - 1, !.sending = Sends(c, m).sending,
                                    !.shown = Sends(c, m).shown,
                                    !.length = Sends(c, m).length,
                                    !.interrupt = Sends(c, m).interrupt]
         /\ Len(Sends(c, m).sending) + Len(Sends(c, m).shown)
              = Len(c.sending) + Len(c.shown) + 1
         /\ c.shown # <<>> =>
              Sends(c, m).shown = c.shown /\ Sends(c, m).interrupt = c.interrupt
         /\ Sends(c, m).interrupt => c.interrupt \/ Sends(c, m).shown # <<>>
         /\ AllInit(c.sending) /\ AllInit(c.shown) /\ m = INIT
              => AllInit(Sends(c, m).sending) /\ AllInit(Sends(c, m).shown)
<1> DEFINE d == [c EXCEPT !.free = c.free - 1, !.sending = Append(c.sending, m)]
<1>1. Sends(c, m) = Offered(d)
  BY DEF Sends
<1>2. Append(c.sending, m) \in Seq(Messages) /\ Len(Append(c.sending, m)) = Len(c.sending) + 1
  BY DEF CpStates
<1>3. c.free - 1 \in 0 .. CpCtrlBufNum
  BY Constants DEF CpStates
<1>4. d \in CpStates
  BY <1>2, <1>3 DEF CpStates
<1>5. /\ d.shown = c.shown /\ d.interrupt = c.interrupt
      /\ d.sending = Append(c.sending, m)
  BY DEF CpStates
<1>6. Len(d.sending) + Len(d.shown) = Len(c.sending) + Len(c.shown) + 1
  <2>1. Len(c.sending) \in Nat /\ Len(c.shown) \in Nat
    BY DEF CpStates
  <2>2. Len(d.sending) = Len(c.sending) + 1 /\ Len(d.shown) = Len(c.shown)
    BY <1>2, <1>5
  <2>3. \A i, j \in Nat : (i + 1) + j = i + j + 1
    OBVIOUS
  <2> QED BY ONLY <2>1, <2>2, <2>3
<1>7. AllInit(c.sending) /\ m = INIT => AllInit(d.sending)
  <2>1. c.sending \in Seq(Messages)
    BY DEF CpStates
  <2> HIDE DEF d
  <2> QED BY <1>5, <2>1 DEF AllInit
<1>8. \A s, h, l, i :
        [d EXCEPT !.sending = s, !.shown = h, !.length = l, !.interrupt = i]
          = [c EXCEPT !.free = c.free - 1, !.sending = s, !.shown = h, !.length = l,
                      !.interrupt = i]
  <2>1. DOMAIN d = DOMAIN c /\ \A x \in DOMAIN c : x \notin {"free", "sending"} => d[x] = c[x]
    OBVIOUS
  <2>2. "free" \in DOMAIN c /\ d.free = c.free - 1
    BY DEF CpStates
  <2> HIDE DEF d
  <2>3. d = [x \in DOMAIN d |-> d[x]]
    BY <1>4 DEF CpStates
  <2> QED BY <2>1, <2>2, <2>3
<1> HIDE DEF d
<1>9. Offered(d) = [c EXCEPT !.free = c.free - 1, !.sending = Offered(d).sending,
                             !.shown = Offered(d).shown, !.length = Offered(d).length,
                             !.interrupt = Offered(d).interrupt]
  BY <1>4, <1>8, OfferedEffect
<1>10. /\ Offered(d) \in CpStates
       /\ Len(Offered(d).sending) + Len(Offered(d).shown) = Len(d.sending) + Len(d.shown)
       /\ d.shown # <<>> => Offered(d) = d
       /\ Offered(d).interrupt => d.interrupt \/ Offered(d).shown # <<>>
       /\ AllInit(d.sending) /\ AllInit(d.shown)
            => AllInit(Offered(d).sending) /\ AllInit(Offered(d).shown)
  BY <1>4, OfferedEffect
<1> QED BY <1>1, <1>5, <1>6, <1>7, <1>9, <1>10

\* A receive buffer more is there, and counted.
Reloaded(c, d) ==
  \/ d.loaded = c.loaded /\ d.tokens = c.tokens
  \/ d.loaded = c.loaded + 1 /\ d.tokens = (c.tokens + 1) % TokenSpan

Buffers(c) == c.loaded + Len(c.inbox) + Len(c.dataQueue)

\* sdio_slave_recv_load_buf (transport.c:215): one receive buffer more, and one token.
LEMMA LoadedEffect ==
  ASSUME NEW c \in CpStates, c.loaded < RxBufNum
  PROVE  /\ Loaded(c) \in CpStates
         /\ Loaded(c) = [c EXCEPT !.loaded = c.loaded + 1, !.tokens = Loaded(c).tokens]
         /\ Reloaded(c, Loaded(c))
<1>1. (c.tokens + 1) % TokenSpan \in 0 .. TokenSpan - 1
  <2>1. c.tokens + 1 \in Int
    BY DEF CpStates
  <2> QED BY <2>1, ModProperty, Constants
<1>2. c.loaded + 1 \in 0 .. RxBufNum
  BY Constants DEF CpStates
<1> QED BY <1>1, <1>2 DEF CpStates, Loaded, Reloaded

\* A queue without its first element, and one with another at its end.
LEMMA TailLength ==
  ASSUME NEW S, NEW q \in Seq(S), q # <<>>
  PROVE  Head(q) \in S /\ Tail(q) \in Seq(S) /\ Len(q) \in Nat \ {0} /\ Len(Tail(q)) = Len(q) - 1
OBVIOUS

\* Buffers with data in them: no more than there are in the list.
DataOnes == {b \in Seq(Packets) : Holds(b, "data")}
DataIn(c) == Cardinality(WithData(c.inbox)) + Cardinality(WithData(c.dataQueue))

\* The buffers with data are the places of such buffers, and as many as there are at most.
LEMMA DataCounted ==
  ASSUME NEW q \in Seq(Seq(Packets))
  PROVE  /\ WithData(q) = Places(q, DataOnes)
         /\ Cardinality(WithData(q)) \in 0 .. Len(q) /\ Cardinality(WithData(q)) \in Nat
<1>1. \A i \in DOMAIN q : q[i] \in Seq(Packets)
  OBVIOUS
<1>2. WithData(q) = Places(q, DataOnes)
  BY <1>1 DEF WithData, Places, DataOnes
<1>3. Cardinality(Places(q, DataOnes)) \in 0 .. Len(q) /\ Len(q) \in Nat
  BY PlacesCounted
<1> QED BY <1>2, <1>3

\* Taking the first buffer out of a list takes its data along.
LEMMA DataTail ==
  ASSUME NEW q \in Seq(Seq(Packets)), q # <<>>
  PROVE  Cardinality(WithData(Tail(q))) + (IF Holds(Head(q), "data") THEN 1 ELSE 0)
           <= Cardinality(WithData(q))
<1>1. Tail(q) \in Seq(Seq(Packets)) /\ Head(q) \in Seq(Packets)
  BY TailLength
<1>2. Holds(Head(q), "data") <=> Head(q) \in DataOnes
  BY <1>1 DEF DataOnes
<1> QED BY <1>1, <1>2, DataCounted, PlacesTail

\* A buffer put into a list counts if it has data.
LEMMA DataAppended ==
  ASSUME NEW q \in Seq(Seq(Packets)), NEW b \in Seq(Packets)
  PROVE  Cardinality(WithData(Append(q, b)))
           = Cardinality(WithData(q)) + (IF Holds(b, "data") THEN 1 ELSE 0)
<1>1. Append(q, b) \in Seq(Seq(Packets))
  OBVIOUS
<1>2. Holds(b, "data") <=> b \in DataOnes
  BY DEF DataOnes
<1>3. Cardinality(Places(Append(q, b), DataOnes))
        = Cardinality(Places(q, DataOnes)) + (IF b \in DataOnes THEN 1 ELSE 0)
  BY PlacesAppended
<1>4. WithData(q) = Places(q, DataOnes) /\ WithData(Append(q, b)) = Places(Append(q, b), DataOnes)
  BY <1>1, DataCounted
<1> QED BY ONLY <1>2, <1>3, <1>4

\* The first buffer after one of its packets was handled has no data it did not have.
LEMMA DataReplaced ==
  ASSUME NEW q \in Seq(Seq(Packets)), q # <<>>, NEW b \in Seq(Packets),
         Holds(b, "data") => Holds(Head(q), "data")
  PROVE  Cardinality(WithData([q EXCEPT ![1] = b])) <= Cardinality(WithData(q))
<1>1. /\ [q EXCEPT ![1] = b] \in Seq(Seq(Packets))
      /\ Head(q) = q[1] /\ q[1] \in Seq(Packets)
  OBVIOUS
<1>2. b \in DataOnes => q[1] \in DataOnes
  BY <1>1 DEF DataOnes
<1> QED BY <1>1, <1>2, DataCounted, PlacesReplaced

\* There is data in no more buffers than the host filled.
LEMMA DataBounded ==
  ASSUME NEW c \in CpStates
  PROVE  /\ DataIn(c) \in Nat /\ c.loaded \in Nat
         /\ Buffers(c) = RxBufNum => c.loaded + DataIn(c) <= RxBufNum
<1> DEFINE i == Len(c.inbox)
           j == Len(c.dataQueue)
           k == Cardinality(WithData(c.inbox))
           l == Cardinality(WithData(c.dataQueue))
<1>1. c.inbox \in Seq(Seq(Packets)) /\ c.dataQueue \in Seq(Seq(Packets)) /\ c.loaded \in Nat
  BY Constants DEF CpStates
<1>2. i \in Nat /\ j \in Nat /\ k \in 0 .. i /\ l \in 0 .. j
  BY <1>1, DataCounted
<1>3. DataIn(c) = k + l /\ Buffers(c) = c.loaded + i + j
  BY DEF DataIn, Buffers
<1> HIDE DEF i, j, k, l
<1> QED BY <1>1, <1>2, <1>3

\* rx_task's last part (transport.c:208-218): the first buffer stays, is loaded again or
\* becomes data_task's; none is lost and none gets data.
LEMMA PassedEffect ==
  ASSUME NEW c \in CpStates, c.inbox # <<>>, Buffers(c) = RxBufNum
  PROVE  /\ Passed(c) \in CpStates
         /\ Passed(c) = [c EXCEPT !.loaded = Passed(c).loaded, !.tokens = Passed(c).tokens,
                                  !.inbox = Passed(c).inbox,
                                  !.dataQueue = Passed(c).dataQueue]
         /\ Buffers(Passed(c)) = RxBufNum
         /\ Reloaded(c, Passed(c))
         /\ DataIn(Passed(c)) <= DataIn(c)
<1> DEFINE d == [c EXCEPT !.inbox = Tail(c.inbox)]
           e == [c EXCEPT !.inbox = Tail(c.inbox),
                          !.dataQueue = Append(c.dataQueue, Head(c.inbox))]
<1>t. /\ c.inbox \in Seq(Seq(Packets)) /\ c.dataQueue \in Seq(Seq(Packets))
      /\ c.loaded \in Nat /\ c.tokens \in Nat
      /\ RxBufNum \in Nat
  BY Constants DEF CpStates
<1>1. /\ Tail(c.inbox) \in Seq(Seq(Packets)) /\ Head(c.inbox) \in Seq(Packets)
      /\ Len(c.inbox) \in Nat \ {0} /\ Len(Tail(c.inbox)) = Len(c.inbox) - 1
  BY <1>t, TailLength
<1>2. /\ Append(c.dataQueue, Head(c.inbox)) \in Seq(Seq(Packets))
      /\ Len(Append(c.dataQueue, Head(c.inbox))) = Len(c.dataQueue) + 1
      /\ Len(c.dataQueue) \in Nat
  BY <1>t, <1>1
<1>n. /\ c.loaded + Len(c.inbox) + Len(c.dataQueue) = RxBufNum
      /\ c.loaded \in Nat /\ Len(c.inbox) \in Nat /\ Len(c.dataQueue) \in Nat
      /\ Len(Tail(c.inbox)) = Len(c.inbox) - 1
      /\ Len(Append(c.dataQueue, Head(c.inbox))) = Len(c.dataQueue) + 1
  BY <1>t, <1>1, <1>2 DEF Buffers
<1>d. /\ Cardinality(WithData(c.inbox)) \in Nat /\ Cardinality(WithData(c.dataQueue)) \in Nat
      /\ Cardinality(WithData(Tail(c.inbox))) \in Nat
      /\ Cardinality(WithData(Tail(c.inbox))) + (IF Holds(Head(c.inbox), "data") THEN 1 ELSE 0)
           <= Cardinality(WithData(c.inbox))
      /\ Cardinality(WithData(Append(c.dataQueue, Head(c.inbox))))
           = Cardinality(WithData(c.dataQueue)) + (IF Holds(Head(c.inbox), "data") THEN 1 ELSE 0)
  <2>1. Cardinality(WithData(c.inbox)) \in Nat /\ Cardinality(WithData(c.dataQueue)) \in Nat
    BY <1>t, DataCounted
  <2>2. Cardinality(WithData(Tail(c.inbox))) \in Nat
    BY <1>1, DataCounted
  <2> QED BY <1>t, <1>1, <2>1, <2>2, DataTail, DataAppended
<1>3. CASE Holds(Head(c.inbox), "ctrl")
  <2>1. Passed(c) = c
    BY <1>3 DEF Passed
  <2>2. DataIn(c) <= DataIn(c)
    BY <1>d DEF DataIn
  <2> QED BY <2>1, <2>2 DEF CpStates, Reloaded
<1>4. CASE ~Holds(Head(c.inbox), "ctrl") /\ Head(c.inbox) = <<>>
  <2>1. Passed(c) = Loaded(d)
    BY <1>4 DEF Passed
  <2>2. /\ d \in CpStates /\ d.loaded = c.loaded /\ d.tokens = c.tokens
        /\ d.inbox = Tail(c.inbox) /\ d.dataQueue = c.dataQueue
    BY <1>1 DEF CpStates
  <2>3. d.loaded < RxBufNum
    BY <1>t, <1>1, <1>2, <2>2 DEF Buffers
  <2>4. \A l, t : [d EXCEPT !.loaded = l, !.tokens = t]
                    = [c EXCEPT !.loaded = l, !.tokens = t, !.inbox = Tail(c.inbox),
                                !.dataQueue = c.dataQueue]
    BY DEF CpStates
  <2> HIDE DEF d
  <2>5. /\ Loaded(d) \in CpStates /\ Reloaded(d, Loaded(d))
        /\ Loaded(d) = [d EXCEPT !.loaded = c.loaded + 1, !.tokens = Loaded(d).tokens]
    BY <2>2, <2>3, LoadedEffect
  <2>6. /\ Loaded(d).inbox = Tail(c.inbox) /\ Loaded(d).dataQueue = c.dataQueue
        /\ Loaded(d).loaded = c.loaded + 1
    BY <2>2, <2>5 DEF CpStates
  <2>7. Buffers(Loaded(d)) = RxBufNum
    BY <1>n, <2>6 DEF Buffers
  <2>8. Reloaded(c, Loaded(d))
    BY <2>2, <2>5 DEF Reloaded
  <2>9. DataIn(Loaded(d)) <= DataIn(c)
    BY <1>d, <2>6 DEF DataIn
  <2> QED BY <2>1, <2>4, <2>5, <2>6, <2>7, <2>8, <2>9
<1>5. CASE ~Holds(Head(c.inbox), "ctrl") /\ Head(c.inbox) # <<>>
  <2>1. Passed(c) = e
    BY <1>5 DEF Passed, CpStates
  <2>2. e \in CpStates /\ e.loaded = c.loaded /\ e.tokens = c.tokens
    BY <1>1, <1>2 DEF CpStates
  <2>3. e.inbox = Tail(c.inbox) /\ e.dataQueue = Append(c.dataQueue, Head(c.inbox))
    BY DEF CpStates
  <2>4. Buffers(e) = RxBufNum
    <3>1. Len(e.inbox) = Len(c.inbox) - 1 /\ Len(e.dataQueue) = Len(c.dataQueue) + 1
      BY <1>n, <2>3
    <3>2. \A k, i, j \in Nat : k + (i - 1) + (j + 1) = k + i + j
      OBVIOUS
    <3> HIDE DEF e
    <3>3. Buffers(e) = c.loaded + (Len(c.inbox) - 1) + (Len(c.dataQueue) + 1)
      BY <2>2, <3>1 DEF Buffers
    <3> QED BY <1>n, <3>2, <3>3
  <2>5. e = [c EXCEPT !.loaded = e.loaded, !.tokens = e.tokens, !.inbox = e.inbox,
                      !.dataQueue = e.dataQueue]
    BY DEF CpStates
  <2> HIDE DEF e
  <2>6. DataIn(e) <= DataIn(c)
    BY <1>d, <2>3 DEF DataIn
  <2> QED BY <2>1, <2>2, <2>4, <2>5, <2>6 DEF Reloaded
<1> QED BY <1>3, <1>4, <1>5

CtrlBuffers(c) == c.free + Len(c.sending) + Len(c.shown)

Sound(c) ==
  /\ c \in CpStates /\ Len(c.rpcQueue) <= QueueDepth + 1
  /\ Buffers(c) = RxBufNum /\ CtrlBuffers(c) = CpCtrlBufNum

\* What a step of the coprocessor's own from c to d leaves the host to rely on.
GoesOn(c, d) ==
  /\ Sound(d)
  /\ d.aggregates = c.aggregates
  /\ Reloaded(c, d)
  /\ DataIn(d) <= DataIn(c)
  /\ c.shown # <<>> => d.shown = c.shown /\ d.interrupt = c.interrupt
  /\ d.interrupt => c.interrupt \/ d.shown # <<>>
  /\ c.inbox = <<>> /\ c.dataQueue = <<>> /\ c.rpcQueue = <<>> =>
       /\ d.inbox = <<>> /\ d.dataQueue = <<>> /\ d.rpcQueue = <<>>
       /\ d.loaded = c.loaded /\ d.tokens = c.tokens
       /\ AllInit(c.sending) /\ AllInit(c.shown) => AllInit(d.sending) /\ AllInit(d.shown)
       /\ ~c.opening /\ c.sending = <<>> /\ c.shown = <<>> => d = c

\* The counts of the control buffers are numbers.
LEMMA CountsTyped ==
  \A c \in CpStates : c.free \in Nat /\ Len(c.sending) \in Nat /\ Len(c.shown) \in Nat
BY DEF CpStates

\* A message takes a buffer from the free ones to the driver.
LEMMA MessageMoved ==
  ASSUME NEW c \in CpStates, NEW s \in CpStates,
         Len(s.sending) + Len(s.shown) = Len(c.sending) + Len(c.shown) + 1
  PROVE  (c.free - 1) + Len(s.sending) + Len(s.shown) = CtrlBuffers(c)
<1> DEFINE f == c.free
           i == Len(c.sending)
           j == Len(c.shown)
           k == Len(s.sending)
           l == Len(s.shown)
<1>1. /\ f \in Nat /\ i \in Nat /\ j \in Nat /\ k \in Nat /\ l \in Nat
      /\ k + l = i + j + 1
  BY CountsTyped
<1> HIDE DEF f, i, j, k, l
<1>2. (f - 1) + k + l = f + i + j
  BY ONLY <1>1
<1> QED BY <1>2 DEF f, i, j, k, l, CtrlBuffers

\* ctrl_task's INIT event loses no buffer.
LEMMA CtrlTaskGoes == ASSUME Sound(cp), CtrlTask PROVE GoesOn(cp, cp')
<1> DEFINE s == Sends(cp, INIT)
<1>1. /\ cp.opening /\ cp.free > 0
      /\ cp' = [s EXCEPT !.opening = FALSE]
  BY DEF CtrlTask
<1>2. INIT \in Messages /\ cp \in CpStates
  BY DEF Messages, Sound
<1>3. /\ s \in CpStates
      /\ s = [cp EXCEPT !.free = cp.free - 1, !.sending = s.sending, !.shown = s.shown,
                        !.length = s.length, !.interrupt = s.interrupt]
      /\ Len(s.sending) + Len(s.shown) = Len(cp.sending) + Len(cp.shown) + 1
      /\ cp.shown # <<>> => s.shown = cp.shown /\ s.interrupt = cp.interrupt
      /\ s.interrupt => cp.interrupt \/ s.shown # <<>>
      /\ AllInit(cp.sending) /\ AllInit(cp.shown) => AllInit(s.sending) /\ AllInit(s.shown)
  BY <1>1, <1>2, SendsEffect
<1> HIDE DEF s
<1>4. /\ cp' \in CpStates
      /\ cp'.aggregates = cp.aggregates /\ cp'.loaded = cp.loaded /\ cp'.tokens = cp.tokens
      /\ cp'.inbox = cp.inbox /\ cp'.dataQueue = cp.dataQueue /\ cp'.rpcQueue = cp.rpcQueue
      /\ cp'.free = cp.free - 1 /\ cp'.sending = s.sending /\ cp'.shown = s.shown
      /\ cp'.interrupt = s.interrupt
  BY <1>1, <1>2, <1>3 DEF CpStates
<1>5. CtrlBuffers(cp') = CpCtrlBufNum
  <2>1. (cp.free - 1) + Len(s.sending) + Len(s.shown) = CtrlBuffers(cp)
    BY <1>2, <1>3, MessageMoved
  <2>2. CtrlBuffers(cp') = (cp.free - 1) + Len(s.sending) + Len(s.shown)
    BY <1>4 DEF CtrlBuffers
  <2> QED BY <2>1, <2>2 DEF Sound
<1>6. Buffers(cp') = RxBufNum
  BY <1>4 DEF Buffers, Sound
<1>7. DataIn(cp') <= DataIn(cp)
  BY <1>2, <1>4, DataBounded DEF DataIn
<1> QED BY <1>1, <1>3, <1>4, <1>5, <1>6, <1>7 DEF GoesOn, Sound, Reloaded

\* Nor does rx_task when it is through with a buffer.
LEMMA PassOnGoes == ASSUME Sound(cp), PassOn PROVE GoesOn(cp, cp')
<1>1. cp.inbox # <<>> /\ cp' = Passed(cp) /\ cp \in CpStates /\ Buffers(cp) = RxBufNum
  BY DEF PassOn, Sound
<1> DEFINE s == Passed(cp)
<1>2. /\ s \in CpStates /\ Buffers(s) = RxBufNum /\ Reloaded(cp, s) /\ DataIn(s) <= DataIn(cp)
      /\ s = [cp EXCEPT !.loaded = s.loaded, !.tokens = s.tokens, !.inbox = s.inbox,
                        !.dataQueue = s.dataQueue]
  BY <1>1, PassedEffect
<1> HIDE DEF s
<1>3. /\ s.aggregates = cp.aggregates /\ s.opening = cp.opening /\ s.rpcQueue = cp.rpcQueue
      /\ s.free = cp.free /\ s.sending = cp.sending /\ s.shown = cp.shown
      /\ s.interrupt = cp.interrupt
  BY <1>1, <1>2 DEF CpStates
<1> QED BY <1>1, <1>2, <1>3 DEF GoesOn, Sound, CtrlBuffers, s

\* A request is one that was asked.
LEMMA DecodedProperty ==
  ASSUME NEW q \in Seq(RequestChunks), NEW p \in RequestChunks
  PROVE  Decoded(Append(q, p)) \subseteq {0} \cup Requests
<1> DEFINE chunks == Append(q, p)
<1>1. chunks[1] \in RequestChunks
  <2>1. chunks \in Seq(RequestChunks) /\ Len(chunks) = Len(q) + 1 /\ Len(q) \in Nat
    OBVIOUS
  <2>2. 1 \in DOMAIN chunks
    <3> HIDE DEF chunks
    <3> QED BY <2>1
  <2> QED BY <2>1, <2>2
<1>2. chunks[1].number \in Requests
  BY <1>1 DEF RequestChunks, Chunk
<1> QED BY <1>2 DEF Decoded

\* Nor when it handles a control packet, whole request or not.
LEMMA HandleGoes ==
  ASSUME Sound(cp), cp.inbox # <<>>, NEW i \in DOMAIN Head(cp.inbox),
         Head(cp.inbox)[i].lane = "ctrl", Handle(i)
  PROVE  GoesOn(cp, cp')
<1> DEFINE p == Head(cp.inbox)[i]
           b == [cp.inbox EXCEPT ![1] = RemoveAt(@, i)]
           c == [cp EXCEPT !.inbox = b]
           s == Passed(c)
<1>1. cp \in CpStates /\ cp.inbox \in Seq(Seq(Packets))
  BY DEF Sound, CpStates
<1>2. Head(cp.inbox) \in Seq(Packets) /\ Len(cp.inbox) \in Nat \ {0} /\ 1 \in DOMAIN cp.inbox
  <2>1. Head(cp.inbox) \in Seq(Packets) /\ Len(cp.inbox) \in Nat \ {0}
    BY <1>1, TailLength
  <2> QED BY <1>1, <2>1
<1>3. Head(cp.inbox) = cp.inbox[1]
  BY <1>1, <1>2
<1>4. RemoveAt(Head(cp.inbox), i) \in Seq(Packets)
  <2>1. i \in 1 .. Len(Head(cp.inbox))
    BY <1>2
  <2> QED BY <1>2, <2>1, RemoveAtProperty
<1>5. b \in Seq(Seq(Packets)) /\ Len(b) = Len(cp.inbox) /\ b # <<>>
  <2>1. b = [cp.inbox EXCEPT ![1] = RemoveAt(Head(cp.inbox), i)]
    BY <1>3
  <2>2. b \in Seq(Seq(Packets)) /\ Len(b) = Len(cp.inbox)
    BY <1>1, <1>2, <1>4, <2>1
  <2> QED BY <1>2, <2>2
<1> HIDE DEF b
<1>6. /\ c \in CpStates /\ c.inbox = b /\ c.loaded = cp.loaded /\ c.tokens = cp.tokens
      /\ c.dataQueue = cp.dataQueue
  BY <1>1, <1>5 DEF CpStates
<1>7. Buffers(c) = RxBufNum
  BY <1>5, <1>6 DEF Buffers, Sound
<1>8. /\ s \in CpStates /\ Buffers(s) = RxBufNum /\ Reloaded(c, s) /\ DataIn(s) <= DataIn(c)
      /\ s = [c EXCEPT !.loaded = s.loaded, !.tokens = s.tokens, !.inbox = s.inbox,
                       !.dataQueue = s.dataQueue]
  <2> HIDE DEF c
  <2> QED BY <1>5, <1>6, <1>7, PassedEffect
<1> HIDE DEF s
<1>9. /\ s.aggregates = cp.aggregates /\ s.opening = cp.opening /\ s.rpcQueue = cp.rpcQueue
      /\ s.free = cp.free /\ s.sending = cp.sending /\ s.shown = cp.shown
      /\ s.interrupt = cp.interrupt /\ s.serial = cp.serial
  BY <1>1, <1>8 DEF CpStates
<1>10. Reloaded(cp, s)
  BY <1>6, <1>8 DEF Reloaded
<1>11. /\ cp' \in CpStates /\ Len(cp'.rpcQueue) <= QueueDepth + 1
       /\ \A f \in {"aggregates", "opening", "interrupt", "loaded", "tokens", "inbox",
                    "dataQueue", "free", "sending", "shown"} : cp'[f] = s[f]
  <2>1. p \in Packets
    BY <1>2
  <2>2. CASE p = Config
    <3>1. cp' = s
      BY <2>2 DEF Handle, s, c, b
    <3> QED BY <1>8, <1>9, <3>1 DEF Sound
  <2>3. CASE p # Config
    <3>1. p \in RequestChunks
      BY <2>1, <2>3 DEF Packets
    <3>2. Append(cp.serial, p) \in Seq(RequestChunks)
      BY <1>1, <3>1 DEF CpStates
    <3>3. CASE p.part < Chunks[p.number]
      <4>1. cp' = [s EXCEPT !.serial = Append(cp.serial, p)]
        BY <2>3, <3>3 DEF Handle, s, c, b
      <4> QED BY <1>8, <1>9, <3>2, <4>1 DEF CpStates, Sound
    <3>4. CASE ~(p.part < Chunks[p.number])
      <4>1. PICK u \in Decoded(Append(cp.serial, p)) :
              /\ u # 0 => Len(cp.rpcQueue) <= QueueDepth
              /\ cp' = [s EXCEPT !.serial = <<>>,
                                 !.rpcQueue = IF u = 0 THEN @ ELSE Append(@, u)]
        BY <2>3, <3>4 DEF Handle, s, c, b
      <4>2. u \in {0} \cup Requests
        <5>1. cp.serial \in Seq(RequestChunks)
          BY <1>1 DEF CpStates
        <5> QED BY <3>1, <4>1, <5>1, DecodedProperty
      <4>3. <<>> \in Seq(RequestChunks)
        OBVIOUS
      <4>4. CASE u = 0
        <5>1. cp' = [s EXCEPT !.serial = <<>>]
          BY <1>8, <4>1, <4>4 DEF CpStates
        <5> QED BY <1>8, <1>9, <4>3, <5>1 DEF CpStates, Sound
      <4>5. CASE u # 0
        <5>1. cp' = [s EXCEPT !.serial = <<>>, !.rpcQueue = Append(cp.rpcQueue, u)]
          BY <1>8, <1>9, <4>1, <4>5 DEF CpStates
        <5>2. cp.rpcQueue \in Seq(Requests) /\ u \in Requests
          BY <1>1, <4>2, <4>5 DEF CpStates
        <5>3. /\ Append(cp.rpcQueue, u) \in Seq(Requests)
              /\ Len(Append(cp.rpcQueue, u)) = Len(cp.rpcQueue) + 1
              /\ Len(cp.rpcQueue) \in Nat
          BY <5>2
        <5>4. Len(Append(cp.rpcQueue, u)) <= QueueDepth + 1
          BY <4>1, <4>5, <5>3, Constants
        <5> QED BY <1>8, <4>3, <5>1, <5>3, <5>4 DEF CpStates
      <4> QED BY <4>4, <4>5
    <3> QED BY <3>3, <3>4
  <2> QED BY <2>2, <2>3
<1>12. /\ cp'.aggregates = s.aggregates /\ cp'.opening = s.opening
       /\ cp'.interrupt = s.interrupt /\ cp'.loaded = s.loaded /\ cp'.tokens = s.tokens
       /\ cp'.inbox = s.inbox /\ cp'.dataQueue = s.dataQueue /\ cp'.free = s.free
       /\ cp'.sending = s.sending /\ cp'.shown = s.shown
  BY <1>11
<1>13. DataIn(c) <= DataIn(cp)
  <2>1. Holds(RemoveAt(Head(cp.inbox), i), "data") => Holds(Head(cp.inbox), "data")
    <3>1. i \in 1 .. Len(Head(cp.inbox)) /\ Len(Head(cp.inbox)) \in Nat
      BY <1>2
    <3>2. /\ Len(RemoveAt(Head(cp.inbox), i)) = Len(Head(cp.inbox)) - 1
          /\ RemoveAt(Head(cp.inbox), i) \in Seq(Packets)
          /\ \A k \in 1 .. Len(Head(cp.inbox)) - 1 :
               RemoveAt(Head(cp.inbox), i)[k]
                 = IF k < i THEN Head(cp.inbox)[k] ELSE Head(cp.inbox)[k + 1]
      BY <1>2, <3>1, RemoveAtProperty
    <3> QED BY <1>2, <3>1, <3>2 DEF Holds
  <2>2. b = [cp.inbox EXCEPT ![1] = RemoveAt(Head(cp.inbox), i)]
    BY <1>3 DEF b
  <2>3. Cardinality(WithData(b)) <= Cardinality(WithData(cp.inbox))
    BY <1>1, <1>4, <2>1, <2>2, DataReplaced
  <2>4. /\ Cardinality(WithData(b)) \in Nat /\ Cardinality(WithData(cp.inbox)) \in Nat
        /\ Cardinality(WithData(cp.dataQueue)) \in Nat
    <3>1. cp.dataQueue \in Seq(Seq(Packets))
      BY <1>1 DEF CpStates
    <3> QED BY <1>1, <1>5, <3>1, DataCounted
  <2> HIDE DEF c
  <2> QED BY <1>6, <2>3, <2>4 DEF DataIn
<1>14. DataIn(cp') <= DataIn(cp)
  <2>1. DataIn(cp') = DataIn(s)
    BY <1>12 DEF DataIn
  <2>2. DataIn(s) \in Nat /\ DataIn(c) \in Nat /\ DataIn(cp) \in Nat
    BY <1>1, <1>6, <1>8, DataBounded
  <2> QED BY <1>8, <1>13, <2>1, <2>2
<1> QED BY <1>8, <1>9, <1>10, <1>11, <1>12, <1>14
  DEF GoesOn, Sound, Reloaded, Buffers, CtrlBuffers

\* Nor rpc_task when it answers.
LEMMA ReplyGoes == ASSUME Sound(cp), Reply PROVE GoesOn(cp, cp')
<1> DEFINE u == Head(cp.rpcQueue)
           s == Sends(cp, u)
<1>1. /\ cp.rpcQueue # <<>> /\ cp.free > 0
      /\ cp' = [s EXCEPT !.rpcQueue = Tail(@)]
  BY DEF Reply
<1>2. cp \in CpStates /\ cp.rpcQueue \in Seq(Requests)
  BY DEF Sound, CpStates
<1>3. /\ u \in Requests /\ Tail(cp.rpcQueue) \in Seq(Requests)
      /\ Len(cp.rpcQueue) \in Nat /\ Len(Tail(cp.rpcQueue)) = Len(cp.rpcQueue) - 1
  BY <1>1, <1>2, TailLength
<1>4. u \in Messages
  BY <1>3 DEF Messages
<1> HIDE DEF u
<1>5. /\ s \in CpStates
      /\ s = [cp EXCEPT !.free = cp.free - 1, !.sending = s.sending, !.shown = s.shown,
                        !.length = s.length, !.interrupt = s.interrupt]
      /\ Len(s.sending) + Len(s.shown) = Len(cp.sending) + Len(cp.shown) + 1
      /\ cp.shown # <<>> => s.shown = cp.shown /\ s.interrupt = cp.interrupt
      /\ s.interrupt => cp.interrupt \/ s.shown # <<>>
  BY <1>1, <1>2, <1>4, SendsEffect
<1> HIDE DEF s
<1>6. /\ cp' \in CpStates
      /\ cp'.aggregates = cp.aggregates /\ cp'.loaded = cp.loaded /\ cp'.tokens = cp.tokens
      /\ cp'.inbox = cp.inbox /\ cp'.dataQueue = cp.dataQueue
      /\ cp'.rpcQueue = Tail(cp.rpcQueue)
      /\ cp'.free = cp.free - 1 /\ cp'.sending = s.sending /\ cp'.shown = s.shown
      /\ cp'.interrupt = s.interrupt
  <2>1. s.rpcQueue = cp.rpcQueue /\ s.aggregates = cp.aggregates /\ s.loaded = cp.loaded
        /\ s.tokens = cp.tokens /\ s.inbox = cp.inbox /\ s.dataQueue = cp.dataQueue
        /\ s.free = cp.free - 1
    BY <1>2, <1>5 DEF CpStates
  <2>2. cp' = [s EXCEPT !.rpcQueue = Tail(cp.rpcQueue)]
    BY <1>1, <2>1
  <2> QED BY <1>3, <1>5, <2>1, <2>2 DEF CpStates
<1>7. CtrlBuffers(cp') = CpCtrlBufNum
  <2>1. (cp.free - 1) + Len(s.sending) + Len(s.shown) = CtrlBuffers(cp)
    BY <1>2, <1>5, MessageMoved
  <2>2. CtrlBuffers(cp') = (cp.free - 1) + Len(s.sending) + Len(s.shown)
    BY <1>6 DEF CtrlBuffers
  <2> QED BY <2>1, <2>2 DEF Sound
<1>8. Buffers(cp') = RxBufNum
  BY <1>6 DEF Buffers, Sound
<1>9. Len(cp'.rpcQueue) <= QueueDepth + 1
  BY <1>3, <1>6, Constants DEF Sound
<1>10. DataIn(cp') <= DataIn(cp)
  BY <1>2, <1>6, DataBounded DEF DataIn
<1> QED BY <1>1, <1>5, <1>6, <1>7, <1>8, <1>9, <1>10 DEF GoesOn, Sound, Reloaded

\* Nor data_task when it is through with a packet.
LEMMA HandleDataGoes == ASSUME Sound(cp), HandleData PROVE GoesOn(cp, cp')
<1>1. /\ cp.dataQueue # <<>> /\ cp \in CpStates /\ cp.dataQueue \in Seq(Seq(Packets))
      /\ cp' = IF Len(Head(cp.dataQueue)) > 1
               THEN [cp EXCEPT !.dataQueue[1] = Tail(@)]
               ELSE Loaded([cp EXCEPT !.dataQueue = Tail(@)])
  BY DEF HandleData, Sound, CpStates
<1>2. /\ Head(cp.dataQueue) \in Seq(Packets) /\ Tail(cp.dataQueue) \in Seq(Seq(Packets))
      /\ Len(cp.dataQueue) \in Nat \ {0} /\ Len(Tail(cp.dataQueue)) = Len(cp.dataQueue) - 1
  BY <1>1, TailLength
<1>d. /\ Cardinality(WithData(cp.inbox)) \in Nat /\ Cardinality(WithData(cp.dataQueue)) \in Nat
      /\ Cardinality(WithData(Tail(cp.dataQueue))) \in Nat
      /\ Cardinality(WithData(Tail(cp.dataQueue))) <= Cardinality(WithData(cp.dataQueue))
  <2>1. cp.inbox \in Seq(Seq(Packets))
    BY <1>1 DEF CpStates
  <2>2. /\ Cardinality(WithData(cp.inbox)) \in Nat /\ Cardinality(WithData(cp.dataQueue)) \in Nat
        /\ Cardinality(WithData(Tail(cp.dataQueue))) \in Nat
    BY <1>1, <1>2, <2>1, DataCounted
  <2>3. Cardinality(WithData(Tail(cp.dataQueue)))
          + (IF Holds(Head(cp.dataQueue), "data") THEN 1 ELSE 0)
          <= Cardinality(WithData(cp.dataQueue))
    BY <1>1, DataTail
  <2> QED BY <2>2, <2>3
<1>3. CASE Len(Head(cp.dataQueue)) > 1
  <2> DEFINE b == [cp.dataQueue EXCEPT ![1] = Tail(@)]
  <2>1. cp' = [cp EXCEPT !.dataQueue = b]
    BY <1>1, <1>3
  <2>2. b \in Seq(Seq(Packets)) /\ Len(b) = Len(cp.dataQueue)
    <3>1. 1 \in DOMAIN cp.dataQueue /\ Head(cp.dataQueue) = cp.dataQueue[1]
      BY <1>1, <1>2
    <3>2. Tail(cp.dataQueue[1]) \in Seq(Packets)
      <4>1. cp.dataQueue[1] \in Seq(Packets) /\ cp.dataQueue[1] # <<>>
        BY <1>2, <1>3, <3>1
      <4> QED BY <4>1, TailLength
    <3> QED BY <1>1, <1>2, <3>1, <3>2
  <2>d. Cardinality(WithData(b)) <= Cardinality(WithData(cp.dataQueue))
    <3>1. Head(cp.dataQueue) = cp.dataQueue[1] /\ Head(cp.dataQueue) # <<>>
      BY <1>1, <1>2, <1>3
    <3>2. b = [cp.dataQueue EXCEPT ![1] = Tail(Head(cp.dataQueue))]
      BY <3>1
    <3>3. /\ Tail(Head(cp.dataQueue)) \in Seq(Packets)
          /\ Holds(Tail(Head(cp.dataQueue)), "data") => Holds(Head(cp.dataQueue), "data")
      BY <1>2, <3>1 DEF Holds
    <3> HIDE DEF b
    <3> QED BY <1>1, <3>2, <3>3, DataReplaced
  <2> HIDE DEF b
  <2>3. cp' \in CpStates
    BY <1>1, <2>1, <2>2 DEF CpStates
  <2>4. /\ cp'.aggregates = cp.aggregates /\ cp'.loaded = cp.loaded /\ cp'.tokens = cp.tokens
        /\ cp'.inbox = cp.inbox /\ cp'.dataQueue = b /\ cp'.rpcQueue = cp.rpcQueue
        /\ cp'.free = cp.free /\ cp'.sending = cp.sending /\ cp'.shown = cp.shown
        /\ cp'.interrupt = cp.interrupt
    BY <1>1, <2>1 DEF CpStates
  <2>5. DataIn(cp') <= DataIn(cp)
    <3>1. Cardinality(WithData(b)) \in Nat
      BY <2>2, DataCounted
    <3> QED BY <1>d, <2>d, <2>4, <3>1 DEF DataIn
  <2> QED BY <1>1, <2>2, <2>3, <2>4, <2>5 DEF GoesOn, Sound, Reloaded, Buffers, CtrlBuffers
<1>4. CASE ~(Len(Head(cp.dataQueue)) > 1)
  <2> DEFINE c == [cp EXCEPT !.dataQueue = Tail(cp.dataQueue)]
             s == Loaded(c)
  <2>1. cp' = s
    BY <1>1, <1>4
  <2>2. /\ c \in CpStates /\ c.loaded = cp.loaded /\ c.tokens = cp.tokens
        /\ c.dataQueue = Tail(cp.dataQueue) /\ c.inbox = cp.inbox
    BY <1>1, <1>2 DEF CpStates
  <2>3. c.loaded < RxBufNum
    <3>1. cp.loaded + Len(cp.inbox) + Len(cp.dataQueue) = RxBufNum
      BY DEF Sound, Buffers
    <3>2. cp.loaded \in Nat /\ Len(cp.inbox) \in Nat /\ RxBufNum \in Nat
      BY <1>1, Constants DEF CpStates
    <3> QED BY <1>2, <2>2, <3>1, <3>2
  <2>4. /\ s \in CpStates /\ Reloaded(c, s)
        /\ s = [c EXCEPT !.loaded = c.loaded + 1, !.tokens = s.tokens]
    <3> HIDE DEF c
    <3> QED BY <2>2, <2>3, LoadedEffect
  <2> HIDE DEF s
  <2>5. /\ s.aggregates = cp.aggregates /\ s.loaded = cp.loaded + 1
        /\ s.inbox = cp.inbox /\ s.dataQueue = Tail(cp.dataQueue) /\ s.rpcQueue = cp.rpcQueue
        /\ s.free = cp.free /\ s.sending = cp.sending /\ s.shown = cp.shown
        /\ s.interrupt = cp.interrupt
    BY <1>1, <2>2, <2>4 DEF CpStates
  <2>6. Buffers(s) = RxBufNum
    <3>1. \A k, i \in Nat : \A j \in Nat \ {0} : (k + 1) + i + (j - 1) = k + i + j
      OBVIOUS
    <3>2. Buffers(s) = (cp.loaded + 1) + Len(cp.inbox) + (Len(cp.dataQueue) - 1)
      BY <1>2, <2>5 DEF Buffers
    <3>3. cp.loaded \in Nat /\ Len(cp.inbox) \in Nat
      BY <1>1, Constants DEF CpStates
    <3> QED BY <1>2, <3>1, <3>2, <3>3 DEF Buffers, Sound
  <2>7. Reloaded(cp, s)
    BY <2>2, <2>4 DEF Reloaded
  <2>8. DataIn(s) <= DataIn(cp)
    BY <1>d, <2>5 DEF DataIn
  <2> HIDE DEF c
  <2> QED BY <1>1, <2>1, <2>4, <2>5, <2>6, <2>7, <2>8 DEF GoesOn, Sound, CtrlBuffers
<1> QED BY <1>3, <1>4

\* So no step of the coprocessor does.
LEMMA CpGoes == ASSUME Sound(cp), CtrlStep \/ HandleData PROVE GoesOn(cp, cp')
<1>1. ASSUME HandleCtrl PROVE GoesOn(cp, cp')
  BY <1>1, HandleGoes DEF HandleCtrl
<1> QED BY <1>1, CtrlTaskGoes, PassOnGoes, ReplyGoes, HandleDataGoes DEF CtrlStep, RxTask

\* A boot starts from full pools and with nothing under way.
LEMMA BootedEffect ==
  ASSUME NEW a \in Aggregating
  PROVE  /\ Sound(Booted(a))
         /\ Booted(a).aggregates = a /\ Booted(a).opening = FALSE
         /\ Booted(a).loaded = RxBufNum /\ Booted(a).tokens = RxBufNum
         /\ Booted(a).inbox = <<>> /\ Booted(a).dataQueue = <<>>
         /\ Booted(a).rpcQueue = <<>> /\ Booted(a).sending = <<>> /\ Booted(a).shown = <<>>
         /\ Booted(a).interrupt = FALSE
<1>1. RxBufNum % TokenSpan = RxBufNum
  <2>1. RxBufNum \in Int /\ RxBufNum \in 0 .. TokenSpan - 1 /\ TokenSpan \in Nat \ {0}
    BY Constants
  <2> QED BY <2>1, ModProperty
<1>2. Booted(a) \in CpStates
  <2>1. RxBufNum \in 0 .. TokenSpan - 1 /\ 0 \in 0 .. LengthSpan - 1 /\ RxBufNum \in 0 .. RxBufNum
        /\ CpCtrlBufNum \in 0 .. CpCtrlBufNum
    BY Constants
  <2>2. /\ <<>> \in Seq(Seq(Packets)) /\ <<>> \in Seq(RequestChunks)
        /\ <<>> \in Seq(Requests) /\ <<>> \in Seq(Messages)
    OBVIOUS
  <2> QED BY <1>1, <2>1, <2>2 DEF Booted, CpStates
<1>3. Len(<<>>) = 0
  OBVIOUS
<1> QED BY <1>1, <1>2, <1>3, Constants DEF Booted, Sound, Buffers, CtrlBuffers

\* What the host fetched is free again, and what waited is offered.
LEMMA FetchedEffect ==
  ASSUME Sound(cp)
  PROVE  /\ Sound(Fetched)
         /\ Fetched.aggregates = cp.aggregates /\ Fetched.opening = cp.opening
         /\ Fetched.loaded = cp.loaded /\ Fetched.tokens = cp.tokens
         /\ Fetched.inbox = cp.inbox /\ Fetched.dataQueue = cp.dataQueue
         /\ Fetched.rpcQueue = cp.rpcQueue
         /\ Fetched.interrupt => cp.interrupt \/ Fetched.shown # <<>>
         /\ AllInit(cp.sending) => AllInit(Fetched.sending) /\ AllInit(Fetched.shown)
<1> DEFINE c == [cp EXCEPT !.shown = <<>>, !.free = cp.free + Len(cp.shown)]
           s == Offered(c)
<1>1. cp \in CpStates /\ CtrlBuffers(cp) = CpCtrlBufNum
  BY DEF Sound
<1>2. cp.free \in Nat /\ Len(cp.sending) \in Nat /\ Len(cp.shown) \in Nat
  BY <1>1, CountsTyped
<1>3. cp.free + Len(cp.shown) \in 0 .. CpCtrlBufNum
  BY <1>1, <1>2, Constants DEF CtrlBuffers
<1>4. /\ c \in CpStates /\ c.shown = <<>> /\ c.sending = cp.sending
      /\ c.free = cp.free + Len(cp.shown)
      /\ c.aggregates = cp.aggregates /\ c.opening = cp.opening /\ c.loaded = cp.loaded
      /\ c.tokens = cp.tokens /\ c.inbox = cp.inbox /\ c.dataQueue = cp.dataQueue
      /\ c.rpcQueue = cp.rpcQueue /\ c.interrupt = cp.interrupt
  <2>1. <<>> \in Seq(Messages)
    OBVIOUS
  <2> QED BY <1>1, <1>3, <2>1 DEF CpStates
<1>5. Fetched = s
  BY DEF Fetched
<1> HIDE DEF c
<1>6. /\ s \in CpStates
      /\ s = [c EXCEPT !.sending = s.sending, !.shown = s.shown, !.length = s.length,
                       !.interrupt = s.interrupt]
      /\ Len(s.sending) + Len(s.shown) = Len(c.sending) + Len(c.shown)
      /\ s.interrupt => c.interrupt \/ s.shown # <<>>
      /\ AllInit(c.sending) /\ AllInit(c.shown) => AllInit(s.sending) /\ AllInit(s.shown)
  BY <1>4, OfferedEffect
<1> HIDE DEF s
<1>7. /\ s.free = cp.free + Len(cp.shown)
      /\ s.aggregates = cp.aggregates /\ s.opening = cp.opening /\ s.loaded = cp.loaded
      /\ s.tokens = cp.tokens /\ s.inbox = cp.inbox /\ s.dataQueue = cp.dataQueue
      /\ s.rpcQueue = cp.rpcQueue
  BY <1>4, <1>6 DEF CpStates
<1>8. CtrlBuffers(s) = CpCtrlBufNum
  <2>1. Len(s.sending) + Len(s.shown) = Len(cp.sending)
    <3>1. Len(c.sending) = Len(cp.sending) /\ Len(c.shown) = 0
      BY <1>4
    <3>2. Len(s.sending) + Len(s.shown) = Len(c.sending) + Len(c.shown)
      BY <1>6
    <3>3. Len(s.sending) + Len(s.shown) = Len(cp.sending) + 0
      BY ONLY <3>1, <3>2
    <3>4. \A i \in Nat : i + 0 = i
      OBVIOUS
    <3> QED BY ONLY <1>2, <3>3, <3>4
  <2>2. s.free + Len(s.sending) + Len(s.shown) = s.free + (Len(s.sending) + Len(s.shown))
    <3>1. s.free \in Nat /\ Len(s.sending) \in Nat /\ Len(s.shown) \in Nat
      BY <1>6, CountsTyped
    <3>2. \A i, j, k \in Nat : i + j + k = i + (j + k)
      OBVIOUS
    <3> QED BY ONLY <3>1, <3>2
  <2>3. s.free + Len(cp.sending) = CpCtrlBufNum
    BY <1>1, <1>2, <1>7 DEF CtrlBuffers
  <2> QED BY <2>1, <2>2, <2>3 DEF CtrlBuffers
<1>9. Buffers(s) = RxBufNum /\ Len(s.rpcQueue) <= QueueDepth + 1
  BY <1>7 DEF Buffers, Sound
<1>10. AllInit(<<>>)
  BY DEF AllInit
<1> QED BY <1>4, <1>5, <1>6, <1>7, <1>8, <1>9, <1>10 DEF Sound

\* A transfer takes a receive buffer.
LEMMA WrittenEffect ==
  ASSUME Sound(cp), cp.loaded > 0, NEW packets \in Seq(Packets)
  PROVE  /\ Sound(Written(packets))
         /\ Written(packets) = [cp EXCEPT !.loaded = cp.loaded - 1,
                                          !.inbox = Append(cp.inbox, packets)]
         /\ Written(packets).loaded = cp.loaded - 1
         /\ Written(packets).inbox = Append(cp.inbox, packets)
         /\ Written(packets).aggregates = cp.aggregates
         /\ Written(packets).tokens = cp.tokens
         /\ Written(packets).dataQueue = cp.dataQueue
         /\ Written(packets).shown = cp.shown /\ Written(packets).interrupt = cp.interrupt
<1>1. cp \in CpStates /\ cp.inbox \in Seq(Seq(Packets)) /\ Buffers(cp) = RxBufNum
  BY DEF Sound, CpStates
<1>2. cp.loaded \in 1 .. RxBufNum /\ RxBufNum \in Nat
  BY <1>1, Constants DEF CpStates
<1>3. cp.loaded - 1 \in 0 .. RxBufNum
  BY <1>2
<1>4. /\ Append(cp.inbox, packets) \in Seq(Seq(Packets))
      /\ Len(Append(cp.inbox, packets)) = Len(cp.inbox) + 1
      /\ Len(cp.inbox) \in Nat
  BY <1>1
<1>5. Len(cp.dataQueue) \in Nat
  BY <1>1 DEF CpStates
<1> DEFINE s == Written(packets)
<1>6. s = [cp EXCEPT !.loaded = cp.loaded - 1, !.inbox = Append(cp.inbox, packets)]
  BY DEF Written
<1> HIDE DEF s
<1>7. /\ s \in CpStates /\ s.loaded = cp.loaded - 1 /\ s.inbox = Append(cp.inbox, packets)
      /\ s.aggregates = cp.aggregates /\ s.tokens = cp.tokens /\ s.dataQueue = cp.dataQueue
      /\ s.rpcQueue = cp.rpcQueue
      /\ s.shown = cp.shown /\ s.interrupt = cp.interrupt
      /\ s.free = cp.free /\ s.sending = cp.sending
  BY <1>1, <1>3, <1>4, <1>6 DEF CpStates
<1>8. Buffers(s) = RxBufNum
  <2>1. Buffers(s) = (cp.loaded - 1) + (Len(cp.inbox) + 1) + Len(cp.dataQueue)
    BY <1>4, <1>7 DEF Buffers
  <2>2. \A i \in 1 .. RxBufNum : \A j, k \in Nat : (i - 1) + (j + 1) + k = i + j + k
    BY <1>2
  <2> QED BY <1>1, <1>2, <1>4, <1>5, <2>1, <2>2 DEF Buffers
<1> QED BY <1>6, <1>7, <1>8 DEF Sound, CtrlBuffers, s

-----------------------------------------------------------------------------
(* The lanes and the transfer. *)

FullOnes == {p \in Packets : Full(p)}

\* The length of a transfer grows by that of the packet put in, and one packet fits.
LEMMA TotalProperty ==
  ASSUME NEW q \in Seq(Packets), NEW p \in Packets
  PROVE  /\ Total(q) \in Nat /\ Total(Append(q, p)) = Total(q) + Length(p)
         /\ Total(<<p>>) <= BufSize
<1>1. \A s \in Seq(Packets) : Total(s) = Len(s) + Cardinality(Places(s, FullOnes))
  <2> SUFFICES ASSUME NEW s \in Seq(Packets)
               PROVE  Total(s) = Len(s) + Cardinality(Places(s, FullOnes))
    OBVIOUS
  <2>1. \A i \in DOMAIN s : s[i] \in Packets
    OBVIOUS
  <2>2. {i \in DOMAIN s : Full(s[i])} = Places(s, FullOnes)
    BY <2>1 DEF Places, FullOnes
  <2> QED BY <2>2 DEF Total
<1>2. /\ Append(q, p) \in Seq(Packets) /\ Len(Append(q, p)) = Len(q) + 1 /\ Len(q) \in Nat
      /\ <<p>> \in Seq(Packets) /\ Len(<<p>>) = 1
  OBVIOUS
<1>3. Cardinality(Places(q, FullOnes)) \in Nat /\ Cardinality(Places(<<p>>, FullOnes)) \in 0 .. 1
  <2>1. Cardinality(Places(q, FullOnes)) \in 0 .. Len(q)
    BY PlacesCounted
  <2>2. Cardinality(Places(<<p>>, FullOnes)) \in 0 .. Len(<<p>>)
    BY <1>2, PlacesCounted
  <2> QED BY <1>2, <2>1, <2>2
<1>4. Cardinality(Places(Append(q, p), FullOnes))
        = Cardinality(Places(q, FullOnes)) + (IF Full(p) THEN 1 ELSE 0)
  BY PlacesAppended DEF FullOnes
<1>5. Total(q) \in Nat
  BY <1>1, <1>2, <1>3
<1>6. Total(Append(q, p)) = (Len(q) + 1) + Cardinality(Places(Append(q, p), FullOnes))
  BY <1>1, <1>2
<1>7. Total(Append(q, p)) = Total(q) + Length(p)
  BY <1>1, <1>2, <1>3, <1>4, <1>6 DEF Length
<1>8. Total(<<p>>) <= BufSize
  <2>1. Total(<<p>>) = 1 + Cardinality(Places(<<p>>, FullOnes))
    BY <1>1, <1>2
  <2> QED BY <1>3, <2>1 DEF BufSize
<1> QED BY <1>5, <1>7, <1>8

\* What is first in a lane, and what peek leaves behind it.
LEMMA FirstProperty ==
  ASSUME LanesTyped, NEW l \in Lanes
  PROVE  /\ First(l) \in Seq(OfLane(l)) /\ Len(First(l)) \in 0 .. 1
         /\ First(l) # <<>> => /\ First(l)[1] \in OfLane(l) /\ First(l) = <<First(l)[1]>>
                               /\ Len(First(l)) = 1
         /\ held[l] # <<>> => First(l) = held[l]
<1>1. queue[l] \in Seq(OfLane(l)) /\ held[l] \in Seq(OfLane(l)) /\ Len(held[l]) <= 1
  BY DEF LanesTyped
<1>2. First(l) \in Seq(OfLane(l)) /\ Len(First(l)) \in 0 .. 1
  <2>1. CASE held[l] # <<>> \/ queue[l] = <<>>
    <3>1. First(l) = held[l]
      BY <2>1 DEF First
    <3>2. Len(held[l]) \in 0 .. 1
      <4>1. Len(held[l]) \in Nat /\ Len(held[l]) <= 1
        BY <1>1
      <4>2. \A n \in Nat : n <= 1 => n \in 0 .. 1
        OBVIOUS
      <4> QED BY ONLY <4>1, <4>2
    <3> QED BY <1>1, <3>1, <3>2
  <2>2. CASE held[l] = <<>> /\ queue[l] # <<>>
    <3>1. Head(queue[l]) \in OfLane(l)
      BY <1>1, <2>2, TailLength
    <3> QED BY <2>2, <3>1 DEF First
  <2> QED BY <2>1, <2>2
<1>3. ASSUME First(l) # <<>>
      PROVE  First(l)[1] \in OfLane(l) /\ First(l) = <<First(l)[1]>> /\ Len(First(l)) = 1
  <2> DEFINE q == First(l)
  <2>1. q \in Seq(OfLane(l)) /\ Len(q) \in 0 .. 1 /\ q # <<>>
    BY <1>2, <1>3
  <2> HIDE DEF q
  <2> QED BY <2>1 DEF q
<1> QED BY <1>2, <1>3 DEF First

\* peek moves the first packet of a lane from its queue to tx_task, and loses none.
LEMMA PeekedProperty ==
  ASSUME LanesTyped, NEW S, NEW l \in Lanes
  PROVE  /\ Peeked(S)[l] \in Seq(OfLane(l))
         /\ Len(Peeked(S)[l]) \in Nat /\ Len(queue[l]) \in Nat /\ Len(held[l]) \in Nat
         /\ Len(Peeked(S)[l]) <= Len(queue[l])
         /\ l \in S => Len(Peeked(S)[l]) + Len(First(l)) = Len(queue[l]) + Len(held[l])
         /\ l \notin S => Peeked(S)[l] = queue[l]
<1>1. queue[l] \in Seq(OfLane(l)) /\ held[l] \in Seq(OfLane(l)) /\ Len(held[l]) <= 1
  BY DEF LanesTyped
<1>2. CASE l \in S /\ held[l] = <<>> /\ queue[l] # <<>>
  <2>1. Peeked(S)[l] = Tail(queue[l]) /\ First(l) = <<Head(queue[l])>>
    BY <1>2 DEF Peeked, First
  <2>2. /\ Tail(queue[l]) \in Seq(OfLane(l)) /\ Len(queue[l]) \in Nat \ {0}
        /\ Len(Tail(queue[l])) = Len(queue[l]) - 1
    BY <1>1, <1>2, TailLength
  <2>3. Len(held[l]) = 0 /\ Len(<<Head(queue[l])>>) = 1
    BY <1>2
  <2> QED BY <1>2, <2>1, <2>2, <2>3
<1>3. CASE ~(l \in S /\ held[l] = <<>> /\ queue[l] # <<>>)
  <2>1. Peeked(S)[l] = queue[l]
    BY <1>3 DEF Peeked
  <2>2. l \in S => First(l) = held[l]
    BY <1>3 DEF First
  <2>3. Len(queue[l]) \in Nat /\ Len(held[l]) \in Nat
    BY <1>1
  <2>4. Len(Peeked(S)[l]) \in Nat /\ Len(Peeked(S)[l]) <= Len(queue[l])
    BY <2>1, <2>3
  <2>5. l \in S => Len(Peeked(S)[l]) + Len(First(l)) = Len(queue[l]) + Len(held[l])
    BY <2>1, <2>2
  <2> QED BY <1>1, <2>1, <2>3, <2>4, <2>5
<1> QED BY <1>2, <1>3

\* The packets that wait in a lane.
Waiting(l) == Len(queue[l]) + Len(held[l])

\* A lane's packets are packets.
LEMMA LaneLists == \A l \in Lanes : Seq(OfLane(l)) \subseteq Seq(Packets)
BY DEF OfLane

\* What waits in a lane is a number.
LEMMA WaitingCounts ==
  ASSUME LanesTyped, NEW l \in Lanes
  PROVE  Len(queue[l]) \in Nat /\ Len(held[l]) \in Nat /\ Waiting(l) \in Nat
<1>1. queue[l] \in Seq(OfLane(l)) /\ held[l] \in Seq(OfLane(l))
  BY DEF LanesTyped
<1>2. Len(queue[l]) \in Nat /\ Len(held[l]) \in Nat
  BY <1>1
<1>3. \A i, j \in Nat : i + j \in Nat
  OBVIOUS
<1>4. Waiting(l) \in Nat
  BY ONLY <1>2, <1>3 DEF Waiting
<1> QED BY <1>2, <1>4

\* peek moves packets within their lanes only.
LEMMA LooksProperty ==
  ASSUME LanesTyped, NEW S, queue' = Peeked(S), NEW T,
         \A l \in Lanes : l \in S \ T => held'[l] = First(l),
         \A l \in Lanes : l \notin S => held'[l] = held[l],
         \A l \in T : l \in S /\ First(l) # <<>> /\ held'[l] = <<>>,
         DOMAIN held' = Lanes, held' = [l \in Lanes |-> held'[l]]
  PROVE  /\ LanesTyped'
         /\ \A l \in Lanes : Waiting(l)' = IF l \in T THEN Waiting(l) - 1 ELSE Waiting(l)
<1>1. ASSUME NEW l \in Lanes
      PROVE  /\ queue'[l] \in Seq(OfLane(l)) /\ held'[l] \in Seq(OfLane(l))
             /\ Len(queue'[l]) <= BufNum[l] /\ Len(held'[l]) <= 1
             /\ Len(queue'[l]) + Len(held'[l])
                  = IF l \in T THEN Waiting(l) - 1 ELSE Waiting(l)
  <2>1. /\ Peeked(S)[l] \in Seq(OfLane(l))
        /\ Len(Peeked(S)[l]) \in Nat /\ Len(queue[l]) \in Nat /\ Len(held[l]) \in Nat
        /\ Len(Peeked(S)[l]) <= Len(queue[l])
        /\ l \in S => Len(Peeked(S)[l]) + Len(First(l)) = Len(queue[l]) + Len(held[l])
        /\ l \notin S => Peeked(S)[l] = queue[l]
    BY PeekedProperty
  <2>2. /\ First(l) \in Seq(OfLane(l)) /\ Len(First(l)) \in 0 .. 1
        /\ First(l) # <<>> => Len(First(l)) = 1
    BY FirstProperty
  <2>3. /\ held[l] \in Seq(OfLane(l)) /\ Len(held[l]) <= 1
        /\ Len(queue[l]) <= BufNum[l] /\ BufNum[l] \in Nat
    BY Constants DEF LanesTyped, BufNum
  <2>4. <<>> \in Seq(OfLane(l)) /\ Len(<<>>) = 0
    OBVIOUS
  <2>5. CASE l \in T
    <3>1. l \in S /\ Len(First(l)) = 1 /\ held'[l] = <<>>
      BY <2>2, <2>5
    <3>2. Len(queue'[l]) = Waiting(l) - 1
      <4>1. Len(queue'[l]) + 1 = Waiting(l) /\ Len(queue'[l]) \in Nat
        BY <2>1, <2>5, <3>1 DEF Waiting
      <4>2. \A i \in Nat : (i + 1) - 1 = i
        OBVIOUS
      <4>3. (Len(queue'[l]) + 1) - 1 = Len(queue'[l])
        BY ONLY <4>1, <4>2
      <4> QED BY ONLY <4>1, <4>3
    <3>3. Len(queue'[l]) + Len(held'[l]) = Waiting(l) - 1
      BY <2>1, <2>4, <3>1, <3>2
    <3> QED BY <2>1, <2>3, <2>4, <2>5, <3>1, <3>3
  <2>6. CASE l \in S \ T
    <3>1. queue'[l] = Peeked(S)[l] /\ held'[l] = First(l) /\ l \in S /\ l \notin T
      BY <2>6
    <3>2. Len(Peeked(S)[l]) + Len(First(l)) = Waiting(l)
      BY <2>1, <3>1 DEF Waiting
    <3>3. Len(Peeked(S)[l]) <= BufNum[l] /\ Len(First(l)) <= 1
      <4>1. Len(Peeked(S)[l]) \in Nat /\ Len(queue[l]) \in Nat /\ BufNum[l] \in Nat
            /\ Len(Peeked(S)[l]) <= Len(queue[l]) /\ Len(queue[l]) <= BufNum[l]
        BY <2>1, <2>3
      <4>2. \A i, j, k \in Nat : i <= j /\ j <= k => i <= k
        OBVIOUS
      <4>3. \A i \in 0 .. 1 : i <= 1
        OBVIOUS
      <4>4. Len(First(l)) \in 0 .. 1
        BY <2>2
      <4> QED BY ONLY <4>1, <4>2, <4>3, <4>4
    <3> QED BY <2>1, <2>2, <3>1, <3>2, <3>3
  <2>7. CASE l \notin S
    <3>1. queue'[l] = queue[l] /\ held'[l] = held[l] /\ l \notin T
      BY <2>1, <2>7
    <3> QED BY <2>1, <2>3, <3>1 DEF Waiting
  <2> QED BY <2>5, <2>6, <2>7
<1>2. queue' = [l \in Lanes |-> queue'[l]]
  BY DEF Peeked
<1>3. {queue', held'} \subseteq [Lanes -> Seq(Packets)]
  BY <1>1, <1>2, LaneLists
<1> QED BY <1>1, <1>3 DEF LanesTyped, Waiting

\* pop takes the first packet of at most one lane, control before data, and only what fits.
LEMMA PopProperty ==
  ASSUME LanesTyped, NEW room, Pop(room)
  PROVE  /\ LanesTyped'
         /\ Popped(room) \subseteq Lanes /\ \A l, m \in Popped(room) : l = m
         /\ \A l \in Popped(room) : Fits(l, room)
         /\ Fits("ctrl", room) => Popped(room) = {"ctrl"}
         /\ \A l \in Lanes :
              Waiting(l)' = IF l \in Popped(room) THEN Waiting(l) - 1 ELSE Waiting(l)
<1> DEFINE S == IF Popped(room) = {"ctrl"} THEN {"ctrl"} ELSE Lanes
<1>1. /\ Popped(room) \subseteq S /\ S \subseteq Lanes /\ \A l, m \in Popped(room) : l = m
      /\ \A l \in Popped(room) : Fits(l, room)
      /\ Fits("ctrl", room) => Popped(room) = {"ctrl"}
  BY DEF Popped, Lanes
<1>2. /\ queue' = Peeked(S)
      /\ held' = [l \in Lanes |-> IF l \in Popped(room) THEN <<>>
                                  ELSE IF l \in S THEN First(l) ELSE held[l]]
  BY DEF Pop
<1>3. \A l \in Popped(room) : l \in S /\ First(l) # <<>> /\ held'[l] = <<>>
  BY <1>1, <1>2 DEF Fits
<1>4. DOMAIN held' = Lanes /\ held' = [l \in Lanes |-> held'[l]]
  BY <1>2
<1>5. /\ \A l \in Lanes : l \in S \ Popped(room) => held'[l] = First(l)
      /\ \A l \in Lanes : l \notin S => held'[l] = held[l]
  BY <1>1, <1>2
<1> HIDE DEF S
<1>6. /\ LanesTyped'
      /\ \A l \in Lanes :
           Waiting(l)' = IF l \in Popped(room) THEN Waiting(l) - 1 ELSE Waiting(l)
  BY <1>2, <1>3, <1>4, <1>5, LooksProperty
<1> QED BY <1>1, <1>6

\* The packets of a lane that have one of its buffers are those that wait and
\* the first of the transfer.
First1(l) == IF batch # <<>> /\ batch[1].lane = l THEN 1 ELSE 0

LInv ==
  /\ LanesTyped /\ free \in [Lanes -> Nat]
  /\ batch \in Seq(Packets) /\ Total(batch) <= BufSize
  /\ TxPlace
  /\ \A l \in Lanes : free[l] + Waiting(l) + First1(l) = BufNum[l]

\* The invariant says of the lanes what their steps need.
LEMMA LanesFromInvariant == IInv => LInv
<1> SUFFICES ASSUME IInv PROVE LInv
  OBVIOUS
<1>1. /\ LanesTyped /\ free \in [Lanes -> Nat] /\ batch \in Seq(Packets)
      /\ Total(batch) <= BufSize /\ TxPlace
  BY DEF IInv, TypeOK, LanesTyped
<1>2. ASSUME NEW l \in Lanes PROVE free[l] + Waiting(l) + First1(l) = BufNum[l]
  <2>1. free[l] + (Waiting(l) + First1(l)) = BufNum[l]
    BY DEF IInv, BuffersKept, Taken, Waiting, First1
  <2>2. free[l] \in Nat /\ Waiting(l) \in Nat /\ First1(l) \in Nat
    BY <1>1, WaitingCounts DEF First1
  <2> QED BY ONLY <2>1, <2>2
<1> QED BY <1>1, <1>2 DEF LInv

\* A step elsewhere.
LEMMA LanesStay ==
  ASSUME LInv, UNCHANGED <<free, queue, held, batch>>,
         Sending' <=> Sending
  PROVE  LInv'
BY DEF LInv, LanesTyped, TxPlace, Sending, Waiting, First1, Total

\* tx_task's look at both lanes keeps their packets (transport.rs:211).
LEMMA PeekLanes == ASSUME IInv, Peek PROVE LInv'
<1>1. LInv /\ LanesTyped
  BY LanesFromInvariant DEF LInv
<1>2. /\ pc["tx"] = "peek" /\ queue' = Peeked(Lanes) /\ held' = [l \in Lanes |-> First(l)]
      /\ free' = free /\ batch' = batch
  BY DEF Peek, Looks
<1>3. pc'["tx"] \in {"pick", "reserve", "sleep"}
  BY DEF Peek, Goto, IInv, TypeOK, Tasks
<1>4. LanesTyped' /\ \A l \in Lanes : Waiting(l)' = Waiting(l)
  BY <1>1, <1>2, LooksProperty
<1>5. TxPlace'
  BY <1>1, <1>2, <1>3 DEF LInv, TxPlace, Sending
<1> QED BY <1>1, <1>2, <1>4, <1>5 DEF LInv, First1, Total

\* The counts of a lane are numbers, and add up.
LEMMA LaneCounts ==
  ASSUME LInv, NEW l \in Lanes
  PROVE  /\ free[l] \in Nat /\ Waiting(l) \in Nat /\ First1(l) \in 0 .. 1 /\ BufNum[l] \in Nat
         /\ free[l] + Waiting(l) + First1(l) = BufNum[l]
<1>1. BufNum[l] \in Nat
  BY Constants DEF BufNum
<1>2. Waiting(l) \in Nat
  BY WaitingCounts DEF LInv
<1> QED BY <1>1, <1>2 DEF LInv, First1

\* So does its choice of the first packet (transport.rs:223).
LEMMA PickLanes == ASSUME IInv, Pick PROVE LInv'
<1>1. LInv /\ LanesTyped
  BY LanesFromInvariant DEF LInv
<1>2. /\ pc["tx"] = "pick" /\ Pop(BufSize) /\ free' = free
      /\ \E l \in Popped(BufSize) : batch' = First(l)
  BY DEF Pick
<1>3. pc'["tx"] \in {"fill", "await"}
  BY DEF Pick, Goto, IInv, TypeOK, Tasks
<1>4. PICK l \in Popped(BufSize) : batch' = First(l)
  BY <1>2
<1>5. /\ LanesTyped' /\ l \in Lanes /\ First(l) # <<>> /\ \A m \in Popped(BufSize) : m = l
      /\ \A m \in Lanes : Waiting(m)' = IF m = l THEN Waiting(m) - 1 ELSE Waiting(m)
  <2>1. LanesTyped'
    BY <1>1, <1>2, PopProperty
  <2>2. /\ Popped(BufSize) \subseteq Lanes /\ \A k, m \in Popped(BufSize) : k = m
        /\ \A k \in Popped(BufSize) : Fits(k, BufSize)
        /\ \A m \in Lanes :
             Waiting(m)' = IF m \in Popped(BufSize) THEN Waiting(m) - 1 ELSE Waiting(m)
    BY <1>1, <1>2, PopProperty
  <2> QED BY <2>1, <2>2 DEF Fits
<1>6. /\ batch' = <<First(l)[1]>> /\ First(l)[1] \in OfLane(l)
  BY <1>1, <1>4, <1>5, FirstProperty
<1>7. batch = <<>>
  BY <1>1, <1>2 DEF LInv, TxPlace, Sending
<1>8. batch' \in Seq(Packets) /\ Total(batch)' <= BufSize /\ batch' # <<>>
  <2>1. First(l)[1] \in Packets /\ <<>> \in Seq(Packets)
    BY <1>6 DEF OfLane
  <2>2. Total(<<First(l)[1]>>) <= BufSize
    BY <2>1, TotalProperty
  <2>3. Total(batch') <= BufSize
    BY <1>6, <2>2
  <2>4. Total(batch)' = Total(batch')
    BY DEF Total
  <2> QED BY <1>6, <2>1, <2>3, <2>4
<1>9. \A m \in Lanes : First1(m) = 0 /\ First1(m)' = IF m = l THEN 1 ELSE 0
  <2>1. batch'[1].lane = l /\ batch' # <<>>
    BY <1>6, <1>8 DEF OfLane
  <2> QED BY <1>7, <2>1 DEF First1
<1>10. ASSUME NEW m \in Lanes PROVE (free[m] + Waiting(m) + First1(m))' = BufNum[m]
  <2>1. /\ free[m] \in Nat /\ Waiting(m) \in Nat /\ BufNum[m] \in Nat
        /\ free[m] + Waiting(m) + 0 = BufNum[m]
    BY <1>1, <1>9, LaneCounts
  <2>2. CASE m = l
    <3>1. free'[m] = free[m] /\ Waiting(m)' = Waiting(m) - 1 /\ First1(m)' = 0 + 1
      BY <1>2, <1>5, <1>9, <2>2
    <3>2. free[m] + (Waiting(m) - 1) + (0 + 1) = BufNum[m]
      BY ONLY <2>1
    <3> QED BY <3>1, <3>2
  <2>3. CASE m # l
    BY <1>2, <1>5, <1>9, <2>1, <2>3
  <2> QED BY <2>2, <2>3
<1> QED BY <1>1, <1>2, <1>3, <1>5, <1>8, <1>10 DEF LInv, TxPlace, Sending

\* So does filling up the transfer, and frees the buffer of what it adds (transport.rs:224).
LEMMA FillLanes == ASSUME IInv, Fill PROVE LInv'
<1> DEFINE room == BufSize - Total(batch)
<1>1. LInv /\ LanesTyped /\ batch \in Seq(Packets) /\ free \in [Lanes -> Nat]
  BY LanesFromInvariant DEF LInv
<1>2. /\ pc["tx"] = "fill" /\ Pop(room)
      /\ IF Popped(room) = {}
         THEN pc' = [pc EXCEPT !["tx"] = "await"] /\ batch' = batch /\ free' = free
         ELSE \E l \in Popped(room) :
                /\ batch' = batch \o First(l)
                /\ free' = [free EXCEPT ![l] = @ + 1]
                /\ pc' = pc
  BY DEF Fill, Goto
<1>3. /\ LanesTyped' /\ Popped(room) \subseteq Lanes
      /\ \A l, m \in Popped(room) : l = m
      /\ \A l \in Popped(room) : Fits(l, room)
      /\ \A l \in Lanes :
           Waiting(l)' = IF l \in Popped(room) THEN Waiting(l) - 1 ELSE Waiting(l)
  <2>1. LanesTyped'
    BY <1>1, <1>2, PopProperty
  <2> QED BY <1>1, <1>2, <2>1, PopProperty
<1>4. CASE Popped(room) = {}
  <2>1. /\ batch' = batch /\ free' = free /\ \A l \in Lanes : Waiting(l)' = Waiting(l)
        /\ pc'["tx"] = "await"
    BY <1>2, <1>3, <1>4 DEF IInv, TypeOK, Tasks
  <2> QED BY <1>1, <1>2, <1>3, <2>1 DEF LInv, TxPlace, Sending, First1, Total
<1>5. CASE Popped(room) # {}
  <2>1. PICK l \in Popped(room) :
          batch' = batch \o First(l) /\ free' = [free EXCEPT ![l] = @ + 1] /\ pc' = pc
    BY <1>2, <1>5
  <2> DEFINE p == First(l)[1]
  <2>2. /\ l \in Lanes /\ First(l) # <<>> /\ Length(p) <= room
        /\ \A m \in Lanes : Waiting(m)' = IF m = l THEN Waiting(m) - 1 ELSE Waiting(m)
    BY <1>3 DEF Fits
  <2>3. First(l) = <<p>> /\ p \in OfLane(l)
    BY <1>1, <2>2, FirstProperty
  <2>4. p \in Packets
    BY <2>3 DEF OfLane
  <2> HIDE DEF p
  <2>5. batch' = Append(batch, p)
    BY <1>1, <2>1, <2>3, <2>4
  <2>6. batch # <<>>
    BY <1>1, <1>2 DEF LInv, TxPlace, Sending
  <2>7. batch' \in Seq(Packets) /\ batch' # <<>> /\ batch'[1] = batch[1]
    BY <1>1, <2>4, <2>5, <2>6
  <2>8. Total(batch') <= BufSize
    <3>1. Total(batch) \in Nat /\ Total(Append(batch, p)) = Total(batch) + Length(p)
      BY <1>1, <2>4, TotalProperty
    <3> HIDE DEF room
    <3>2. room = BufSize - Total(batch) /\ Length(p) \in Nat /\ BufSize \in Nat
      BY DEF room, Length, BufSize
    <3> QED BY <2>2, <2>5, <3>1, <3>2
  <2>9. \A m \in Lanes : First1(m)' = First1(m)
    BY <2>6, <2>7 DEF First1
  <2>10. ASSUME NEW m \in Lanes PROVE (free[m] + Waiting(m) + First1(m))' = BufNum[m]
    <3>1. /\ free[m] \in Nat /\ Waiting(m) \in Nat /\ First1(m) \in Nat /\ BufNum[m] \in Nat
          /\ free[m] + Waiting(m) + First1(m) = BufNum[m]
      BY <1>1, LaneCounts
    <3>2. CASE m = l
      <4>1. /\ free'[m] = free[m] + 1 /\ Waiting(m)' = Waiting(m) - 1
            /\ First1(m)' = First1(m)
        BY <1>1, <2>1, <2>2, <2>9, <3>2
      <4>2. (free[m] + 1) + (Waiting(m) - 1) + First1(m) = BufNum[m]
        BY ONLY <3>1
      <4> QED BY <4>1, <4>2
    <3>3. CASE m # l
      BY <1>1, <2>1, <2>2, <2>9, <3>1, <3>3
    <3> QED BY <3>2, <3>3
  <2>11. free' \in [Lanes -> Nat]
    BY <1>1, <2>1, <2>2
  <2>12. TxPlace'
    BY <1>2, <2>1, <2>7 DEF TxPlace, Sending
  <2>13. Total(batch)' = Total(batch')
    BY DEF Total
  <2> QED BY <1>3, <2>7, <2>8, <2>10, <2>11, <2>12, <2>13 DEF LInv
<1> QED BY <1>4, <1>5

\* The end of a transfer frees its first packet's buffer, written or not (transport.rs:242).
LEMMA WriteLanes == ASSUME IInv, WriteEnds PROVE LInv'
<1>1. LInv /\ LanesTyped /\ batch \in Seq(Packets) /\ free \in [Lanes -> Nat]
  BY LanesFromInvariant DEF LInv
<1>2. /\ pc["tx"] \in {"await", "write"} /\ batch' = <<>> /\ queue' = queue /\ held' = held
      /\ free' = [free EXCEPT ![batch[1].lane] = @ + 1]
      /\ pc'["tx"] = "peek"
  BY DEF WriteEnds, WrittenFrom, Goto, IInv, TypeOK, Tasks
<1>3. batch # <<>>
  BY <1>1, <1>2 DEF LInv, TxPlace, Sending
<1> DEFINE l == batch[1].lane
<1>4. l \in Lanes
  <2>1. batch[1] \in Packets
    BY <1>1, <1>3
  <2> QED BY <2>1 DEF Packets, Config, RequestChunks, Chunk, Lanes
<1>5. \A m \in Lanes : Waiting(m)' = Waiting(m) /\ First1(m)' = 0
  BY <1>2 DEF Waiting, First1
<1> HIDE DEF l
<1>6. ASSUME NEW m \in Lanes PROVE (free[m] + Waiting(m) + First1(m))' = BufNum[m]
  <2>1. /\ free[m] \in Nat /\ Waiting(m) \in Nat /\ First1(m) \in Nat /\ BufNum[m] \in Nat
        /\ free[m] + Waiting(m) + First1(m) = BufNum[m]
    BY <1>1, LaneCounts
  <2>2. CASE m = l
    <3>1. free'[m] = free[m] + 1 /\ First1(m) = 1 /\ Waiting(m)' = Waiting(m) /\ First1(m)' = 0
      BY <1>1, <1>2, <1>3, <1>5, <2>2 DEF First1, l
    <3> QED BY ONLY <2>1, <3>1
  <2>3. CASE m # l
    <3>1. free'[m] = free[m] /\ First1(m) = 0 /\ Waiting(m)' = Waiting(m) /\ First1(m)' = 0
      BY <1>1, <1>2, <1>3, <1>5, <2>3 DEF First1, l
    <3> QED BY ONLY <2>1, <3>1
  <2> QED BY <2>2, <2>3
<1>7. free' \in [Lanes -> Nat]
  BY <1>1, <1>2, <1>4 DEF l
<1>8. Total(batch)' <= BufSize /\ batch' \in Seq(Packets)
  <2>1. <<>> \in Seq(Packets) /\ Len(<<>>) = 0 /\ DOMAIN <<>> = {}
    OBVIOUS
  <2>2. {i \in DOMAIN <<>> : Full(<<>>[i])} = {}
    BY <2>1
  <2> QED BY <1>2, <2>1, <2>2, FS_EmptySet DEF Total, BufSize
<1>9. TxPlace'
  BY <1>2 DEF TxPlace, Sending
<1>10. LanesTyped'
  BY <1>1, <1>2 DEF LanesTyped
<1> QED BY <1>6, <1>7, <1>8, <1>9, <1>10 DEF LInv

\* tx_put moves a free buffer into its lane (transport.rs:162).
LEMMA PutLanes ==
  ASSUME IInv, NEW s \in Senders, TxPut(s), PacketOf(s) \in Packets
  PROVE  LInv'
<1> DEFINE p == PacketOf(s)
           l == p.lane
<1>1. LInv /\ LanesTyped /\ free \in [Lanes -> Nat]
  BY LanesFromInvariant DEF LInv
<1>2. /\ free[l] > 0 /\ free' = [free EXCEPT ![l] = @ - 1]
      /\ queue' = [queue EXCEPT ![l] = Append(@, p)] /\ held' = held /\ batch' = batch
      /\ pc'["tx"] = pc["tx"]
  BY DEF TxPut, Goto, IInv, TypeOK, Senders
<1>3. l \in Lanes /\ p \in OfLane(l)
  BY DEF Packets, Config, RequestChunks, Chunk, Lanes, OfLane
<1> HIDE DEF p, l
<1>4. \A m \in Lanes : queue[m] \in Seq(OfLane(m)) /\ held[m] \in Seq(OfLane(m))
  BY <1>1 DEF LanesTyped
<1>5. /\ queue \in [Lanes -> Seq(Packets)] /\ held \in [Lanes -> Seq(Packets)]
      /\ \A m \in Lanes : queue'[m] = IF m = l THEN Append(queue[m], p) ELSE queue[m]
      /\ \A m \in Lanes : free'[m] = IF m = l THEN free[m] - 1 ELSE free[m]
  BY <1>1, <1>2, <1>3 DEF LanesTyped
<1>6. Append(queue[l], p) \in Seq(OfLane(l)) /\ Len(Append(queue[l], p)) = Len(queue[l]) + 1
  BY <1>3, <1>4
<1>7. \A m \in Lanes : First1(m)' = First1(m)
  BY <1>2 DEF First1
<1>8. ASSUME NEW m \in Lanes
      PROVE  (free[m] + Waiting(m) + First1(m))' = BufNum[m] /\ Len(queue'[m]) <= BufNum[m]
  <2>1. /\ free[m] \in Nat /\ Waiting(m) \in Nat /\ First1(m) \in Nat /\ BufNum[m] \in Nat
        /\ free[m] + Waiting(m) + First1(m) = BufNum[m]
    BY <1>1, LaneCounts
  <2>2. Len(queue[m]) \in Nat /\ Len(held[m]) \in Nat /\ Waiting(m) = Len(queue[m]) + Len(held[m])
    BY <1>1, WaitingCounts DEF Waiting
  <2>3. CASE m = l
    <3>1. /\ free'[m] = free[m] - 1 /\ Len(queue'[m]) = Len(queue[m]) + 1 /\ free[m] > 0
          /\ First1(m)' = First1(m)
      BY <1>2, <1>3, <1>5, <1>6, <1>7, <2>3
    <3>2. Waiting(m)' = (Len(queue[m]) + 1) + Len(held[m])
      BY <1>2, <3>1 DEF Waiting
    <3> DEFINE i == free[m]
               j == Len(queue[m])
               k == Len(held[m])
               b == First1(m)
               n == BufNum[m]
    <3>3. /\ i \in Nat /\ j \in Nat /\ k \in Nat /\ b \in Nat /\ n \in Nat
          /\ i > 0 /\ i + (j + k) + b = n
      BY <2>1, <2>2, <3>1
    <3> HIDE DEF i, j, k, b, n
    <3>4. (i - 1) + ((j + 1) + k) + b = n /\ j + 1 <= n
      BY ONLY <3>3
    <3>5. /\ (free[m] - 1) + ((Len(queue[m]) + 1) + Len(held[m])) + First1(m) = BufNum[m]
          /\ Len(queue[m]) + 1 <= BufNum[m]
      BY <3>4 DEF i, j, k, b, n
    <3> QED BY <3>1, <3>2, <3>5
  <2>4. CASE m # l
    <3>1. free'[m] = free[m] /\ queue'[m] = queue[m] /\ Waiting(m)' = Waiting(m)
      BY <1>2, <1>5, <2>4 DEF Waiting
    <3>2. Len(queue[m]) <= BufNum[m]
      BY <1>1 DEF LanesTyped
    <3> QED BY <1>7, <2>1, <3>1, <3>2
  <2> QED BY <2>3, <2>4
<1>9. LanesTyped'
  <2>1. \A m \in Lanes : queue'[m] \in Seq(OfLane(m))
    BY <1>4, <1>5, <1>6
  <2>2. queue' \in [Lanes -> Seq(Packets)]
    <3>1. DOMAIN queue' = Lanes /\ queue' = [m \in Lanes |-> queue'[m]]
      BY <1>2, <1>5
    <3> QED BY <2>1, <3>1, LaneLists
  <2>3. \A m \in Lanes : Len(held[m]) <= 1
    BY <1>1 DEF LanesTyped
  <2> QED BY <1>2, <1>4, <1>5, <1>8, <2>1, <2>2, <2>3 DEF LanesTyped
<1>10. free' \in [Lanes -> Nat]
  <2>1. free[l] - 1 \in Nat
    BY <1>1, <1>2, <1>3
  <2> QED BY <1>1, <1>2, <1>3, <2>1
<1>11. TxPlace' /\ Total(batch)' = Total(batch)
  BY <1>1, <1>2 DEF LInv, TxPlace, Sending, Total
<1> QED BY <1>1, <1>2, <1>8, <1>9, <1>10, <1>11 DEF LInv

-----------------------------------------------------------------------------
(* The host's tasks. *)

\* As TypeOK has it.
Numbers ==
  /\ pending \in 0 .. (CtrlBufNum + TxBufNum)
  /\ sent \in 0 .. MaxData /\ tries \in 0 .. StartAttempts /\ failures \in Nat
HostTyped ==
  pc \in Tasks /\ link \in LinkStates /\ rx \in RxStates /\ rpc \in RpcStates /\ Numbers

\* What the tasks read and write is in range.
LEMMA ValuesTyped ==
  ASSUME IInv
  PROVE  /\ HostTyped /\ Sound(cp) /\ cp \in CpStates
         /\ cp.tokens \in 0 .. (TokenSpan - 1) /\ cp.length \in 0 .. (LengthSpan - 1)
         /\ cp.shown \in Seq(Messages) /\ cp.aggregates \in BOOLEAN /\ cp.aggregates \in Aggregating
         /\ Unread \in 0 .. (LengthSpan - 1)
         /\ (link.txCount + 1) % TokenSpan \in 0 .. (TokenSpan - 1)
         /\ (link.rxCount + Unread) % LengthSpan \in 0 .. (LengthSpan - 1)
         /\ pc["rx"] \in {"dispatch", "open", "hand", "done"} =>
              /\ rx.stream # <<>> /\ rx.stream[1] \in Messages
              /\ rx.stream \in Seq(Messages) /\ Tail(rx.stream) \in Seq(Messages)
<1>1. HostTyped /\ cp \in CpStates
  BY DEF IInv, TypeOK, CpTypeOK, HostTyped, Numbers
<1>2. Sound(cp)
  BY DEF IInv, TypeOK, CpTypeOK, BuffersKept, Sound, Buffers, CtrlBuffers
<1>3. /\ cp.tokens \in 0 .. (TokenSpan - 1) /\ cp.length \in 0 .. (LengthSpan - 1)
      /\ cp.shown \in Seq(Messages) /\ cp.aggregates \in BOOLEAN /\ cp.aggregates \in Aggregating
  BY <1>1, CoprocessorAssumption DEF CpStates, CoprocessorAssumption
<1>5. Unread \in 0 .. (LengthSpan - 1)
  <2>1. rx.length - link.rxCount \in Int
    BY <1>1, Constants DEF HostTyped, LinkStates, RxStates
  <2> QED BY <2>1, ModProperty, Constants DEF Unread
<1>6. (link.txCount + 1) % TokenSpan \in 0 .. (TokenSpan - 1)
  <2>1. link.txCount + 1 \in Int
    BY <1>1, Constants DEF HostTyped, LinkStates
  <2> QED BY <2>1, ModProperty, Constants
<1>7. (link.rxCount + Unread) % LengthSpan \in 0 .. (LengthSpan - 1)
  <2>1. link.rxCount + Unread \in Int
    BY <1>1, <1>5, Constants DEF HostTyped, LinkStates
  <2> QED BY <2>1, ModProperty, Constants
<1>8. ASSUME pc["rx"] \in {"dispatch", "open", "hand", "done"}
      PROVE  /\ rx.stream # <<>> /\ rx.stream[1] \in Messages
             /\ rx.stream \in Seq(Messages) /\ Tail(rx.stream) \in Seq(Messages)
  <2>1. rx.stream # <<>> /\ rx.stream \in Seq(Messages)
    BY <1>1, <1>8 DEF IInv, RxPlace, HandingOver, HostTyped, RxStates
  <2>2. Head(rx.stream) \in Messages /\ Tail(rx.stream) \in Seq(Messages)
    BY <2>1, TailLength
  <2>3. Head(rx.stream) = rx.stream[1]
    BY <2>1
  <2> QED BY <2>1, <2>2, <2>3
<1> QED BY <1>1, <1>2, <1>3, <1>5, <1>6, <1>7, <1>8

\* Every packet that is put in is one of those there are.
LEMMA PacketsPut ==
  ASSUME IInv, NEW s \in Senders, pc[s] = "put"
  PROVE  PacketOf(s) \in Packets
<1>1. HostTyped
  BY ValuesTyped
<1>2. CASE s = "call"
  <2>1. rpc.uid \in Requests /\ rpc.part \in 1 .. Chunks[rpc.uid]
    BY <1>2 DEF IInv, SendersPlace
  <2> QED BY <1>2, <2>1 DEF PacketOf, Packets, RequestChunks
<1>3. CASE s = "net"
  <2>1. sent + 1 \in Nat \ {0}
    BY <1>1, Constants DEF HostTyped, Numbers
  <2> QED BY <1>3, <2>1 DEF PacketOf, Packets, Data
<1>4. CASE s = "rx"
  BY <1>4 DEF PacketOf, Packets
<1> QED BY <1>2, <1>3, <1>4 DEF Senders

\* What the tasks keep stays in range.
LEMMA TypedSteps == ASSUME IInv, [Next]_vars PROVE HostTyped'
<1>t. /\ pc \in Tasks /\ link \in LinkStates /\ rx \in RxStates /\ rpc \in RpcStates /\ Numbers
  BY ValuesTyped DEF HostTyped, Numbers
<1>c. /\ TokenSpan \in Nat \ {0} /\ LengthSpan \in Nat \ {0} /\ StartAttempts \in Nat \ {0}
      /\ CtrlBufNum \in Nat /\ TxBufNum \in Nat /\ MaxData \in Nat /\ MaxFailures \in Nat
  BY Constants
<1>v. /\ cp.tokens \in 0 .. (TokenSpan - 1) /\ cp.length \in 0 .. (LengthSpan - 1)
      /\ cp.shown \in Seq(Messages) /\ cp.aggregates \in BOOLEAN
      /\ (link.txCount + 1) % TokenSpan \in 0 .. (TokenSpan - 1)
      /\ (link.rxCount + Unread) % LengthSpan \in 0 .. (LengthSpan - 1)
  BY ValuesTyped
<1>s. pc["rx"] \in {"dispatch", "open", "hand", "done"} =>
        /\ rx.stream # <<>> /\ rx.stream[1] \in Messages
        /\ rx.stream \in Seq(Messages) /\ Tail(rx.stream) \in Seq(Messages)
  BY ValuesTyped
<1>n. 0 \in Messages /\ Requests \subseteq Messages
  BY DEF Messages, INIT
<1>z. /\ 0 \in 0 .. (TokenSpan - 1) /\ 0 \in 0 .. (LengthSpan - 1)
      /\ 0 \in 0 .. 1 /\ 1 \in 0 .. 1 /\ 1 \in Nat \ {0}
  BY <1>c
<1>o. \A i \in Nat \ {0} : i + 1 \in Nat \ {0}
  OBVIOUS
<1>b. StartPlace
  BY DEF IInv
<1>1. CASE Peek
  <2>1. pc' \in Tasks
    BY <1>1, <1>t DEF Peek, Looks, Goto, Tasks
  <2> QED BY <1>1, <1>t, <2>1 DEF Peek, Looks, Numbers, HostTyped
<1>2. CASE Sleep
  <2>1. pc' \in Tasks
    BY <1>2, <1>t DEF Sleep, Goto, Tasks
  <2>2. Numbers'
    BY <1>2, <1>t, <1>c DEF Sleep, Numbers
  <2> QED BY <1>2, <1>t, <2>1, <2>2 DEF Sleep, Numbers, HostTyped
<1>3. CASE Reserve
  <2>1. pc' \in Tasks
    BY <1>3, <1>t DEF Reserve, Goto, Tasks
  <2> QED BY <1>3, <1>t, <2>1 DEF Reserve, lanes, Numbers, HostTyped
<1>4. CASE Pick
  <2>1. pc' \in Tasks
    BY <1>4, <1>t DEF Pick, Goto, Tasks
  <2> QED BY <1>4, <1>t, <2>1 DEF Pick, Numbers, HostTyped
<1>5. CASE Fill
  <2>1. pc' \in Tasks
    BY <1>5, <1>t DEF Fill, Goto, Tasks
  <2> QED BY <1>5, <1>t, <2>1 DEF Fill, Numbers, HostTyped
<1>6. CASE Await
  <2>1. pc' \in Tasks
    BY <1>6, <1>t DEF Await, Goto, Tasks
  <2> QED BY <1>6, <1>t, <2>1 DEF Await, lanes, Numbers, HostTyped
<1>7. CASE Write
  <2>1. pc' \in Tasks
    BY <1>7, <1>t DEF Write, WriteEnds, WrittenFrom, Goto, Tasks
  <2>2. link' \in LinkStates
    BY <1>7, <1>t, <1>z, <1>v DEF Write, WriteEnds, WrittenFrom, Counted, LinkStates
  <2> QED BY <1>7, <1>t, <2>1, <2>2 DEF Write, WriteEnds, WrittenFrom, Numbers, HostTyped
<1>8. CASE WriteFails
  <2>1. pc' \in Tasks
    BY <1>8, <1>t DEF WriteFails, WriteEnds, WrittenFrom, Goto, Tasks
  <2>2. link' \in LinkStates
    BY <1>8, <1>t, <1>z, <1>v DEF WriteFails, WriteEnds, WrittenFrom, LinkAfterFailure, LinkStates
  <2>3. Numbers'
    BY <1>8, <1>t, <1>c DEF WriteFails, WriteEnds, WrittenFrom, Numbers
  <2> QED BY <1>8, <1>t, <2>1, <2>2, <2>3 DEF WriteFails, WriteEnds, WrittenFrom, Numbers, HostTyped
<1>9. CASE ReadStatus
  <2>1. pc' \in Tasks
    BY <1>9, <1>t DEF ReadStatus, lanes, Goto, Tasks
  <2>2. rx' \in RxStates
    BY <1>9, <1>t, <1>z, <1>v, <1>s DEF ReadStatus, lanes, RxStates
  <2> QED BY <1>9, <1>t, <2>1, <2>2 DEF ReadStatus, lanes, Numbers, HostTyped
<1>10. CASE StoreTokens
  <2>1. pc' \in Tasks
    BY <1>10, <1>t DEF StoreTokens, lanes, Goto, Tasks
  <2>2. link' \in LinkStates
    BY <1>10, <1>t, <1>z, <1>v DEF StoreTokens, lanes, RxStates, LinkStates
  <2>3. rx' \in RxStates
    BY <1>10, <1>t, <1>z, <1>v, <1>s DEF StoreTokens, lanes, RxStates
  <2> QED BY <1>10, <1>t, <2>1, <2>2, <2>3 DEF StoreTokens, lanes, Numbers, HostTyped
<1>11. CASE Fetch
  <2>1. pc' \in Tasks
    BY <1>11, <1>t DEF Fetch, Advanced, lanes, Goto, Tasks
  <2>2. link' \in LinkStates
    BY <1>11, <1>t, <1>z, <1>v DEF Fetch, Advanced, lanes, LinkStates
  <2>3. rx' \in RxStates
    BY <1>11, <1>t, <1>z, <1>v, <1>s DEF Fetch, Advanced, lanes, RxStates
  <2> QED BY <1>11, <1>t, <2>1, <2>2, <2>3 DEF Fetch, Advanced, lanes, Numbers, HostTyped
<1>12. CASE ReadFails
  <2>1. pc' \in Tasks
    BY <1>12, <1>t DEF ReadFails, Advanced, lanes, Goto, Tasks
  <2>2. link' \in LinkStates
    BY <1>12, <1>t, <1>z, <1>v DEF ReadFails, Advanced, lanes, LinkStates
  <2>3. Numbers'
    BY <1>12, <1>t, <1>c DEF ReadFails, Advanced, lanes, Numbers
  <2> QED BY <1>12, <1>t, <2>1, <2>2, <2>3 DEF ReadFails, Advanced, lanes, Numbers, HostTyped
<1>13. CASE OnInit
  <2>1. pc' \in Tasks
    BY <1>13, <1>t DEF OnInit, lanes, Goto, Tasks
  <2>2. link' \in LinkStates
    BY <1>13, <1>t, <1>z, <1>v DEF OnInit, lanes, LinkStates
  <2> QED BY <1>13, <1>t, <2>1, <2>2 DEF OnInit, lanes, Numbers, HostTyped
<1>14. CASE Open
  <2>1. pc' \in Tasks
    BY <1>14, <1>t DEF Open, Handled, Then, lanes, Goto, Tasks
  <2>2. link' \in LinkStates
    BY <1>14, <1>t, <1>z, <1>v DEF Open, Handled, Then, lanes, LinkStates
  <2>3. rx' \in RxStates
    BY <1>14, <1>t, <1>z, <1>v, <1>s DEF Open, Handled, Then, lanes, RxStates
  <2> QED BY <1>14, <1>t, <2>1, <2>2, <2>3 DEF Open, Handled, Then, lanes, Numbers, HostTyped
<1>15. CASE Match
  <2>1. pc' \in Tasks
    BY <1>15, <1>t DEF Match, MatchWith, Handled, Then, lanes, Goto, Tasks
  <2>2. rx' \in RxStates /\ rpc' = rpc
    BY <1>15, <1>t, <1>z, <1>v, <1>s DEF Match, MatchWith, Handled, Then, lanes, RxStates
  <2> QED BY <1>15, <1>t, <2>1, <2>2 DEF Match, MatchWith, Handled, Then, lanes, Numbers, HostTyped
<1>16. CASE Clear \/ Hand
  <2>1. pc' \in Tasks
    BY <1>16, <1>t DEF Clear, Hand, Goto, Tasks
  <2>2. rpc' \in RpcStates
    BY <1>16, <1>t, <1>s, <1>n DEF Clear, Hand, RpcStates
  <2> QED BY <1>16, <1>t, <2>1, <2>2 DEF Clear, Hand, lanes, Numbers, HostTyped
<1>17. CASE Reset
  <2>1. pc' \in Tasks
    BY <1>17, <1>t DEF Reset, lanes, Goto, Tasks
  <2>2. link' \in LinkStates
    BY <1>17, <1>t, <1>z, <1>v DEF Reset, lanes, LinkStates
  <2>3. Numbers'
    BY <1>17, <1>t, <1>c, <1>b DEF Reset, lanes, StartPlace, Numbers
  <2> QED BY <1>17, <1>t, <2>1, <2>2, <2>3 DEF Reset, lanes, Numbers, HostTyped
<1>18. CASE Connect
  <2>1. pc' \in Tasks
    BY <1>18, <1>t DEF Connect, lanes, Goto, Tasks
  <2> QED BY <1>18, <1>t, <2>1 DEF Connect, lanes, Numbers, HostTyped
<1>19. CASE ConnectFails
  <2>1. pc' \in Tasks
    BY <1>19, <1>t DEF ConnectFails, NextAttempt, lanes, Goto, Tasks
  <2>2. Numbers'
    BY <1>19, <1>t, <1>c DEF ConnectFails, NextAttempt, lanes, Numbers
  <2> QED BY <1>19, <1>t, <2>1, <2>2 DEF ConnectFails, NextAttempt, lanes, Numbers, HostTyped
<1>20. CASE Notify
  <2>1. pc' \in Tasks
    BY <1>20, <1>t DEF Notify, lanes, Goto, Tasks
  <2> QED BY <1>20, <1>t, <2>1 DEF Notify, lanes, Numbers, HostTyped
<1>21. CASE NotifyFails
  <2>1. pc' \in Tasks
    BY <1>21, <1>t DEF NotifyFails, lanes, Goto, Tasks
  <2>2. Numbers'
    BY <1>21, <1>t, <1>c DEF NotifyFails, lanes, Numbers
  <2> QED BY <1>21, <1>t, <2>1, <2>2 DEF NotifyFails, lanes, Numbers, HostTyped
<1>22. CASE Started
  <2>1. pc' \in Tasks
    BY <1>22, <1>t DEF Started, lanes, Goto, Tasks
  <2>2. link' \in LinkStates
    BY <1>22, <1>t, <1>z, <1>v DEF Started, lanes, LinkStates
  <2>3. Numbers'
    BY <1>22, <1>t, <1>c DEF Started, lanes, Numbers
  <2> QED BY <1>22, <1>t, <2>1, <2>2, <2>3 DEF Started, lanes, Numbers, HostTyped
<1>23. CASE StartTimesOut
  <2>1. pc' \in Tasks
    BY <1>23, <1>t DEF StartTimesOut, NextAttempt, lanes, Goto, Tasks
  <2> QED BY <1>23, <1>t, <2>1 DEF StartTimesOut, NextAttempt, lanes, Numbers, HostTyped
<1>24. CASE Call
  <2>1. pc' \in Tasks
    BY <1>24, <1>t DEF Call, lanes, Goto, Tasks
  <2>2. rpc' \in RpcStates
    <3>1. rpc.uid + 1 \in Requests
      <4>1. Requests = 1 .. Len(Chunks) /\ Len(Chunks) \in Nat
        BY Constants DEF Requests
      <4>2. rpc.uid \in {0} \cup Requests /\ rpc.uid < Len(Chunks)
        BY <1>24, <1>t DEF Call, RpcStates
      <4> QED BY <4>1, <4>2
    <3>2. rpc' = [rpc EXCEPT !.uid = rpc.uid + 1, !.done = 0, !.response = 0,
                             !.pending = rpc.uid + 1]
      BY <1>24 DEF Call
    <3> QED BY <3>1, <3>2, <1>t, <1>z, <1>n DEF RpcStates
  <2> QED BY <1>24, <1>t, <2>1, <2>2 DEF Call, lanes, Numbers, HostTyped
<1>25. CASE Answered
  <2>1. pc' \in Tasks
    BY <1>25, <1>t DEF Answered, Close, lanes, Goto, Tasks
  <2>2. rpc' \in RpcStates
    BY <1>25, <1>t, <1>z, <1>s, <1>n DEF Answered, Close, lanes, RpcStates
  <2> QED BY <1>25, <1>t, <2>1, <2>2 DEF Answered, Close, lanes, Numbers, HostTyped
<1>26. CASE TimeOut
  <2>1. pc' \in Tasks
    BY <1>26, <1>t DEF TimeOut, Close, lanes, Goto, Tasks
  <2>2. rpc' \in RpcStates
    BY <1>26, <1>t, <1>z, <1>s, <1>n DEF TimeOut, Close, lanes, RpcStates
  <2> QED BY <1>26, <1>t, <2>1, <2>2 DEF TimeOut, Close, lanes, Numbers, HostTyped
<1>27. CASE CpStep
  BY <1>27, <1>t DEF CpStep, hostVars, Numbers, HostTyped
<1>28. CASE DataStep
  BY <1>28, <1>t DEF DataStep, hostVars, Numbers, HostTyped
<1>29. ASSUME NEW s \in Senders, TxPut(s) PROVE HostTyped'
  <2>1. pc' \in Tasks
    BY <1>29, <1>t DEF TxPut, Goto, Tasks, Senders
  <2> QED BY <1>29, <1>t, <2>1 DEF TxPut, Numbers, HostTyped
<1>30. ASSUME NEW s \in Senders, TxGive(s) PROVE HostTyped'
  <2>1. pc' \in Tasks
    BY <1>30, <1>t DEF TxGive, Goto, Tasks, Senders
  <2>2. rpc' \in RpcStates
    BY <1>30, <1>t, <1>o DEF TxGive, RpcStates, Senders
  <2>3. Numbers'
    <3>1. pc["net"] = "give" => sent < MaxData
      BY DEF IInv, SendersPlace
    <3>2. pending' \in 0 .. (CtrlBufNum + TxBufNum)
      BY <1>30, <1>t, <1>c DEF TxGive, Given, Numbers
    <3>3. sent' \in 0 .. MaxData
      <4>0. sent \in 0 .. MaxData
        BY <1>t DEF Numbers
      <4>1. sent' = sent \/ (s = "net" /\ sent' = sent + 1)
        BY <1>30 DEF TxGive, Senders
      <4>2. s = "net" => sent < MaxData
        BY <1>30, <3>1 DEF TxGive
      <4> QED BY <1>c, <4>0, <4>1, <4>2
    <3> QED BY <1>30, <1>t, <3>2, <3>3 DEF TxGive, Numbers
  <2> QED BY <1>30, <1>t, <2>1, <2>2, <2>3 DEF TxGive, Numbers, HostTyped
<1>31. CASE Ask \/ Query
  <2>1. pc' \in Tasks
    BY <1>31, <1>t DEF Ask, Query, AskFor, Goto, Tasks
  <2>2. link' \in LinkStates
    BY <1>31, <1>t, <1>v DEF Ask, Query, AskFor, LinkStates
  <2> QED BY <1>31, <1>t, <2>1, <2>2 DEF Ask, Query, AskFor, lanes, Numbers, HostTyped
<1>32. CASE Done
  <2>1. pc' \in Tasks
    BY <1>32, <1>t DEF Done, Then, Goto, Tasks
  <2>2. rx' \in RxStates
    BY <1>32, <1>t, <1>s DEF Done, Handled, RxStates
  <2>3. rpc' \in RpcStates
    BY <1>32, <1>t, <1>z DEF Done, RpcStates
  <2> QED BY <1>32, <1>t, <2>1, <2>2, <2>3 DEF Done, lanes, Numbers, HostTyped
<1>33. CASE UNCHANGED vars
  BY <1>t, <1>33 DEF vars, hostVars, Numbers, HostTyped
<1> QED BY <1>1, <1>2, <1>3, <1>4, <1>5, <1>6, <1>7, <1>8, <1>9, <1>10, <1>11, <1>12, <1>13,
  <1>14, <1>15, <1>16, <1>17, <1>18, <1>19, <1>20, <1>21, <1>22, <1>23, <1>24, <1>25,
  <1>26, <1>27, <1>28, <1>29, <1>30, <1>31, <1>32, <1>33
  DEF Next, TxStep, RxStep, StartStep, Send

\* The coprocessor keeps its buffers, whatever the host does.
LEMMA SoundSteps == ASSUME IInv, [Next]_vars PROVE Sound(cp')
<1>t. Sound(cp) /\ cp \in CpStates /\ cp.aggregates \in Aggregating
  BY ValuesTyped
<1>1. ASSUME cp' = cp PROVE Sound(cp')
  BY <1>t, <1>1
<1>2. CASE Write
  <2>1. cp.loaded > 0 /\ cp' = Written(batch) /\ batch \in Seq(Packets)
    BY <1>2 DEF Write, IInv, TypeOK
  <2> QED BY <1>t, <2>1, WrittenEffect
<1>3. CASE StoreTokens
  <2>1. cp' = [cp EXCEPT !.interrupt = FALSE]
    BY <1>3 DEF StoreTokens
  <2>2. /\ cp' \in CpStates /\ cp'.loaded = cp.loaded /\ cp'.inbox = cp.inbox
        /\ cp'.dataQueue = cp.dataQueue /\ cp'.rpcQueue = cp.rpcQueue /\ cp'.free = cp.free
        /\ cp'.sending = cp.sending /\ cp'.shown = cp.shown
    BY <1>t, <2>1 DEF CpStates
  <2> QED BY <1>t, <2>2 DEF Sound, Buffers, CtrlBuffers
<1>4. CASE Fetch \/ ReadFails
  BY <1>t, <1>4, FetchedEffect DEF Fetch, ReadFails
<1>5. CASE Connect \/ ConnectFails
  BY <1>t, <1>5, BootedEffect DEF Connect, ConnectFails
<1>6. CASE Notify
  <2>1. cp' = [cp EXCEPT !.opening = TRUE]
    BY <1>6 DEF Notify
  <2>2. /\ cp' \in CpStates /\ cp'.loaded = cp.loaded /\ cp'.inbox = cp.inbox
        /\ cp'.dataQueue = cp.dataQueue /\ cp'.rpcQueue = cp.rpcQueue /\ cp'.free = cp.free
        /\ cp'.sending = cp.sending /\ cp'.shown = cp.shown
    BY <1>t, <2>1 DEF CpStates
  <2> QED BY <1>t, <2>2 DEF Sound, Buffers, CtrlBuffers
<1>7. CASE CpStep \/ DataStep
  BY <1>t, <1>7, CpGoes DEF CpStep, DataStep, GoesOn
<1>8. CASE \/ Peek \/ Sleep \/ Reserve \/ Ask \/ Pick \/ Fill \/ Await \/ Query
           \/ WriteFails
  BY <1>1, <1>8
  DEF Peek, Looks, Sleep, Reserve, Ask, AskFor, Pick, Fill, Await, Query, WriteFails
<1>9. CASE ReadStatus \/ OnInit \/ Open \/ Match \/ Clear \/ Hand \/ Done
  BY <1>1, <1>9 DEF ReadStatus, OnInit, Open, Match, MatchWith, Clear, Hand, Done
<1>10. CASE Reset \/ NotifyFails \/ Started \/ StartTimesOut \/ Call \/ Answered \/ TimeOut
  BY <1>1, <1>10
  DEF Reset, NotifyFails, Started, StartTimesOut, Call, Answered, TimeOut, Close
<1>11. ASSUME NEW s \in Senders, TxPut(s) \/ TxGive(s) PROVE Sound(cp')
  BY <1>1, <1>11 DEF TxPut, TxGive
<1>12. CASE UNCHANGED vars
  BY <1>1, <1>12 DEF vars
<1> QED BY <1>2, <1>3, <1>4, <1>5, <1>6, <1>7, <1>8, <1>9, <1>10, <1>11, <1>12
  DEF Next, TxStep, RxStep, StartStep, Send

\* So does the host.
LEMMA LaneSteps == ASSUME IInv, [Next]_vars PROVE LInv'
<1>t. pc \in Tasks
  BY ValuesTyped DEF HostTyped
<1>1. ASSUME UNCHANGED <<free, queue, held, batch>>,
             Sending' <=> Sending
      PROVE  LInv'
  BY <1>1, LanesFromInvariant, LanesStay
<1>2. CASE Peek
  BY <1>2, PeekLanes
<1>3. CASE Pick
  BY <1>3, PickLanes
<1>4. CASE Fill
  BY <1>4, FillLanes
<1>5. CASE Write \/ WriteFails
  BY <1>5, WriteLanes DEF Write, WriteFails
<1>6. ASSUME NEW s \in Senders, TxPut(s) PROVE LInv'
  <2>1. PacketOf(s) \in Packets
    BY <1>6, PacketsPut DEF TxPut
  <2> QED BY <1>6, <2>1, PutLanes
<1>7. CASE Sleep \/ Reserve \/ Ask \/ Await \/ Query
  <2>1. UNCHANGED <<free, queue, held, batch>>
    BY <1>7 DEF Sleep, Reserve, Ask, AskFor, Await, Query, lanes
  <2>2. Sending' <=> Sending
    BY <1>t, <1>7 DEF Sleep, Reserve, Ask, AskFor, Await, Query, Goto, Tasks, Sending
  <2> QED BY <1>1, <2>1, <2>2
<1>8. CASE RxStep
  <2>1. UNCHANGED <<free, queue, held, batch>>
    BY <1>8 DEF RxStep, ReadStatus, StoreTokens, Fetch, ReadFails, OnInit, Open, Match, MatchWith,
                Clear, Hand, Done, lanes
  <2>2. pc'["tx"] = pc["tx"]
    BY <1>t, <1>8 DEF RxStep, ReadStatus, StoreTokens, Fetch, ReadFails, OnInit, Open, Match,
                      MatchWith, Clear, Hand, Done, Then, Goto, Tasks
  <2> QED BY <1>1, <2>1, <2>2 DEF Sending
<1>9. CASE StartStep \/ Call \/ Answered \/ TimeOut
  <2>1. UNCHANGED <<free, queue, held, batch>>
    BY <1>9 DEF StartStep, Reset, Connect, ConnectFails, Notify, NotifyFails, Started,
                StartTimesOut, Call, Answered, TimeOut, Close, lanes
  <2>2. pc'["tx"] = pc["tx"]
    BY <1>t, <1>9 DEF StartStep, Reset, Connect, ConnectFails, Notify, NotifyFails, Started,
                      StartTimesOut, Call, Answered, TimeOut, Close, Goto, Tasks
  <2> QED BY <1>1, <2>1, <2>2 DEF Sending
<1>10. CASE CpStep \/ DataStep \/ UNCHANGED vars
  BY <1>1, <1>10 DEF CpStep, DataStep, hostVars, vars, Sending
<1>11. ASSUME NEW s \in Senders, TxGive(s) PROVE LInv'
  <2>1. UNCHANGED <<free, queue, held, batch>>
    BY <1>11 DEF TxGive
  <2>2. pc'["tx"] = pc["tx"]
    BY <1>t, <1>11 DEF TxGive, Goto, Tasks, Senders
  <2> QED BY <1>1, <2>1, <2>2 DEF Sending
<1> QED BY <1>2, <1>3, <1>4, <1>5, <1>6, <1>7, <1>8, <1>9, <1>10, <1>11
  DEF Next, TxStep, Send

\* rx_task has at hand what it works on.
LEMMA RxSteps == ASSUME IInv, [Next]_vars PROVE RxPlace'
<1>t. /\ pc \in Tasks /\ rx \in RxStates /\ cp \in CpStates /\ Sound(cp)
      /\ RxPlace /\ StartPlace
  BY ValuesTyped DEF HostTyped, IInv
<1>1. ASSUME pc'["rx"] = pc["rx"], rx'.stream = rx.stream,
             cp'.shown = cp.shown, cp'.interrupt = cp.interrupt
      PROVE  RxPlace'
  BY <1>t, <1>1 DEF RxPlace, HandingOver
<1>2. CASE TxStep
  <2>1. pc'["rx"] = pc["rx"] /\ rx' = rx
    BY <1>t, <1>2 DEF TxStep, Peek, Looks, Sleep, Reserve, Ask, AskFor, Pick, Fill, Await, Query,
                      Write, WriteFails, WriteEnds, WrittenFrom, Goto, Tasks
  <2>2. cp' = cp \/ (cp.loaded > 0 /\ cp' = Written(batch) /\ batch \in Seq(Packets))
    BY <1>2 DEF TxStep, Peek, Looks, Sleep, Reserve, Ask, AskFor, Pick, Fill, Await, Query, Write,
                WriteFails, IInv, TypeOK
  <2>3. cp'.shown = cp.shown /\ cp'.interrupt = cp.interrupt
    <3>1. CASE cp' = cp
      BY <3>1
    <3>2. CASE cp.loaded > 0 /\ cp' = Written(batch) /\ batch \in Seq(Packets)
      BY <1>t, <3>2, WrittenEffect
    <3> QED BY <2>2, <3>1, <3>2
  <2> QED BY <1>1, <2>1, <2>3
<1>3. CASE ReadStatus
  <2>1. /\ pc["rx"] = "wait" /\ pc'["rx"] = "store" /\ rx'.stream = rx.stream /\ cp' = cp
        /\ cp.interrupt
    BY <1>t, <1>3 DEF ReadStatus, Goto, Tasks, RxStates
  <2> QED BY <1>t, <2>1 DEF RxPlace, HandingOver
<1>4. CASE StoreTokens
  <2>1. /\ pc["rx"] = "store" /\ pc'["rx"] \in {"fetch", "wait"} /\ rx'.stream = rx.stream
        /\ cp'.shown = cp.shown /\ cp'.interrupt = FALSE
    BY <1>t, <1>4 DEF StoreTokens, Goto, Tasks, RxStates, CpStates
  <2> QED BY <1>t, <2>1 DEF RxPlace, HandingOver
<1>5. CASE Fetch
  <2>1. /\ pc["rx"] = "fetch" /\ pc'["rx"] = "dispatch" /\ rx'.stream = cp.shown
        /\ cp' = Fetched
    BY <1>t, <1>5 DEF Fetch, Goto, Tasks, RxStates
  <2>2. cp.shown # <<>> /\ ~cp.interrupt
    BY <1>t, <2>1 DEF RxPlace, HandingOver
  <2>3. cp'.interrupt => cp'.shown # <<>>
    BY <1>t, <2>1, <2>2, FetchedEffect
  <2> QED BY <2>1, <2>2, <2>3 DEF RxPlace, HandingOver
<1>6. CASE ReadFails
  <2>1. /\ pc["rx"] = "fetch" /\ pc'["rx"] = "wait" /\ rx' = rx /\ cp' = Fetched
    BY <1>t, <1>6 DEF ReadFails, Goto, Tasks
  <2>2. cp'.interrupt => cp'.shown # <<>>
    BY <1>t, <2>1, FetchedEffect DEF RxPlace, HandingOver
  <2> QED BY <1>t, <2>1, <2>2 DEF RxPlace, HandingOver
<1>7. CASE OnInit
  <2>1. pc["rx"] = "dispatch" /\ pc'["rx"] = "put" /\ rx' = rx /\ cp' = cp
    BY <1>t, <1>7 DEF OnInit, Goto, Tasks
  <2> QED BY <1>t, <2>1 DEF RxPlace, HandingOver
<1>8. ASSUME pc["rx"] \in {"dispatch", "open", "hand", "done"}, rx' = Handled, Then(rx'.stream),
             cp' = cp
      PROVE  RxPlace'
  <2>1. pc'["rx"] = IF rx'.stream = <<>> THEN "wait" ELSE "dispatch"
    BY <1>t, <1>8 DEF Then, Goto, Tasks
  <2> QED BY <1>t, <1>8, <2>1 DEF RxPlace, HandingOver
<1>9. CASE Open
  BY <1>8, <1>9 DEF Open
<1>10. CASE Match
  <2>1. CASE rx.stream[1] \in {rpc.pending}
    <3>1. /\ pc["rx"] = "dispatch" /\ pc'["rx"] = "clear" /\ rx' = rx /\ cp' = cp
          /\ rx.stream[1] # INIT
      BY <1>t, <1>10, <2>1 DEF Match, MatchWith, Goto, Tasks
    <3> QED BY <1>t, <3>1 DEF RxPlace, HandingOver
  <2>2. CASE rx.stream[1] \notin {rpc.pending}
    BY <1>8, <1>10, <2>2 DEF Match, MatchWith
  <2> QED BY <2>1, <2>2
<1>11. CASE Clear \/ Hand
  <2>1. HandingOver /\ HandingOver' /\ rx' = rx /\ cp' = cp
    BY <1>t, <1>11 DEF Clear, Hand, Goto, Tasks, HandingOver
  <2> QED BY <1>t, <2>1 DEF RxPlace, HandingOver
<1>18. CASE Done
  BY <1>8, <1>18 DEF Done
<1>12. CASE Connect \/ ConnectFails
  <2>1. pc["start"] = "connect" /\ cp' = Booted(cp.aggregates) /\ rx' = rx
    BY <1>12 DEF Connect, ConnectFails
  <2>2. pc["rx"] \in {"off", "wait"}
    BY <1>t, <2>1 DEF StartPlace, Silent
  <2>3. pc'["rx"] \in {"off", "wait"}
    BY <1>t, <1>12, <2>2 DEF Connect, ConnectFails, Goto, Tasks
  <2>4. cp'.interrupt = FALSE
    BY <2>1 DEF Booted
  <2> QED BY <1>t, <2>1, <2>2, <2>3, <2>4 DEF RxPlace, HandingOver
<1>13. CASE Reset \/ Notify \/ NotifyFails \/ Started \/ StartTimesOut
  <2>1. pc'["rx"] = pc["rx"] /\ rx' = rx
    BY <1>t, <1>13 DEF Reset, Notify, NotifyFails, Started, StartTimesOut, Goto, Tasks
  <2>2. cp'.shown = cp.shown /\ cp'.interrupt = cp.interrupt
    BY <1>t, <1>13 DEF Reset, Notify, NotifyFails, Started, StartTimesOut, CpStates
  <2> QED BY <1>1, <2>1, <2>2
<1>14. CASE Call \/ Answered \/ TimeOut
  <2>1. pc'["rx"] = pc["rx"] /\ rx' = rx /\ cp' = cp
    BY <1>t, <1>14 DEF Call, Answered, TimeOut, Close, Goto, Tasks
  <2> QED BY <1>1, <2>1
<1>15. ASSUME NEW s \in Senders, TxPut(s) \/ TxGive(s) PROVE RxPlace'
  <2>1. rx' = rx /\ cp' = cp
    BY <1>15 DEF TxPut, TxGive
  <2>2. CASE s # "rx"
    <3>1. pc'["rx"] = pc["rx"]
      BY <1>t, <1>15, <2>2 DEF TxPut, TxGive, Goto, Tasks, Senders
    <3> QED BY <1>1, <2>1, <3>1
  <2>3. CASE s = "rx"
    <3>1. pc["rx"] \in {"put", "give"} /\ pc'["rx"] \in {"give", "open"}
      BY <1>t, <1>15, <2>3 DEF TxPut, TxGive, Goto, Tasks
    <3> QED BY <1>t, <2>1, <3>1 DEF RxPlace, HandingOver
  <2> QED BY <2>2, <2>3
<1>16. CASE CpStep \/ DataStep
  <2>1. GoesOn(cp, cp') /\ pc' = pc /\ rx' = rx
    BY <1>t, <1>16, CpGoes DEF CpStep, DataStep, hostVars
  <2>2. /\ cp.shown # <<>> => cp'.shown = cp.shown /\ cp'.interrupt = cp.interrupt
        /\ cp'.interrupt => cp.interrupt \/ cp'.shown # <<>>
    BY <2>1 DEF GoesOn
  <2> QED BY <1>t, <2>1, <2>2 DEF RxPlace, HandingOver
<1>17. CASE UNCHANGED vars
  BY <1>1, <1>17 DEF vars, hostVars
<1> QED BY <1>2, <1>3, <1>4, <1>5, <1>6, <1>7, <1>9, <1>10, <1>11, <1>12, <1>13, <1>14, <1>15,
           <1>16, <1>17, <1>18
  DEF Next, RxStep, StartStep, Send

\* Calls and data put in what they are to.
LEMMA SendersSteps == ASSUME IInv, [Next]_vars PROVE SendersPlace'
<1>t. /\ pc \in Tasks /\ rpc \in RpcStates /\ sent \in 0 .. MaxData /\ SendersPlace
  BY ValuesTyped DEF HostTyped, Numbers, IInv
<1>c. MaxData \in Nat /\ Chunks \in Seq(Nat \ {0})
  BY Constants
<1>1. ASSUME pc'["call"] = pc["call"], pc'["net"] = pc["net"], UNCHANGED <<rpc, sent>>
      PROVE  SendersPlace'
  BY <1>t, <1>1 DEF SendersPlace
<1>2. CASE TxStep
  <2>1. pc'["call"] = pc["call"] /\ pc'["net"] = pc["net"] /\ UNCHANGED <<rpc, sent>>
    BY <1>t, <1>2 DEF TxStep, Peek, Looks, Sleep, Reserve, Ask, AskFor, Pick, Fill, Await, Query,
                      Write, WriteFails, WriteEnds, WrittenFrom, Goto, Tasks
  <2> QED BY <1>1, <2>1
<1>3. CASE ReadStatus \/ StoreTokens \/ Fetch \/ ReadFails \/ OnInit \/ Open \/ Match
  <2>1. pc'["call"] = pc["call"] /\ pc'["net"] = pc["net"] /\ UNCHANGED <<rpc, sent>>
    BY <1>t, <1>3 DEF ReadStatus, StoreTokens, Fetch, ReadFails, OnInit, Open, Match, MatchWith,
                      Then, Goto, Tasks
  <2> QED BY <1>1, <2>1
<1>4. CASE Clear \/ Hand \/ Done
  <2>1. /\ pc'["call"] = pc["call"] /\ pc'["net"] = pc["net"] /\ sent' = sent
        /\ rpc'.uid = rpc.uid /\ rpc'.part = rpc.part
    BY <1>t, <1>4 DEF Clear, Hand, Done, Then, Goto, Tasks, RpcStates
  <2> QED BY <1>t, <2>1 DEF SendersPlace
<1>5. CASE StartStep
  <2>1. pc'["call"] = pc["call"] /\ pc'["net"] = pc["net"] /\ UNCHANGED <<rpc, sent>>
    BY <1>t, <1>5 DEF StartStep, Reset, Connect, ConnectFails, Notify, NotifyFails, Started,
                      StartTimesOut, Goto, Tasks
  <2> QED BY <1>1, <2>1
<1>6. CASE Call
  <2>1. /\ pc["call"] = "idle" /\ pc'["call"] = "put" /\ pc'["net"] = pc["net"] /\ sent' = sent
        /\ rpc'.uid = rpc.uid + 1 /\ rpc'.part = rpc.part /\ rpc.uid < Len(Chunks)
    BY <1>t, <1>6 DEF Call, Goto, Tasks, RpcStates
  <2>2. rpc'.uid \in Requests
    <3>1. Requests = 1 .. Len(Chunks) /\ Len(Chunks) \in Nat
      BY <1>c DEF Requests
    <3>2. rpc.uid \in {0} \cup Requests
      BY <1>t DEF RpcStates
    <3> QED BY <2>1, <3>1, <3>2
  <2>3. rpc'.part \in 1 .. Chunks[rpc'.uid]
    <3>1. Chunks[rpc'.uid] \in Nat \ {0}
      BY <1>c, <2>2 DEF Requests
    <3>2. rpc'.part = 1
      BY <1>t, <2>1 DEF SendersPlace
    <3> QED BY <3>1, <3>2
  <2> QED BY <1>t, <2>1, <2>2, <2>3 DEF SendersPlace
<1>7. CASE Answered \/ TimeOut
  <2>1. /\ pc'["call"] = "idle" /\ pc'["net"] = pc["net"] /\ sent' = sent /\ rpc'.part = 1
    BY <1>t, <1>7 DEF Answered, TimeOut, Close, Goto, Tasks, RpcStates
  <2> QED BY <1>t, <2>1 DEF SendersPlace
<1>8. ASSUME NEW s \in Senders, TxPut(s) PROVE SendersPlace'
  <2>1. UNCHANGED <<rpc, sent>> /\ (s = "net" => sent < MaxData) /\ pc[s] = "put"
        /\ pc' = [pc EXCEPT ![s] = "give"]
    BY <1>8 DEF TxPut, Goto
  <2> QED BY <1>t, <2>1 DEF SendersPlace, Senders, Tasks
<1>9. ASSUME NEW s \in Senders, TxGive(s) PROVE SendersPlace'
  <2>1. CASE s = "call"
    <3>1. pc["call"] = "give" /\ pc'["net"] = pc["net"] /\ sent' = sent
      BY <1>t, <1>9, <2>1 DEF TxGive, Goto, Tasks
    <3>2. rpc.uid \in Requests /\ rpc.part \in 1 .. Chunks[rpc.uid]
      BY <1>t, <3>1 DEF SendersPlace
    <3>3. CASE rpc.part < Chunks[rpc.uid]
      <4>1. pc'["call"] = "put" /\ rpc'.uid = rpc.uid /\ rpc'.part = rpc.part + 1
        BY <1>t, <1>9, <2>1, <3>3 DEF TxGive, Goto, Tasks, RpcStates
      <4>2. rpc'.part \in 1 .. Chunks[rpc'.uid]
        <5>1. Chunks[rpc.uid] \in Nat
          BY <1>c, <3>2 DEF Requests
        <5> QED BY <3>2, <3>3, <4>1, <5>1
      <4> QED BY <1>t, <3>1, <3>2, <4>1, <4>2 DEF SendersPlace
    <3>4. CASE ~(rpc.part < Chunks[rpc.uid])
      <4>1. pc'["call"] = "await" /\ rpc' = rpc
        BY <1>t, <1>9, <2>1, <3>4 DEF TxGive, Goto, Tasks
      <4> QED BY <1>t, <3>1, <3>2, <4>1 DEF SendersPlace
    <3> QED BY <3>3, <3>4
  <2>2. CASE s = "net"
    <3>1. pc'["call"] = pc["call"] /\ pc'["net"] = "put" /\ rpc' = rpc
      BY <1>t, <1>9, <2>2 DEF TxGive, Goto, Tasks
    <3> QED BY <1>t, <3>1 DEF SendersPlace
  <2>3. CASE s = "rx"
    <3>1. pc'["call"] = pc["call"] /\ pc'["net"] = pc["net"] /\ UNCHANGED <<rpc, sent>>
      BY <1>t, <1>9, <2>3 DEF TxGive, Goto, Tasks
    <3> QED BY <1>1, <3>1
  <2> QED BY <2>1, <2>2, <2>3 DEF Senders
<1>10. CASE CpStep \/ DataStep \/ UNCHANGED vars
  BY <1>1, <1>10 DEF CpStep, DataStep, vars, hostVars
<1> QED BY <1>2, <1>3, <1>4, <1>5, <1>6, <1>7, <1>8, <1>9, <1>10 DEF Next, RxStep, Send

\* tx_task finds nothing while nothing was put in.
LEMMA TxQuiet ==
  ASSUME IInv, TxStep, Untouched
  PROVE  Untouched' /\ cp' = cp /\ link' = link
<1>t. pc \in Tasks /\ LanesTyped
  BY ValuesTyped DEF HostTyped, IInv, TypeOK
<1>u. /\ \A l \in Lanes : queue[l] = <<>> /\ held[l] = <<>>
      /\ batch = <<>> /\ pc["tx"] \in {"peek", "sleep"}
  BY DEF Untouched, HandingOver
<1>1. CASE Peek
  <2>1. \A l \in Lanes : First(l) = <<>> /\ Peeked(Lanes)[l] = <<>>
    BY <1>u DEF First, Peeked
  <2>2. /\ \A l \in Lanes : queue'[l] = <<>> /\ held'[l] = <<>>
        /\ UNCHANGED <<batch, link, rx, cp>>
    BY <1>1, <2>1 DEF Peek, Looks
  <2>3. pc' = [pc EXCEPT !["tx"] = "sleep"]
    BY <1>1, <2>1 DEF Peek, Goto, Lanes
  <2> QED BY <1>t, <2>2, <2>3 DEF Untouched, HandingOver, Tasks
<1>2. CASE Sleep
  <2>1. UNCHANGED <<queue, held, batch, link, rx, cp>>
    BY <1>2 DEF Sleep
  <2>2. pc' = [pc EXCEPT !["tx"] = "peek"]
    BY <1>2 DEF Sleep, Goto
  <2> QED BY <1>t, <2>1, <2>2 DEF Untouched, HandingOver, Tasks
<1> QED BY <1>u, <1>1, <1>2
  DEF TxStep, Reserve, Ask, Pick, Fill, Await, Query, Write, WriteFails, WriteEnds, WrittenFrom

\* The coprocessor's own steps neither take in what was not sent nor send what
\* was not asked.
LEMMA CpQuiet ==
  ASSUME IInv, CpStep \/ DataStep
  PROVE  Untouched => Untouched' /\ (Silent => Silent')
<1>1. GoesOn(cp, cp') /\ UNCHANGED hostVars
  BY ValuesTyped, CpGoes DEF CpStep, DataStep
<1> QED BY <1>1 DEF GoesOn, Untouched, HandingOver, Silent, hostVars

\* A coprocessor that just booted was not sent anything.
LEMMA BootQuiet ==
  ASSUME IInv, cp' = Booted(cp.aggregates), Untouched, Silent,
         UNCHANGED <<queue, held, batch, link, rx>>, pc'["tx"] = pc["tx"],
         pc'["rx"] \in {"off", "wait"}
  PROVE  Untouched' /\ Silent'
<1>1. AllInit(<<>>)
  BY DEF AllInit
<1>2. cp.aggregates \in Aggregating
  BY ValuesTyped
<1>3. /\ cp'.opening = FALSE /\ cp'.loaded = RxBufNum /\ cp'.tokens = RxBufNum
      /\ cp'.inbox = <<>> /\ cp'.dataQueue = <<>>
      /\ cp'.rpcQueue = <<>> /\ cp'.sending = <<>> /\ cp'.shown = <<>>
  BY <1>2, BootedEffect
<1> QED BY <1>1, <1>3 DEF Untouched, HandingOver, Silent

\* What is in a list is not in its parts if it is not in the whole.
LEMMA PartsOf ==
  ASSUME NEW S, NEW q \in Seq(S), NEW r \in Seq(S), NEW e, e \notin ToSet(q \o r)
  PROVE  e \notin ToSet(q) /\ e \notin ToSet(r)
<1>1. /\ q \o r \in Seq(S) /\ Len(q \o r) = Len(q) + Len(r)
      /\ \A i \in 1 .. Len(q) + Len(r) : (q \o r)[i] = IF i <= Len(q) THEN q[i] ELSE r[i - Len(q)]
  BY ConcatProperty
<1>2. /\ Len(q) \in Nat /\ DOMAIN q = 1 .. Len(q)
      /\ Len(r) \in Nat /\ DOMAIN r = 1 .. Len(r)
      /\ DOMAIN (q \o r) = 1 .. Len(q) + Len(r)
  BY <1>1
<1>3. \A i \in 1 .. Len(q) + Len(r) : (q \o r)[i] # e
  BY <1>2 DEF ToSet
<1>4. ASSUME NEW i \in DOMAIN q PROVE q[i] # e
  <2>1. i \in 1 .. Len(q) + Len(r) /\ i <= Len(q)
    BY <1>2
  <2> QED BY <1>1, <1>3, <2>1
<1>5. ASSUME NEW i \in DOMAIN r PROVE r[i] # e
  <2>1. /\ Len(q) + i \in 1 .. Len(q) + Len(r) /\ ~(Len(q) + i <= Len(q))
        /\ (Len(q) + i) - Len(q) = i
    BY <1>2
  <2> QED BY <1>1, <1>3, <2>1
<1> QED BY <1>4, <1>5 DEF ToSet

\* A list of INITs only, without one, is empty.
LEMMA NoInit ==
  \A q \in Seq(Messages) : AllInit(q) /\ INIT \notin ToSet(q) => q = <<>>
<1> SUFFICES ASSUME NEW q \in Seq(Messages), AllInit(q), q # <<>> PROVE INIT \in ToSet(q)
  OBVIOUS
<1>1. 1 \in DOMAIN q
  OBVIOUS
<1> QED BY <1>1 DEF AllInit, ToSet

\* start finds the coprocessor as it left it.
LEMMA StartSteps == ASSUME IInv, [Next]_vars PROVE StartPlace'
<1>t. /\ pc \in Tasks /\ link \in LinkStates /\ rx \in RxStates /\ cp \in CpStates /\ Sound(cp)
      /\ StartPlace /\ RxPlace
  BY ValuesTyped DEF HostTyped, IInv
<1>1. ASSUME pc["start"] = "done", pc'["start"] = "done" PROVE StartPlace'
  BY <1>1 DEF StartPlace
<1>2. CASE TxStep
  <2>1. /\ \A t \in {"start", "rx", "call", "net"} : pc'[t] = pc[t]
        /\ link'.signal = link.signal /\ UNCHANGED <<rx, tries>>
    BY <1>t, <1>2 DEF TxStep, Peek, Looks, Sleep, Reserve, Ask, AskFor, Pick, Fill, Await, Query,
                      Write, Counted, WriteFails, LinkAfterFailure, WriteEnds, WrittenFrom, Goto,
                      Tasks, LinkStates
  <2>2. Untouched => Untouched' /\ cp' = cp
    BY <1>2, TxQuiet
  <2> QED BY <1>t, <2>1, <2>2 DEF StartPlace, Silent
<1>3. CASE RxStep
  <2>1. \A t \in {"start", "tx", "call", "net"} : pc'[t] = pc[t]
    BY <1>t, <1>3 DEF RxStep, ReadStatus, StoreTokens, Fetch, ReadFails, OnInit, Open, Match,
                      MatchWith, Clear, Hand, Done, Then, Goto, Tasks
  <2>2. UNCHANGED <<queue, held, batch, tries>>
    BY <1>3 DEF RxStep, ReadStatus, StoreTokens, Fetch, ReadFails, OnInit, Open, Match, MatchWith,
                Clear, Hand, Done, lanes
  <2>3. pc["start"] \in {"await", "done"}
    <3>1. ~(pc["rx"] \in {"off", "wait"} /\ cp.shown = <<>>)
      BY <1>t, <1>3 DEF RxStep, ReadStatus, StoreTokens, Fetch, ReadFails, OnInit, Open, Match,
                        MatchWith, Clear, Hand, Done, RxPlace
    <3> QED BY <1>t, <3>1 DEF StartPlace, Silent, Tasks
  <2>4. SUFFICES ASSUME pc["start"] = "await"
                 PROVE  link'.signal = 1 \/ pc'["rx"] \in {"put", "give", "open"} \/ Untouched'
    BY <1>t, <1>1, <2>1, <2>3 DEF StartPlace
  <2>5. CASE Open
    BY <1>t, <2>5 DEF Open, LinkStates
  <2>6. CASE OnInit
    BY <1>t, <2>6 DEF OnInit, Goto, Tasks
  <2>7. ASSUME ~Open, ~OnInit
        PROVE  /\ link'.signal = link.signal /\ link'.txCount = link.txCount
               /\ pc["rx"] \notin {"put", "give", "open"}
    BY <1>t, <1>3, <2>7 DEF RxStep, ReadStatus, StoreTokens, Fetch, ReadFails, Advanced, Match,
                            MatchWith, Clear, Hand, Done, LinkStates
  <2>8. SUFFICES ASSUME ~Open, ~OnInit, Untouched PROVE Untouched'
    BY <1>t, <2>4, <2>5, <2>6, <2>7 DEF StartPlace
  <2>9. CASE ReadStatus
    <3>1. pc'["rx"] = "store" /\ rx'.stream = rx.stream /\ cp' = cp
      BY <1>t, <2>9 DEF ReadStatus, Goto, Tasks, RxStates
    <3> QED BY <2>1, <2>2, <2>7, <2>8, <3>1 DEF Untouched, HandingOver
  <2>10. CASE StoreTokens
    <3>1. /\ pc'["rx"] \in {"fetch", "wait"} /\ rx'.stream = rx.stream
          /\ cp' = [cp EXCEPT !.interrupt = FALSE]
      BY <1>t, <2>10 DEF StoreTokens, Goto, Tasks, RxStates
    <3>2. /\ cp'.inbox = cp.inbox /\ cp'.dataQueue = cp.dataQueue /\ cp'.rpcQueue = cp.rpcQueue
          /\ cp'.loaded = cp.loaded /\ cp'.tokens = cp.tokens /\ cp'.sending = cp.sending
          /\ cp'.shown = cp.shown
      BY <1>t, <3>1 DEF CpStates
    <3> QED BY <2>1, <2>2, <2>7, <2>8, <3>1, <3>2 DEF Untouched, HandingOver
  <2>11. CASE Fetch \/ ReadFails
    <3>1. cp' = Fetched /\ pc'["rx"] \in {"dispatch", "wait"}
      BY <1>t, <2>11 DEF Fetch, ReadFails, Goto, Tasks
    <3>2. rx'.stream \in {rx.stream, cp.shown}
      BY <1>t, <2>11 DEF Fetch, ReadFails, RxStates
    <3>3. /\ cp'.inbox = cp.inbox /\ cp'.dataQueue = cp.dataQueue /\ cp'.rpcQueue = cp.rpcQueue
          /\ cp'.loaded = cp.loaded /\ cp'.tokens = cp.tokens
          /\ AllInit(cp.sending) => AllInit(cp'.sending) /\ AllInit(cp'.shown)
      BY <1>t, <3>1, FetchedEffect
    <3> QED BY <2>1, <2>2, <2>7, <2>8, <3>1, <3>2, <3>3 DEF Untouched, HandingOver, AllInit
  <2>12. CASE Match \/ Clear \/ Hand \/ Done
    <3>1. pc["rx"] = "dispatch" /\ rx.stream[1] # INIT /\ AllInit(rx.stream)
      BY <2>8, <2>12 DEF Match, MatchWith, Clear, Hand, Done, HandingOver, Untouched
    <3>2. rx.stream # <<>> /\ rx.stream \in Seq(Messages)
      BY <3>1, ValuesTyped
    <3>3. 1 \in DOMAIN rx.stream
      BY <3>2
    <3> QED BY <3>1, <3>3 DEF AllInit
  <2> QED BY <1>3, <2>5, <2>6, <2>8, <2>9, <2>10, <2>11, <2>12 DEF RxStep
<1>4. CASE Reset
  <2>1. /\ pc["start"] = "reset" /\ pc'["start"] = "connect"
        /\ \A t \in {"tx", "rx", "call", "net"} : pc'[t] = pc[t]
        /\ link'.txCount = 0 /\ link'.signal = 0
        /\ UNCHANGED <<queue, held, batch, rx, cp>>
    BY <1>t, <1>4 DEF Reset, Goto, Tasks, LinkStates, lanes
  <2> QED BY <1>t, <2>1 DEF StartPlace, Untouched, HandingOver, Silent
<1>5. CASE Connect \/ ConnectFails
  <2>1. /\ pc["start"] = "connect" /\ cp' = Booted(cp.aggregates) /\ tries' = tries
        /\ UNCHANGED <<queue, held, batch, link, rx>>
    BY <1>5 DEF Connect, ConnectFails, lanes
  <2>2. Untouched /\ Silent /\ pc["rx"] \in {"off", "wait"} /\ pc["call"] = "idle"
        /\ pc["net"] = "put"
    BY <1>t, <2>1 DEF StartPlace, Silent
  <2>3. /\ pc'["rx"] \in {"off", "wait"} /\ pc'["start"] \in {"notify", NextAttempt}
        /\ \A t \in {"tx", "call", "net"} : pc'[t] = pc[t]
    BY <1>t, <1>5, <2>2 DEF Connect, ConnectFails, Goto, Tasks
  <2>4. Untouched' /\ Silent'
    BY <2>1, <2>2, <2>3, BootQuiet
  <2> QED BY <2>1, <2>2, <2>3, <2>4 DEF StartPlace, NextAttempt
<1>6. CASE Notify \/ NotifyFails
  <2>1. /\ pc["start"] = "notify" /\ pc'["start"] = "await"
        /\ \A t \in {"tx", "rx", "call", "net"} : pc'[t] = pc[t]
        /\ UNCHANGED <<queue, held, batch, link, rx>>
    BY <1>t, <1>6 DEF Notify, NotifyFails, Goto, Tasks, lanes
  <2>2. /\ cp'.inbox = cp.inbox /\ cp'.dataQueue = cp.dataQueue /\ cp'.rpcQueue = cp.rpcQueue
        /\ cp'.loaded = cp.loaded /\ cp'.tokens = cp.tokens /\ cp'.sending = cp.sending
        /\ cp'.shown = cp.shown
    BY <1>t, <1>6 DEF Notify, NotifyFails, CpStates
  <2>3. Untouched'
    BY <1>t, <2>1, <2>2 DEF StartPlace, Untouched, HandingOver
  <2> QED BY <1>t, <2>1, <2>3 DEF StartPlace
<1>7. CASE Started
  <2>1. pc'["start"] = "done"
    BY <1>t, <1>7 DEF Started, Goto, Tasks
  <2> QED BY <2>1 DEF StartPlace
<1>8. CASE StartTimesOut
  <2>1. /\ pc["start"] = "await" /\ link.signal = 0 /\ ~InitUnderWay
        /\ pc' = [pc EXCEPT !["start"] = NextAttempt]
        /\ UNCHANGED <<queue, held, batch, link, rx, cp, tries>>
    BY <1>8 DEF StartTimesOut, Goto, lanes
  <2>2. Untouched
    BY <1>t, <2>1 DEF StartPlace, InitUnderWay
  <2>3. cp.sending = <<>> /\ cp.shown = <<>> /\ rx.stream = <<>>
    <3>1. cp.sending \in Seq(Messages) /\ cp.shown \in Seq(Messages) /\ rx.stream \in Seq(Messages)
      BY <1>t DEF CpStates, RxStates
    <3>2. cp.sending \o cp.shown \in Seq(Messages)
      BY <3>1
    <3>3. INIT \notin ToSet((cp.sending \o cp.shown) \o rx.stream)
      BY <2>1 DEF InitUnderWay
    <3>4. INIT \notin ToSet(cp.sending \o cp.shown) /\ INIT \notin ToSet(rx.stream)
      BY <3>1, <3>2, <3>3, PartsOf
    <3>5. INIT \notin ToSet(cp.sending) /\ INIT \notin ToSet(cp.shown)
      BY <3>1, <3>4, PartsOf
    <3>6. AllInit(cp.sending) /\ AllInit(cp.shown) /\ AllInit(rx.stream)
      BY <2>2 DEF Untouched, HandingOver
    <3> QED BY <3>1, <3>4, <3>5, <3>6, NoInit
  <2>4. pc["rx"] \in {"off", "wait"}
    BY <1>t, <2>3 DEF RxPlace, HandingOver
  <2>5. Silent
    BY <2>1, <2>3, <2>4 DEF Silent, InitUnderWay
  <2>6. /\ pc'["start"] = NextAttempt
        /\ \A t \in {"tx", "rx", "call", "net"} : pc'[t] = pc[t]
    BY <1>t, <2>1 DEF Tasks
  <2>7. Untouched' /\ Silent'
    BY <2>1, <2>2, <2>5, <2>6 DEF Untouched, HandingOver, Silent
  <2> QED BY <1>t, <2>1, <2>6, <2>7 DEF StartPlace, NextAttempt
<1>9. CASE Call \/ Answered \/ TimeOut
  <2>1. pc'["start"] = pc["start"] /\ (pc["start"] = "done" \/ pc["call"] # "idle")
    BY <1>t, <1>9 DEF Call, Answered, TimeOut, Close, Goto, Tasks
  <2> QED BY <1>t, <1>1, <2>1 DEF StartPlace
<1>10. ASSUME NEW s \in Senders, TxPut(s) \/ TxGive(s) PROVE StartPlace'
  <2>1. pc'["start"] = pc["start"]
    BY <1>t, <1>10 DEF TxPut, TxGive, Goto, Tasks, Senders
  <2>2. CASE s \in {"call", "net"}
    <3>1. pc["start"] = "done" \/ pc["call"] # "idle" \/ pc["net"] # "put"
      BY <1>10, <2>2 DEF TxPut, TxGive
    <3> QED BY <1>t, <1>1, <2>1, <3>1 DEF StartPlace
  <2>3. CASE s = "rx"
    <3>1. /\ pc["rx"] \in {"put", "give"} /\ pc'["rx"] \in {"give", "open"}
          /\ pc'["call"] = pc["call"] /\ pc'["net"] = pc["net"]
      BY <1>t, <1>10, <2>3 DEF TxPut, TxGive, Goto, Tasks
    <3>2. pc["start"] \in {"await", "done"}
      BY <1>t, <3>1 DEF StartPlace, Silent, Tasks
    <3> QED BY <1>t, <2>1, <3>1, <3>2 DEF StartPlace
  <2> QED BY <2>2, <2>3 DEF Senders
<1>11. CASE CpStep \/ DataStep
  <2>1. UNCHANGED <<pc, link, tries>>
    BY <1>11 DEF CpStep, DataStep, hostVars
  <2>2. Untouched => Untouched' /\ (Silent => Silent')
    BY <1>11, CpQuiet
  <2> QED BY <1>t, <2>1, <2>2 DEF StartPlace
<1>12. CASE UNCHANGED vars
  BY <1>t, <1>12 DEF StartPlace, Untouched, HandingOver, Silent, vars, hostVars
<1> QED BY <1>2, <1>3, <1>4, <1>5, <1>6, <1>7, <1>8, <1>9, <1>10, <1>11, <1>12
  DEF Next, StartStep, Send

-----------------------------------------------------------------------------
(* The invariant. *)

\* What the steps were shown to keep is the invariant.
Kept == Sound(cp) /\ LInv /\ HostTyped /\ StartPlace /\ RxPlace /\ SendersPlace

\* These parts are the whole of it.
LEMMA KeptIsAll == Kept => IInv
<1> SUFFICES ASSUME Kept PROVE IInv
  OBVIOUS
<1>1. CpTypeOK
  BY DEF Kept, Sound, CpTypeOK
<1>2. ASSUME NEW l \in Lanes PROVE free[l] <= BufNum[l] /\ free[l] + Taken(l) = BufNum[l]
  <2>1. /\ free[l] \in Nat /\ Waiting(l) \in Nat /\ First1(l) \in 0 .. 1 /\ BufNum[l] \in Nat
        /\ free[l] + Waiting(l) + First1(l) = BufNum[l]
    BY LaneCounts DEF Kept
  <2>2. Taken(l) = Waiting(l) + First1(l)
    BY DEF Taken, Waiting, First1
  <2>3. free[l] <= BufNum[l] /\ free[l] + (Waiting(l) + First1(l)) = BufNum[l]
    BY ONLY <2>1
  <2> QED BY <2>2, <2>3
<1>3. TypeOK
  BY <1>1, <1>2 DEF Kept, LInv, HostTyped, Numbers, TypeOK
<1>4. BuffersKept
  BY <1>2 DEF Kept, Sound, Buffers, CtrlBuffers, BuffersKept
<1> QED BY <1>3, <1>4 DEF Kept, LInv, IInv

\* The first state has it.
LEMMA InitKept == Init => Kept
<1> SUFFICES ASSUME Init PROVE Kept
  OBVIOUS
<1>1. PICK a \in Aggregating : cp = Booted(a)
  BY DEF Init
<1>2. Sound(cp)
  BY <1>1, BootedEffect
<1>3. /\ cp.opening = FALSE /\ cp.loaded = RxBufNum /\ cp.tokens = RxBufNum
      /\ cp.inbox = <<>> /\ cp.dataQueue = <<>>
      /\ cp.rpcQueue = <<>> /\ cp.sending = <<>> /\ cp.shown = <<>> /\ cp.interrupt = FALSE
  BY <1>1, BootedEffect
<1>4. HostTyped
  <2>1. /\ 0 \in 0 .. (TokenSpan - 1) /\ 0 \in 0 .. (LengthSpan - 1)
        /\ 0 \in 0 .. (CtrlBufNum + TxBufNum) /\ 0 \in 0 .. MaxData
        /\ 0 \in 0 .. StartAttempts
    BY Constants
  <2>2. <<>> \in Seq(Messages) /\ 0 \in Messages
    BY DEF Messages, INIT
  <2>3. pc \in Tasks
    BY DEF Init, Tasks
  <2>4. link \in LinkStates /\ rx \in RxStates
    BY <2>1, <2>2 DEF Init, LinkStates, RxStates
  <2>5. rpc \in RpcStates
    BY <2>2 DEF Init, RpcStates
  <2>6. Numbers
    BY <2>1 DEF Init, Numbers
  <2> QED BY <2>3, <2>4, <2>5, <2>6 DEF HostTyped
<1>5. LInv
  <2>1. \A l \in Lanes : BufNum[l] \in Nat
    BY Constants DEF BufNum
  <2>2. free = BufNum /\ free \in [Lanes -> Nat]
    BY <2>1 DEF Init, BufNum
  <2>3. /\ queue = [l \in Lanes |-> <<>>] /\ held = [l \in Lanes |-> <<>>]
        /\ batch = <<>> /\ pc["tx"] = "peek"
    BY DEF Init
  <2>4. \A l \in Lanes : <<>> \in Seq(OfLane(l)) /\ <<>> \in Seq(Packets) /\ Len(<<>>) = 0
    OBVIOUS
  <2>5. LanesTyped
    BY <2>1, <2>3, <2>4 DEF LanesTyped
  <2>6. Total(batch) <= BufSize
    <3>1. Len(<<>>) = 0 /\ {i \in DOMAIN <<>> : Full(<<>>[i])} = {}
      OBVIOUS
    <3> QED BY <2>3, <3>1, FS_EmptySet DEF Total, BufSize
  <2>7. ASSUME NEW l \in Lanes PROVE free[l] + Waiting(l) + First1(l) = BufNum[l]
    <3>1. Waiting(l) = 0 /\ First1(l) = 0
      BY <2>3, <2>4 DEF Waiting, First1
    <3> QED BY <2>1, <2>2, <3>1
  <2>8. TxPlace
    BY <2>3 DEF TxPlace, Sending
  <2> QED BY <2>2, <2>3, <2>4, <2>5, <2>6, <2>7, <2>8 DEF LInv
<1>6. Untouched /\ Silent
  <2>1. AllInit(<<>>)
    BY DEF AllInit
  <2> QED BY <1>3, <2>1 DEF Init, Untouched, HandingOver, Silent
<1>7. StartPlace
  BY <1>6, Constants DEF Init, StartPlace
<1>8. RxPlace
  BY <1>3 DEF Init, RxPlace, HandingOver
<1>9. SendersPlace
  BY DEF Init, SendersPlace
<1> QED BY <1>2, <1>4, <1>5, <1>7, <1>8, <1>9 DEF Kept

\* Every step keeps it.
LEMMA StepKept == IInv /\ [Next]_vars => Kept'
<1> SUFFICES ASSUME IInv, [Next]_vars PROVE Kept'
  OBVIOUS
<1> QED BY SoundSteps, LaneSteps, TypedSteps, RxSteps, SendersSteps, StartSteps DEF Kept

\* The invariant holds in every state, whatever rx_task's look at the tokens
\* and the end of a call fall between.
THEOREM Inductive == Spec => []IInv
<1>1. Init => IInv
  BY InitKept, KeptIsAll
<1>2. IInv /\ [Next]_vars => IInv'
  BY StepKept, KeptIsAll, PTL
<1> QED BY <1>1, <1>2, PTL DEF Spec

\* The variables of both ends keep their types: a transfer never exceeds its
\* buffer, and rpc.c's queue never more than QUEUE_DEPTH and the one in hand.
THEOREM TypeCorrect == Spec => []TypeOK
<1>1. IInv => TypeOK
  BY DEF IInv
<1> QED BY <1>1, Inductive, PTL

\* No buffer of either end is lost or used twice, whatever fails: each is free
\* or in one place of its lane.
THEOREM BuffersStay == Spec => []BuffersKept
<1>1. IInv => BuffersKept
  BY DEF IInv
<1> QED BY <1>1, Inductive, PTL

-----------------------------------------------------------------------------
(* Answers. *)

\* An answer is handed over to whoever calls by then, and wakes it: only who
\* ends or begins a call, or hands over, touches what the call waits for.
LEMMA CallSteps ==
  ASSUME IInv, CallsStayMatched, [Next]_vars
  PROVE  CallsStayMatched'
<1>t. pc \in Tasks /\ rpc \in RpcStates
  BY ValuesTyped DEF HostTyped
<1>1. ASSUME pc'["call"] = pc["call"] \/ pc["call"] # "idle",
             rpc'.uid = rpc.uid, rpc'.done = rpc.done, rpc'.pending = rpc.pending,
             HandingOver => HandingOver'
      PROVE  CallsStayMatched'
  BY <1>1 DEF CallsStayMatched
<1>2. CASE TxStep
  <2>1. pc'["call"] = pc["call"] /\ pc'["rx"] = pc["rx"] /\ rpc' = rpc
    BY <1>t, <1>2 DEF TxStep, Peek, Looks, Sleep, Reserve, Ask, AskFor, Pick, Fill, Await, Query,
                      Write, WriteFails, WriteEnds, WrittenFrom, Goto, Tasks
  <2> QED BY <1>1, <2>1 DEF HandingOver
<1>3. CASE ReadStatus \/ StoreTokens \/ Fetch \/ ReadFails \/ OnInit \/ Open \/ Match
  <2>1. pc'["call"] = pc["call"] /\ rpc' = rpc /\ ~HandingOver
    BY <1>t, <1>3 DEF ReadStatus, StoreTokens, Fetch, ReadFails, OnInit, Open, Match, MatchWith,
                      Then, Goto, Tasks, HandingOver
  <2> QED BY <1>1, <2>1
<1>4. CASE Clear \/ Hand
  <2>1. HandingOver'
    BY <1>t, <1>4 DEF Clear, Hand, Goto, Tasks, HandingOver
  <2> QED BY <2>1 DEF CallsStayMatched
<1>5. CASE Done
  <2>1. rpc'.done = 1
    BY <1>t, <1>5 DEF Done, RpcStates
  <2> QED BY <2>1 DEF CallsStayMatched
<1>6. CASE Call
  <2>1. rpc'.uid = rpc.uid + 1 /\ rpc'.pending = rpc.uid + 1
    BY <1>t, <1>6 DEF Call, RpcStates
  <2> QED BY <2>1 DEF CallsStayMatched
<1>7. CASE Answered \/ TimeOut
  <2>1. pc'["call"] = "idle"
    BY <1>t, <1>7 DEF Answered, TimeOut, Close, Goto, Tasks
  <2> QED BY <2>1 DEF CallsStayMatched
<1>8. CASE StartStep
  <2>1. /\ pc'["call"] = pc["call"] /\ rpc' = rpc
        /\ pc'["rx"] = pc["rx"] \/ pc["rx"] = "off"
    BY <1>t, <1>8 DEF StartStep, Reset, Connect, ConnectFails, Notify, NotifyFails, Started,
                      StartTimesOut, Goto, Tasks
  <2> QED BY <1>1, <2>1 DEF HandingOver
<1>9. ASSUME NEW s \in Senders, TxPut(s) PROVE CallsStayMatched'
  <2>1. pc[s] = "put" /\ pc' = [pc EXCEPT ![s] = "give"] /\ rpc' = rpc
    BY <1>9 DEF TxPut, Goto
  <2>2. /\ pc'["call"] = pc["call"] \/ pc["call"] # "idle"
        /\ pc'["rx"] = pc["rx"] \/ pc["rx"] = "put"
    BY <1>t, <2>1 DEF Senders, Tasks
  <2> QED BY <1>1, <2>1, <2>2 DEF HandingOver
<1>10. ASSUME NEW s \in Senders, TxGive(s) PROVE CallsStayMatched'
  <2>1. /\ pc'["call"] = pc["call"] \/ pc["call"] # "idle"
        /\ pc'["rx"] = pc["rx"] \/ pc["rx"] = "give"
    BY <1>t, <1>10 DEF TxGive, Goto, Senders, Tasks
  <2>2. rpc'.uid = rpc.uid /\ rpc'.done = rpc.done /\ rpc'.pending = rpc.pending
    BY <1>t, <1>10 DEF TxGive, Senders, RpcStates
  <2> QED BY <1>1, <2>1, <2>2 DEF HandingOver
<1>11. CASE CpStep \/ DataStep \/ UNCHANGED vars
  BY <1>1, <1>11 DEF CpStep, DataStep, vars, hostVars, HandingOver
<1> QED BY <1>2, <1>3, <1>4, <1>5, <1>6, <1>7, <1>8, <1>9, <1>10, <1>11 DEF Next, RxStep, Send

\* A call that nobody has woken, nor is about to wake, is one that its answer
\* still matches, however late answers to others are handed over: none is left
\* with nothing but its timeout.
THEOREM CallsMatched == Spec => []CallsStayMatched
<1>1. Init => CallsStayMatched
  BY DEF Init, CallsStayMatched
<1>2. IInv /\ CallsStayMatched /\ [Next]_vars => CallsStayMatched'
  BY CallSteps
<1> QED BY <1>1, <1>2, Inductive, PTL DEF Spec

-----------------------------------------------------------------------------
(* Tokens. *)

\* What is left of t tokens when c are spent, both counted modulo the span; one
\* more given, one more spent.
LEMMA TokenCounts ==
  ASSUME NEW t \in 0 .. (TokenSpan - 1), NEW c \in 0 .. (TokenSpan - 1)
  PROVE  /\ (t - c) % TokenSpan \in 0 .. (TokenSpan - 1)
         /\ ((t - c) % TokenSpan) + 1 < TokenSpan =>
              (((t + 1) % TokenSpan) - c) % TokenSpan = ((t - c) % TokenSpan) + 1
         /\ (t - c) % TokenSpan > 0 =>
              (t - ((c + 1) % TokenSpan)) % TokenSpan = ((t - c) % TokenSpan) - 1
<1>n. TokenSpan \in Nat \ {0}
  BY Constants
<1>1. ASSUME NEW a \in 0 .. TokenSpan - 1, NEW b \in 0 .. TokenSpan - 1
      PROVE  (a - b) % TokenSpan = IF b <= a THEN a - b ELSE a - b + TokenSpan
  <2>1. CASE b <= a
    <3>1. a - b \in 0 .. TokenSpan - 1 /\ a - b \in Int
      BY <1>n, <2>1
    <3> QED BY <1>n, <2>1, <3>1, ModProperty
  <2>2. CASE ~(b <= a)
    <3>1. a - b \in -TokenSpan .. -1 /\ a - b \in Int
      BY <1>n, <2>2
    <3> QED BY <1>n, <2>2, <3>1, ModProperty
  <2> QED BY <2>1, <2>2
<1>2. ASSUME NEW a \in 0 .. TokenSpan - 1
      PROVE  /\ (a + 1) % TokenSpan = IF a + 1 = TokenSpan THEN 0 ELSE a + 1
             /\ (a + 1) % TokenSpan \in 0 .. TokenSpan - 1
  <2>1. CASE a + 1 = TokenSpan
    <3>1. a + 1 \in TokenSpan .. 2 * TokenSpan - 1 /\ a + 1 \in Int
      BY <1>n, <2>1
    <3>2. (a + 1) % TokenSpan = (a + 1) - TokenSpan
      BY <1>n, <3>1, ModProperty
    <3> QED BY <1>n, <2>1, <3>2
  <2>2. CASE a + 1 # TokenSpan
    <3>1. a + 1 \in 0 .. TokenSpan - 1 /\ a + 1 \in Int
      BY <1>n, <2>2
    <3>2. (a + 1) % TokenSpan = a + 1
      BY <1>n, <3>1, ModProperty
    <3> QED BY <1>n, <2>2, <3>1, <3>2
  <2> QED BY <2>1, <2>2
<1> DEFINE d == (t - c) % TokenSpan
           u == (t + 1) % TokenSpan
           v == (c + 1) % TokenSpan
           e == (u - c) % TokenSpan
           f == (t - v) % TokenSpan
<1>3. d = IF c <= t THEN t - c ELSE t - c + TokenSpan
  BY <1>1
<1>4. /\ u = IF t + 1 = TokenSpan THEN 0 ELSE t + 1
      /\ v = IF c + 1 = TokenSpan THEN 0 ELSE c + 1
      /\ u \in 0 .. TokenSpan - 1 /\ v \in 0 .. TokenSpan - 1
  BY <1>2
<1> HIDE DEF u, v
<1>5. /\ e = IF c <= u THEN u - c ELSE u - c + TokenSpan
      /\ f = IF v <= t THEN t - v ELSE t - v + TokenSpan
  BY <1>1, <1>4
<1> HIDE DEF d, e, f
<1>6. d \in 0 .. TokenSpan - 1
  BY <1>n, <1>3
<1>7. d + 1 < TokenSpan => e = d + 1
  BY <1>n, <1>3, <1>4, <1>5
<1>8. d > 0 => f = d - 1
  BY <1>n, <1>3, <1>4, <1>5
<1>9. d = (t - c) % TokenSpan
  BY DEF d
<1>10. e = (((t + 1) % TokenSpan) - c) % TokenSpan
  BY DEF e, u
<1>11. f = (t - ((c + 1) % TokenSpan)) % TokenSpan
  BY DEF f, v
<1> QED BY ONLY <1>6, <1>7, <1>8, <1>9, <1>10, <1>11

\* What both counts say is there.
LEMMA AvailableTyped ==
  ASSUME IInv
  PROVE  /\ cp.loaded \in Nat /\ cp.loaded <= RxBufNum
         /\ cp.tokens \in 0 .. (TokenSpan - 1)
         /\ link.tokens \in 0 .. (TokenSpan - 1) /\ link.txCount \in 0 .. (TokenSpan - 1)
         /\ Available(link.tokens) \in Nat /\ Available(cp.tokens) \in Nat
<1>1. /\ cp.loaded \in Nat /\ cp.loaded <= RxBufNum /\ cp.tokens \in 0 .. (TokenSpan - 1)
      /\ link.tokens \in 0 .. (TokenSpan - 1) /\ link.txCount \in 0 .. (TokenSpan - 1)
  BY ValuesTyped, Constants DEF HostTyped, LinkStates, CpStates
<1>2. /\ (cp.tokens - link.txCount) % TokenSpan \in 0 .. (TokenSpan - 1)
      /\ (link.tokens - link.txCount) % TokenSpan \in 0 .. (TokenSpan - 1)
  BY <1>1, TokenCounts
<1> QED BY <1>1, <1>2, Constants DEF Available

\* Tokens are given with a receive buffer and spent with one, and start counts
\* anew only while none is in use.
LEMMA CountSteps ==
  ASSUME IInv, CountsAgree, [Next]_vars
  PROVE  CountsAgree'
<1>t. /\ pc \in Tasks /\ link \in LinkStates /\ rx \in RxStates /\ cp \in CpStates /\ Sound(cp)
      /\ StartPlace
  BY ValuesTyped DEF HostTyped, IInv
<1>l. /\ cp.loaded \in Nat /\ cp.loaded <= RxBufNum /\ cp.tokens \in 0 .. (TokenSpan - 1)
      /\ link.txCount \in 0 .. (TokenSpan - 1)
  BY AvailableTyped
<1>a. (cp.tokens - link.txCount) % TokenSpan = cp.loaded
  BY DEF CountsAgree, Available
<1>1. ASSUME cp'.loaded = cp.loaded, cp'.tokens = cp.tokens, link'.txCount = link.txCount
      PROVE  CountsAgree'
  BY <1>1 DEF CountsAgree, Available
<1>2. CASE \/ Peek \/ Sleep \/ Reserve \/ Ask \/ Pick \/ Fill \/ Await \/ Query
           \/ WriteFails
  <2>1. cp' = cp /\ link'.txCount = link.txCount
    BY <1>t, <1>2 DEF Peek, Looks, Sleep, Reserve, Ask, AskFor, Pick, Fill, Await, Query,
                      WriteFails, LinkAfterFailure, LinkStates
  <2> QED BY <1>1, <2>1
<1>3. CASE Write
  <2>1. /\ cp.loaded > 0 /\ cp' = Written(batch) /\ batch \in Seq(Packets)
        /\ link'.txCount = (link.txCount + 1) % TokenSpan
    BY <1>t, <1>3 DEF Write, Counted, LinkStates, IInv, TypeOK
  <2>2. cp'.loaded = cp.loaded - 1 /\ cp'.tokens = cp.tokens
    BY <1>t, <2>1, WrittenEffect
  <2>3. (cp.tokens - link.txCount) % TokenSpan > 0 =>
          (cp.tokens - ((link.txCount + 1) % TokenSpan)) % TokenSpan
            = ((cp.tokens - link.txCount) % TokenSpan) - 1
    BY <1>l, TokenCounts
  <2>4. (cp.tokens - ((link.txCount + 1) % TokenSpan)) % TokenSpan = cp.loaded - 1
    BY ONLY <1>a, <2>1, <2>3
  <2> QED BY <2>1, <2>2, <2>4 DEF CountsAgree, Available
<1>4. CASE RxStep
  <2>1. link'.txCount = link.txCount
    BY <1>t, <1>4 DEF RxStep, ReadStatus, StoreTokens, Fetch, ReadFails, Advanced, OnInit, Open,
                      Match, MatchWith, Clear, Hand, Done, LinkStates
  <2>2. cp' \in {cp, [cp EXCEPT !.interrupt = FALSE], Fetched}
    BY <1>4 DEF RxStep, ReadStatus, StoreTokens, Fetch, ReadFails, OnInit, Open,
                Match, MatchWith, Clear, Hand, Done
  <2>3. cp'.loaded = cp.loaded /\ cp'.tokens = cp.tokens
    BY <1>t, <2>2, FetchedEffect DEF CpStates
  <2> QED BY <1>1, <2>1, <2>3
<1>5. CASE Reset
  <2>1. pc["start"] = "reset" /\ cp' = cp /\ link'.txCount = 0
    BY <1>t, <1>5 DEF Reset, LinkStates
  <2>2. link.txCount = 0
    BY <1>t, <2>1 DEF StartPlace, Untouched
  <2> QED BY <1>1, <2>1, <2>2
<1>6. CASE Connect \/ ConnectFails
  <2>1. pc["start"] = "connect" /\ cp' = Booted(cp.aggregates) /\ link' = link
    BY <1>6 DEF Connect, ConnectFails
  <2>2. cp.loaded = RxBufNum /\ cp.tokens = RxBufNum
    BY <1>t, <2>1 DEF StartPlace, Untouched
  <2>3. cp'.loaded = RxBufNum /\ cp'.tokens = RxBufNum
    <3>1. cp.aggregates \in Aggregating
      BY ValuesTyped
    <3> QED BY <2>1, <3>1, BootedEffect
  <2> QED BY <1>1, <2>1, <2>2, <2>3
<1>7. CASE Notify \/ NotifyFails \/ Started \/ StartTimesOut
  <2>1. link'.txCount = link.txCount
    BY <1>t, <1>7 DEF Notify, NotifyFails, Started, StartTimesOut, LinkStates
  <2>2. cp'.loaded = cp.loaded /\ cp'.tokens = cp.tokens
    BY <1>t, <1>7 DEF Notify, NotifyFails, Started, StartTimesOut, CpStates
  <2> QED BY <1>1, <2>1, <2>2
<1>8. CASE Call \/ Answered \/ TimeOut
  BY <1>1, <1>8 DEF Call, Answered, TimeOut, Close
<1>9. ASSUME NEW s \in Senders, TxPut(s) \/ TxGive(s) PROVE CountsAgree'
  BY <1>1, <1>9 DEF TxPut, TxGive
<1>10. CASE CpStep \/ DataStep
  <2>1. GoesOn(cp, cp') /\ link' = link
    BY <1>t, <1>10, CpGoes DEF CpStep, DataStep, hostVars
  <2>2. CASE cp'.loaded = cp.loaded /\ cp'.tokens = cp.tokens
    BY <1>1, <2>1, <2>2
  <2>3. CASE cp'.loaded = cp.loaded + 1 /\ cp'.tokens = (cp.tokens + 1) % TokenSpan
    <3>1. cp'.loaded <= RxBufNum
      BY <2>1, Constants DEF GoesOn, Sound, CpStates
    <3>2. cp.loaded + 1 < TokenSpan
      BY <1>l, <2>3, <3>1, Constants
    <3>3. ((cp.tokens - link.txCount) % TokenSpan) + 1 < TokenSpan =>
            (((cp.tokens + 1) % TokenSpan) - link.txCount) % TokenSpan
              = ((cp.tokens - link.txCount) % TokenSpan) + 1
      BY <1>l, TokenCounts
    <3>4. (((cp.tokens + 1) % TokenSpan) - link.txCount) % TokenSpan = cp.loaded + 1
      BY ONLY <1>a, <3>2, <3>3
    <3> QED BY <2>1, <2>3, <3>4 DEF CountsAgree, Available
  <2> QED BY <2>1, <2>2, <2>3 DEF GoesOn, Reloaded
<1>11. CASE UNCHANGED vars
  BY <1>1, <1>11 DEF vars, hostVars
<1> QED BY <1>2, <1>3, <1>4, <1>5, <1>6, <1>7, <1>8, <1>9, <1>10, <1>11
  DEF Next, TxStep, StartStep, Send

\* A coprocessor that does not take several packets in a transfer gets one.
SinglePlace == ~cp.aggregates => ~link.aggregates /\ Len(batch) <= 1 /\ pc["tx"] # "fill"

LEMMA SingleSteps ==
  ASSUME IInv, SinglePlace, [Next]_vars
  PROVE  SinglePlace' /\ cp'.aggregates = cp.aggregates
<1>t. /\ pc \in Tasks /\ link \in LinkStates /\ cp \in CpStates /\ Sound(cp)
      /\ batch \in Seq(Packets) /\ LanesTyped /\ TxPlace
      /\ cp.aggregates \in BOOLEAN /\ cp.aggregates \in Aggregating
  BY ValuesTyped DEF HostTyped, IInv, TypeOK
<1>e. Len(<<>>) = 0
  OBVIOUS
<1>1. ASSUME cp'.aggregates = cp.aggregates,
             link'.aggregates \in {link.aggregates, FALSE, cp.aggregates},
             batch' \in {batch, <<>>}, pc'["tx"] # "fill" \/ pc'["tx"] = pc["tx"]
      PROVE  SinglePlace' /\ cp'.aggregates = cp.aggregates
  <2>1. CASE cp.aggregates = TRUE
    BY <1>1, <2>1 DEF SinglePlace
  <2>2. CASE cp.aggregates = FALSE
    <3>1. link.aggregates = FALSE /\ Len(batch) <= 1 /\ pc["tx"] # "fill"
      BY <1>t, <2>2 DEF SinglePlace, LinkStates
    <3>2. link'.aggregates = FALSE /\ Len(batch') <= 1 /\ pc'["tx"] # "fill"
      <4>1. link'.aggregates = FALSE
        BY <1>1, <2>2, <3>1, Zenon
      <4>2. Len(batch') <= 1
        BY <1>1, <1>e, <3>1
      <4>3. pc'["tx"] # "fill"
        BY <1>1, <3>1
      <4> QED BY <4>1, <4>2, <4>3
    <3> QED BY <1>1, <3>2 DEF SinglePlace
  <2> QED BY <1>t, <2>1, <2>2
<1>2. CASE \/ Peek \/ Sleep \/ Reserve \/ Ask \/ Await \/ Query \/ WriteFails
  <2>1. /\ cp' = cp /\ link'.aggregates = link.aggregates /\ batch' \in {batch, <<>>}
        /\ pc'["tx"] # "fill"
    BY <1>t, <1>2 DEF Peek, Looks, Sleep, Reserve, Ask, AskFor, Await, Query, lanes, WriteFails,
                      LinkAfterFailure, WriteEnds, WrittenFrom, LinkStates, Goto, Tasks
  <2> QED BY <1>1, <2>1
<1>3. CASE Pick
  <2>1. /\ pc["tx"] = "pick" /\ cp' = cp /\ link' = link /\ Pop(BufSize)
        /\ pc'["tx"] = IF link.aggregates THEN "fill" ELSE "await"
    BY <1>t, <1>3 DEF Pick, Goto, Tasks
  <2>2. PICK l \in Popped(BufSize) : batch' = First(l)
    BY <1>3 DEF Pick
  <2>3. l \in Lanes /\ First(l) # <<>>
    <3>1. Popped(BufSize) \subseteq Lanes /\ \A k \in Popped(BufSize) : Fits(k, BufSize)
      BY <1>t, <2>1, PopProperty
    <3> QED BY <2>2, <3>1 DEF Fits
  <2>4. Len(batch') = 1
    BY <1>t, <2>2, <2>3, FirstProperty
  <2> QED BY <2>1, <2>4 DEF SinglePlace
<1>4. CASE Fill
  <2>1. pc["tx"] = "fill" /\ cp' = cp
    BY <1>4 DEF Fill
  <2> QED BY <2>1 DEF SinglePlace
<1>5. CASE Write
  <2>1. /\ pc'["tx"] = "peek" /\ batch' = <<>>
        /\ cp.loaded > 0 /\ cp' = Written(batch) /\ link'.aggregates = link.aggregates
    BY <1>t, <1>5 DEF Write, Counted, WriteEnds, WrittenFrom, Goto, Tasks, LinkStates
  <2>2. cp'.aggregates = cp.aggregates
    BY <1>t, <2>1, WrittenEffect
  <2> QED BY <1>1, <2>1, <2>2
<1>6. CASE RxStep
  <2>1. /\ link'.aggregates \in {link.aggregates, cp.aggregates} /\ batch' = batch
        /\ pc'["tx"] = pc["tx"]
    BY <1>t, <1>6 DEF RxStep, ReadStatus, StoreTokens, Fetch, ReadFails, Advanced, OnInit, Open,
                      Match, MatchWith, Clear, Hand, Done, Then, Goto, Tasks, LinkStates
  <2>2. cp' \in {cp, [cp EXCEPT !.interrupt = FALSE], Fetched}
    BY <1>6 DEF RxStep, ReadStatus, StoreTokens, Fetch, ReadFails, OnInit, Open,
                Match, MatchWith, Clear, Hand, Done
  <2>3. cp'.aggregates = cp.aggregates
    BY <1>t, <2>2, FetchedEffect DEF CpStates
  <2> QED BY <1>1, <2>1, <2>3
<1>7. CASE StartStep
  <2>1. /\ link'.aggregates \in {link.aggregates, FALSE} /\ batch' = batch
        /\ pc'["tx"] = pc["tx"]
    BY <1>t, <1>7 DEF StartStep, Reset, Connect, ConnectFails, Notify, NotifyFails, Started,
                      StartTimesOut, Goto, Tasks, LinkStates
  <2>2. cp' \in {cp, [cp EXCEPT !.opening = TRUE], Booted(cp.aggregates)}
    BY <1>7 DEF StartStep, Reset, Connect, ConnectFails, Notify, NotifyFails, Started,
                StartTimesOut
  <2>3. cp'.aggregates = cp.aggregates
    BY <1>t, <2>2, BootedEffect DEF CpStates
  <2> QED BY <1>1, <2>1, <2>3
<1>8. CASE Call \/ Answered \/ TimeOut
  <2>1. pc'["tx"] = pc["tx"] /\ UNCHANGED <<batch, link, cp>>
    BY <1>t, <1>8 DEF Call, Answered, TimeOut, Close, Goto, Tasks
  <2> QED BY <1>1, <2>1
<1>9. ASSUME NEW s \in Senders, TxPut(s) \/ TxGive(s)
      PROVE  SinglePlace' /\ cp'.aggregates = cp.aggregates
  <2>1. pc'["tx"] = pc["tx"] /\ UNCHANGED <<batch, link, cp>>
    BY <1>t, <1>9 DEF TxPut, TxGive, Goto, Tasks, Senders
  <2> QED BY <1>1, <2>1
<1>10. CASE CpStep \/ DataStep
  <2>1. GoesOn(cp, cp') /\ UNCHANGED <<pc, batch, link>>
    BY <1>t, <1>10, CpGoes DEF CpStep, DataStep, hostVars
  <2> QED BY <1>1, <2>1 DEF GoesOn
<1>11. CASE UNCHANGED vars
  BY <1>1, <1>11 DEF vars, hostVars
<1> QED BY <1>2, <1>3, <1>4, <1>5, <1>6, <1>7, <1>8, <1>9, <1>10, <1>11
  DEF Next, TxStep, Send

\* What tx_task has at hand is data it may send: receive buffers only come back
\* but for a transfer, none of them gets data but by one, and tx_task goes on to
\* data only with a count that has CtrlTokens more than it takes.
LEMMA SpareSteps ==
  ASSUME IInv, CountsAgree, SinglePlace, ~cp.aggregates, Spared, CountSound, [Next]_vars
  PROVE  Spared'
<1>t. /\ pc \in Tasks /\ link \in LinkStates /\ cp \in CpStates /\ Sound(cp)
      /\ batch \in Seq(Packets) /\ LanesTyped /\ TxPlace /\ StartPlace
  BY ValuesTyped DEF HostTyped, IInv, TypeOK
<1>c. /\ CtrlTokens \in Nat /\ RxBufNum \in Nat \ {0} /\ CtrlTokens < RxBufNum
      /\ DataIn(cp) \in Nat /\ cp.loaded \in Nat
  BY <1>t, Constants, DataBounded
<1>n. DataNeeds \in Nat /\ \A i \in Nat : i >= DataNeeds => i > CtrlTokens
  BY <1>c DEF DataNeeds
<1>p. ~link.aggregates /\ Len(batch) <= 1 /\ pc["tx"] # "fill"
  BY DEF SinglePlace
<1>1. ASSUME batch' \in {batch, <<>>}, held' = held, pc'["tx"] # "pick" \/ pc'["tx"] = pc["tx"],
             cp'.loaded \in Nat, cp'.loaded >= cp.loaded,
             DataIn(cp') \in Nat, DataIn(cp') <= DataIn(cp)
      PROVE  Spared'
  <2>1. ReserveKept'
    <3>1. DataIn(cp) <= RxBufNum - CtrlTokens
      BY DEF Spared, ReserveKept, DataBuffers, DataIn
    <3>2. DataIn(cp') <= RxBufNum - CtrlTokens
      BY <1>1, <1>c, <3>1
    <3> QED BY <3>2 DEF ReserveKept, DataBuffers, DataIn
  <2>2. cp.loaded > CtrlTokens => cp'.loaded > CtrlTokens
    BY <1>1, <1>c
  <2> QED BY <1>1, <2>1, <2>2 DEF Spared
<1>2. ASSUME cp' = cp, batch' \in {batch, <<>>}, held' = held,
             pc'["tx"] # "pick" \/ pc'["tx"] = pc["tx"]
      PROVE  Spared'
  <2>1. DataIn(cp') = DataIn(cp) /\ cp'.loaded = cp.loaded
    BY <1>2
  <2>2. /\ DataIn(cp') \in Nat /\ DataIn(cp') <= DataIn(cp)
        /\ cp'.loaded \in Nat /\ cp'.loaded >= cp.loaded
    BY <1>c, <2>1
  <2> QED BY <1>1, <1>2, <2>2
<1>3. ASSUME cp' = cp, batch' = <<>>,
             pc'["tx"] = "pick" => held'["ctrl"] # <<>> \/ cp.loaded > CtrlTokens
      PROVE  Spared'
  <2>1. ReserveKept'
    BY <1>3 DEF Spared, ReserveKept, DataBuffers
  <2> QED BY <1>3, <2>1 DEF Spared
<1>4. CASE Peek
  <2>1. /\ pc["tx"] = "peek" /\ cp' = cp /\ batch' = batch
        /\ held' = [l \in Lanes |-> First(l)]
        /\ pc'["tx"] = "pick" => First("ctrl") # <<>>
    BY <1>t, <1>4 DEF Peek, Looks, Goto, Tasks
  <2>2. batch = <<>> /\ held'["ctrl"] = First("ctrl")
    BY <1>t, <2>1 DEF TxPlace, Sending, Lanes
  <2> QED BY <1>3, <2>1, <2>2
<1>5. CASE Reserve \/ Ask
  <2>1. /\ pc["tx"] \in {"reserve", "ask"} /\ cp' = cp /\ batch' = batch
    BY <1>5 DEF Reserve, Ask, AskFor, lanes
  <2>2. batch = <<>>
    BY <1>t, <2>1 DEF TxPlace, Sending
  <2>3. pc'["tx"] = "pick" =>
          Available(link.tokens) >= DataNeeds \/ Available(cp.tokens) >= DataNeeds
    BY <1>t, <1>5 DEF Reserve, Ask, AskFor, Known, Goto, Tasks
  <2>4. pc'["tx"] = "pick" => cp.loaded >= DataNeeds
    <3>1. /\ Available(link.tokens) \in Nat /\ Available(link.tokens) <= cp.loaded
          /\ Available(cp.tokens) = cp.loaded
      BY AvailableTyped DEF CountSound, CountsAgree
    <3> QED BY <1>c, <1>n, <2>3, <3>1
  <2> QED BY <1>3, <1>c, <1>n, <2>1, <2>2, <2>4
<1>6. CASE Pick
  <2>1. /\ pc["tx"] = "pick" /\ cp' = cp /\ link' = link /\ Pop(BufSize)
        /\ pc'["tx"] # "pick"
    BY <1>t, <1>6 DEF Pick, Goto, Tasks
  <2>2. PICK l \in Popped(BufSize) : batch' = First(l)
    BY <1>6 DEF Pick
  <2>3. /\ l \in Lanes /\ First(l) # <<>> /\ (Fits("ctrl", BufSize) => l = "ctrl")
    <3>1. Popped(BufSize) \subseteq Lanes /\ (Fits("ctrl", BufSize) => Popped(BufSize) = {"ctrl"})
      BY <1>t, <2>1, PopProperty
    <3>2. \A k \in Popped(BufSize) : Fits(k, BufSize)
      BY <1>t, <2>1, PopProperty
    <3> QED BY <2>2, <3>1, <3>2 DEF Fits
  <2>4. /\ First(l)[1] \in OfLane(l) /\ First(l) = <<First(l)[1]>>
    BY <1>t, <2>3, FirstProperty
  <2>5. ASSUME batch'[1].lane = "data" PROVE cp.loaded > CtrlTokens
    <3>1. l = "data"
      BY <2>2, <2>4, <2>5 DEF OfLane
    <3>2. ASSUME held["ctrl"] # <<>> PROVE FALSE
      <4>1. "ctrl" \in Lanes
        BY DEF Lanes
      <4>2. First("ctrl") # <<>>
        BY <1>t, <3>2, <4>1, FirstProperty
      <4>3. Fits("ctrl", BufSize)
        BY <4>2 DEF Fits, Length, BufSize
      <4> QED BY <2>3, <3>1, <4>3
    <3> QED BY <2>1, <3>2 DEF Spared
  <2>6. ReserveKept'
    BY <2>1 DEF Spared, ReserveKept, DataBuffers
  <2> QED BY <2>1, <2>5, <2>6 DEF Spared
<1>7. CASE Sleep \/ Await \/ Query \/ WriteFails
  <2>1. /\ cp' = cp /\ held' = held /\ batch' \in {batch, <<>>} /\ pc'["tx"] # "pick"
    BY <1>t, <1>7 DEF Sleep, Await, Query, AskFor, lanes, WriteFails, WriteEnds, WrittenFrom,
                      Goto, Tasks
  <2> QED BY <1>2, <2>1
<1>8. CASE Fill
  BY <1>p, <1>8 DEF Fill
<1>9. CASE Write
  <2>1. /\ pc["tx"] \in {"await", "write"} /\ pc'["tx"] = "peek" /\ batch' = <<>>
        /\ cp.loaded > 0 /\ cp' = Written(batch)
    BY <1>t, <1>9 DEF Write, WriteEnds, WrittenFrom, Goto, Tasks
  <2>2. /\ Sound(cp') /\ cp'.loaded = cp.loaded - 1 /\ cp'.inbox = Append(cp.inbox, batch)
        /\ cp'.dataQueue = cp.dataQueue
    BY <1>t, <2>1, WrittenEffect
  <2>3. DataIn(cp') <= RxBufNum - CtrlTokens
    <3>1. batch # <<>>
      BY <1>t, <2>1 DEF TxPlace, Sending
    <3>2. DOMAIN batch = {1}
      <4>1. Len(batch) \in Nat /\ Len(batch) # 0 /\ DOMAIN batch = 1 .. Len(batch)
        BY <1>t, <3>1
      <4>2. Len(batch) = 1
        BY <1>p, <4>1
      <4> QED BY <4>1, <4>2
    <3>3. Holds(batch, "data") <=> batch[1].lane = "data"
      BY <3>2 DEF Holds
    <3>4. CASE batch[1].lane = "data"
      <4>1. cp.loaded > CtrlTokens
        BY <3>1, <3>4 DEF Spared
      <4>2. cp' \in CpStates /\ Buffers(cp') = RxBufNum
        BY <2>2 DEF Sound
      <4>3. /\ DataIn(cp') \in Nat /\ cp'.loaded \in Nat
            /\ cp'.loaded + DataIn(cp') <= RxBufNum
        BY <4>2, DataBounded
      <4> QED BY <1>c, <2>2, <4>1, <4>3
    <3>5. CASE batch[1].lane # "data"
      <4>1. cp.inbox \in Seq(Seq(Packets)) /\ cp.dataQueue \in Seq(Seq(Packets))
        BY <1>t DEF CpStates
      <4>2. Cardinality(WithData(cp'.inbox)) = Cardinality(WithData(cp.inbox)) + 0
        BY <1>t, <2>2, <3>3, <3>5, <4>1, DataAppended
      <4>3. Cardinality(WithData(cp.inbox)) \in Nat
        BY <4>1, DataCounted
      <4>4. DataIn(cp') = DataIn(cp)
        BY <2>2, <4>2, <4>3 DEF DataIn
      <4> QED BY <4>4 DEF Spared, ReserveKept, DataBuffers, DataIn
    <3> QED BY <3>4, <3>5
  <2>4. ReserveKept'
    BY <2>3 DEF ReserveKept, DataBuffers, DataIn
  <2> QED BY <2>1, <2>4 DEF Spared
<1>10. CASE RxStep
  <2>1. UNCHANGED <<batch, held>> /\ pc'["tx"] = pc["tx"]
    BY <1>t, <1>10 DEF RxStep, ReadStatus, StoreTokens, Fetch, ReadFails, OnInit, Open, Match,
                       MatchWith, Clear, Hand, Done, Then, Goto, Tasks, lanes
  <2>2. cp' \in {cp, [cp EXCEPT !.interrupt = FALSE], Fetched}
    BY <1>10 DEF RxStep, ReadStatus, StoreTokens, Fetch, ReadFails, OnInit, Open,
                 Match, MatchWith, Clear, Hand, Done
  <2>3. cp'.loaded = cp.loaded /\ cp'.inbox = cp.inbox /\ cp'.dataQueue = cp.dataQueue
    BY <1>t, <2>2, FetchedEffect DEF CpStates
  <2>4. DataIn(cp') = DataIn(cp)
    BY <2>3 DEF DataIn
  <2> QED BY <1>1, <1>c, <2>1, <2>3, <2>4
<1>11. CASE Reset \/ Notify \/ NotifyFails \/ Started \/ StartTimesOut
  <2>1. UNCHANGED <<batch, held>> /\ pc'["tx"] = pc["tx"]
    BY <1>t, <1>11 DEF Reset, Notify, NotifyFails, Started, StartTimesOut, Goto, Tasks, lanes
  <2>2. cp' \in {cp, [cp EXCEPT !.opening = TRUE]}
    BY <1>11 DEF Reset, Notify, NotifyFails, Started, StartTimesOut
  <2>3. cp'.loaded = cp.loaded /\ cp'.inbox = cp.inbox /\ cp'.dataQueue = cp.dataQueue
    BY <1>t, <2>2 DEF CpStates
  <2>4. DataIn(cp') = DataIn(cp)
    BY <2>3 DEF DataIn
  <2> QED BY <1>1, <1>c, <2>1, <2>3, <2>4
<1>12. CASE Connect \/ ConnectFails
  <2>1. /\ pc["start"] = "connect" /\ cp' = Booted(cp.aggregates)
        /\ UNCHANGED <<batch, held>> /\ pc'["tx"] = pc["tx"]
    BY <1>t, <1>12 DEF Connect, ConnectFails, Goto, Tasks, lanes
  <2>2. cp'.loaded = RxBufNum /\ Sound(cp')
    <3>1. cp.aggregates \in Aggregating
      BY ValuesTyped
    <3> QED BY <2>1, <3>1, BootedEffect
  <2>3. cp.loaded = RxBufNum
    BY <1>t, <2>1 DEF StartPlace, Untouched
  <2>4. DataIn(cp') \in Nat /\ cp'.loaded + DataIn(cp') <= RxBufNum
    BY <2>2, DataBounded DEF Sound
  <2>5. DataIn(cp') <= DataIn(cp)
    BY <1>c, <2>2, <2>4
  <2> QED BY <1>1, <1>c, <2>1, <2>2, <2>3, <2>4, <2>5
<1>13. CASE Call \/ Answered \/ TimeOut
  <2>1. pc'["tx"] = pc["tx"] /\ UNCHANGED <<batch, held, cp>>
    BY <1>t, <1>13 DEF Call, Answered, TimeOut, Close, Goto, Tasks, lanes
  <2> QED BY <1>2, <2>1
<1>14. ASSUME NEW s \in Senders, TxPut(s) \/ TxGive(s) PROVE Spared'
  <2>1. pc'["tx"] = pc["tx"] /\ UNCHANGED <<batch, held, cp>>
    BY <1>t, <1>14 DEF TxPut, TxGive, Goto, Tasks, Senders
  <2> QED BY <1>2, <2>1
<1>15. CASE CpStep \/ DataStep
  <2>1. GoesOn(cp, cp') /\ UNCHANGED <<pc, batch, held>>
    BY <1>t, <1>15, CpGoes DEF CpStep, DataStep, hostVars
  <2>2. /\ DataIn(cp') <= DataIn(cp) /\ cp' \in CpStates
        /\ cp'.loaded \in {cp.loaded, cp.loaded + 1}
    BY <2>1 DEF GoesOn, Sound, Reloaded
  <2>3. DataIn(cp') \in Nat /\ cp'.loaded \in Nat
    BY <2>2, DataBounded
  <2>4. cp'.loaded >= cp.loaded
    BY <1>c, <2>2
  <2> QED BY <1>1, <2>1, <2>2, <2>3, <2>4
<1>16. CASE UNCHANGED vars
  BY <1>2, <1>16 DEF vars, hostVars
<1> QED BY <1>4, <1>5, <1>6, <1>7, <1>8, <1>9, <1>10, <1>11, <1>12, <1>13, <1>14, <1>15, <1>16
  DEF Next, TxStep, StartStep, Send

\* The first state agrees, and has no transfer.
LEMMA InitCredits == Init => CountsAgree /\ SinglePlace
<1> SUFFICES ASSUME Init PROVE CountsAgree /\ SinglePlace
  OBVIOUS
<1>1. PICK a \in Aggregating : cp = Booted(a)
  BY DEF Init
<1>2. cp.loaded = RxBufNum /\ cp.tokens = RxBufNum
  BY <1>1, BootedEffect
<1>3. /\ link.txCount = 0 /\ link.aggregates = FALSE
      /\ pc["tx"] = "peek" /\ batch = <<>> /\ Len(<<>>) = 0
  BY DEF Init
<1>4. (RxBufNum - 0) % TokenSpan = RxBufNum
  <2>1. /\ RxBufNum - 0 \in 0 .. TokenSpan - 1 /\ RxBufNum - 0 \in Int /\ RxBufNum - 0 = RxBufNum
        /\ TokenSpan \in Nat \ {0}
    BY Constants
  <2> QED BY <2>1, ModProperty
<1> QED BY <1>2, <1>3, <1>4 DEF CountsAgree, Available, SinglePlace

\* The host's count of transfers agrees with the coprocessor's of its receive
\* buffers, whatever fails and however often both wrap.  Where a transfer has
\* one packet, data takes none of the last CtrlTokens receive buffers unless
\* rx_task had stored a count that promises more buffers than there are.
THEOREM CreditsStay == Spec => CreditsKept
<1>1. Init => CountsAgree /\ SinglePlace
  BY InitCredits
<1>2. IInv /\ CountsAgree /\ SinglePlace /\ [Next]_vars => CountsAgree' /\ SinglePlace'
  BY CountSteps, SingleSteps
<1>3. IInv /\ CountsAgree /\ SinglePlace /\ [Next]_vars =>
        [~cp.aggregates /\ Spared /\ CountSound => Spared']_vars
  BY SpareSteps
<1> QED BY <1>1, <1>2, <1>3, Inductive, PTL DEF Spec, CreditsKept

=============================================================================
