--------------------------- MODULE ChannelProofs ----------------------------
(***************************************************************************)
(* No end of a channel is left asleep, and its values do what ChannelSpec  *)
(* lets them do, for any senders, interrupts, tasks and capacity: proofs   *)
(* about Channel.                                                          *)
(***************************************************************************)
EXTENDS Channel, TLAPS

-----------------------------------------------------------------------------
(* Facts about sequences. *)

\* What a concatenation holds.
LEMMA ConcatProperty ==
  ASSUME NEW S, NEW s \in Seq(S), NEW t \in Seq(S)
  PROVE  /\ s \o t \in Seq(S)
         /\ Len(s \o t) = Len(s) + Len(t)
         /\ \A i \in 1 .. Len(s) + Len(t) :
              (s \o t)[i] = IF i <= Len(s) THEN s[i] ELSE t[i - Len(s)]
OBVIOUS

\* RemoveAt drops the element at place k and moves those after it by one.
LEMMA RemoveAtProperty ==
  ASSUME NEW S, NEW q \in Seq(S), NEW k \in 1 .. Len(q)
  PROVE  /\ RemoveAt(q, k) \in Seq(S)
         /\ Len(RemoveAt(q, k)) = Len(q) - 1
         /\ \A i \in 1 .. Len(q) - 1 :
              RemoveAt(q, k)[i] = IF i < k THEN q[i] ELSE q[i + 1]
<1> DEFINE front == SubSeq(q, 1, k - 1)
           back  == SubSeq(q, k + 1, Len(q))
<1>1. /\ front \in Seq(S) /\ Len(front) = k - 1
      /\ \A i \in 1 .. k - 1 : front[i] = q[i]
  OBVIOUS
<1>2. /\ back \in Seq(S) /\ Len(back) = Len(q) - k
      /\ \A i \in 1 .. Len(q) - k : back[i] = q[k + i]
  OBVIOUS
<1>3. RemoveAt(q, k) = front \o back
  BY DEF RemoveAt
<1> HIDE DEF front, back
<1>4. /\ front \o back \in Seq(S)
      /\ Len(front \o back) = Len(q) - 1
      /\ \A i \in 1 .. Len(q) - 1 :
            (front \o back)[i] = IF i < k THEN front[i] ELSE back[i - (k - 1)]
  <2>1. /\ front \o back \in Seq(S)
        /\ Len(front \o back) = Len(front) + Len(back)
        /\ \A i \in 1 .. Len(front) + Len(back) : (front \o back)[i] =
              IF i <= Len(front) THEN front[i] ELSE back[i - Len(front)]
    BY <1>1, <1>2, ConcatProperty
  <2>2. Len(front) = k - 1 /\ Len(back) = Len(q) - k /\ k \in Nat /\ Len(q) \in Nat
    BY <1>1, <1>2
  <2> QED BY <2>1, <2>2
<1>5. \A i \in 1 .. Len(q) - 1 : RemoveAt(q, k)[i] = IF i < k THEN q[i] ELSE q[i + 1]
  <2> SUFFICES ASSUME NEW i \in 1 .. Len(q) - 1
               PROVE  RemoveAt(q, k)[i] = IF i < k THEN q[i] ELSE q[i + 1]
    OBVIOUS
  <2>1. CASE i < k
    BY <1>1, <1>3, <1>4, <2>1
  <2>2. CASE i >= k
    <3>1. i - (k - 1) \in 1 .. Len(q) - k /\ k + (i - (k - 1)) = i + 1
      BY <2>2
    <3> QED BY <1>2, <1>3, <1>4, <2>2, <3>1
  <2> QED BY <2>1, <2>2
<1> QED BY <1>3, <1>4, <1>5

\* From a sequence of different elements RemoveAt takes one out for good and
\* leaves the others, in their order.
LEMMA RemovedProperty ==
  ASSUME NEW S, NEW q \in Seq(S), NEW k \in DOMAIN q,
         \A i, j \in DOMAIN q : q[i] = q[j] => i = j
  PROVE  /\ RemoveAt(q, k) \in Seq(S)
         /\ \A i \in DOMAIN RemoveAt(q, k) :
              /\ RemoveAt(q, k)[i] # q[k]
              /\ \E a \in DOMAIN q : RemoveAt(q, k)[i] = q[a]
         /\ \A i, j \in DOMAIN RemoveAt(q, k) :
              i < j => \E a, b \in DOMAIN q :
                         a < b /\ RemoveAt(q, k)[i] = q[a] /\ RemoveAt(q, k)[j] = q[b]
         /\ \A a \in DOMAIN q :
              a # k => \E i \in DOMAIN RemoveAt(q, k) : RemoveAt(q, k)[i] = q[a]
<1> DEFINE r == RemoveAt(q, k)
<1>1. k \in 1 .. Len(q)
  OBVIOUS
<1>2. /\ r \in Seq(S) /\ Len(r) = Len(q) - 1
      /\ \A i \in 1 .. Len(q) - 1 : r[i] = IF i < k THEN q[i] ELSE q[i + 1]
  BY <1>1, RemoveAtProperty
<1> HIDE DEF r
<1>3. DOMAIN r = 1 .. Len(q) - 1 /\ DOMAIN q = 1 .. Len(q) /\ Len(q) \in Nat
  BY <1>2
<1> DEFINE From(i) == IF i < k THEN i ELSE i + 1
<1>4. \A i \in DOMAIN r : From(i) \in DOMAIN q /\ From(i) # k /\ r[i] = q[From(i)]
  BY <1>1, <1>2, <1>3
<1>5. \A i, j \in DOMAIN r : i < j => From(i) < From(j)
  BY <1>1, <1>3
<1>6. \A a \in DOMAIN q : a # k => \E i \in DOMAIN r : From(i) = a
  <2> SUFFICES ASSUME NEW a \in DOMAIN q, a # k PROVE \E i \in DOMAIN r : From(i) = a
    OBVIOUS
  <2>1. CASE a < k
    BY <1>1, <1>3, <2>1
  <2>2. CASE a > k
    <3>1. a - 1 \in DOMAIN r /\ From(a - 1) = a
      BY <1>1, <1>3, <2>2
    <3> QED BY <3>1
  <2> QED BY <1>1, <1>3, <2>1, <2>2
<1> HIDE DEF From
<1>7. \A i \in DOMAIN r : r[i] # q[k]
  BY <1>1, <1>3, <1>4
<1>8. \A a \in DOMAIN q : a # k => \E i \in DOMAIN r : r[i] = q[a]
  BY <1>4, <1>6
<1> QED BY <1>2, <1>4, <1>5, <1>7, <1>8 DEF r

\* Append adds one element behind the others.
LEMMA AppendedProperty ==
  ASSUME NEW S, NEW q \in Seq(S), NEW e \in S
  PROVE  /\ Append(q, e) \in Seq(S) /\ Append(q, e) # <<>>
         /\ Len(Append(q, e)) = Len(q) + 1
         /\ Head(Append(q, e)) = IF q = <<>> THEN e ELSE Head(q)
         /\ ToSet(Append(q, e)) = ToSet(q) \cup {e}
         /\ IsInjective(q) /\ e \notin ToSet(q) => IsInjective(Append(q, e))
<1> DEFINE r == Append(q, e)
<1>1. /\ r \in Seq(S) /\ Len(r) = Len(q) + 1 /\ r[Len(q) + 1] = e
      /\ \A i \in 1 .. Len(q) : r[i] = q[i]
      /\ r # <<>> /\ Head(r) = IF q = <<>> THEN e ELSE Head(q)
  OBVIOUS
<1> HIDE DEF r
<1>2. Len(q) \in Nat /\ DOMAIN q = 1 .. Len(q) /\ DOMAIN r = 1 .. Len(q) + 1
  BY <1>1
<1>3. ToSet(r) = ToSet(q) \cup {e}
  <2>1. ASSUME NEW x \in ToSet(r) PROVE x \in ToSet(q) \cup {e}
    BY <1>1, <1>2, <2>1 DEF ToSet
  <2>2. ASSUME NEW x \in ToSet(q) \cup {e} PROVE x \in ToSet(r)
    <3>1. CASE x = e
      BY <1>1, <1>2, <3>1 DEF ToSet
    <3>2. CASE x \in ToSet(q)
      <4>1. PICK i \in 1 .. Len(q) : x = q[i]
        BY <1>2, <3>2 DEF ToSet
      <4>2. i \in DOMAIN r /\ r[i] = x
        BY <1>1, <1>2, <4>1
      <4> QED BY <4>2 DEF ToSet
    <3> QED BY <2>2, <3>1, <3>2
  <2> QED BY <2>1, <2>2
<1>4. ASSUME IsInjective(q), e \notin ToSet(q) PROVE IsInjective(r)
  <2>1. \A i \in 1 .. Len(q) : r[i] # e
    BY <1>1, <1>2, <1>4 DEF ToSet
  <2>2. \A i, j \in 1 .. Len(q) : r[i] = r[j] => i = j
    BY <1>1, <1>2, <1>4 DEF IsInjective
  <2> QED BY <1>1, <1>2, <2>1, <2>2 DEF IsInjective
<1> QED BY <1>1, <1>3, <1>4 DEF r

\* Tail drops the first element, which is nowhere else if all are different.
LEMMA TailProperty ==
  ASSUME NEW S, NEW q \in Seq(S), q # <<>>
  PROVE  /\ Head(q) \in ToSet(q) /\ Head(q) \in S
         /\ Tail(q) \in Seq(S) /\ Len(Tail(q)) = Len(q) - 1
         /\ ToSet(q) = ToSet(Tail(q)) \cup {Head(q)}
         /\ IsInjective(q) => IsInjective(Tail(q)) /\ Head(q) \notin ToSet(Tail(q))
<1> DEFINE r == Tail(q)
<1>1. /\ r \in Seq(S) /\ Len(r) = Len(q) - 1 /\ Head(q) = q[1]
      /\ \A i \in 1 .. Len(q) - 1 : r[i] = q[i + 1]
  OBVIOUS
<1>2. Len(q) \in Nat \ {0} /\ DOMAIN q = 1 .. Len(q)
  OBVIOUS
<1> HIDE DEF r
<1>3. DOMAIN r = 1 .. Len(q) - 1
  BY <1>1, <1>2
<1>4. ASSUME NEW x \in ToSet(q) PROVE x \in ToSet(r) \cup {q[1]}
  <2>1. PICK i \in 1 .. Len(q) : x = q[i]
    BY <1>2 DEF ToSet
  <2>2. CASE i # 1
    <3>1. i - 1 \in DOMAIN r /\ r[i - 1] = x
      BY <1>1, <1>2, <1>3, <2>1, <2>2
    <3> QED BY <3>1 DEF ToSet
  <2> QED BY <2>1, <2>2
<1>5. ASSUME NEW x \in ToSet(r) \cup {q[1]} PROVE x \in ToSet(q)
  <2>1. CASE x = q[1]
    BY <1>2, <2>1 DEF ToSet
  <2>2. CASE x \in ToSet(r)
    <3>1. PICK i \in 1 .. Len(q) - 1 : x = r[i]
      BY <1>3, <2>2 DEF ToSet
    <3>2. i + 1 \in DOMAIN q /\ q[i + 1] = x
      BY <1>1, <1>2, <3>1
    <3> QED BY <3>2 DEF ToSet
  <2> QED BY <1>5, <2>1, <2>2
<1>6. ASSUME IsInjective(q) PROVE IsInjective(r) /\ q[1] \notin ToSet(r)
  <2>1. \A i \in 1 .. Len(q) - 1 : i + 1 \in DOMAIN q /\ i + 1 # 1 /\ r[i] = q[i + 1]
    BY <1>1, <1>2
  <2>2. q[1] \notin ToSet(r)
    BY <1>2, <1>3, <1>6, <2>1 DEF ToSet, IsInjective
  <2>3. ASSUME NEW a \in DOMAIN r, NEW b \in DOMAIN r, r[a] = r[b] PROVE a = b
    <3>1. a + 1 = b + 1 /\ a \in Nat /\ b \in Nat
      BY SMTT(30), <1>2, <1>3, <1>6, <2>1, <2>3 DEF IsInjective
    <3> QED BY <3>1
  <2>4. IsInjective(r)
    BY <2>3 DEF IsInjective
  <2> QED BY <2>2, <2>4
<1>7. ToSet(q) = ToSet(r) \cup {q[1]}
  BY <1>4, <1>5
<1>8. Head(q) = q[1] /\ q[1] \in ToSet(q) /\ q[1] \in S
  BY <1>1, <1>2, <1>7
<1> QED BY <1>1, <1>6, <1>7, <1>8 DEF r

-----------------------------------------------------------------------------
\* The receiver closes the channel as it goes and leaves no value, and has
\* nothing left to wake between its two looks.
ReceiverPlace ==
  /\ closed <=> recv = "gone"
  /\ closed => items = <<>>
  /\ recv = "looked" => copies[Receiver] = <<>>

\* A value that was not offered, or waits in its future, has no fate yet; one
\* in the queue is there once.
ValuesNew ==
  /\ IsInjective(items) /\ \A v \in ToSet(items) : fate[v] = "queued"
  /\ \A v \in Values : v[2] > offered[v[1]] => fate[v] = "new"
  /\ \A s \in Senders : future[s] = "live" => offered[s] > 0 /\ fate[Value(s)] = "new"

\* A stored waker names the task that polls the end, or that task knows of the
\* move: it has been woken, or is about to be.
WakersHome ==
  /\ \A s \in Senders : waker[s] # None => waker[s] = home[s] \/ Coming(s)
  /\ recv = "parked" => receiver # None /\ (receiver = home[Receiver] \/ Coming(Receiver))

\* The inductive invariant: the two ends are woken because the copies taken in
\* a critical section are those of the tasks the ends now wait in.
IInv == TypeOK /\ ReceiverPlace /\ ValuesNew /\ WakersHome /\ EndsWoken

-----------------------------------------------------------------------------
(* The list of senders. *)

\* A node is taken out of the list alone: the rest, and its head if that is
\* another node, stay.
LEMMA UnlinkedProperty ==
  ASSUME NEW s \in Senders, senders \in Seq(Senders), IsInjective(senders)
  PROVE  /\ Unlinked(s) \in Seq(Senders) /\ IsInjective(Unlinked(s))
         /\ ToSet(Unlinked(s)) = ToSet(senders) \ {s}
         /\ senders # <<>> /\ ~First(s) =>
              Unlinked(s) # <<>> /\ Head(Unlinked(s)) = Head(senders)
<1> USE DEF IsInjective, ToSet
<1>1. CASE s \notin ToSet(senders)
  BY <1>1 DEF Unlinked
<1>2. CASE s \in ToSet(senders)
  <2> DEFINE k == CHOOSE i \in DOMAIN senders : senders[i] = s
             r == RemoveAt(senders, k)
  <2>1. k \in DOMAIN senders /\ senders[k] = s
    BY <1>2
  <2>2. Unlinked(s) = r
    BY <1>2 DEF Unlinked
  <2> HIDE DEF k
  <2>3. /\ r \in Seq(Senders)
        /\ \A i \in DOMAIN r : r[i] # senders[k] /\ \E a \in DOMAIN senders : r[i] = senders[a]
        /\ \A i, j \in DOMAIN r :
             i < j => \E a, b \in DOMAIN senders : a < b /\ r[i] = senders[a] /\ r[j] = senders[b]
        /\ \A a \in DOMAIN senders : a # k => \E i \in DOMAIN r : r[i] = senders[a]
    BY <2>1, RemovedProperty
  <2>4. Len(r) = Len(senders) - 1 /\ \A i \in 1 .. Len(senders) - 1 : i < k => r[i] = senders[i]
    <3>1. k \in 1 .. Len(senders)
      BY <2>1
    <3> QED BY <3>1, RemoveAtProperty
  <2> HIDE DEF r
  <2>5. DOMAIN r \in SUBSET Nat /\ DOMAIN senders \in SUBSET Nat
    BY <2>3
  <2>6. IsInjective(r)
    <3> SUFFICES ASSUME NEW i \in DOMAIN r, NEW j \in DOMAIN r, i < j PROVE r[i] # r[j]
      BY <2>5
    <3> QED BY <2>3, <2>5
  <2>7. ToSet(r) = ToSet(senders) \ {s}
    BY <2>1, <2>3
  <2>8. senders # <<>> /\ ~First(s) => r # <<>> /\ Head(r) = Head(senders)
    <3> SUFFICES ASSUME senders # <<>>, ~First(s) PROVE r # <<>> /\ Head(r) = Head(senders)
      OBVIOUS
    <3>1. k # 1
      BY <2>1 DEF First
    <3>2. k \in 1 .. Len(senders) /\ k > 1
      BY <2>1, <3>1
    <3>3. Len(r) > 0 /\ r[1] = senders[1]
      BY <2>4, <3>2
    <3> QED BY <2>3, <3>3
  <2> HIDE DEF ToSet, IsInjective
  <2> QED BY <2>2, <2>3, <2>6, <2>7, <2>8
<1> QED BY <1>1, <1>2

\* Nobody's place is told from everybody's.
LEMMA NoneIsNoHome == None \notin Homes
BY ChannelAssumption

\* The nodes in the list are those of the futures with a waker.
LEMMA HeadWaits ==
  ASSUME TypeOK, SendersPending, senders # <<>>
  PROVE  Head(senders) \in Senders /\ waker[Head(senders)] \in Homes
<1>1. Head(senders) \in ToSet(senders)
  BY DEF TypeOK, ToSet
<1> QED BY <1>1 DEF TypeOK, SendersPending

\* Unlinking and linking keep the list that of the pending futures.
LEMMA SendersPendingStep ==
  ASSUME TypeOK, SendersPending, [Next]_vars
  PROVE  SendersPending' /\ senders' \in Seq(Senders)
<1> USE DEF TypeOK
<1>1. CASE /\ UNCHANGED <<senders, waker>>
           /\ \A s \in Senders : future[s] = "live" => future'[s] = "live"
  BY <1>1 DEF SendersPending, ToSet
<1>2. ASSUME NEW s \in Senders, senders' = Unlinked(s),
             waker' = [waker EXCEPT ![s] = None], future' = [future EXCEPT ![s] = "none"]
      PROVE  SendersPending' /\ senders' \in Seq(Senders)
  <2>1. /\ senders' \in Seq(Senders) /\ IsInjective(senders')
        /\ ToSet(senders') = ToSet(senders) \ {s}
    BY <1>2, UnlinkedProperty DEF SendersPending
  <2> QED BY <1>2, <2>1 DEF SendersPending
<1>3. ASSUME NEW s \in Senders, future[s] = "live", PollPending(s)
      PROVE  SendersPending' /\ senders' \in Seq(Senders)
  <2>1. home[s] # None /\ waker' = [waker EXCEPT ![s] = home[s]] /\ UNCHANGED future
    BY <1>3, ChannelAssumption DEF PollPending, Ends
  <2>2. CASE waker[s] # None
    BY <1>3, <2>1, <2>2 DEF PollPending, Linked, SendersPending
  <2>3. CASE waker[s] = None
    <3>1. senders' = Append(senders, s) /\ s \notin ToSet(senders)
      BY <1>3, <2>3 DEF PollPending, Linked, SendersPending
    <3>4. /\ senders' \in Seq(Senders) /\ ToSet(senders') = ToSet(senders) \cup {s}
          /\ IsInjective(senders')
      BY <3>1, AppendedProperty DEF SendersPending
    <3>6. ToSet(senders') = {t \in Senders : waker'[t] # None}
      BY <2>1, <2>3, <3>4 DEF SendersPending
    <3>7. \A t \in ToSet(senders') : future'[t] = "live"
      BY <1>3, <2>1, <3>4 DEF SendersPending
    <3> QED BY <3>4, <3>6, <3>7 DEF SendersPending
  <2> QED BY <2>2, <2>3
<1>4. ASSUME NEW s \in Senders, SenderStep(s)
      PROVE  SendersPending' /\ senders' \in Seq(Senders)
  <2>1. CASE Send(s)
    BY <1>1, <2>1 DEF Send
  <2>2. CASE PollSend(s)
    BY <1>2, <1>3, <2>2 DEF PollSend, PollReady
  <2>3. CASE DropSend(s)
    BY <1>2, <2>3 DEF DropSend
  <2> QED BY <1>4, <2>1, <2>2, <2>3 DEF SenderStep
<1>5. ASSUME NEW i \in Interrupts, TrySend(i)
      PROVE  SendersPending' /\ senders' \in Seq(Senders)
  BY <1>1, <1>5 DEF TrySend
<1>6. CASE ReceiverStep
  BY <1>1, <1>6 DEF ReceiverStep, TryRecv, PollRecv, SecondLook, DropRecv, Close
<1>7. ASSUME NEW a \in Actors, WakeCopy(a)
      PROVE  SendersPending' /\ senders' \in Seq(Senders)
  BY <1>1, <1>7 DEF WakeCopy
<1>8. ASSUME NEW e \in Movers, Move(e)
      PROVE  SendersPending' /\ senders' \in Seq(Senders)
  BY <1>1, <1>8 DEF Move
<1>9. CASE UNCHANGED vars
  BY <1>1, <1>9 DEF vars
<1> QED BY <1>4, <1>5, <1>6, <1>7, <1>8, <1>9 DEF Next

-----------------------------------------------------------------------------
(* The copies of wakers. *)

\* The copy of a waiting sender's waker is one waker.
LEMMA HeadCopyProperty ==
  ASSUME TypeOK, SendersPending, NEW list \in Seq(Senders), ToSet(list) \subseteq ToSet(senders)
  PROVE  /\ HeadCopy(list) \in Seq(Wakers)
         /\ list # <<>> => /\ Head(list) \in Senders /\ waker[Head(list)] \in Homes
                           /\ HeadCopy(list) = <<<<Head(list), waker[Head(list)]>>>>
<1>1. CASE list = <<>>
  BY <1>1 DEF HeadCopy
<1>2. CASE list # <<>>
  <2>1. Head(list) \in ToSet(senders) /\ Head(list) \in Senders
    BY <1>2 DEF ToSet
  <2>2. waker[Head(list)] \in Homes
    BY <2>1 DEF TypeOK, SendersPending
  <2> QED BY <1>2, <2>1, <2>2 DEF HeadCopy, Wakers, Ends
<1> QED BY <1>1, <1>2

\* So are those a step takes.
LEMMA CopiesTyped ==
  ASSUME TypeOK, SendersPending
  PROVE  /\ ReceiverCopy \in Seq(Wakers) /\ HeadCopy(senders) \in Seq(Wakers)
         /\ \A s \in Senders : TurnCopy(s) \in Seq(Wakers)
         /\ \A s \in Senders : NextCopy(Unlinked(s), items') \in Seq(Wakers)
<1>1. ReceiverCopy \in Seq(Wakers)
  <2>1. CASE receiver = None
    BY <2>1 DEF ReceiverCopy
  <2>2. CASE receiver # None
    <3>1. <<Receiver, receiver>> \in Wakers
      BY <2>2 DEF TypeOK, Wakers, Ends
    <3> QED BY <2>2, <3>1 DEF ReceiverCopy
  <2> QED BY <2>1, <2>2
<1>2. HeadCopy(senders) \in Seq(Wakers)
  BY HeadCopyProperty DEF TypeOK
<1>3. ASSUME NEW s \in Senders PROVE HeadCopy(Unlinked(s)) \in Seq(Wakers)
  <2>1. Unlinked(s) \in Seq(Senders) /\ ToSet(Unlinked(s)) \subseteq ToSet(senders)
    BY UnlinkedProperty DEF TypeOK, SendersPending
  <2> QED BY <2>1, HeadCopyProperty
<1> QED BY <1>1, <1>2, <1>3 DEF TurnCopy, NextCopy

\* A live future's value is one of its sender's.
LEMMA ValueTyped ==
  ASSUME TypeOK, ValuesNew, NEW s \in Senders, future[s] = "live"
  PROVE  Value(s) \in Values
<1>1. s \in Producers /\ offered[s] \in Nat /\ offered[s] <= MaxSends[s] /\ offered[s] > 0
  BY DEF TypeOK, ValuesNew, Producers
<1>2. MaxSends[s] \in Nat
  BY <1>1, ChannelAssumption DEF Producers
<1> QED BY <1>1, <1>2 DEF Value, Values

-----------------------------------------------------------------------------
(* The steps. *)

\* Every step keeps the types; the queue never holds more than its capacity.
LEMMA TypeStep ==
  ASSUME TypeOK, ValuesNew, SendersPending, [Next]_vars
  PROVE  TypeOK'
<1> USE ChannelAssumption DEF TypeOK
<1>l. senders' \in Seq(Senders)
  BY SendersPendingStep
<1>1. ASSUME NEW s \in Senders, Send(s) PROVE TypeOK'
  BY <1>1 DEF Send, Producers, Wakers, Ends
<1>2. ASSUME NEW s \in Senders, PollSend(s) PROVE TypeOK'
  <2>1. CASE PollReady(s)
    <3>1. Value(s) \in Values
      BY <1>2, ValueTyped DEF PollSend
    <3>2. items' \in Seq(Values) /\ Len(items') <= Capacity
      BY <2>1, <3>1 DEF PollReady, Takes, Room
    <3>3. copies' \in [Actors -> Seq(Wakers)]
      <4> DEFINE new == (IF Takes THEN ReceiverCopy ELSE <<>>) \o NextCopy(Unlinked(s), items')
      <4>1. new \in Seq(Wakers)
        BY CopiesTyped
      <4>2. copies' = [copies EXCEPT ![s] = new]
        BY <2>1 DEF PollReady
      <4> HIDE DEF new
      <4> QED BY <4>1, <4>2
    <3>4. fate' \in [Values -> {"new", "queued", "taken", "returned", "dropped"}]
      BY <2>1, <3>1 DEF PollReady
    <3>5. waker' \in [Senders -> Homes \cup {None}] /\ future' \in [Senders -> {"none", "live"}]
      BY <2>1 DEF PollReady
    <3> QED BY <1>2, <1>l, <3>2, <3>3, <3>4, <3>5 DEF PollSend
  <2>2. CASE PollPending(s)
    BY <1>2, <1>l, <2>2 DEF PollSend, PollPending, Ends
  <2> QED BY <1>2, <2>1, <2>2 DEF PollSend
<1>3. ASSUME NEW s \in Senders, DropSend(s) PROVE TypeOK'
  <2>1. Value(s) \in Values
    BY <1>3, ValueTyped DEF DropSend
  <2>2. TurnCopy(s) \in Seq(Wakers)
    BY CopiesTyped
  <2> QED BY <1>3, <1>l, <2>1, <2>2 DEF DropSend
<1>4. ASSUME NEW i \in Interrupts, TrySend(i) PROVE TypeOK'
  <2> DEFINE v == <<i, offered[i] + 1>>
  <2>1. i \in Producers /\ offered[i] + 1 \in Nat /\ offered[i] + 1 <= MaxSends[i]
    BY <1>4 DEF TrySend, Producers
  <2>2. v \in Values
    BY <2>1 DEF Values, Producers
  <2>3. offered' = [offered EXCEPT ![i] = offered[i] + 1]
    BY <1>4 DEF TrySend
  <2>4. /\ offered' \in [Producers -> Nat]
        /\ \A p \in Producers : offered'[p] <= MaxSends[p]
    BY <2>1, <2>3
  <2>5. CASE Takes
    <3>1. items' \in Seq(Values) /\ Len(items') <= Capacity
      <4>1. items' = Append(items, v) /\ Len(items) < Capacity
        BY <1>4, <2>5 DEF TrySend, Takes, Room
      <4> HIDE DEF v
      <4> QED BY <2>2, <4>1
    <3>2. copies' \in [Actors -> Seq(Wakers)]
      BY <1>4, <2>5, CopiesTyped DEF TrySend
    <3>3. fate' \in [Values -> {"new", "queued", "taken", "returned", "dropped"}]
      BY <1>4, <2>2, <2>5 DEF TrySend
    <3> QED BY <1>4, <2>4, <3>1, <3>2, <3>3 DEF TrySend
  <2>6. CASE ~Takes
    BY <1>4, <2>2, <2>4, <2>6 DEF TrySend
  <2> QED BY <2>5, <2>6
<1>5. ASSUME Pop
      PROVE  /\ items' \in Seq(Values) /\ Len(items') <= Capacity
             /\ copies' \in [Actors -> Seq(Wakers)] /\ recv' = "idle"
             /\ fate' \in [Values -> {"new", "queued", "taken", "returned", "dropped"}]
  <2>1. items # <<>> /\ items' = Tail(items) /\ Head(items) \in Values
    BY <1>5 DEF Pop
  <2>2. items' \in Seq(Values) /\ Len(items') <= Capacity
    BY <2>1
  <2> QED BY <1>5, <2>2, CopiesTyped DEF Pop
<1>6. CASE TryRecv
  BY <1>5, <1>6 DEF TryRecv
<1>7. CASE PollRecv
  BY <1>5, <1>7 DEF PollRecv
<1>8. CASE SecondLook
  <2>1. CASE Park
    BY <1>8, <2>1 DEF SecondLook, Park, Ends
  <2>2. CASE Pop /\ UNCHANGED receiver
    BY <1>5, <1>8, <2>2 DEF SecondLook
  <2> QED BY <1>8, <2>1, <2>2 DEF SecondLook
<1>9. CASE DropRecv
  BY <1>9 DEF DropRecv
<1>10. CASE Close
  <2>1. copies' \in [Actors -> Seq(Wakers)]
    BY <1>10, CopiesTyped DEF Close
  <2>2. fate' \in [Values -> {"new", "queued", "taken", "returned", "dropped"}]
    BY <1>10 DEF Close
  <2>3. items' = <<>> /\ items' \in Seq(Values) /\ Len(items') <= Capacity
    BY <1>10 DEF Close
  <2> QED BY <1>10, <2>1, <2>2, <2>3 DEF Close
<1>11. ASSUME NEW a \in Actors, WakeCopy(a) PROVE TypeOK'
  BY <1>11 DEF WakeCopy
<1>12. ASSUME NEW e \in Movers, Move(e) PROVE TypeOK'
  BY <1>12 DEF Move, Wakers, Ends
<1>13. CASE UNCHANGED vars
  BY <1>13 DEF vars
<1> QED BY <1>1, <1>2, <1>3, <1>4, <1>6, <1>7, <1>8, <1>9, <1>10, <1>11, <1>12, <1>13
        DEF Next, SenderStep, ReceiverStep

\* Every step keeps the receiver's place and what is left of its wakes apart.
LEMMA ReceiverPlaceStep ==
  ASSUME TypeOK, ReceiverPlace, [Next]_vars
  PROVE  ReceiverPlace'
<1> USE ChannelAssumption DEF TypeOK, ReceiverPlace, Producers
<1>1. ASSUME NEW s \in Senders, SenderStep(s) PROVE ReceiverPlace'
  <2>1. s # Receiver /\ UNCHANGED <<closed, recv>> /\ (closed => items' = items)
    BY <1>1 DEF SenderStep, Send, PollSend, PollReady, PollPending, Takes, DropSend
  <2>2. copies'[Receiver] = copies[Receiver]
    BY <1>1, <2>1 DEF SenderStep, Send, PollSend, PollReady, PollPending, DropSend, Actors
  <2> QED BY <2>1, <2>2
<1>2. ASSUME NEW i \in Interrupts, TrySend(i) PROVE ReceiverPlace'
  <2>1. i # Receiver /\ UNCHANGED <<closed, recv>> /\ (closed => items' = items)
    BY <1>2 DEF TrySend, Takes
  <2>2. copies'[Receiver] = copies[Receiver]
    BY <1>2, <2>1 DEF TrySend, Actors
  <2> QED BY <2>1, <2>2
<1>3. CASE ReceiverStep
  BY <1>3 DEF ReceiverStep, TryRecv, PollRecv, SecondLook, Park, Pop, Waiting, DropRecv, Close
<1>4. ASSUME NEW a \in Actors, WakeCopy(a) PROVE ReceiverPlace'
  BY <1>4 DEF WakeCopy
<1>5. ASSUME NEW e \in Movers, Move(e) PROVE ReceiverPlace'
  BY <1>5 DEF Move
<1>6. CASE UNCHANGED vars
  BY <1>6 DEF vars
<1> QED BY <1>1, <1>2, <1>3, <1>4, <1>5, <1>6 DEF Next

\* Only its producer decides the fate of a value that is not in the queue, and
\* the queue takes only new ones.
LEMMA ValuesStep ==
  ASSUME IInv, [Next]_vars
  PROVE  ValuesNew'
<1> USE ChannelAssumption DEF IInv, TypeOK
<1>v. ASSUME NEW v \in Values PROVE v[1] \in Producers /\ v[2] \in Nat /\ v = <<v[1], v[2]>>
  BY DEF Values
<1>s. ASSUME NEW s \in Senders, future[s] = "live"
      PROVE  Value(s) \in Values /\ Value(s)[1] = s /\ Value(s)[2] = offered[s] /\ s \in Producers
  BY <1>s, ValueTyped DEF Value, Producers
\* A step that leaves the values alone.
<1>1. ASSUME UNCHANGED <<items, offered, fate>>,
             \A s \in Senders : future'[s] = "live" => future[s] = "live"
      PROVE  ValuesNew'
  BY <1>1 DEF ValuesNew, Value
\* A future decides its value's fate.
<1>2. ASSUME NEW s \in Senders, future[s] = "live", future' = [future EXCEPT ![s] = "none"],
             UNCHANGED offered,
             \/ items' = items /\ fate' = [fate EXCEPT ![Value(s)] = "dropped"]
             \/ items' = Append(items, Value(s)) /\ fate' = [fate EXCEPT ![Value(s)] = "queued"]
      PROVE  ValuesNew'
  <2>1. Value(s) \in Values /\ fate[Value(s)] = "new" /\ Value(s) \notin ToSet(items)
    BY <1>2, <1>s DEF ValuesNew
  <2>2. IsInjective(items') /\ \A v \in ToSet(items') : v \in Values /\ fate'[v] = "queued"
    <3>1. \A v \in ToSet(items) : v \in Values
      BY DEF ToSet
    <3>2. CASE items' = items
      BY <1>2, <2>1, <3>1, <3>2 DEF ValuesNew
    <3>3. CASE items' = Append(items, Value(s)) /\ fate' = [fate EXCEPT ![Value(s)] = "queued"]
      <4>1. IsInjective(items') /\ ToSet(items') = ToSet(items) \cup {Value(s)}
        BY <2>1, <3>3, AppendedProperty DEF ValuesNew
      <4> QED BY <2>1, <3>1, <3>3, <4>1 DEF ValuesNew
    <3> QED BY <1>2, <3>2, <3>3
  <2>3. ASSUME NEW v \in Values, v[2] > offered'[v[1]] PROVE fate'[v] = "new"
    <3>1. v # Value(s)
      BY <1>2, <1>s, <2>3
    <3> QED BY <1>2, <2>3, <3>1 DEF ValuesNew
  <2>4. ASSUME NEW t \in Senders, future'[t] = "live"
        PROVE  offered'[t] > 0 /\ fate'[Value(t)'] = "new"
    <3>1. t # s /\ future[t] = "live" /\ Value(t)' = Value(t)
      BY <1>2, <2>4 DEF Value
    <3>2. Value(t) # Value(s)
      BY <3>1 DEF Value
    <3> QED BY <1>2, <1>s, <3>1, <3>2 DEF ValuesNew
  <2> QED BY <2>2, <2>3, <2>4 DEF ValuesNew
<1>3. ASSUME NEW s \in Senders, Send(s) PROVE ValuesNew'
  <2>1. /\ offered' = [offered EXCEPT ![s] = offered[s] + 1] /\ s \in Producers
        /\ offered[s] < MaxSends[s] /\ UNCHANGED <<items, fate>>
        /\ future' = [future EXCEPT ![s] = "live"]
    BY <1>3 DEF Send, Producers
  <2>2. <<s, offered[s] + 1>> \in Values /\ fate[<<s, offered[s] + 1>>] = "new"
    <3>1. offered[s] + 1 \in 1 .. MaxSends[s]
      BY <2>1
    <3>2. <<s, offered[s] + 1>> \in Values
      BY <2>1, <3>1 DEF Values
    <3> QED BY <2>1, <3>2 DEF ValuesNew
  <2>3. ASSUME NEW v \in Values, v[2] > offered'[v[1]] PROVE fate'[v] = "new"
    BY <1>v, <2>1, <2>3 DEF ValuesNew
  <2>4. ASSUME NEW t \in Senders, future'[t] = "live"
        PROVE  offered'[t] > 0 /\ fate'[Value(t)'] = "new"
    <3>1. CASE t = s
      <4>1. Value(t)' = <<s, offered[s] + 1>> /\ offered'[t] = offered[s] + 1 /\ offered[s] \in Nat
        BY <2>1, <3>1 DEF Value
      <4> QED BY <2>1, <2>2, <4>1
    <3>2. CASE t # s
      <4>1. Value(t)' = Value(t) /\ offered'[t] = offered[t] /\ future[t] = "live"
        BY <2>1, <2>4, <3>2 DEF Value, Producers
      <4> QED BY <2>1, <4>1 DEF ValuesNew
    <3> QED BY <3>1, <3>2
  <2> QED BY <2>1, <2>3, <2>4 DEF ValuesNew
<1>4. ASSUME NEW s \in Senders, PollSend(s) PROVE ValuesNew'
  <2>1. CASE PollReady(s) /\ Takes
    BY <1>2, <1>4, <2>1 DEF PollSend, PollReady
  <2>2. CASE PollReady(s) /\ ~Takes
    BY <1>2, <1>4, <2>2 DEF PollSend, PollReady
  <2>3. CASE PollPending(s)
    BY <1>1, <1>4, <2>3 DEF PollSend, PollPending
  <2> QED BY <1>4, <2>1, <2>2, <2>3 DEF PollSend
<1>5. ASSUME NEW s \in Senders, DropSend(s) PROVE ValuesNew'
  BY <1>2, <1>5 DEF DropSend
<1>6. ASSUME NEW i \in Interrupts, TrySend(i) PROVE ValuesNew'
  <2> DEFINE v == <<i, offered[i] + 1>>
  <2>1. /\ offered' = [offered EXCEPT ![i] = offered[i] + 1] /\ i \in Producers
        /\ offered[i] < MaxSends[i] /\ UNCHANGED future
    BY <1>6 DEF TrySend, Producers
  <2>2. v \in Values /\ fate[v] = "new" /\ v \notin ToSet(items)
    <3>1. offered[i] + 1 \in 1 .. MaxSends[i]
      BY <2>1
    <3>2. v \in Values
      BY <2>1, <3>1 DEF Values
    <3> QED BY <2>1, <3>2 DEF ValuesNew
  <2>3. \/ items' = Append(items, v) /\ fate' = [fate EXCEPT ![v] = "queued"]
        \/ items' = items /\ fate' = [fate EXCEPT ![v] = "returned"]
    BY <1>6 DEF TrySend
  <2>4. v[1] = i /\ v[2] = offered[i] + 1
    OBVIOUS
  <2> HIDE DEF v
  <2>5. IsInjective(items') /\ \A u \in ToSet(items') : u \in Values /\ fate'[u] = "queued"
    <3>1. \A u \in ToSet(items) : u \in Values
      BY DEF ToSet
    <3>2. CASE items' = items
      BY <2>2, <2>3, <3>1, <3>2 DEF ValuesNew
    <3>3. CASE items' = Append(items, v) /\ fate' = [fate EXCEPT ![v] = "queued"]
      <4>1. IsInjective(items') /\ ToSet(items') = ToSet(items) \cup {v}
        BY <2>2, <3>3, AppendedProperty DEF ValuesNew
      <4> QED BY <2>2, <3>1, <3>3, <4>1 DEF ValuesNew
    <3> QED BY <2>3, <3>2, <3>3
  <2>6. ASSUME NEW u \in Values, u[2] > offered'[u[1]] PROVE fate'[u] = "new"
    <3>1. u[1] \in Producers /\ u[2] \in Nat
      BY <1>v
    <3>2. u[2] > offered[u[1]]
      BY <2>1, <2>6, <3>1
    <3>3. u # v
      BY <2>1, <2>4, <2>6
    <3> QED BY <2>2, <2>3, <3>2, <3>3 DEF ValuesNew
  <2>7. ASSUME NEW t \in Senders, future'[t] = "live"
        PROVE  offered'[t] > 0 /\ fate'[Value(t)'] = "new"
    <3>1. /\ t # i /\ Value(t)' = Value(t) /\ Value(t) # v
          /\ future[t] = "live" /\ offered'[t] = offered[t]
      BY <2>1, <2>4, <2>7 DEF Value, Producers
    <3> QED BY <1>s, <2>3, <3>1 DEF ValuesNew
  <2> QED BY <2>5, <2>6, <2>7 DEF ValuesNew
<1>7. ASSUME Pop, UNCHANGED <<offered, future>> PROVE ValuesNew'
  <2>1. /\ items # <<>> /\ items' = Tail(items)
        /\ fate' = [fate EXCEPT ![Head(items)] = "taken"]
    BY <1>7 DEF Pop
  <2>2. /\ Head(items) \in ToSet(items) /\ fate[Head(items)] = "queued"
        /\ IsInjective(items') /\ Head(items) \notin ToSet(items')
        /\ ToSet(items') \subseteq ToSet(items)
    BY <2>1, TailProperty DEF ValuesNew
  <2>3. \A v \in ToSet(items) : v \in Values
    BY DEF ToSet
  <2>4. \A v \in Values : fate[v] = "new" => fate'[v] = "new"
    BY <2>1, <2>2
  <2>5. \A v \in ToSet(items') : fate'[v] = "queued"
    BY <2>1, <2>2, <2>3 DEF ValuesNew
  <2>6. \A s \in Senders : Value(s)' = Value(s)
    BY <1>7 DEF Value
  <2> QED BY <1>7, <1>s, <2>2, <2>4, <2>5, <2>6 DEF ValuesNew
<1>8. CASE TryRecv \/ PollRecv \/ SecondLook \/ DropRecv
  BY <1>1, <1>7, <1>8 DEF TryRecv, PollRecv, SecondLook, Park, DropRecv
<1>9. CASE Close
  <2>1. /\ items' = <<>> /\ UNCHANGED <<offered, future>>
        /\ fate' = [v \in Values |-> IF v \in ToSet(items) THEN "dropped" ELSE fate[v]]
    BY <1>9 DEF Close
  <2>2. IsInjective(items') /\ ToSet(items') = {}
    BY <2>1 DEF IsInjective, ToSet
  <2>3. \A v \in Values : fate[v] = "new" => fate'[v] = "new"
    BY <2>1 DEF ValuesNew
  <2> QED BY <1>s, <2>1, <2>2, <2>3 DEF ValuesNew, Value
<1>10. ASSUME NEW a \in Actors, WakeCopy(a) PROVE ValuesNew'
  BY <1>1, <1>10 DEF WakeCopy
<1>11. ASSUME NEW e \in Movers, Move(e) PROVE ValuesNew'
  BY <1>1, <1>11 DEF Move
<1>12. CASE UNCHANGED vars
  BY <1>1, <1>12 DEF vars
<1> QED BY <1>3, <1>4, <1>5, <1>6, <1>8, <1>9, <1>10, <1>11, <1>12
        DEF Next, SenderStep, ReceiverStep

-----------------------------------------------------------------------------
(* The wakeups. *)

\* A wakeup under way stays so while its end is not polled and no copy is lost.
LEMMA ComingKept ==
  ASSUME NEW e \in Ends, Coming(e), home'[e] = home[e],
         \A w \in woken : w[1] = e => w \in woken',
         \A a \in Actors : copies'[a] = copies[a] \/ copies[a] = <<>>
  PROVE  Coming(e)'
<1> DEFINE w == <<e, home[e]>>
<1>1. CASE w \in woken
  BY <1>1 DEF Coming
<1>2. ASSUME NEW a \in Actors, w \in ToSet(copies[a]) PROVE Coming(e)'
  <2>1. copies[a] # <<>>
    BY <1>2 DEF ToSet
  <2> QED BY <1>2, <2>1 DEF Coming
<1> QED BY <1>1, <1>2 DEF Coming

\* Only a poll of its own end ends a wakeup.
LEMMA ComingStays ==
  ASSUME TypeOK, ReceiverPlace, NEW e \in Ends, Coming(e)
  PROVE  /\ \A s \in Senders : Send(s) \/ DropSend(s) \/ (PollSend(s) /\ s # e) => Coming(e)'
         /\ \A i \in Interrupts : TrySend(i) => Coming(e)'
         /\ TryRecv \/ SecondLook \/ DropRecv \/ Close \/ (PollRecv /\ e # Receiver) => Coming(e)'
         /\ \A a \in Actors : WakeCopy(a) => Coming(e)'
         /\ \A m \in Movers : Move(m) => Coming(e)'
         /\ UNCHANGED vars => Coming(e)'
<1> USE DEF TypeOK
<1> DEFINE Safe == /\ home'[e] = home[e] /\ \A w \in woken : w[1] = e => w \in woken'
                   /\ \A a \in Actors : copies'[a] = copies[a] \/ copies[a] = <<>>
<1>k. Safe => Coming(e)'
  BY ComingKept
<1>1. ASSUME NEW s \in Senders, Send(s) \/ DropSend(s) \/ (PollSend(s) /\ s # e) PROVE Safe
  BY <1>1 DEF Send, DropSend, PollSend, PollReady, PollPending
<1>2. ASSUME NEW i \in Interrupts, TrySend(i) PROVE Safe
  BY <1>2 DEF TrySend
<1>3. ASSUME TryRecv \/ SecondLook \/ DropRecv \/ Close \/ (PollRecv /\ e # Receiver) PROVE Safe
  BY <1>3 DEF TryRecv, SecondLook, Park, Pop, DropRecv, Close, PollRecv, ReceiverPlace
<1>4. ASSUME NEW a \in Actors, WakeCopy(a) PROVE Coming(e)'
  <2> DEFINE w == <<e, home[e]>>
  <2>1. /\ copies[a] # <<>> /\ copies[a] \in Seq(Wakers) /\ home' = home
        /\ woken' = woken \cup {Head(copies[a])}
        /\ copies' = [copies EXCEPT ![a] = Tail(copies[a])]
    BY <1>4 DEF WakeCopy
  <2>2. ToSet(copies[a]) = ToSet(copies'[a]) \cup {Head(copies[a])}
    BY <2>1, TailProperty
  <2>3. w \in woken \/ \E b \in Actors : w \in ToSet(copies[b])
    BY DEF Coming
  <2>4. w \in woken' \/ \E b \in Actors : w \in ToSet(copies'[b])
    BY <2>1, <2>2, <2>3
  <2> QED BY <2>1, <2>4 DEF Coming
<1>5. ASSUME NEW m \in Movers, Move(m) PROVE Coming(e)'
  <2>1. m # e => Safe
    BY <1>5 DEF Move
  <2>2. m = e => <<e, home'[e]>> \in woken'
    BY <1>5 DEF Move
  <2> HIDE DEF Safe
  <2> QED BY <1>k, <2>1, <2>2 DEF Coming
<1>6. ASSUME UNCHANGED vars PROVE Safe
  BY <1>6 DEF vars
<1> HIDE DEF Safe
<1> QED BY <1>1, <1>2, <1>3, <1>4, <1>5, <1>6, <1>k

\* A stored waker stays that of its end's task until a move, which wakes.
LEMMA WakersHomeStep ==
  ASSUME IInv, [Next]_vars
  PROVE  WakersHome'
<1> USE ChannelAssumption DEF IInv, TypeOK
<1> DEFINE Stays(e) == Coming(e) => Coming(e)'
           Same(s) == waker'[s] = waker[s] /\ home'[s] = home[s] /\ Stays(s)
           Rests == /\ recv' = "parked" => recv = "parked"
                    /\ receiver' = receiver /\ home'[Receiver] = home[Receiver] /\ Stays(Receiver)
<1>e. Receiver \in Ends /\ \A s \in Senders : s \in Ends /\ s # Receiver
  BY DEF Ends
<1>1. ASSUME \A s \in Senders : waker'[s] = None \/ waker'[s] = home'[s] \/ Same(s),
             recv' # "parked" \/ (receiver' # None /\ receiver' = home'[Receiver]) \/ Rests
      PROVE  WakersHome'
  BY <1>1 DEF WakersHome
<1>2. ASSUME NEW s \in Senders, Send(s) PROVE WakersHome'
  <2>1. UNCHANGED <<waker, home, recv, receiver>>
    BY <1>2 DEF Send
  <2>2. \A e \in Ends : Stays(e)
    BY <1>2, ComingStays
  <2> QED BY <1>1, <1>e, <2>1, <2>2
<1>3. ASSUME NEW s \in Senders, PollSend(s) PROVE WakersHome'
  <2>1. UNCHANGED <<home, recv, receiver>>
    BY <1>3 DEF PollSend
  <2>2. \A e \in Ends : e # s => Stays(e)
    BY <1>3, ComingStays
  <2>3. \/ waker' = [waker EXCEPT ![s] = None]
        \/ waker' = [waker EXCEPT ![s] = home[s]]
    BY <1>3 DEF PollSend, PollReady, PollPending
  <2> HIDE DEF Stays
  <2> QED BY <1>1, <1>e, <2>1, <2>2, <2>3
<1>4. ASSUME NEW s \in Senders, DropSend(s) PROVE WakersHome'
  <2>1. UNCHANGED <<home, recv, receiver>> /\ waker' = [waker EXCEPT ![s] = None]
    BY <1>4 DEF DropSend
  <2>2. \A e \in Ends : Stays(e)
    BY <1>4, ComingStays
  <2> HIDE DEF Stays
  <2> QED BY <1>1, <1>e, <2>1, <2>2
<1>5. ASSUME NEW i \in Interrupts, TrySend(i) PROVE WakersHome'
  <2>1. UNCHANGED <<waker, home, recv, receiver>>
    BY <1>5 DEF TrySend
  <2>2. \A e \in Ends : Stays(e)
    BY <1>5, ComingStays
  <2> QED BY <1>1, <1>e, <2>1, <2>2
<1>6. CASE TryRecv \/ PollRecv \/ DropRecv \/ Close
  <2>1. UNCHANGED <<waker, home>> /\ recv' # "parked"
    BY <1>6 DEF TryRecv, PollRecv, Pop, DropRecv, Close
  <2>2. \A s \in Senders : Stays(s)
    BY <1>6, <1>e, ComingStays
  <2> HIDE DEF Stays
  <2> QED BY <1>1, <2>1, <2>2
<1>7. CASE SecondLook
  <2>1. UNCHANGED <<waker, home>>
    BY <1>7 DEF SecondLook
  <2>2. \A e \in Ends : Stays(e)
    BY <1>7, ComingStays
  <2>3. CASE Park
    <3>1. receiver' = home'[Receiver] /\ receiver' # None
      BY <1>e, <2>1, <2>3 DEF Park
    <3>2. \A s \in Senders : Same(s)
      BY <1>e, <2>1, <2>2
    <3> QED BY <1>1, <3>1, <3>2
  <2>4. CASE Pop
    <3>1. recv' # "parked"
      BY <2>4 DEF Pop
    <3> QED BY <1>1, <1>e, <2>1, <2>2, <3>1
  <2> QED BY <1>7, <2>3, <2>4 DEF SecondLook
<1>8. ASSUME NEW a \in Actors, WakeCopy(a) PROVE WakersHome'
  <2>1. UNCHANGED <<waker, home, recv, receiver>>
    BY <1>8 DEF WakeCopy
  <2>2. \A e \in Ends : Stays(e)
    BY <1>8, ComingStays
  <2> QED BY <1>1, <1>e, <2>1, <2>2
<1>9. ASSUME NEW m \in Movers, Move(m) PROVE WakersHome'
  <2>1. PICK h \in Homes : home' = [home EXCEPT ![m] = h] /\ <<m, h>> \in woken'
    BY <1>9 DEF Move
  <2>2. m \in Ends /\ UNCHANGED <<waker, recv, receiver>>
    BY <1>9 DEF Move, Ends
  <2>3. Coming(m)'
    BY <2>1, <2>2 DEF Coming
  <2>4. \A e \in Ends : Stays(e) /\ (e # m => home'[e] = home[e])
    BY <1>9, <2>1, <2>2, ComingStays
  <2> HIDE DEF Stays
  <2>5. ASSUME NEW s \in Senders, waker'[s] # None PROVE waker'[s] = home'[s] \/ Coming(s)'
    BY <1>e, <2>2, <2>3, <2>4, <2>5 DEF WakersHome, Stays
  <2>6. ASSUME recv' = "parked"
        PROVE receiver' # None /\ (receiver' = home'[Receiver] \/ Coming(Receiver)')
    BY <1>e, <2>2, <2>3, <2>4, <2>6 DEF WakersHome, Stays
  <2> QED BY <2>5, <2>6 DEF WakersHome
<1>10. CASE UNCHANGED vars
  <2>1. UNCHANGED <<waker, home, recv, receiver>>
    BY <1>10 DEF vars
  <2>2. \A e \in Ends : Stays(e)
    BY <1>10, ComingStays
  <2> QED BY <1>1, <1>e, <2>1, <2>2
<1> QED BY <1>2, <1>3, <1>4, <1>5, <1>6, <1>7, <1>8, <1>9, <1>10
        DEF Next, SenderStep, ReceiverStep

\* The last of some copies is one of them.
LEMMA LastOfConcat ==
  ASSUME NEW w \in Wakers, NEW front \in Seq(Wakers), NEW all, all = front \o <<w>>
  PROVE  all # <<>> /\ w \in ToSet(all)
<1>1. all \in Seq(Wakers) /\ Len(all) = Len(front) + 1 /\ all[Len(front) + 1] = w
  OBVIOUS
<1>2. Len(front) + 1 \in DOMAIN all
  BY <1>1
<1> QED BY <1>1, <1>2 DEF ToSet

\* So is the first.
LEMMA FirstOfConcat ==
  ASSUME NEW w \in Wakers, NEW back \in Seq(Wakers), NEW all, all = <<w>> \o back
  PROVE  all # <<>> /\ w \in ToSet(all)
<1>1. all \in Seq(Wakers) /\ Len(all) = Len(back) + 1 /\ all[1] = w
  OBVIOUS
<1>2. 1 \in DOMAIN all
  BY <1>1
<1> QED BY <1>1, <1>2 DEF ToSet

\* The first waiter is woken for the room there is, and for a close.
LEMMA HeadSenderStep ==
  ASSUME IInv, [Next]_vars
  PROVE  HeadSenderWoken'
<1> USE ChannelAssumption DEF IInv, TypeOK
<1> DEFINE IsFirst(h) == senders # <<>> /\ Head(senders) = h
           Free == closed \/ Room
<1>e. Receiver \in Actors /\ \A s \in Senders : s \in Ends /\ s \in Actors /\ s # Receiver
  BY DEF Ends, Actors, Producers
<1>n. senders' \in Seq(Senders)
  BY SendersPendingStep DEF EndsWoken
<1>w. \A h \in Senders : IsFirst(h) /\ Free => Coming(h)
  BY DEF EndsWoken, HeadSenderWoken
<1>q. ASSUME \A h \in Senders : IsFirst(h)' /\ Free' => Coming(h)'
      PROVE  HeadSenderWoken'
  <2> SUFFICES ASSUME senders' # <<>>, Free' PROVE Coming(Head(senders))'
    BY DEF HeadSenderWoken
  <2>1. PICK h \in Senders : h = Head(senders')
    BY <1>n
  <2>2. Coming(h)'
    BY <1>q, <2>1
  <2> QED BY <2>1, <2>2 DEF Coming
<1>p. \A h \in Senders : IsFirst(h) => waker[h] \in Homes /\ (waker[h] = home[h] \/ Coming(h))
  BY HeadWaits, NoneIsNoHome DEF EndsWoken, WakersHome
\* A step that makes no room, nor changes who is first.
<1>1. ASSUME NEW h \in Senders, IsFirst(h)', IsFirst(h), Free' => Free, Free',
             Coming(h) => Coming(h)'
      PROVE  Coming(h)'
  BY <1>1, <1>w
\* The same for a whole action that keeps the list.
<1>2. ASSUME UNCHANGED senders, closed' = closed, Len(items') >= Len(items),
             \A h \in Senders : Coming(h) => Coming(h)'
      PROVE  HeadSenderWoken'
  <2>1. Free' => Free
    BY <1>2 DEF Room
  <2> QED BY <1>1, <1>2, <1>q, <2>1
\* A copy of the new first sender's waker is taken.
<1>3. ASSUME NEW h \in Senders, NEW a \in Actors, waker[h] \in Homes,
             waker[h] = home[h] \/ Coming(h), home' = home,
             <<h, waker[h]>> \in ToSet(copies'[a]), Coming(h) => Coming(h)'
      PROVE  Coming(h)'
  BY <1>3 DEF Coming
<1>4. ASSUME NEW s \in Senders, Send(s) PROVE HeadSenderWoken'
  <2>1. UNCHANGED <<senders, closed, items>>
    BY <1>4 DEF Send
  <2> QED BY <1>2, <1>4, <1>e, <2>1, ComingStays
<1>5. ASSUME NEW i \in Interrupts, TrySend(i) PROVE HeadSenderWoken'
  <2>1. UNCHANGED <<senders, closed>> /\ Len(items') >= Len(items)
    BY <1>5 DEF TrySend
  <2> QED BY <1>2, <1>5, <1>e, <2>1, ComingStays
<1>6. ASSUME NEW s \in Senders, PollSend(s), PollPending(s) PROVE HeadSenderWoken'
  <2> SUFFICES ASSUME NEW h \in Senders, IsFirst(h)', Free' PROVE Coming(h)'
    BY <1>q
  <2>1. ~MayPush(s) /\ closed' = closed /\ items' = items /\ senders' = Linked(s)
    BY <1>6 DEF PollSend, PollPending
  <2>2. Free /\ ~closed /\ Room
    BY <2>1 DEF MayPush, Room
  <2>3. waker[s] # None /\ ~First(s)
    BY <2>1, <2>2 DEF MayPush
  <2>4. senders' = senders /\ h # s
    BY <2>1, <2>3 DEF Linked, First
  <2> QED BY <1>1, <1>6, <1>e, <2>2, <2>4, ComingStays
<1>7. ASSUME NEW s \in Senders, senders' = Unlinked(s), home' = home, closed' = closed,
             First(s) =>
               \A h \in Senders : IsFirst(h)' /\ Free'
                 => copies'[s] # <<>> /\ <<h, waker[h]>> \in ToSet(copies'[s]),
             ~First(s) => (Free' => Free),
             \A h \in Senders \ {s} : Coming(h) => Coming(h)'
      PROVE  HeadSenderWoken'
  <2> SUFFICES ASSUME NEW h \in Senders, IsFirst(h)', Free' PROVE Coming(h)'
    BY <1>q
  <2>1. /\ ToSet(senders') = ToSet(senders) \ {s}
        /\ senders # <<>> /\ ~First(s) => senders' # <<>> /\ Head(senders') = Head(senders)
    BY <1>7, UnlinkedProperty DEF EndsWoken, SendersPending
  <2>2. h \in ToSet(senders')
    BY <1>n DEF ToSet
  <2>3. h \in ToSet(senders) /\ h # s
    BY <2>1, <2>2
  <2>4. senders # <<>>
    BY <2>3 DEF ToSet
  <2>5. CASE First(s)
    <3>1. waker[h] \in Homes
      BY <2>3 DEF EndsWoken, SendersPending
    <3>2. waker[h] = home[h] \/ Coming(h)
      BY <3>1, NoneIsNoHome DEF WakersHome
    <3> QED BY <1>3, <1>7, <1>e, <2>3, <2>5, <3>1, <3>2
  <2>6. CASE ~First(s)
    BY <1>1, <1>7, <2>1, <2>3, <2>4, <2>6
  <2> QED BY <2>5, <2>6
<1>8. ASSUME NEW s \in Senders, DropSend(s) PROVE HeadSenderWoken'
  <2>1. senders' = Unlinked(s) /\ home' = home /\ closed' = closed /\ items' = items
    BY <1>8 DEF DropSend
  <2>2. copies'[s] = TurnCopy(s)
    BY <1>8, <1>e DEF DropSend
  <2>3. ASSUME First(s), NEW h \in Senders, IsFirst(h)'
        PROVE  copies'[s] # <<>> /\ <<h, waker[h]>> \in ToSet(copies'[s])
    <3>1. copies'[s] = <<<<h, waker[h]>>>>
      BY <2>1, <2>2, <2>3 DEF TurnCopy, HeadCopy
    <3> QED BY <3>1 DEF ToSet
  <2>4. Free' => Free
    BY <2>1 DEF Room
  <2>5. \A h \in Senders \ {s} : Coming(h) => Coming(h)'
    BY <1>8, <1>e, ComingStays
  <2> QED BY <1>7, <2>1, <2>3, <2>4, <2>5
<1>9. ASSUME NEW s \in Senders, PollSend(s), PollReady(s) PROVE HeadSenderWoken'
  <2>1. senders' = Unlinked(s) /\ home' = home /\ closed' = closed
    BY <1>9 DEF PollSend, PollReady
  <2>2. copies'[s] = (IF Takes THEN ReceiverCopy ELSE <<>>) \o NextCopy(Unlinked(s), items')
    BY <1>9, <1>e DEF PollReady
  <2>3. ASSUME First(s), NEW h \in Senders, IsFirst(h)', Free'
        PROVE  copies'[s] # <<>> /\ <<h, waker[h]>> \in ToSet(copies'[s])
    <3>1. Len(items') < Capacity
      <4>1. CASE closed
        <5>1. items' = <<>>
          BY <1>9, <4>1 DEF PollReady, Takes, ReceiverPlace
        <5> QED BY <5>1
      <4>2. CASE ~closed
        BY <2>1, <2>3, <4>2 DEF Room
      <4> QED BY <4>1, <4>2
    <3>2. NextCopy(Unlinked(s), items') = <<<<h, waker[h]>>>>
      BY <2>1, <2>3, <3>1 DEF NextCopy, HeadCopy
    <3> DEFINE front == IF Takes THEN ReceiverCopy ELSE <<>>
    <3>3. copies'[s] = front \o <<<<h, waker[h]>>>>
      BY <2>2, <3>2
    <3>4. front \in Seq(Wakers)
      BY CopiesTyped DEF EndsWoken
    <3>5. <<h, waker[h]>> \in Wakers
      <4>1. h \in ToSet(senders')
        BY <1>n, <2>3 DEF ToSet
      <4>2. h \in ToSet(senders)
        BY <2>1, <4>1, UnlinkedProperty DEF EndsWoken, SendersPending
      <4> QED BY <1>e, <4>2 DEF EndsWoken, SendersPending, Wakers
    <3> HIDE DEF front
    <3> QED BY <3>3, <3>4, <3>5, LastOfConcat
  <2>4. ASSUME ~First(s), Free' PROVE Free
    <3>1. CASE Takes
      BY <3>1 DEF Takes
    <3>2. CASE ~Takes
      BY <1>9, <2>1, <2>4, <3>2 DEF PollReady, Room
    <3> QED BY <3>1, <3>2
  <2>5. \A h \in Senders \ {s} : Coming(h) => Coming(h)'
    BY <1>9, <1>e, ComingStays
  <2> QED BY <1>7, <2>1, <2>3, <2>4, <2>5
\* The receiver makes room, or closes.
<1>10. ASSUME copies'[Receiver] = HeadCopy(senders), UNCHANGED <<senders, waker, home>>,
              \A h \in Senders : Coming(h) => Coming(h)'
       PROVE  HeadSenderWoken'
  <2> SUFFICES ASSUME NEW h \in Senders, IsFirst(h)', Free' PROVE Coming(h)'
    BY <1>q
  <2>1. copies'[Receiver] = <<<<h, waker[h]>>>>
    BY <1>10 DEF HeadCopy
  <2>2. <<h, waker[h]>> \in ToSet(copies'[Receiver])
    BY <2>1 DEF ToSet
  <2>3. waker[h] \in Homes /\ (waker[h] = home[h] \/ Coming(h))
    BY <1>10, <1>p
  <2> QED BY <1>3, <1>10, <1>e, <2>2, <2>3
<1>11. ASSUME TryRecv \/ PollRecv \/ SecondLook \/ DropRecv \/ Close PROVE HeadSenderWoken'
  <2>1. UNCHANGED <<senders, waker, home>>
    BY <1>11 DEF TryRecv, PollRecv, SecondLook, DropRecv, Close
  <2>2. \A h \in Senders : Coming(h) => Coming(h)'
    BY <1>11, <1>e, ComingStays
  <2>3. CASE Pop \/ Close
    <3>1. copies'[Receiver] = HeadCopy(senders)
      BY <1>e, <2>3 DEF Pop, Close
    <3> QED BY <1>10, <2>1, <2>2, <3>1
  <2>4. CASE ~Pop /\ ~Close
    <3>1. closed' = closed /\ items' = items
      BY <1>11, <2>4 DEF TryRecv, PollRecv, SecondLook, Park, DropRecv
    <3> QED BY <1>2, <2>1, <2>2, <3>1
  <2> QED BY <2>3, <2>4
<1>12. ASSUME NEW a \in Actors, WakeCopy(a) PROVE HeadSenderWoken'
  <2>1. UNCHANGED <<senders, closed, items>>
    BY <1>12 DEF WakeCopy
  <2> QED BY <1>2, <1>12, <1>e, <2>1, ComingStays
<1>13. ASSUME NEW m \in Movers, Move(m) PROVE HeadSenderWoken'
  <2>1. UNCHANGED <<senders, closed, items>>
    BY <1>13 DEF Move
  <2> QED BY <1>2, <1>13, <1>e, <2>1, ComingStays
<1>14. CASE UNCHANGED vars
  <2>1. UNCHANGED <<senders, closed, items>>
    BY <1>14 DEF vars
  <2> QED BY <1>2, <1>14, <1>e, <2>1, ComingStays
<1> QED BY <1>4, <1>5, <1>6, <1>8, <1>9, <1>11, <1>12, <1>13, <1>14
        DEF Next, SenderStep, ReceiverStep, PollSend

\* The receiver that parks hears of the value pushed after it looked.
LEMMA ReceiverStepWoken ==
  ASSUME IInv, [Next]_vars
  PROVE  ReceiverWoken'
<1> USE ChannelAssumption DEF IInv, TypeOK
<1>e. Receiver \in Ends /\ \A s \in Senders : s \in Actors /\ s # Receiver
  BY DEF Ends, Actors, Producers
<1>p. recv = "parked" => /\ receiver \in Homes
                         /\ receiver = home[Receiver] \/ Coming(Receiver)
  BY DEF WakersHome
\* A step that brings no value, or takes the receiver from its sleep.
<1>1. ASSUME recv' = "parked" => recv = "parked" /\ (items = <<>> => items' = <<>>),
             Coming(Receiver) => Coming(Receiver)'
      PROVE  ReceiverWoken'
  BY <1>1 DEF EndsWoken, ReceiverWoken
\* A push takes a copy of the receiver's waker.
<1>2. ASSUME recv' = recv, home' = home, Coming(Receiver) => Coming(Receiver)',
             NEW a \in Actors, NEW back \in Seq(Wakers), copies'[a] = ReceiverCopy \o back
      PROVE  ReceiverWoken'
  <2> SUFFICES ASSUME recv' = "parked" PROVE Coming(Receiver)'
    BY DEF ReceiverWoken
  <2>1. /\ receiver \in Homes /\ receiver # None
        /\ receiver = home[Receiver] \/ Coming(Receiver)
    BY <1>2, <1>p, NoneIsNoHome
  <2>2. <<Receiver, receiver>> \in Wakers
    BY <1>e, <2>1 DEF Wakers
  <2>3. copies'[a] = <<<<Receiver, receiver>>>> \o back
    BY <1>2, <2>1 DEF ReceiverCopy
  <2>4. <<Receiver, receiver>> \in ToSet(copies'[a])
    BY <1>2, <2>2, <2>3, FirstOfConcat
  <2> QED BY <1>2, <2>1, <2>4 DEF Coming
<1>3. ASSUME NEW s \in Senders, Send(s) \/ DropSend(s) PROVE ReceiverWoken'
  <2>1. UNCHANGED <<recv, items>>
    BY <1>3 DEF Send, DropSend
  <2> QED BY <1>1, <1>3, <1>e, <2>1, ComingStays
<1>4. ASSUME NEW s \in Senders, PollSend(s) PROVE ReceiverWoken'
  <2>1. recv' = recv /\ home' = home /\ (Coming(Receiver) => Coming(Receiver)')
    BY <1>4, <1>e, ComingStays DEF PollSend
  <2>2. CASE items' = items
    BY <1>1, <2>1, <2>2
  <2>3. CASE items' # items
    <3>1. PollReady(s) /\ Takes
      BY <1>4, <2>3 DEF PollSend, PollReady, PollPending
    <3>2. copies'[s] = ReceiverCopy \o NextCopy(Unlinked(s), items')
      BY <1>e, <3>1 DEF PollReady
    <3>3. NextCopy(Unlinked(s), items') \in Seq(Wakers)
      BY CopiesTyped DEF EndsWoken
    <3> QED BY <1>2, <1>e, <2>1, <3>2, <3>3
  <2> QED BY <2>2, <2>3
<1>5. ASSUME NEW i \in Interrupts, TrySend(i) PROVE ReceiverWoken'
  <2>1. recv' = recv /\ home' = home /\ (Coming(Receiver) => Coming(Receiver)')
    BY <1>5, <1>e, ComingStays DEF TrySend
  <2>2. CASE items' = items
    BY <1>1, <2>1, <2>2
  <2>3. CASE items' # items
    <3>1. i \in Actors /\ copies'[i] = ReceiverCopy
      BY <1>5, <2>3 DEF TrySend, Actors, Producers
    <3>2. copies'[i] = ReceiverCopy \o <<>> /\ <<>> \in Seq(Wakers)
      BY <3>1, CopiesTyped DEF EndsWoken
    <3> QED BY <1>2, <2>1, <3>1, <3>2
  <2> QED BY <2>2, <2>3
<1>6. CASE TryRecv \/ PollRecv \/ DropRecv \/ Close
  BY <1>6 DEF TryRecv, PollRecv, Pop, DropRecv, Close, ReceiverWoken
<1>7. CASE SecondLook
  BY <1>7 DEF SecondLook, Park, Pop, ReceiverWoken
<1>8. ASSUME NEW a \in Actors, WakeCopy(a) PROVE ReceiverWoken'
  <2>1. UNCHANGED <<recv, items>>
    BY <1>8 DEF WakeCopy
  <2> QED BY <1>1, <1>8, <1>e, <2>1, ComingStays
<1>9. ASSUME NEW m \in Movers, Move(m) PROVE ReceiverWoken'
  <2>1. UNCHANGED <<recv, items>>
    BY <1>9 DEF Move
  <2> QED BY <1>1, <1>9, <1>e, <2>1, ComingStays
<1>10. CASE UNCHANGED vars
  <2>1. UNCHANGED <<recv, items>>
    BY <1>10 DEF vars
  <2> QED BY <1>1, <1>10, <1>e, <2>1, ComingStays
<1> QED BY <1>3, <1>4, <1>5, <1>6, <1>7, <1>8, <1>9, <1>10
        DEF Next, SenderStep, ReceiverStep

-----------------------------------------------------------------------------
(* The theorems. *)

\* IInv holds of every reachable state.
THEOREM Inductive == Spec => []IInv
<1>1. Init => IInv
  <2> SUFFICES ASSUME Init PROVE IInv
    OBVIOUS
  <2> USE ChannelAssumption DEF Init
  <2>1. TypeOK
    <3>1. (CHOOSE h \in Homes : TRUE) \in Homes
      OBVIOUS
    <3>2. home \in [Ends -> Homes] /\ copies \in [Actors -> Seq(Wakers)]
      BY <3>1
    <3>3. offered \in [Producers -> Nat] /\ \A p \in Producers : offered[p] <= MaxSends[p]
      BY DEF Producers
    <3>4. items \in Seq(Values) /\ Len(items) <= Capacity /\ senders \in Seq(Senders)
      OBVIOUS
    <3> QED BY <3>2, <3>3, <3>4 DEF TypeOK
  <2>2. ReceiverPlace /\ WakersHome
    BY DEF ReceiverPlace, WakersHome
  <2>3. ValuesNew
    <3>1. IsInjective(items) /\ ToSet(items) = {}
      BY DEF IsInjective, ToSet
    <3> QED BY <3>1 DEF ValuesNew
  <2>4. EndsWoken
    <3>1. IsInjective(senders) /\ ToSet(senders) = {}
      BY DEF IsInjective, ToSet
    <3> QED BY <3>1 DEF EndsWoken, HeadSenderWoken, ReceiverWoken, SendersPending
  <2> QED BY <2>1, <2>2, <2>3, <2>4 DEF IInv
<1>2. IInv /\ [Next]_vars => IInv'
  <2> SUFFICES ASSUME IInv, [Next]_vars PROVE IInv'
    OBVIOUS
  <2>1. TypeOK'
    BY TypeStep DEF IInv, EndsWoken
  <2>2. ReceiverPlace'
    BY ReceiverPlaceStep DEF IInv
  <2>3. SendersPending'
    BY SendersPendingStep DEF IInv, EndsWoken
  <2> QED BY <2>1, <2>2, <2>3, ValuesStep, WakersHomeStep, HeadSenderStep, ReceiverStepWoken
          DEF IInv, EndsWoken
<1> QED BY <1>1, <1>2, PTL DEF Spec

\* Every reachable state is well typed; the queue never holds more values than
\* its capacity, so that push_back never grows it in an interrupt (sync.rs:130).
THEOREM TypeCorrect == Spec => []TypeOK
BY Inductive, PTL DEF IInv

\* Neither the first waiting sender nor the receiver is left asleep on room, a
\* value or a close, and no node of a future that has gone stays in the list.
THEOREM NoEndSleeps == Spec => []EndsWoken
BY Inductive, PTL DEF IInv

\* A channel does to its values what ChannelSpec does: each is accepted once or
\* handed back, and comes out once and in order.
THEOREM ValuesPass == Spec => Implements
<1> USE DEF Abstract!vars
<1>1. Init => Abstract!Init
  BY DEF Init, Abstract!Init
<1>2. ASSUME IInv, [Next]_vars PROVE [Abstract!Next]_(Abstract!vars)
  <2> USE <1>2, ChannelAssumption DEF IInv, TypeOK
  <2>f. ~Takes => closed \/ Len(items) = Capacity
    BY DEF Takes, Room
  <2>1. ASSUME UNCHANGED <<items, closed, fate>> PROVE [Abstract!Next]_(Abstract!vars)
    BY <2>1
  <2>2. ASSUME NEW s \in Senders, PollSend(s) PROVE [Abstract!Next]_(Abstract!vars)
    <3>1. future[s] = "live" /\ closed' = closed /\ Value(s) \in Values /\ fate[Value(s)] = "new"
      BY <2>2, ValueTyped DEF PollSend, ValuesNew
    <3>2. CASE PollReady(s) /\ Takes
      <4>1. Abstract!Accept(Value(s))
        BY <3>1, <3>2 DEF PollReady, Takes, Room, Abstract!Accept
      <4> QED BY <3>1, <4>1 DEF Abstract!Next
    <3>3. CASE PollReady(s) /\ ~Takes
      <4>1. Abstract!Discard(Value(s))
        BY <3>1, <3>3 DEF PollReady, Abstract!Discard
      <4> QED BY <3>1, <4>1 DEF Abstract!Next
    <3>4. CASE PollPending(s)
      BY <2>1, <3>1, <3>4 DEF PollPending
    <3> QED BY <2>2, <3>2, <3>3, <3>4 DEF PollSend
  <2>3. ASSUME NEW s \in Senders, DropSend(s) PROVE [Abstract!Next]_(Abstract!vars)
    <3>1. Value(s) \in Values /\ Abstract!Discard(Value(s))
      BY <2>3, ValueTyped DEF DropSend, ValuesNew, Abstract!Discard
    <3> QED BY <3>1 DEF Abstract!Next
  <2>4. ASSUME NEW i \in Interrupts, TrySend(i) PROVE [Abstract!Next]_(Abstract!vars)
    <3> DEFINE v == <<i, offered[i] + 1>>
    <3>1. i \in Producers /\ offered[i] + 1 \in 1 .. MaxSends[i] /\ closed' = closed
      BY <2>4 DEF TrySend, Producers
    <3>2. v \in Values
      BY <3>1 DEF Values
    <3>3. fate[v] = "new"
      BY <3>1, <3>2 DEF ValuesNew
    <3>4. \/ Takes /\ items' = Append(items, v) /\ fate' = [fate EXCEPT ![v] = "queued"]
          \/ ~Takes /\ items' = items /\ fate' = [fate EXCEPT ![v] = "returned"]
      BY <2>4 DEF TrySend
    <3> HIDE DEF v
    <3>5. Abstract!Accept(v) \/ Abstract!Return(v)
      BY <2>f, <3>1, <3>2, <3>3, <3>4 DEF Takes, Room, Abstract!Accept, Abstract!Return
    <3> QED BY <3>2, <3>5 DEF Abstract!Next
  <2>5. ASSUME Pop, closed' = closed PROVE [Abstract!Next]_(Abstract!vars)
    BY <2>5 DEF Pop, Abstract!Next, Abstract!Take, Abstract!vars
  <2>6. CASE TryRecv \/ PollRecv \/ SecondLook \/ DropRecv
    BY <2>1, <2>5, <2>6 DEF TryRecv, PollRecv, SecondLook, Park, DropRecv
  <2>7. CASE Close
    BY <2>7 DEF Close, ReceiverPlace, Abstract!Next, Abstract!Close, ToSet, Abstract!ToSet
  <2>8. ASSUME NEW s \in Senders, Send(s) PROVE [Abstract!Next]_(Abstract!vars)
    BY <2>1, <2>8 DEF Send
  <2>9. ASSUME NEW a \in Actors, WakeCopy(a) PROVE [Abstract!Next]_(Abstract!vars)
    BY <2>1, <2>9 DEF WakeCopy
  <2>10. ASSUME NEW m \in Movers, Move(m) PROVE [Abstract!Next]_(Abstract!vars)
    BY <2>1, <2>10 DEF Move
  <2>11. CASE UNCHANGED vars
    BY <2>11 DEF vars
  <2> QED BY <2>2, <2>3, <2>4, <2>6, <2>7, <2>8, <2>9, <2>10, <2>11
          DEF Next, SenderStep, ReceiverStep
<1> QED BY Inductive, <1>1, <1>2, PTL DEF Spec, Implements, Abstract!Spec
=============================================================================
