---------------------------- MODULE BufferProofs ----------------------------
(***************************************************************************)
(* The media buffer shows the file's bytes, for every size of the file, of *)
(* its chunks and of the ring, and any number of views: a proof that IInv  *)
(* below is an inductive invariant, and what follows from it.              *)
(*                                                                         *)
(* Positions and chunks are related once, in the lemmas on ChunkOf; from   *)
(* there on the proof speaks of chunks and of the slots they are in.       *)
(***************************************************************************)
EXTENDS Buffer, FiniteSetTheorems, TLAPS

-----------------------------------------------------------------------------
(* Facts about numbers. *)

\* What a remainder is, where the difference is at most one span off.
LEMMA ModProperty ==
  ASSUME NEW a \in Int, NEW n \in Nat \ {0}
  PROVE  /\ (a % n) \in 0 .. n - 1
         /\ a \in 0 .. n - 1 => a % n = a
         /\ a \in n .. 2 * n - 1 => a % n = a - n
         /\ a \in -n .. -1 => a % n = a + n
OBVIOUS

-----------------------------------------------------------------------------
(* Positions and chunks. *)

\* The larger and the smaller of two.
LEMMA PairProperty ==
  ASSUME NEW a \in Int, NEW b \in Int
  PROVE  /\ Max({a, b}) = IF a >= b THEN a ELSE b
         /\ Min({a, b}) = IF a <= b THEN a ELSE b
<1>1. \A x \in {a, b} : (\A y \in {a, b} : x >= y) <=> x = IF a >= b THEN a ELSE b
  OBVIOUS
<1>2. \A x \in {a, b} : (\A y \in {a, b} : x <= y) <=> x = IF a <= b THEN a ELSE b
  OBVIOUS
<1>3. Max({a, b}) = IF a >= b THEN a ELSE b
  BY <1>1 DEF Max
<1>4. Min({a, b}) = IF a <= b THEN a ELSE b
  BY <1>2 DEF Min
<1> QED BY <1>3, <1>4

\* The constants, without what the proofs do not ask of them.
LEMMA Sizes ==
  /\ Size \in Nat /\ Chunk \in Nat /\ Chunk >= 1
  /\ RingChunks \in Nat /\ RingChunks >= 4 /\ Slots = 0 .. (RingChunks - 1)
  /\ BounceChunks \in Nat /\ Depth \in Nat /\ 2 * Depth <= RingChunks
  /\ 2 * BounceChunks + 2 <= RingChunks
<1>1. BounceChunks + 1 \in Int /\ Depth \in Int
  BY BufferAssumption DEF BufferAssumption
<1>2. Max({BounceChunks + 1, Depth}) =
        IF BounceChunks + 1 >= Depth THEN BounceChunks + 1 ELSE Depth
  BY <1>1, PairProperty
<1> QED BY <1>2, BufferAssumption DEF BufferAssumption, Slots

\* As many chunks are as many units, and the other way.
LEMMA InUnits ==
  ASSUME NEW k \in Int, NEW m \in Int
  PROVE  /\ k * Chunk \in Int
         /\ k <= m <=> k * Chunk <= m * Chunk
         /\ k < m <=> k * Chunk < m * Chunk
         /\ (k + m) * Chunk = k * Chunk + m * Chunk
<1>1. Chunk \in Nat /\ Chunk >= 1
  BY Sizes
<1>2. ASSUME NEW a \in Int, NEW b \in Int, a < b PROVE a * Chunk < b * Chunk
  <2>1. b = a + (b - a) /\ b - a >= 1
    BY <1>2
  <2>2. (b - a) * Chunk >= 1
    BY <1>1, <2>1
  <2>3. b * Chunk = a * Chunk + (b - a) * Chunk
    BY <1>1
  <2>4. a * Chunk \in Int /\ b * Chunk \in Int /\ (b - a) * Chunk \in Int
    BY <1>1
  <2> QED BY <2>2, <2>3, <2>4
<1>3. k * Chunk \in Int /\ m * Chunk \in Int /\ (k + m) * Chunk = k * Chunk + m * Chunk
  BY <1>1
<1>4. k < m => k * Chunk < m * Chunk
  BY <1>2
<1>5. m < k => m * Chunk < k * Chunk
  BY <1>2
<1> HIDE <1>2
<1>6. k = m => k * Chunk = m * Chunk
  OBVIOUS
<1> QED BY <1>3, <1>4, <1>5, <1>6

\* A position is in its chunk.
LEMMA ChunkProperty ==
  ASSUME NEW p \in Int
  PROVE  /\ ChunkOf(p) \in Int
         /\ ChunkOf(p) * Chunk <= p
         /\ p < (ChunkOf(p) + 1) * Chunk
BY Sizes DEF ChunkOf

\* Which chunk a position is in.
LEMMA ChunkIs ==
  ASSUME NEW p \in Int, NEW k \in Int
  PROVE  /\ ChunkOf(p) \in Int
         /\ k <= ChunkOf(p) <=> k * Chunk <= p
         /\ ChunkOf(p) < k <=> p < k * Chunk
<1> DEFINE c == ChunkOf(p)
<1>1. c \in Int /\ c * Chunk <= p /\ p < (c + 1) * Chunk
  BY ChunkProperty
<1> HIDE DEF c
<1>2. c * Chunk \in Int /\ (c + 1) * Chunk \in Int /\ k * Chunk \in Int
  BY <1>1, InUnits
<1>3. k <= c <=> k * Chunk <= c * Chunk
  BY <1>1, InUnits
<1>4. c + 1 <= k <=> (c + 1) * Chunk <= k * Chunk
  BY <1>1, InUnits
<1>5. k <= c \/ c + 1 <= k
  BY <1>1
<1>6. k <= c <=> k * Chunk <= p
  BY <1>1, <1>2, <1>3, <1>4, <1>5
<1>7. c < k <=> p < k * Chunk
  BY <1>1, <1>2, <1>6
<1> QED BY <1>1, <1>6, <1>7 DEF c

\* The chunks of two positions are in the order of the positions, and the
\* first position of a chunk is in it.
LEMMA ChunkOrder ==
  /\ \A p \in Nat : ChunkOf(p) \in Nat
  /\ \A p, q \in Int : p <= q => ChunkOf(p) <= ChunkOf(q)
  /\ \A k \in Int : ChunkOf(k * Chunk) = k
<1>1. ASSUME NEW p \in Nat PROVE ChunkOf(p) \in Nat
  <2>1. ChunkOf(p) \in Int /\ (0 <= ChunkOf(p) <=> 0 * Chunk <= p)
    BY ChunkIs
  <2> QED BY <2>1, Sizes
<1>2. ASSUME NEW p \in Int, NEW q \in Int, p <= q PROVE ChunkOf(p) <= ChunkOf(q)
  <2>1. ChunkOf(p) \in Int /\ ChunkOf(p) * Chunk <= p
    BY ChunkProperty
  <2>2. ChunkOf(p) * Chunk \in Int
    BY <2>1, InUnits
  <2>3. ChunkOf(p) * Chunk <= q
    BY <1>2, <2>1, <2>2
  <2> QED BY <2>1, <2>3, ChunkIs
<1>3. ASSUME NEW k \in Int PROVE ChunkOf(k * Chunk) = k
  <2>1. k * Chunk \in Int /\ k * Chunk < (k + 1) * Chunk
    BY InUnits
  <2>2. ChunkOf(k * Chunk) \in Int /\ k <= ChunkOf(k * Chunk)
    BY <2>1, ChunkIs
  <2>3. ChunkOf(k * Chunk) < k + 1
    BY <2>1, ChunkIs
  <2> QED BY <2>2, <2>3
<1> QED BY <1>1, <1>2, <1>3

\* The chunks that units take, rounded up.
LEMMA ChunksUpProperty ==
  ASSUME NEW u \in Nat, NEW m \in Nat
  PROVE  /\ ChunksUp(u) \in Nat
         /\ u <= ChunksUp(u) * Chunk
         /\ u <= m * Chunk => ChunksUp(u) <= m
<1> DEFINE c == ChunkOf(u + Chunk - 1)
<1>1. Chunk \in Nat /\ Chunk >= 1 /\ u + Chunk - 1 \in Nat
  BY Sizes
<1>2. ChunksUp(u) = c
  BY DEF ChunksUp, ChunkOf
<1>3. c \in Nat
  BY <1>1, ChunkOrder
<1>4. u + Chunk - 1 < (c + 1) * Chunk /\ (c + 1) * Chunk = c * Chunk + 1 * Chunk
  BY <1>1, <1>3, ChunkProperty, InUnits
<1>5. c * Chunk \in Int /\ 1 * Chunk = Chunk /\ m * Chunk \in Int
  BY <1>1, <1>3, InUnits
<1>6. u <= c * Chunk
  BY <1>1, <1>4, <1>5
<1>7. ASSUME u <= m * Chunk PROVE c <= m
  <2>1. u + Chunk - 1 < (m + 1) * Chunk /\ (m + 1) * Chunk = m * Chunk + 1 * Chunk
    BY <1>1, <1>5, <1>7, InUnits
  <2>2. c < m + 1
    BY <1>1, <2>1, ChunkIs
  <2> QED BY <1>3, <2>2
<1> QED BY <1>2, <1>3, <1>6, <1>7

\* A range of positions that is not empty is on a row of chunks.
LEMMA UnderProperty ==
  ASSUME NEW a \in Int, NEW b \in Int
  PROVE  /\ Under(a, b) = ChunkOf(a) .. ChunkOf(b - 1)
         /\ Under(a, b) \subseteq Int /\ Cardinality(Under(a, b)) \in Nat
         /\ \A k \in Under(a, b) : k - ChunkOf(a) \in 0 .. (Cardinality(Under(a, b)) - 1)
         /\ a < b => /\ ChunkOf(a) \in Under(a, b)
                     /\ Cardinality(Under(a, b)) >= 1
                     /\ \A i \in 0 .. (Cardinality(Under(a, b)) - 1) :
                          ChunkOf(a) + i \in Under(a, b)
<1> DEFINE x == ChunkOf(a)
           y == ChunkOf(b - 1)
           n == Cardinality(Under(a, b))
<1>1. x \in Int /\ y \in Int /\ (a < b => x <= y)
  BY ChunkProperty, ChunkOrder
<1>2. Under(a, b) = x .. y
  BY DEF Under
<1>3. n = IF x > y THEN 0 ELSE y - x + 1
  BY <1>1, <1>2, FS_Interval
<1> HIDE DEF x, y, n
<1>4. \A k \in x .. y : k \in Int /\ k - x \in 0 .. (n - 1)
  BY <1>1, <1>3
<1>5. n \in Nat
  BY <1>1, <1>3
<1>6. a < b => n >= 1 /\ x \in x .. y /\ \A i \in 0 .. (n - 1) : x + i \in x .. y
  BY <1>1, <1>3
<1> QED BY <1>2, <1>4, <1>5, <1>6 DEF x, y, n

-----------------------------------------------------------------------------
(* The window. *)

Windows == [base : Nat, head : Slots, filled : 0 .. RingChunks]
InWindow(w) == w.base .. (FilledEnd(w) - 1)
SlotsOf(w) == {SlotOf(w, k) : k \in InWindow(w)}

\* Counting round the ring.
LEMMA Round ==
  ASSUME NEW a \in Int
  PROVE  /\ (a % RingChunks) \in Slots
         /\ a \in Slots => a % RingChunks = a
         /\ a >= RingChunks /\ a < 2 * RingChunks => a % RingChunks = a - RingChunks
<1>1. RingChunks \in Nat \ {0} /\ Slots = 0 .. RingChunks - 1
  BY Sizes
<1>2. /\ (a % RingChunks) \in 0 .. RingChunks - 1
      /\ a \in 0 .. RingChunks - 1 => a % RingChunks = a
      /\ a \in RingChunks .. 2 * RingChunks - 1 => a % RingChunks = a - RingChunks
  BY <1>1, ModProperty
<1>3. a >= RingChunks /\ a < 2 * RingChunks => a \in RingChunks .. 2 * RingChunks - 1
  BY <1>1
<1> QED BY <1>1, <1>2, <1>3

\* A place in the ring, and what follows it.
LEMMA Wraps ==
  ASSUME NEW a \in 0 .. (2 * RingChunks - 1), NEW b \in 0 .. RingChunks,
         a + b <= 2 * RingChunks - 1
  PROVE  /\ a % RingChunks \in Slots
         /\ ((a % RingChunks) + b) % RingChunks = (a + b) % RingChunks
<1> DEFINE x == a % RingChunks
<1>1. RingChunks \in Nat \ {0} /\ Slots = 0 .. RingChunks - 1 /\ a \in Nat /\ b \in Nat
      /\ a <= 2 * RingChunks - 1
  BY Sizes
<1>2. /\ x \in Slots
      /\ a \in Slots => x = a
      /\ a >= RingChunks /\ a < 2 * RingChunks => x = a - RingChunks
  <2>1. a \in Int
    BY <1>1
  <2> QED BY <2>1, Round
<1> HIDE DEF x
<1>3. CASE x = a
  BY <1>1, <1>2, <1>3 DEF x
<1>4. CASE x # a
  <2>1. x = a - RingChunks /\ a >= RingChunks
    BY <1>1, <1>2, <1>4
  <2> DEFINE s == a + b
             y == x + b
  <2>2. s >= RingChunks /\ s < 2 * RingChunks /\ s \in Int /\ y = s - RingChunks
        /\ y \in Int /\ y \in Slots
    BY <1>1, <1>2, <2>1
  <2> HIDE DEF s, y
  <2>3. s % RingChunks = s - RingChunks /\ y % RingChunks = y
    BY <2>2, Round
  <2>4. y % RingChunks = s % RingChunks
    BY <2>2, <2>3
  <2> QED BY <1>2, <2>4 DEF s, y, x
<1> QED BY <1>3, <1>4

\* Every chunk has a slot, those of a whole ring different ones.
LEMMA SlotProperty ==
  ASSUME NEW w, w.base \in Nat, w.head \in Slots
  PROVE  /\ \A k \in Int : SlotOf(w, k) \in Slots
         /\ \A k \in w.base .. (w.base + RingChunks - 1) :
              SlotOf(w, k) = IF w.head + (k - w.base) < RingChunks THEN w.head + (k - w.base)
                             ELSE w.head + (k - w.base) - RingChunks
         /\ \A k, m \in w.base .. (w.base + RingChunks - 1) :
              SlotOf(w, k) = SlotOf(w, m) => k = m
<1> DEFINE b == w.base
           h == w.head
<1>1. RingChunks \in Nat /\ Slots = 0 .. (RingChunks - 1) /\ h \in Nat /\ b \in Nat
      /\ h < RingChunks
  BY Sizes
<1>s. \A k : SlotOf(w, k) = (h + (k - b)) % RingChunks
  BY DEF SlotOf
<1> HIDE DEF b, h
<1>2. ASSUME NEW k \in Int
      PROVE  SlotOf(w, k) \in Slots
  <2>1. h + (k - b) \in Int
    BY <1>1
  <2>2. (h + (k - b)) % RingChunks \in Slots
    BY <2>1, Round
  <2> QED BY <1>s, <2>2
<1>3. ASSUME NEW k \in b .. (b + RingChunks - 1)
      PROVE  SlotOf(w, k) = IF h + (k - b) < RingChunks THEN h + (k - b)
                            ELSE h + (k - b) - RingChunks
  <2> DEFINE s == h + (k - b)
  <2>1. s \in Int /\ 0 <= s /\ s < 2 * RingChunks
        /\ h + (k - b) - RingChunks = s - RingChunks
    BY <1>1
  <2>2. SlotOf(w, k) = s % RingChunks
    BY <1>s
  <2> HIDE DEF s
  <2>3. /\ s \in Slots => s % RingChunks = s
        /\ s >= RingChunks /\ s < 2 * RingChunks => s % RingChunks = s - RingChunks
    BY <2>1, Round
  <2>4. s % RingChunks = IF s < RingChunks THEN s ELSE s - RingChunks
    BY <1>1, <2>1, <2>3
  <2> QED BY <2>1, <2>2, <2>4 DEF s
<1>4. ASSUME NEW k \in b .. (b + RingChunks - 1), NEW m \in b .. (b + RingChunks - 1),
             SlotOf(w, k) = SlotOf(w, m)
      PROVE  k = m
  <2>1. (IF h + (k - b) < RingChunks THEN h + (k - b) ELSE h + (k - b) - RingChunks)
        = (IF h + (m - b) < RingChunks THEN h + (m - b) ELSE h + (m - b) - RingChunks)
    BY <1>3, <1>4
  <2> QED BY <1>1, <2>1
<1> QED BY <1>2, <1>3, <1>4 DEF b, h

\* A window's chunks are in different slots of the ring, and the slot after
\* them is another one, unless the ring is full.
LEMMA WindowProperty ==
  ASSUME NEW w \in Windows
  PROVE  /\ FilledEnd(w) \in Nat /\ InWindow(w) \subseteq Nat
         /\ \A k \in Int : SlotOf(w, k) \in Slots
         /\ \A k, m \in InWindow(w) : SlotOf(w, k) = SlotOf(w, m) => k = m
         /\ Next(w) \in Slots /\ Next(w) = SlotOf(w, FilledEnd(w))
         /\ w.filled < RingChunks => Next(w) \notin SlotsOf(w)
<1> DEFINE b == w.base  n == w.filled  h == w.head
<1>1. b \in Nat /\ n \in 0 .. RingChunks /\ h \in Slots /\ RingChunks \in Nat
      /\ Slots \subseteq Nat
  BY Sizes DEF Windows
<1>2. FilledEnd(w) = b + n /\ InWindow(w) = b .. ((b + n) - 1)
  BY DEF FilledEnd, InWindow
<1>3. /\ \A k \in Int : SlotOf(w, k) \in Slots
      /\ \A k, m \in b .. (b + RingChunks - 1) : SlotOf(w, k) = SlotOf(w, m) => k = m
  BY <1>1, SlotProperty
<1>4. Next(w) = SlotOf(w, b + n)
  <2>1. h + n = h + ((b + n) - b)
    BY <1>1
  <2> QED BY <2>1 DEF Next, SlotOf
<1> HIDE DEF b, n, h
<1>5. b + n \in Nat /\ b .. ((b + n) - 1) \subseteq Nat
      /\ b .. ((b + n) - 1) \subseteq b .. (b + RingChunks - 1)
  BY <1>1
<1>6. ASSUME n < RingChunks PROVE Next(w) \notin SlotsOf(w)
  <2>1. b + n \in b .. (b + RingChunks - 1) /\ b + n \notin b .. ((b + n) - 1)
    BY <1>1, <1>6
  <2> QED BY <1>2, <1>3, <1>4, <1>5, <2>1 DEF SlotsOf
<1>7. b + n \in Int
  BY <1>1
<1> QED BY <1>2, <1>3, <1>4, <1>5, <1>6, <1>7 DEF n

\* w's chunks are among those of v, in the same slots; the next goes where it
\* would have gone.
Within(w, v) ==
  /\ w \in Windows /\ w.filled <= v.filled /\ Next(w) = Next(v)
  /\ \A k \in InWindow(w) : k \in InWindow(v) /\ SlotOf(w, k) = SlotOf(v, k)

\* A restarted window has no chunk.
LEMMA RestartedProperty ==
  ASSUME NEW w \in Windows, NEW c \in Nat
  PROVE  /\ Within(Restarted(w, c), w)
         /\ Restarted(w, c).base = ChunkOf(c) /\ Restarted(w, c).filled = 0
<1> DEFINE d == Restarted(w, c)
           a == w.head + w.filled
<1>1. w.head \in Int /\ w.filled \in 0 .. RingChunks /\ RingChunks \in Nat
      /\ w.head >= 0 /\ w.head <= RingChunks - 1
  BY Sizes DEF Windows
<1>2. /\ d = [base |-> ChunkOf(c), head |-> a % RingChunks, filled |-> 0]
      /\ d.base = ChunkOf(c) /\ d.head = a % RingChunks /\ d.filled = 0
  BY DEF Restarted
<1>3. a \in 0 .. (2 * RingChunks - 1) /\ 0 \in 0 .. RingChunks /\ a + 0 <= 2 * RingChunks - 1
      /\ a + 0 = a
  BY <1>1
<1>4. ChunkOf(c) \in Nat
  BY ChunkOrder
<1> HIDE DEF d
<1>5. a % RingChunks \in Slots
      /\ ((a % RingChunks) + 0) % RingChunks = (a + 0) % RingChunks
  <2> HIDE DEF a
  <2> QED BY <1>3, Wraps
<1>6. d \in Windows
  BY <1>1, <1>2, <1>4, <1>5 DEF Windows
<1>7. Next(d) = Next(w)
  BY <1>2, <1>3, <1>5 DEF Next
<1>8. InWindow(d) = {}
  BY <1>2, <1>4 DEF InWindow, FilledEnd
<1> QED BY <1>1, <1>2, <1>6, <1>7, <1>8 DEF Within, d

\* What is before the cursor goes from the window: it starts at the cursor's
\* chunk, and what is left of it ends where it did.
LEMMA DropProperty ==
  ASSUME NEW w \in Windows, NEW c \in Nat
  PROVE  LET d == DropConsumed(w, c) IN
         /\ Within(d, w) /\ d \in Windows
         /\ d.base = ChunkOf(c)
         /\ FilledEnd(d) = ChunkOf(c) + d.filled
<1> DEFINE d == DropConsumed(w, c)
           x == ChunkOf(c)
           n == w.filled
           r == RingChunks
           b == w.base
           h == w.head
<1>1. /\ b \in Nat /\ h \in Int /\ h >= 0 /\ h <= r - 1
      /\ n \in 0 .. r /\ r \in Nat \ {0}
  BY Sizes DEF Windows
<1>2. x \in Nat
  BY ChunkOrder
<1> HIDE DEF x, n, r, b, h
<1>3. CASE x < b
  <2>1. d = Restarted(w, c)
    BY <1>3 DEF DropConsumed, x, b
  <2> HIDE DEF d
  <2>2. Within(d, w) /\ d.base = x /\ d.filled = 0
    BY <2>1, RestartedProperty DEF x
  <2> QED BY <2>2 DEF Within, FilledEnd, d, x
<1>4. CASE ~(x < b)
  <2> DEFINE g == Min({n, x - b})
  <2>1. g = IF n <= x - b THEN n ELSE x - b
    <3>1. n \in Int /\ x - b \in Int
      BY <1>1, <1>2
    <3> QED BY <3>1, PairProperty
  <2>2. d = [base |-> IF g = n THEN x ELSE b + g, head |-> (h + g) % r, filled |-> n - g]
    BY <1>4 DEF DropConsumed, x, b, n, h, r
  <2> HIDE DEF g
  <2>3. g \in 0 .. n /\ (g = n \/ b + g = x) /\ x >= b
    BY <1>1, <1>2, <1>4, <2>1
  <2>4. d.base = x /\ d.head = (h + g) % r /\ d.filled = n - g
    BY <1>1, <1>2, <2>2, <2>3
  <2> HIDE DEF d
  <2>5. /\ h + g \in 0 .. (2 * r - 1) /\ n - g \in 0 .. r
        /\ (h + g) + (n - g) <= 2 * r - 1 /\ (h + g) + (n - g) = h + n
    BY <1>1, <2>3
  <2>6. /\ (h + g) % r \in Slots
        /\ (((h + g) % r) + (n - g)) % r = (h + n) % r
    BY <2>5, Wraps DEF r
  <2>7. d \in Windows
    <3>1. d = [base |-> x, head |-> (h + g) % r, filled |-> n - g]
      BY <1>1, <1>2, <2>2, <2>3
    <3> QED BY <1>2, <2>5, <2>6, <3>1 DEF Windows, r
  <2>8. Next(d) = Next(w)
    BY <2>4, <2>6 DEF Next, h, n, r
  <2>9. FilledEnd(d) = x + d.filled /\ InWindow(d) = x .. ((x + (n - g)) - 1)
        /\ InWindow(w) = b .. ((b + n) - 1)
    BY <2>4 DEF FilledEnd, InWindow, b, n
  <2>10. ASSUME NEW k \in x .. ((x + (n - g)) - 1)
         PROVE  k \in b .. ((b + n) - 1) /\ SlotOf(d, k) = SlotOf(w, k)
    <3>1. n - g >= 1 /\ b + g = x /\ k \in Int
      BY <1>1, <1>2, <2>3
    <3>2. k \in b .. ((b + n) - 1)
      BY <1>1, <1>2, <2>3, <3>1
    <3>3. k - x \in 0 .. r /\ (h + g) + (k - x) <= 2 * r - 1
          /\ (h + g) + (k - x) = h + (k - b)
      BY <1>1, <1>2, <2>3, <3>1
    <3>4. (((h + g) % r) + (k - x)) % r = (h + (k - b)) % r
      BY <2>5, <3>3, Wraps DEF r
    <3>5. SlotOf(d, k) = SlotOf(w, k)
      BY <2>4, <3>4 DEF SlotOf, h, b, r
    <3> QED BY <3>2, <3>5
  <2>11. d.filled <= w.filled
    BY <1>1, <2>3, <2>4 DEF n
  <2> QED BY <2>4, <2>7, <2>8, <2>9, <2>10, <2>11 DEF Within, d, x, b, n
<1> QED BY <1>3, <1>4

-----------------------------------------------------------------------------
(* The invariant. *)

\* Who is where: what the reader works on lies ahead of the cursor, a view no
\* further than half the ring, and what a view waits for is asked for; the io
\* lock is with who reads the file; and after a stop there is no reader.
PlacesOK ==
  /\ pc \in {"idle", "direct", "reading"} => want = 0
  /\ pc \in {"direct", "reading"} => op.start = cursor /\ op.start <= op.end
  /\ pc = "read" => cursor < op.end
  /\ pc \in {"view", "copy"} => op.start < op.end
  /\ pc = "view" =>
       /\ cursor <= op.start
       /\ op.end <= (ChunkOf(cursor) + (RingChunks \div 2)) * Chunk
       /\ want # 0 => op.end <= (ChunkOf(cursor) + want) * Chunk
  /\ io = Reader <=> pc = "reading"
  /\ io = Filler <=> fpc = "filling"
  /\ stop => pc \in {"join", "closed"}

\* Wherever the window went since, the chunk on its way goes to the slot after
\* it, and there is room for it.
FillOK ==
  fpc \in {"fill", "filling"} =>
    /\ fill.slot = Next(win) /\ win.filled < RingChunks
    /\ fill.chunk * Chunk < Size

\* The chunks to be copied are still where they were, and what was copied is
\* theirs.
CopyOK ==
  pc = "copy" =>
    /\ \A k \in Under(op.start, op.end) : slots[SlotOf(Snapshot, k)] = k
    /\ Len(bounce) <= Cardinality(Under(op.start, op.end))
    /\ \A i \in 1 .. Len(bounce) : bounce[i] = ChunkOf(op.start) + i - 1

IInv == TypeOK /\ PlacesOK /\ FillOK /\ CopyOK /\ BytesRight /\ PinsHold

\* TypeOK, in two halves.
ControlOK ==
  /\ cursor \in Positions /\ win \in Windows /\ want \in 0 .. RingChunks
  /\ readahead \in BOOLEAN /\ interrupted \in BOOLEAN /\ ioError \in BOOLEAN
  /\ io \in {None, Reader, Filler} /\ filePos \in Positions
  /\ op \in Ops
  /\ pc \in {"idle", "read", "direct", "reading", "view", "copy", "join",
             "closed"}
  /\ fpc \in {"look", "fill", "filling", "ended"}
  /\ fill \in [chunk : Nat, slot : Slots] /\ stop \in BOOLEAN

MemoryOK ==
  /\ pins \in [Slots -> Nat] /\ bouncePins \in {0, 1}
  /\ slots \in [Slots -> Held] /\ bounce \in Seq(Held)
  /\ views \in [ViewIds -> ViewsOf]

\* They are.
LEMMA Halves == TypeOK <=> ControlOK /\ MemoryOK
BY DEF TypeOK, ControlOK, MemoryOK, Windows

-----------------------------------------------------------------------------
(* What the longer actions do. *)

\* A round of a read moves the cursor ahead, to the read's end or not.
LEMMA ReadRoundProperty ==
  ASSUME ControlOK, PlacesOK, ReadRound
  PROVE  /\ cursor' \in Positions
         /\ \E c \in Nat : win' = DropConsumed(win, c)
         /\ \/ want' = 0 /\ pc' = "idle" /\ op' = NoOp
            \/ want' \in 0 .. RingChunks /\ UNCHANGED reader /\ cursor' < op.end
<1> DEFINE there == FilledEnd(DropConsumed(win, cursor)) * Chunk
           to    == IF op.end <= there THEN op.end ELSE Max({cursor, there})
           last  == Max({cursor, ChunkOf(to - 1) * Chunk})
           w     == DropConsumed(win, IF to = op.end THEN last ELSE to)
           piece == Min({op.end, (ChunkOf(to) + 1) * Chunk})
<1>1. /\ cursor' = to /\ win' = w
      /\ \/ want' = 0 /\ pc' = "idle" /\ op' = NoOp
         \/ to # op.end /\ want' = Wanted(w, piece) /\ UNCHANGED reader
  BY DEF ReadRound
<1>2. /\ Size \in Nat /\ cursor \in 0 .. Size /\ op.end \in 0 .. Size /\ cursor < op.end
      /\ win \in Windows /\ want \in 0 .. RingChunks /\ RingChunks \in Nat /\ RingChunks >= 4
      /\ cursor \in Nat
  BY Sizes DEF ControlOK, PlacesOK, Positions, Ops, ReadRound
<1>3. there \in Int
  <2>1. FilledEnd(DropConsumed(win, cursor)) \in Int
    <3>1. DropConsumed(win, cursor) \in Windows
      BY <1>2, DropProperty
    <3> QED BY <3>1, WindowProperty
  <2> QED BY <2>1, InUnits
<1> HIDE DEF there
<1>4. Max({cursor, there}) = IF cursor >= there THEN cursor ELSE there
  BY <1>2, <1>3, PairProperty
<1>5. to \in Nat /\ cursor <= to /\ to <= op.end /\ to <= Size
  BY <1>2, <1>3, <1>4
<1> HIDE DEF to
<1>6. last \in Nat
  <2>1. ChunkOf(to - 1) * Chunk \in Int
    <3>1. to - 1 \in Int
      BY <1>5
    <3>2. ChunkOf(to - 1) \in Int
      BY <3>1, ChunkProperty
    <3> QED BY <3>2, InUnits
  <2> DEFINE l == ChunkOf(to - 1) * Chunk
  <2> HIDE DEF l
  <2>2. l \in Int /\ cursor \in Int
    BY <1>2, <2>1 DEF l
  <2>3. Max({cursor, l}) = IF cursor >= l THEN cursor ELSE l
    BY <2>2, PairProperty
  <2> QED BY <1>2, <2>2, <2>3 DEF l
<1> HIDE DEF last
<1>7. (IF to = op.end THEN last ELSE to) \in Nat
  BY <1>5, <1>6
<1>8. ASSUME to # op.end, want' = Wanted(w, piece) PROVE want' \in 0 .. RingChunks
  <2> DEFINE a == ChunkOf(to) * Chunk
             z == (ChunkOf(to) + 1) * Chunk
             u == piece - a
  <2>1. w.base = ChunkOf(to)
    BY <1>2, <1>5, <1>8, DropProperty
  <2>2. a \in Int /\ z \in Int /\ z = a + Chunk /\ a <= to /\ to < z /\ to \in Int
        /\ Chunk \in Nat /\ Chunk >= 1
    <3>1. to \in Int /\ ChunkOf(to) \in Int /\ a <= to /\ to < z
      BY <1>5, ChunkProperty
    <3>2. a \in Int /\ z \in Int /\ z = a + 1 * Chunk
      BY <3>1, InUnits
    <3> QED BY <3>1, <3>2, Sizes
  <2>3. piece = IF op.end <= z THEN op.end ELSE z
    <3> HIDE DEF z
    <3>1. op.end \in Int /\ z \in Int
      BY <1>2, <2>2
    <3> QED BY <3>1, PairProperty DEF z
  <2> HIDE DEF piece
  <2>4. u \in Nat /\ u <= Chunk
    <3> HIDE DEF a, z
    <3> QED BY <1>2, <1>5, <1>8, <2>2, <2>3
  <2>5. Wanted(w, piece) = Max({want, ChunksUp(u)})
    BY <2>1 DEF Wanted
  <2> HIDE DEF u
  <2>6. ChunksUp(u) \in Nat /\ ChunksUp(u) <= 1
    BY <2>2, <2>4, ChunksUpProperty
  <2>7. Max({want, ChunksUp(u)}) = IF want >= ChunksUp(u) THEN want ELSE ChunksUp(u)
    <3>1. want \in Int /\ ChunksUp(u) \in Int
      BY <1>2, <2>6
    <3> QED BY <3>1, PairProperty
  <2> QED BY <1>2, <1>8, <2>5, <2>6, <2>7
<1>9. cursor' \in Positions
  BY <1>1, <1>2, <1>5 DEF Positions
<1>10. to # op.end => to < op.end
  BY <1>2, <1>5
<1>11. win' = DropConsumed(win, IF to = op.end THEN last ELSE to)
  BY <1>1
<1> QED BY <1>1, <1>7, <1>8, <1>9, <1>10, <1>11

\* A view waits for no more than half the ring, and for all it needs.
LEMMA ViewWaits ==
  ASSUME ControlOK, PlacesOK, pc = "view", NEW w, w.base = ChunkOf(cursor)
  PROVE  /\ Wanted(w, op.end) \in 0 .. RingChunks
         /\ op.end <= (ChunkOf(cursor) + Wanted(w, op.end)) * Chunk
<1> DEFINE c == ChunkOf(cursor)
           h == RingChunks \div 2
           u == op.end - c * Chunk
           n == ChunksUp(u)
           x == Max({want, n})
<1>1. /\ cursor \in Nat /\ op.end \in Nat /\ op.start \in Nat
      /\ want \in 0 .. RingChunks /\ RingChunks \in Nat
      /\ cursor <= op.start /\ op.start < op.end /\ op.end <= (c + h) * Chunk
  BY Sizes DEF ControlOK, PlacesOK, Positions, Ops
<1>2. h \in Nat /\ h <= RingChunks
  BY Sizes
<1>3. c \in Nat /\ c * Chunk <= cursor
  BY <1>1, ChunkOrder, ChunkProperty
<1> HIDE DEF c, h
<1>4. c * Chunk \in Int /\ h * Chunk \in Int /\ (c + h) * Chunk = c * Chunk + h * Chunk
  BY <1>2, <1>3, InUnits
<1>5. u \in Nat /\ u <= h * Chunk /\ op.end = c * Chunk + u
  BY <1>1, <1>3, <1>4
<1> HIDE DEF u
<1>6. n \in Nat /\ n <= h /\ u <= n * Chunk
  BY <1>2, <1>5, ChunksUpProperty
<1>7. Wanted(w, op.end) = x
  BY DEF Wanted, x, n, u, c
<1> HIDE DEF n
<1>8. x = IF want >= n THEN want ELSE n
  <2>1. want \in Int /\ n \in Int
    BY <1>1, <1>6
  <2> QED BY <2>1, PairProperty
<1> HIDE DEF x
<1>9. x \in 0 .. RingChunks /\ n <= x /\ x \in Int
  BY <1>1, <1>2, <1>6, <1>8
<1>10. n * Chunk <= x * Chunk /\ n * Chunk \in Int /\ x * Chunk \in Int
       /\ (c + x) * Chunk = c * Chunk + x * Chunk
  BY <1>3, <1>6, <1>9, InUnits
<1>11. op.end <= (c + x) * Chunk
  BY <1>1, <1>4, <1>5, <1>6, <1>10
<1> QED BY <1>7, <1>9, <1>11 DEF c

\* What is there of a view is in the window.
LEMMA ViewInWindow ==
  ASSUME op \in Ops, op.start < op.end, NEW w \in Windows,
         op.end <= FilledEnd(w) * Chunk, ChunkOf(op.start) >= w.base
  PROVE  Under(op.start, op.end) \subseteq InWindow(w)
<1> DEFINE a == ChunkOf(op.start)
           z == ChunkOf(op.end - 1)
           f == FilledEnd(w)
<1>1. op.start \in Int /\ op.end \in Int /\ op.end - 1 \in Int /\ op.end - 1 < op.end
  BY Sizes DEF Ops, Positions
<1>2. f \in Nat /\ f * Chunk \in Int /\ w.base \in Nat
  BY WindowProperty, InUnits DEF Windows
<1>3. a \in Int /\ z \in Int
  BY <1>1, ChunkProperty
<1>4. op.end - 1 < f * Chunk
  BY <1>1, <1>2
<1>5. z < f
  BY <1>1, <1>2, <1>4, ChunkIs
<1>6. Under(op.start, op.end) = a .. z /\ InWindow(w) = w.base .. (f - 1)
  BY DEF Under, InWindow
<1> HIDE DEF a, z, f
<1>7. w.base <= a
  BY DEF a
<1> QED BY <1>2, <1>3, <1>5, <1>6, <1>7

\* A view from the cursor on ends within half the ring.
LEMMA ViewFits ==
  ASSUME NEW c \in Nat, NEW n \in ViewLengths
  PROVE  /\ n \in Nat /\ n >= 1
         /\ c + n <= (ChunkOf(c) + (RingChunks \div 2)) * Chunk
<1> DEFINE x == ChunkOf(c)
           h == RingChunks \div 2
           b == BounceChunks
<1>1. b * Chunk \in Int /\ b \in Nat
  BY Sizes, InUnits
<1>2. n \in Int /\ 1 <= n /\ n <= b * Chunk
  <2>1. n \in 1 .. (b * Chunk)
    BY BufferAssumption DEF BufferAssumption
  <2> HIDE DEF b
  <2> QED BY <1>1, <2>1
<1>3. x \in Int /\ c < (x + 1) * Chunk
  BY ChunkProperty
<1>4. h \in Nat /\ b + 1 <= h
  BY Sizes
<1> HIDE DEF x, h, b
<1>5. /\ (x + 1) * Chunk \in Int
      /\ ((x + 1) + b) * Chunk = (x + 1) * Chunk + b * Chunk
      /\ ((x + 1) + b) * Chunk <= (x + h) * Chunk
      /\ ((x + 1) + b) * Chunk \in Int /\ (x + h) * Chunk \in Int
  <2>1. x + 1 \in Int /\ (x + 1) + b \in Int /\ x + h \in Int /\ (x + 1) + b <= x + h
    BY <1>1, <1>3, <1>4
  <2> QED BY <1>1, <2>1, InUnits
<1>6. c + n <= (x + h) * Chunk
  BY <1>1, <1>2, <1>3, <1>5
<1> QED BY <1>1, <1>2, <1>6 DEF x, h

\* view_at leaves the cursor where it is only if that is near enough.
LEMMA NotMoved ==
  ASSUME NEW c \in Nat, NEW s \in Nat, NEW e \in Nat,
         ~(s < c), ~(e - ChunkOf(c) * Chunk > (RingChunks \div 2) * Chunk)
  PROVE  c <= s /\ e <= (ChunkOf(c) + (RingChunks \div 2)) * Chunk
<1> DEFINE x == ChunkOf(c)
           h == RingChunks \div 2
<1>1. x \in Int
  BY ChunkProperty
<1>2. h \in Int
  BY Sizes
<1>3. ~(e - x * Chunk > h * Chunk)
  OBVIOUS
<1> HIDE DEF x, h
<1>4. x * Chunk \in Int /\ h * Chunk \in Int /\ (x + h) * Chunk = x * Chunk + h * Chunk
  BY <1>1, <1>2, InUnits
<1>5. e <= (x + h) * Chunk
  BY <1>3, <1>4
<1> QED BY <1>5 DEF x, h

\* The control state keeps its types, and who is where stays in order.
LEMMA ControlStep ==
  ASSUME IInv, [NextStep]_vars
  PROVE  ControlOK' /\ PlacesOK'
<1> USE DEF ControlOK
<1>t. ControlOK /\ PlacesOK /\ FillOK
  BY Halves DEF IInv
<1>n. /\ Reader # Filler /\ None # Reader /\ None # Filler
      /\ NoOp \in Ops /\ NoFill \in [chunk : Nat, slot : Slots]
  <2>1. 0 \in Positions /\ 0 \in Nat /\ 0 \in Slots
    BY Sizes DEF Positions
  <2> QED BY <2>1, BufferAssumption DEF BufferAssumption, NoOp, Ops, NoFill
<1>c. Positions = 0 .. Size /\ Size \in Nat /\ cursor \in Nat /\ cursor <= Size
  BY <1>t, Sizes DEF Positions
<1>0. CASE UNCHANGED vars
  BY <1>0, <1>t DEF vars, flags, memory, file, reader, filler, PlacesOK
<1>1. ASSUME NEW n \in 1 .. MaxRead, Read(n) PROVE ControlOK' /\ PlacesOK'
  <2> DEFINE z == Min({cursor + n, Size})
  <2>1. cursor < Size /\ n \in Nat /\ n >= 1
    BY <1>1 DEF Read
  <2>2. z = IF cursor + n <= Size THEN cursor + n ELSE Size
    <3>1. cursor + n \in Int /\ Size \in Int
      BY <1>c, <2>1
    <3> QED BY <3>1, PairProperty
  <2> HIDE DEF z
  <2>3. z \in Positions /\ cursor < z
    BY <1>c, <2>1, <2>2
  <2>4. /\ op' = [NoOp EXCEPT !.start = cursor, !.end = z]
        /\ pc = "idle" /\ pc' = IF readahead THEN "read" ELSE "direct"
        /\ UNCHANGED <<cursor, win, want, flags, memory, file, filler>>
    BY <1>1 DEF Read, z
  <2>5. op' \in Ops /\ op'.start = cursor /\ op'.end = z
    <3>1. op' = [start |-> cursor, end |-> z, advance |-> FALSE, base |-> 0, head |-> 0]
      BY <2>4 DEF NoOp
    <3>2. 0 \in Nat /\ 0 \in Slots
      BY Sizes
    <3> QED BY <1>t, <2>3, <3>1, <3>2 DEF Ops
  <2> QED BY <1>t, <1>n, <1>c, <2>3, <2>4, <2>5 DEF PlacesOK, flags, file, filler
<1>2. ASSUME NEW n \in ViewLengths, NEW start \in Positions, NEW b \in BOOLEAN,
             NewView(start, n, b), cursor' \in Positions, cursor' <= start,
             start + n <= (ChunkOf(cursor') + (RingChunks \div 2)) * Chunk,
             win' \in Windows, ioError' \in BOOLEAN
      PROVE  ControlOK' /\ PlacesOK'
  <2>1. n \in Nat /\ n >= 1 /\ start + n <= Size /\ start \in Nat
    <3>1. n \in Nat /\ n >= 1
      BY <1>c, ViewFits
    <3> QED BY <1>2, <1>c, <3>1 DEF NewView
  <2>2. start + n \in Positions /\ start < start + n
    BY <1>c, <2>1
  <2>3. op' \in Ops /\ op'.start = start /\ op'.end = start + n
    <3>1. op' = [start |-> start, end |-> start + n, advance |-> b, base |-> 0, head |-> 0]
      BY <1>2 DEF NewView, NoOp
    <3>2. 0 \in Nat /\ 0 \in Slots
      BY Sizes
    <3> QED BY <2>2, <3>1, <3>2 DEF Ops
  <2>4. /\ pc = "idle" /\ pc' = "view"
        /\ UNCHANGED <<want, readahead, interrupted, held, file, filler>>
    BY <1>2 DEF NewView
  <2>5. want = 0
    BY <1>t, <2>4 DEF PlacesOK
  <2> QED BY <1>2, <1>t, <1>n, <2>2, <2>3, <2>4, <2>5 DEF PlacesOK, file, filler
<1>3. ASSUME NEW n \in ViewLengths, View(n) PROVE ControlOK' /\ PlacesOK'
  <2>1. cursor' = cursor /\ win' = win /\ ioError' = ioError /\ NewView(cursor, n, TRUE)
    BY <1>3 DEF View
  <2>2. cursor + n <= (ChunkOf(cursor') + (RingChunks \div 2)) * Chunk /\ cursor' <= cursor
    BY <1>c, <2>1, ViewFits
  <2> QED BY <1>2, <1>t, <2>1, <2>2
<1>4. ASSUME NEW n \in ViewLengths, NEW start \in 0 .. (Size - 1), ViewAt(start, n)
      PROVE  ControlOK' /\ PlacesOK'
  <2>1. start \in Positions /\ start \in Nat /\ NewView(start, n, FALSE)
    <3>1. start \in Positions /\ start \in Nat
      BY <1>c
    <3> QED BY <1>4, <3>1 DEF ViewAt
  <2>2. CASE MovesCursor(start, start + n)
    <3>1. cursor' = start /\ ioError' = FALSE /\ win' = DropConsumed(win, start)
      BY <1>4, <2>2 DEF ViewAt
    <3>2. win' \in Windows
      BY <1>t, <2>1, <3>1, DropProperty
    <3>3. start + n <= (ChunkOf(cursor') + (RingChunks \div 2)) * Chunk /\ cursor' <= start
      BY <2>1, <3>1, ViewFits
    <3> QED BY <1>2, <2>1, <3>1, <3>2, <3>3
  <2>3. CASE ~MovesCursor(start, start + n)
    <3>1. cursor' = cursor /\ ioError' = ioError /\ win' = win
      BY <1>4, <2>3 DEF ViewAt
    <3>2. start + n \in Nat
      <4>1. n \in Nat
        BY <1>c, ViewFits
      <4> QED BY <2>1, <4>1
    <3>3. /\ cursor <= start
          /\ start + n <= (ChunkOf(cursor) + (RingChunks \div 2)) * Chunk
      BY <1>c, <2>1, <2>3, <3>2, NotMoved DEF MovesCursor
    <3> QED BY <1>2, <1>t, <2>1, <3>1, <3>3
  <2> QED BY <2>2, <2>3
<1> HIDE <1>2
<1>5. ASSUME NEW on \in BOOLEAN, SetReadahead(on) PROVE ControlOK' /\ PlacesOK'
  <2>1. /\ pc = "idle" /\ readahead' = on /\ win' = IF on THEN win ELSE Restarted(win, cursor)
        /\ UNCHANGED <<cursor, want, interrupted, ioError, file, reader, filler>>
    BY <1>5 DEF SetReadahead
  <2>2. win' \in Windows
    BY <1>t, <1>c, <2>1, RestartedProperty DEF Within
  <2> QED BY <1>t, <1>n, <2>1, <2>2 DEF PlacesOK, file, reader, filler
<1>6. ASSUME Close PROVE ControlOK' /\ PlacesOK'
  BY <1>6, <1>t, <1>n DEF Close, PlacesOK, flags, file
<1>7. CASE ReadRound
  <2>1. /\ cursor' \in Positions
        /\ \E c \in Nat : win' = DropConsumed(win, c)
        /\ \/ want' = 0 /\ pc' = "idle" /\ op' = NoOp
           \/ want' \in 0 .. RingChunks /\ UNCHANGED reader /\ cursor' < op.end
    BY <1>7, <1>t, ReadRoundProperty
  <2>2. win' \in Windows
    BY <1>t, <2>1, DropProperty
  <2>3. pc = "read" /\ UNCHANGED <<flags, file, filler>>
    BY <1>7 DEF ReadRound
  <2>4. 0 \in 0 .. RingChunks
    BY Sizes
  <2> QED BY <1>t, <1>n, <2>1, <2>2, <2>3, <2>4 DEF PlacesOK, flags, file, filler, reader
<1>8. CASE DirectBegin
  <2>1. op.start \in Positions
    BY <1>t DEF Ops
  <2> QED BY <1>8, <1>t, <1>n, <2>1 DEF DirectBegin, PlacesOK, flags, filler
<1>9. CASE DirectEnd
  <2>1. PICK to \in op.start .. op.end : cursor' = cursor + to - op.start
    BY <1>9 DEF DirectEnd
  <2>2. op.start = cursor /\ op.end \in Positions
    BY <1>9, <1>t DEF DirectEnd, PlacesOK, Ops
  <2>3. cursor' \in Positions
    BY <1>c, <2>1, <2>2
  <2>4. 0 \in Positions
    BY <1>c
  <2> QED BY <1>9, <1>t, <1>n, <2>3, <2>4 DEF DirectEnd, PlacesOK, flags, filler
<1>10. ASSUME NEW to \in 0 .. Size, Seek(to) PROVE ControlOK' /\ PlacesOK'
  <2>1. to \in Nat /\ to \in Positions
    BY <1>c
  <2>2. win' \in Windows
    BY <1>10, <1>t, <2>1, DropProperty DEF Seek
  <2> QED BY <1>10, <1>t, <1>n, <2>1, <2>2 DEF Seek, PlacesOK, file, reader, filler
<1>11. CASE ViewRound
  <2>1. /\ pc = "view" /\ win' = (IF readahead THEN DropConsumed(win, cursor) ELSE win)
        /\ UNCHANGED <<flags, file, filler>>
    BY <1>11 DEF ViewRound
  <2>2. win' \in Windows
    BY <1>t, <1>c, <2>1, DropProperty
  <2>3. op.end \in Positions
    BY <1>t DEF Ops
  <2>4. 0 \in 0 .. RingChunks
    BY Sizes
  <2>5. CASE ViewFails
    BY <1>t, <1>n, <2>1, <2>2, <2>4, <2>5 DEF ViewFails, PlacesOK, flags, file, filler
  <2>6. CASE ~Hopeless /\ want' = Wanted(win', op.end) /\ UNCHANGED <<cursor, held, reader>>
    <3>1. win'.base = ChunkOf(cursor)
      BY <1>t, <1>c, <2>1, <2>6, DropProperty DEF Hopeless
    <3>2. /\ want' \in 0 .. RingChunks
          /\ op.end <= (ChunkOf(cursor) + want') * Chunk
      BY <1>t, <2>1, <2>6, <3>1, ViewWaits
    <3> QED BY <1>t, <1>n, <2>1, <2>2, <2>6, <3>2 DEF PlacesOK, flags, file, filler, reader
  <2>7. CASE ViewRing
    BY <1>t, <1>n, <2>1, <2>2, <2>3, <2>4, <2>7
    DEF ViewRing, PlacesOK, flags, file, filler
  <2>8. CASE ViewBounce
    <3>1. win'.base \in Nat /\ win'.head \in Slots
      BY <2>2 DEF Windows
    <3>2. op' \in Ops /\ op'.start = op.start /\ op'.end = op.end
      BY <1>t, <2>8, <3>1 DEF ViewBounce, Ops
    <3> QED BY <1>t, <1>n, <2>1, <2>2, <2>8, <3>2 DEF ViewBounce, PlacesOK, flags, file, filler
  <2>9. CASE UNCHANGED <<cursor, want, held, reader>>
    BY <1>t, <1>n, <2>1, <2>2, <2>9 DEF PlacesOK, flags, file, filler, reader
  <2> QED BY <1>11, <2>5, <2>6, <2>7, <2>8, <2>9 DEF ViewRound
<1>12. CASE CopyChunk
  BY <1>12, <1>t, <1>n DEF CopyChunk, PlacesOK, flags, file, reader, filler
<1>13. CASE CopyDone
  <2>1. op.end \in Positions /\ 0 \in 0 .. RingChunks
    BY <1>t, Sizes DEF Ops
  <2> QED BY <1>13, <1>t, <1>n, <2>1 DEF CopyDone, PlacesOK, flags, file, filler
<1>14. ASSUME NEW v \in ViewIds, Release(v) PROVE ControlOK' /\ PlacesOK'
  BY <1>14, <1>t, <1>n DEF Release, PlacesOK, flags, file, reader, filler
<1>15. ASSUME NEW on \in BOOLEAN, Interrupt(on) PROVE ControlOK' /\ PlacesOK'
  BY <1>15, <1>t, <1>n DEF Interrupt, PlacesOK, file, reader, filler
<1>16. CASE Choose
  <2>1. /\ win' = DropConsumed(win, cursor) /\ fpc = "look"
        /\ UNCHANGED <<cursor, want, flags, file, reader, stop>>
        /\ \/ UNCHANGED <<fpc, fill>>
           \/ fpc' = "fill" /\ fill' = [chunk |-> FilledEnd(win'), slot |-> Next(win')]
    BY <1>16 DEF Choose
  <2>2. win' \in Windows
    BY <1>t, <1>c, <2>1, DropProperty
  <2>3. FilledEnd(win') \in Nat /\ Next(win') \in Slots
    BY <2>2, WindowProperty
  <2>4. fill' \in [chunk : Nat, slot : Slots] /\ fpc' \in {"look", "fill"}
    BY <1>t, <2>1, <2>3
  <2> QED BY <1>t, <1>n, <2>1, <2>2, <2>4 DEF PlacesOK, flags, file, reader
<1>17. CASE FillBegin
  <2>1. fill.chunk * Chunk < Size /\ fill.chunk \in Nat
    BY <1>17, <1>t DEF FillBegin, FillOK
  <2>2. fill.chunk * Chunk \in Nat
    BY <2>1, Sizes
  <2>3. fill.chunk * Chunk \in Positions
    BY <1>c, <2>1, <2>2
  <2> QED BY <1>17, <1>t, <1>n, <2>3 DEF FillBegin, PlacesOK, flags, reader
<1>18. ASSUME NEW whole \in BOOLEAN, FillEnd(whole) PROVE ControlOK' /\ PlacesOK'
  <2>1. /\ fpc = "filling" /\ io' = None /\ filePos' = 0
        /\ win' = (IF StillNext /\ whole THEN [win EXCEPT !.filled = @ + 1] ELSE win)
        /\ ioError' = (ioError \/ (StillNext /\ ~whole))
        /\ fpc' = "look" /\ fill' = NoFill
        /\ UNCHANGED <<cursor, want, readahead, interrupted, reader, stop>>
    BY <1>18 DEF FillEnd
  <2>2. win' \in Windows
    <3>1. win.filled < RingChunks /\ win.filled \in 0 .. RingChunks
      BY <1>t, <2>1 DEF FillOK, Windows
    <3>2. win.filled + 1 \in 0 .. RingChunks
      BY <3>1, Sizes
    <3> QED BY <1>t, <2>1, <3>2 DEF Windows
  <2>3. ioError' \in BOOLEAN
    BY <1>t, <2>1
  <2>4. 0 \in Positions
    BY <1>c
  <2> QED BY <1>t, <1>n, <2>1, <2>2, <2>3, <2>4 DEF PlacesOK, reader
<1>19. CASE Stopped
  BY <1>19, <1>t, <1>n DEF Stopped, PlacesOK, flags, file
<1> QED BY <1>0, <1>1, <1>3, <1>4, <1>5, <1>6, <1>7, <1>8, <1>9, <1>10, <1>11, <1>12,
           <1>13, <1>14, <1>15, <1>16, <1>17, <1>18, <1>19
        DEF NextStep, Ask, Proceed, FillStep

-----------------------------------------------------------------------------
(* What a step does to the window. *)

\* Only the end of a fill adds to the window.
Grows == FillEnd(TRUE) /\ StillNext

\* Whatever else happens, what stays in the window stays where it is, and the
\* next chunk's slot is the same.
LEMMA WindowStep ==
  ASSUME IInv, [NextStep]_vars
  PROVE  Grows \/ Within(win', win)
<1>t. win \in Windows /\ cursor \in Nat /\ ControlOK /\ PlacesOK /\ win' \in Windows
  BY Halves, ControlStep, Sizes DEF IInv, ControlOK, Positions
<1>s. Within(win, win)
  <2>1. win.filled <= win.filled
    BY <1>t DEF Windows
  <2> QED BY <1>t, <2>1 DEF Within
<1>d. ASSUME NEW c \in Nat, win' = DropConsumed(win, c) PROVE Within(win', win)
  BY <1>d, <1>t, DropProperty
<1>0. CASE UNCHANGED win
  BY <1>0, <1>s DEF Within, InWindow, FilledEnd, SlotOf, Next
<1>1. ASSUME NEW start \in 0 .. (Size - 1), NEW n \in ViewLengths, ViewAt(start, n)
      PROVE  Grows \/ Within(win', win)
  <2>1. start \in Nat
    OBVIOUS
  <2> QED BY <1>1, <1>0, <1>d, <2>1 DEF ViewAt
<1>2. ASSUME NEW on \in BOOLEAN, SetReadahead(on) PROVE Grows \/ Within(win', win)
  <2>1. CASE on
    BY <1>2, <1>0, <2>1 DEF SetReadahead
  <2>2. CASE ~on
    BY <1>2, <1>t, <2>2, RestartedProperty DEF SetReadahead
  <2> QED BY <2>1, <2>2
<1>3. CASE ReadRound
  BY <1>3, <1>t, <1>d, ReadRoundProperty
<1>4. ASSUME NEW to \in 0 .. Size, Seek(to) PROVE Within(win', win)
  <2>1. to \in Nat
    OBVIOUS
  <2> QED BY <1>4, <1>d, <2>1 DEF Seek
<1>5. CASE ViewRound
  BY <1>5, <1>t, <1>0, <1>d DEF ViewRound
<1>6. CASE Choose
  BY <1>6, <1>t, <1>d DEF Choose
<1>7. ASSUME NEW whole \in BOOLEAN, FillEnd(whole) PROVE Grows \/ Within(win', win)
  <2>1. CASE StillNext /\ whole
    BY <1>7, <2>1 DEF Grows
  <2>2. CASE ~(StillNext /\ whole)
    BY <1>7, <1>0, <2>2 DEF FillEnd
  <2> QED BY <2>1, <2>2
<1>8. \/ UNCHANGED win
      \/ \E start \in 0 .. (Size - 1), n \in ViewLengths : ViewAt(start, n)
      \/ \E on \in BOOLEAN : SetReadahead(on)
      \/ ReadRound \/ (\E to \in 0 .. Size : Seek(to)) \/ ViewRound \/ Choose
      \/ \E whole \in BOOLEAN : FillEnd(whole)
  BY DEF NextStep, vars, Ask, Proceed, FillStep, Read, View, Close, DirectBegin, DirectEnd,
         CopyChunk, CopyDone, Release, Interrupt, FillBegin, Stopped
<1> QED BY <1>0, <1>1, <1>2, <1>3, <1>4, <1>5, <1>6, <1>7, <1>8

\* The window when a chunk is added.
LEMMA GrowsProperty ==
  ASSUME IInv, Grows
  PROVE  /\ fpc = "filling" /\ fpc' = "look"
         /\ win' = [win EXCEPT !.filled = win.filled + 1]
         /\ fill.slot = Next(win) /\ fill.chunk = FilledEnd(win)
         /\ InWindow(win') = InWindow(win) \cup {FilledEnd(win)}
         /\ \A k : SlotOf(win', k) = SlotOf(win, k)
         /\ SlotOf(win, FilledEnd(win)) = fill.slot
         /\ SlotsOf(win') = SlotsOf(win) \cup {fill.slot}
<1>1. win \in Windows /\ win.base \in Nat /\ win.filled \in Nat
  BY Halves, Sizes DEF IInv, ControlOK, Windows
<1>2. /\ fpc = "filling" /\ fpc' = "look"
      /\ win' = [win EXCEPT !.filled = win.filled + 1]
      /\ fill.slot = Next(win) /\ fill.chunk = FilledEnd(win)
  BY DEF Grows, FillEnd, StillNext
<1>3. win'.base = win.base /\ win'.head = win.head /\ win'.filled = win.filled + 1
  BY <1>1, <1>2 DEF Windows
<1>4. InWindow(win') = InWindow(win) \cup {FilledEnd(win)}
  BY <1>1, <1>3 DEF InWindow, FilledEnd
<1>5. \A k : SlotOf(win', k) = SlotOf(win, k)
  BY <1>3 DEF SlotOf
<1>6. SlotOf(win, FilledEnd(win)) = fill.slot
  BY <1>1, <1>2, WindowProperty
<1>7. SlotsOf(win') = SlotsOf(win) \cup {fill.slot}
  BY <1>4, <1>5, <1>6 DEF SlotsOf
<1> QED BY <1>2, <1>4, <1>5, <1>6, <1>7

\* The chunk on its way keeps its slot, and its room.
LEMMA FillOKStep ==
  ASSUME IInv, [NextStep]_vars
  PROVE  FillOK'
<1>t. FillOK /\ win \in Windows /\ want \in 0 .. RingChunks /\ RingChunks \in Nat
      /\ win' \in Windows
  BY Halves, ControlStep, Sizes DEF IInv, ControlOK
<1>1. CASE Choose
  <2>1. CASE MayFill(win')
    <3>1. /\ fill' = [chunk |-> FilledEnd(win'), slot |-> Next(win')]
          /\ win'.filled < Max({want, Depth}) /\ FilledEnd(win') * Chunk < Size
      BY <1>1, <2>1 DEF Choose, MayFill, Behind
    <3>2. Max({want, Depth}) = IF want >= Depth THEN want ELSE Depth
      <4>1. want \in Int /\ Depth \in Int
        BY <1>t, Sizes
      <4> QED BY <4>1, PairProperty
    <3>3. win'.filled < RingChunks
      BY <1>t, <3>1, <3>2, Sizes DEF Windows
    <3>4. fill'.slot = Next(win') /\ fill'.chunk = FilledEnd(win')
      BY <3>1
    <3> QED BY <3>1, <3>3, <3>4 DEF FillOK, Next
  <2>2. CASE ~MayFill(win')
    <3>1. fpc' = "look"
      BY <1>1, <2>2 DEF Choose
    <3> QED BY <3>1 DEF FillOK
  <2> QED BY <2>1, <2>2
<1>2. ASSUME NEW whole \in BOOLEAN, FillEnd(whole) PROVE FillOK'
  BY <1>2 DEF FillEnd, FillOK
<1>3. CASE fpc' \in {"fill", "filling"} => fpc \in {"fill", "filling"} /\ fill' = fill
  <2>1. CASE Grows
    BY <2>1 DEF Grows, FillEnd, FillOK
  <2>2. CASE Within(win', win)
    <3> SUFFICES ASSUME fpc' \in {"fill", "filling"}
                 PROVE  /\ fill'.slot = Next(win)' /\ win'.filled < RingChunks
                        /\ fill'.chunk * Chunk < Size
      BY DEF FillOK
    <3>1. fill' = fill /\ fill.slot = Next(win) /\ win.filled < RingChunks
          /\ fill.chunk * Chunk < Size
      BY <1>t, <1>3 DEF FillOK
    <3>2. Next(win') = Next(win) /\ win'.filled <= win.filled
      BY <2>2 DEF Within
    <3>3. win'.filled < RingChunks
      BY <1>t, <3>1, <3>2 DEF Windows
    <3>4. Next(win') = Next(win)'
      BY DEF Next
    <3> QED BY <3>1, <3>2, <3>3, <3>4
  <2> QED BY <2>1, <2>2, WindowStep
<1>4. \/ Choose \/ (\E whole \in BOOLEAN : FillEnd(whole))
      \/ fpc' \in {"fill", "filling"} => fpc \in {"fill", "filling"} /\ fill' = fill
  BY DEF NextStep, vars, Ask, Proceed, FillStep, Read, View, NewView, ViewAt, SetReadahead, Close,
         ReadRound, DirectBegin, DirectEnd, Seek, ViewRound, CopyChunk, CopyDone, Release,
         Interrupt, FillBegin, Stopped, filler
<1> QED BY <1>1, <1>2, <1>3, <1>4

-----------------------------------------------------------------------------
(* What a step does to the views, the pins and the bounce area. *)

Still ==
  /\ UNCHANGED held /\ (pc = "copy" <=> pc' = "copy")
  /\ pc = "copy" => UNCHANGED op

\* A view begins on chunks of the window, whose slots it pins.
There == pc = "view" /\ readahead /\ Under(op.start, op.end) \subseteq InWindow(win')
RingTaken == There /\ Contiguous(win', op.start, op.end) /\ ViewRing
BounceTaken == There /\ bouncePins = 0 /\ ViewBounce

\* Everything a step may do to them.
LEMMA MemoryStep ==
  ASSUME IInv, [NextStep]_vars
  PROVE  \/ Still \/ RingTaken \/ BounceTaken \/ CopyChunk \/ CopyDone
         \/ \E v \in ViewIds : Release(v)
<1>t. ControlOK /\ PlacesOK /\ win' \in Windows
  BY Halves, ControlStep DEF IInv, ControlOK
<1>1. CASE ViewRound
  <2>1. pc = "view"
    BY <1>1 DEF ViewRound
  <2>2. ASSUME op.end <= FilledEnd(win') * Chunk, ChunkOf(op.start) >= win'.base
        PROVE  Under(op.start, op.end) \subseteq InWindow(win')
    <3>1. op \in Ops /\ op.start < op.end
      BY <1>t, <2>1 DEF ControlOK, PlacesOK
    <3> QED BY <1>t, <2>2, <3>1, ViewInWindow
  <2>3. CASE ViewFails
    BY <2>1, <2>3 DEF ViewFails, Still
  <2>4. CASE UNCHANGED <<held, reader>>
    BY <2>1, <2>4 DEF Still, reader
  <2> QED BY <1>1, <2>1, <2>2, <2>3, <2>4 DEF ViewRound, RingTaken, BounceTaken, There
<1>2. CASE ReadRound
  <2>1. pc = "read" /\ (pc' = "idle" \/ UNCHANGED reader) /\ UNCHANGED held
    BY <1>2 DEF ReadRound
  <2> QED BY <2>1 DEF Still, reader
<1>3. \/ ViewRound \/ ReadRound \/ CopyChunk \/ CopyDone \/ (\E v \in ViewIds : Release(v))
      \/ Still
  <2>1. stop => pc # "copy"
    BY <1>t DEF PlacesOK
  <2> QED BY <2>1 DEF NextStep, vars, Ask, Proceed, FillStep, Read, View, NewView, ViewAt,
       SetReadahead, Close, DirectBegin, DirectEnd, Seek, Interrupt, Choose, FillBegin, FillEnd,
       Stopped, filler, reader, held, memory, flags, file, Still
<1> QED BY <1>1, <1>2, <1>3

\* The views on a slot, those of the bounce area, and the copy under way.
Viewers(s) == {v \in ViewIds : views[v] # None /\ s \in views[v].on}
Bouncers == {v \in ViewIds : views[v] # None /\ views[v].on = {}}
Copies(s) == pc = "copy" /\ s \in SlotsUnder(Snapshot, op.start, op.end)

\* A pin for each of them.
PinsCounted ==
  /\ \A s \in Slots : pins[s] = Cardinality(Viewers(s)) + (IF Copies(s) THEN 1 ELSE 0)
  /\ bouncePins = Cardinality(Bouncers) + (IF pc = "copy" THEN 1 ELSE 0)

\* The chunk on its way is written where nobody looks.
FillFree ==
  fpc \in {"fill", "filling"} => fill.slot \notin SlotsOf(win) /\ pins[fill.slot] = 0

\* PinsHold says both.
LEMMA PinsParts == PinsHold <=> FillFree /\ PinsCounted
BY DEF PinsHold, FillFree, PinsCounted, SlotsOf, InWindow, Viewers, Bouncers, Copies

\* There are as many views as can be counted.
LEMMA ViewsFinite ==
  ASSUME NEW S \in SUBSET ViewIds
  PROVE  IsFiniteSet(S) /\ Cardinality(S) \in Nat
BY BufferAssumption, FS_Subset, FS_CardinalityType DEF BufferAssumption

\* One more in a set and one less.
LEMMA OneMore ==
  ASSUME NEW S \in SUBSET ViewIds, NEW v \in ViewIds
  PROVE  /\ v \notin S => Cardinality(S \cup {v}) = Cardinality(S) + 1
         /\ v \in S => Cardinality(S \ {v}) = Cardinality(S) - 1 /\ Cardinality(S) >= 1
         /\ Cardinality(S) = 0 <=> S = {}
<1>1. IsFiniteSet(S) /\ Cardinality(S) \in Nat
  BY ViewsFinite
<1>2. /\ v \notin S => Cardinality(S \cup {v}) = Cardinality(S) + 1
      /\ v \in S => Cardinality(S \ {v}) = Cardinality(S) - 1
      /\ Cardinality(S) = 0 <=> S = {}
  BY <1>1, FS_AddElement, FS_RemoveElement, FS_EmptySet
<1>3. v \in S => S # {}
  OBVIOUS
<1> QED BY <1>1, <1>2, <1>3

\* A range is never None, and no range is on slots the ring does not have.
LEMMA RangeProperty ==
  ASSUME NEW a \in Positions, NEW z \in Positions, NEW on \in SUBSET Slots
  PROVE  LET r == [start |-> a, end |-> z, on |-> on]
         IN  r \in ViewsOf /\ r # None /\ r.start = a /\ r.end = z /\ r.on = on
<1> DEFINE r == [start |-> a, end |-> z, on |-> on]
<1>1. Slots \subseteq Nat /\ a \in Nat /\ z \in Nat
  BY Sizes DEF Positions
<1>2. r \in [start : Nat, end : Nat, on : SUBSET Nat]
  BY <1>1
<1>3. None \notin [start : Nat, end : Nat, on : SUBSET Nat]
  BY BufferAssumption DEF BufferAssumption
<1>4. r # None
  <2> HIDE DEF r
  <2> QED BY <1>2, <1>3
<1> QED BY <1>4 DEF ViewsOf

\* The pins after a step that adds n to some.
LEMMA PinnedProperty ==
  ASSUME MemoryOK, NEW n \in Int, NEW on \in SUBSET Slots
  PROVE  \A s \in Slots : Pinned(n, on)[s] = IF s \in on THEN pins[s] + n ELSE pins[s]
BY DEF Pinned

\* The pins stay those of the views and of the copy.
LEMMA PinsCountedStep ==
  ASSUME IInv, [NextStep]_vars
  PROVE  PinsCounted'
<1>t. ControlOK /\ PlacesOK /\ MemoryOK /\ PinsCounted /\ win' \in Windows
  BY Halves, PinsParts, ControlStep DEF IInv, ControlOK
<1>p. op.start \in Positions /\ op.end \in Positions /\ op.start \in Int /\ op.end \in Int
  BY <1>t, Sizes DEF ControlOK, Ops, Positions
<1> DEFINE N(s) == Cardinality(Viewers(s))
           C(s) == IF Copies(s) THEN 1 ELSE 0
<1>c. /\ \A s \in Slots : pins[s] = N(s) + C(s)
      /\ \A s \in Slots : N(s) \in Nat /\ N(s)' \in Nat
      /\ Cardinality(Bouncers) \in Nat /\ Cardinality(Bouncers)' \in Nat
      /\ bouncePins = Cardinality(Bouncers) + (IF pc = "copy" THEN 1 ELSE 0)
  BY <1>t, ViewsFinite DEF PinsCounted, Viewers, Bouncers
<1>0. CASE Still
  BY <1>0, <1>t DEF Still, held, PinsCounted, Viewers, Bouncers, Copies, Snapshot, SlotsUnder,
     SlotOf
<1>1. CASE CopyChunk
  BY <1>1, <1>t DEF CopyChunk, reader, PinsCounted, Viewers, Bouncers, Copies, Snapshot,
     SlotsUnder, SlotOf
<1>2. CASE RingTaken
  <2> DEFINE on == SlotsUnder(win', op.start, op.end)
  <2>1. /\ pc = "view" /\ pc' = "idle" /\ pins' = Pinned(1, on)
        /\ bouncePins' = bouncePins
        /\ Under(op.start, op.end) \subseteq InWindow(win') /\ op.start < op.end
    BY <1>2, <1>t DEF RingTaken, There, ViewRing, PlacesOK
  <2>2. PICK v \in ViewIds :
          /\ views[v] = None
          /\ views' = [views EXCEPT ![v] = [start |-> op.start, end |-> op.end, on |-> on]]
    BY <1>2 DEF RingTaken, ViewRing
  <2>3. on \in SUBSET Slots /\ on # {}
    <3>1. ChunkOf(op.start) \in Under(op.start, op.end)
      BY <1>p, <2>1, UnderProperty
    <3>2. \A k \in Under(op.start, op.end) : SlotOf(win', k) \in Slots
      BY <1>t, <2>1, WindowProperty
    <3> QED BY <3>1, <3>2 DEF SlotsUnder
  <2> HIDE DEF on
  <2> DEFINE r == [start |-> op.start, end |-> op.end, on |-> on]
  <2>4. r # None /\ r.on = on
    BY <1>p, <2>3, RangeProperty
  <2>5. /\ views' \in [ViewIds -> ViewsOf \cup {r}] /\ views'[v] = r
        /\ \A u \in ViewIds : u # v => views'[u] = views[u]
    BY <1>t, <2>2 DEF MemoryOK
  <2> HIDE DEF r
  <2>6. ASSUME NEW s \in Slots
        PROVE  Viewers(s)' = (IF s \in on THEN Viewers(s) \cup {v} ELSE Viewers(s))
               /\ v \notin Viewers(s)
    BY <2>2, <2>4, <2>5 DEF Viewers
  <2>7. Bouncers' = Bouncers
    BY <2>2, <2>3, <2>4, <2>5 DEF Bouncers
  <2>8. ASSUME NEW s \in Slots PROVE pins'[s] = N(s)' + C(s)'
    <3>1. pins'[s] = IF s \in on THEN pins[s] + 1 ELSE pins[s]
      <4>1. pins' = Pinned(1, on)
        BY <2>1
      <4> QED BY <1>t, <2>3, <4>1, PinnedProperty
    <3>2. C(s)' = 0 /\ C(s) = 0
      BY <2>1 DEF Copies
    <3>3. N(s)' = IF s \in on THEN N(s) + 1 ELSE N(s)
      <4>1. Viewers(s) \in SUBSET ViewIds
        BY DEF Viewers
      <4> QED BY <2>6, <4>1, OneMore
    <3>4. pins[s] = N(s) + C(s) /\ N(s) \in Nat
      BY <1>c
    <3> HIDE DEF N, C
    <3> QED BY <3>1, <3>2, <3>3, <3>4
  <2> QED BY <1>c, <2>1, <2>7, <2>8 DEF PinsCounted
<1>3. CASE BounceTaken
  <2> DEFINE on == SlotsUnder(win', op.start, op.end)
  <2>1. /\ pc = "view" /\ pc' = "copy" /\ pins' = Pinned(1, on)
        /\ bouncePins = 0 /\ bouncePins' = 1 /\ views' = views
        /\ op' = [op EXCEPT !.base = win'.base, !.head = win'.head]
        /\ Under(op.start, op.end) \subseteq InWindow(win')
    BY <1>3 DEF BounceTaken, There, ViewBounce
  <2>2. on \in SUBSET Slots
    <3>1. \A k \in Under(op.start, op.end) : SlotOf(win', k) \in Slots
      BY <1>t, <2>1, WindowProperty
    <3> QED BY <3>1 DEF SlotsUnder
  <2>3. \A s : Copies(s)' <=> s \in on
    <3>1. op'.start = op.start /\ op'.end = op.end
          /\ op'.base = win'.base /\ op'.head = win'.head
      BY <1>t, <2>1 DEF ControlOK, Ops
    <3> QED BY <2>1, <3>1 DEF Copies, Snapshot, SlotsUnder, SlotOf
  <2> HIDE DEF on
  <2>4. ASSUME NEW s \in Slots PROVE pins'[s] = N(s)' + C(s)'
    <3>1. pins'[s] = IF s \in on THEN pins[s] + 1 ELSE pins[s]
      BY <1>t, <2>1, <2>2, PinnedProperty
    <3>2. C(s)' = (IF s \in on THEN 1 ELSE 0) /\ C(s) = 0
      BY <2>1, <2>3 DEF Copies
    <3>3. N(s)' = N(s)
      BY <2>1 DEF Viewers
    <3>4. pins[s] = N(s) + C(s) /\ N(s) \in Nat
      BY <1>c
    <3> HIDE DEF N, C
    <3> QED BY <3>1, <3>2, <3>3, <3>4
  <2>5. Bouncers' = Bouncers
    BY <2>1 DEF Bouncers
  <2> QED BY <1>c, <2>1, <2>4, <2>5 DEF PinsCounted
<1>4. CASE CopyDone
  <2> DEFINE on == SlotsUnder(Snapshot, op.start, op.end)
             r == [start |-> op.start, end |-> op.end, on |-> {}]
  <2>1. /\ pc = "copy" /\ pc' = "idle" /\ pins' = Pinned(-1, on) /\ bouncePins' = bouncePins
    BY <1>4 DEF CopyDone
  <2>2. PICK v \in ViewIds : views[v] = None /\ views' = [views EXCEPT ![v] = r]
    BY <1>4 DEF CopyDone
  <2>3. r # None /\ r.on = {}
    BY <1>p, RangeProperty
  <2>4. /\ views'[v] = r
        /\ \A u \in ViewIds : u # v => views'[u] = views[u]
    BY <1>t, <2>2 DEF MemoryOK
  <2> HIDE DEF r
  <2>5. \A s : Viewers(s)' = Viewers(s)
    BY <2>2, <2>3, <2>4 DEF Viewers
  <2>6. Bouncers' = Bouncers \cup {v} /\ v \notin Bouncers /\ Bouncers \in SUBSET ViewIds
    BY <2>2, <2>3, <2>4 DEF Bouncers
  <2>7. Cardinality(Bouncers)' = Cardinality(Bouncers) + 1
    BY <2>6, OneMore
  <2>8. \A s : Copies(s) <=> s \in on
    BY <2>1 DEF Copies
  <2>9. on \in SUBSET Slots
    <3>1. op.base \in Nat /\ op.head \in Slots /\ Snapshot.base = op.base
          /\ Snapshot.head = op.head
      BY <1>t DEF ControlOK, Ops, Snapshot
    <3>2. \A k \in Int : SlotOf(Snapshot, k) \in Slots
      BY <3>1, SlotProperty
    <3>3. Under(op.start, op.end) \subseteq Int
      BY <1>p, UnderProperty
    <3> QED BY <3>2, <3>3 DEF SlotsUnder
  <2> HIDE DEF on
  <2>10. ASSUME NEW s \in Slots PROVE pins'[s] = N(s)' + C(s)'
    <3>1. pins'[s] = IF s \in on THEN pins[s] + -1 ELSE pins[s]
      BY <1>t, <2>1, <2>9, PinnedProperty
    <3>2. C(s) = (IF s \in on THEN 1 ELSE 0) /\ C(s)' = 0
      BY <2>1, <2>8 DEF Copies
    <3>3. N(s)' = N(s)
      BY <2>5
    <3>4. pins[s] = N(s) + C(s) /\ N(s) \in Nat
      BY <1>c
    <3> HIDE DEF N, C
    <3> QED BY <3>1, <3>2, <3>3, <3>4
  <2> QED BY <1>c, <2>1, <2>7, <2>10 DEF PinsCounted
<1>5. ASSUME NEW v \in ViewIds, Release(v) PROVE PinsCounted'
  <2> DEFINE on == views[v].on
  <2>1. /\ views[v] # None /\ views' = [views EXCEPT ![v] = None] /\ pins' = Pinned(-1, on)
        /\ bouncePins' = (IF on = {} THEN bouncePins - 1 ELSE bouncePins)
        /\ pc' = pc /\ op' = op
    BY <1>5 DEF Release, reader
  <2>2. views[v] \in [start : Positions, end : Positions, on : SUBSET Slots]
    BY <1>t, <2>1 DEF MemoryOK, ViewsOf
  <2>3. on \in SUBSET Slots
    BY <2>2
  <2>4. views'[v] = None /\ \A u \in ViewIds : u # v => views'[u] = views[u]
    BY <1>t, <2>1 DEF MemoryOK
  <2>5. \A s : Viewers(s)' = (IF s \in on THEN Viewers(s) \ {v} ELSE Viewers(s))
               /\ (s \in on => v \in Viewers(s))
    BY <2>1, <2>4 DEF Viewers
  <2>6. Bouncers' = (IF on = {} THEN Bouncers \ {v} ELSE Bouncers)
        /\ (on = {} => v \in Bouncers)
    BY <2>1, <2>4 DEF Bouncers
  <2>7. \A s : Copies(s)' <=> Copies(s)
    BY <2>1 DEF Copies, Snapshot, SlotsUnder, SlotOf
  <2> HIDE DEF on
  <2>8. ASSUME NEW s \in Slots PROVE pins'[s] = N(s)' + C(s)'
    <3>1. pins'[s] = IF s \in on THEN pins[s] + -1 ELSE pins[s]
      BY <1>t, <2>1, <2>3, PinnedProperty
    <3>2. C(s)' = C(s) /\ C(s) \in Nat
      BY <2>7
    <3>3. N(s)' = IF s \in on THEN N(s) - 1 ELSE N(s)
      <4>1. Viewers(s) \in SUBSET ViewIds
        BY DEF Viewers
      <4> QED BY <2>5, <4>1, OneMore
    <3>4. pins[s] = N(s) + C(s) /\ N(s) \in Nat
      BY <1>c
    <3> HIDE DEF N, C
    <3> QED BY <3>1, <3>2, <3>3, <3>4
  <2>9. Cardinality(Bouncers)' =
          IF on = {} THEN Cardinality(Bouncers) - 1 ELSE Cardinality(Bouncers)
    <3>1. Bouncers \in SUBSET ViewIds
      BY DEF Bouncers
    <3> QED BY <2>6, <3>1, OneMore
  <2> DEFINE b == Cardinality(Bouncers)
  <2>10. bouncePins' = Cardinality(Bouncers)' + (IF pc' = "copy" THEN 1 ELSE 0)
    <3>1. b \in Nat /\ bouncePins = b + (IF pc = "copy" THEN 1 ELSE 0)
      BY <1>c
    <3>2. b' = IF on = {} THEN b - 1 ELSE b
      BY <2>9
    <3> HIDE DEF b
    <3>3. bouncePins' = b' + (IF pc' = "copy" THEN 1 ELSE 0)
      BY <2>1, <3>1, <3>2
    <3> QED BY <3>3 DEF b
  <2> QED BY <2>8, <2>10 DEF PinsCounted
<1> QED BY <1>0, <1>1, <1>2, <1>3, <1>4, <1>5, MemoryStep

\* A view's chunks in the window are in slots of the window.
LEMMA TakenSlots ==
  ASSUME NEW w \in Windows, NEW a \in Int, NEW z \in Int, Under(a, z) \subseteq InWindow(w)
  PROVE  SlotsUnder(w, a, z) \subseteq SlotsOf(w) /\ SlotsUnder(w, a, z) \subseteq Slots
<1>1. \A k \in Under(a, z) : SlotOf(w, k) \in Slots
  BY WindowProperty
<1> QED BY <1>1 DEF SlotsUnder, SlotsOf

\* The pins of a copy are on slots.
LEMMA CopiedSlots ==
  ASSUME op \in Ops
  PROVE  SlotsUnder(Snapshot, op.start, op.end) \subseteq Slots
<1>1. op.start \in Int /\ op.end \in Int /\ op.base \in Nat /\ op.head \in Slots
      /\ Snapshot.base = op.base /\ Snapshot.head = op.head
  BY Sizes DEF Ops, Positions, Snapshot
<1>2. \A k \in Int : SlotOf(Snapshot, k) \in Slots
  BY <1>1, SlotProperty
<1>3. Under(op.start, op.end) \subseteq Int
  BY <1>1, UnderProperty
<1> QED BY <1>2, <1>3 DEF SlotsUnder

\* Pins keep their type.
LEMMA PinsStep ==
  ASSUME IInv, [NextStep]_vars
  PROVE  pins' \in [Slots -> Nat] /\ bouncePins' \in {0, 1}
<1>t. MemoryOK /\ ControlOK /\ PinsCounted'
  BY Halves, PinsCountedStep DEF IInv
<1>1. \A s \in Slots : pins'[s] \in Nat
  <2> SUFFICES ASSUME NEW s \in Slots PROVE pins'[s] \in Nat
    OBVIOUS
  <2> DEFINE n == Cardinality(Viewers(s))'
             c == IF Copies(s)' THEN 1 ELSE 0
  <2>1. pins'[s] = n + c /\ c \in Nat
    BY <1>t DEF PinsCounted
  <2>2. n \in Nat
    BY ViewsFinite DEF Viewers
  <2> HIDE DEF n, c
  <2> QED BY <2>1, <2>2
<1>2. pins' = [s \in Slots |-> pins'[s]]
  BY <1>t, MemoryStep
  DEF Still, held, RingTaken, ViewRing, BounceTaken, ViewBounce, CopyChunk, CopyDone, Release,
      Pinned, MemoryOK
<1>3. pins' \in [Slots -> Nat]
  BY <1>1, <1>2
<1>4. bouncePins' \in Nat
  <2> DEFINE n == Cardinality(Bouncers)'
             c == IF pc' = "copy" THEN 1 ELSE 0
  <2>1. bouncePins' = n + c /\ c \in Nat
    BY <1>t DEF PinsCounted
  <2>2. n \in Nat
    BY ViewsFinite DEF Bouncers
  <2> HIDE DEF n, c
  <2> QED BY <2>1, <2>2
<1>5. bouncePins' \in {0, 1} \/ bouncePins' = bouncePins - 1
  BY <1>t, MemoryStep
  DEF Still, held, RingTaken, ViewRing, BounceTaken, ViewBounce, CopyChunk, CopyDone, Release,
      MemoryOK
<1>6. bouncePins \in {0, 1}
  BY <1>t DEF MemoryOK
<1> QED BY <1>3, <1>4, <1>5, <1>6

\* The chunk on its way goes where nobody looks: new pins are on the window's
\* slots, and its slot is the one after them.
LEMMA FillFreeStep ==
  ASSUME IInv, [NextStep]_vars
  PROVE  FillFree'
<1> SUFFICES ASSUME fpc' \in {"fill", "filling"}
             PROVE  fill'.slot \notin SlotsOf(win)' /\ pins'[fill'.slot] = 0
  BY DEF FillFree
<1>t. /\ ControlOK /\ PlacesOK /\ MemoryOK /\ FillFree /\ FillOK' /\ win' \in Windows
      /\ op \in Ops /\ op.start \in Int /\ op.end \in Int
  BY Halves, PinsParts, ControlStep, FillOKStep, Sizes DEF IInv, ControlOK, Ops, Positions
<1>1. /\ fill'.slot = Next(win') /\ win'.filled < RingChunks /\ SlotsOf(win)' = SlotsOf(win')
  BY <1>t DEF FillOK, Next, SlotsOf, InWindow, FilledEnd, SlotOf
<1>2. fill'.slot \in Slots /\ fill'.slot \notin SlotsOf(win')
  BY <1>t, <1>1, WindowProperty
<1>3. CASE Choose
  <2>1. MayFill(win') /\ pins' = pins
    BY <1>t, <1>3 DEF Choose, held, MayFill
  <2> QED BY <1>1, <1>2, <2>1 DEF MayFill
<1>4. CASE fpc \in {"fill", "filling"} /\ fill' = fill
  <2> DEFINE s == fill.slot
  <2>1. pins[s] = 0 /\ s \in Slots /\ s \notin SlotsOf(win')
    BY <1>t, <1>2, <1>4 DEF FillFree
  <2>2. pins'[s] \in Nat
    BY <2>1, PinsStep
  <2> HIDE DEF s
  <2>3. CASE RingTaken \/ BounceTaken
    <3>1. /\ pins' = Pinned(1, SlotsUnder(win', op.start, op.end))
          /\ Under(op.start, op.end) \subseteq InWindow(win')
      BY <2>3 DEF RingTaken, BounceTaken, There, ViewRing, ViewBounce
    <3>2. s \notin SlotsUnder(win', op.start, op.end)
          /\ SlotsUnder(win', op.start, op.end) \subseteq Slots
      BY <1>t, <2>1, <3>1, TakenSlots
    <3>3. pins'[s] = pins[s]
      BY <1>t, <2>1, <3>1, <3>2 DEF Pinned
    <3> QED BY <2>1, <3>3, <1>4 DEF s
  <2>4. CASE CopyDone
    <3>1. pins'[s] = pins[s] \/ pins'[s] = pins[s] + -1
      BY <2>1, <2>4 DEF CopyDone, Pinned
    <3> QED BY <2>1, <2>2, <3>1, <1>4 DEF s
  <2>5. ASSUME NEW v \in ViewIds, Release(v) PROVE pins'[s] = 0
    <3>1. pins'[s] = pins[s] \/ pins'[s] = pins[s] + -1
      BY <2>1, <2>5 DEF Release, Pinned
    <3> QED BY <2>1, <2>2, <3>1
  <2>6. CASE Still \/ CopyChunk
    BY <2>1, <2>6, <1>4 DEF Still, held, CopyChunk, s
  <2>7. SlotsOf(win)' = SlotsOf(win') /\ fill'.slot = s
    BY <1>1, <1>4 DEF s
  <2> QED BY <2>1, <2>3, <2>4, <2>5, <2>6, <2>7, MemoryStep
<1>5. Choose \/ (fpc \in {"fill", "filling"} /\ fill' = fill)
  BY DEF NextStep, vars, Ask, Proceed, FillStep, Read, View, NewView, ViewAt, SetReadahead, Close,
         ReadRound, DirectBegin, DirectEnd, Seek, ViewRound, CopyChunk, CopyDone, Release,
         Interrupt, FillBegin, FillEnd, Stopped, filler
<1> QED BY <1>3, <1>4, <1>5

-----------------------------------------------------------------------------
(* What a step does to the ring. *)

\* What somebody looks at, before and after a step, stays in its slot.
LEMMA SlotsStep ==
  ASSUME IInv, [NextStep]_vars
  PROVE  /\ slots' \in [Slots -> Held]
         /\ \A s \in Slots :
              /\ s \in SlotsOf(win') \/ pins'[s] > 0
              /\ fpc \in {"fill", "filling"} => s # fill.slot
              => slots'[s] = slots[s]
         /\ Grows => slots'[fill.slot] = fill.chunk
<1>t. slots \in [Slots -> Held] /\ None \in Held /\ fill.slot \in Slots /\ FileHolds
  BY Halves DEF IInv, MemoryOK, ControlOK, Held, BytesRight
<1>u. ASSUME NEW s \in Slots PROVE InUse(s)' <=> s \in SlotsOf(win') \/ pins'[s] > 0
  BY DEF InUse, SlotsOf, InWindow, FilledEnd, SlotOf
<1>1. CASE Forget /\ ~Grows
  <2>1. slots' = [s \in Slots |-> IF InUse(s)' THEN slots[s] ELSE None]
    BY <1>1 DEF Forget
  <2>2. \A s \in Slots : slots'[s] = IF InUse(s)' THEN slots[s] ELSE None
    BY <2>1
  <2>3. slots' \in [Slots -> Held]
    BY <1>t, <2>1
  <2> QED BY <1>1, <1>u, <2>2, <2>3
<1>2. CASE UNCHANGED slots /\ ~Grows
  BY <1>t, <1>2
<1>3. CASE FillBegin
  <2>1. fpc = "fill" /\ slots' = [slots EXCEPT ![fill.slot] = None] /\ ~Grows
    BY <1>3 DEF FillBegin, Grows, FillEnd
  <2> QED BY <1>t, <2>1
<1>4. ASSUME NEW whole \in BOOLEAN, FillEnd(whole)
      PROVE  /\ slots' \in [Slots -> Held]
             /\ \A s \in Slots :
                  /\ s \in SlotsOf(win') \/ pins'[s] > 0
                  /\ fpc \in {"fill", "filling"} => s # fill.slot
                  => slots'[s] = slots[s]
             /\ Grows => slots'[fill.slot] = fill.chunk
  <2>1. /\ fpc = "filling"
        /\ slots' = [s \in Slots |-> IF ~InUse(s)' THEN None
                                     ELSE IF s = fill.slot /\ whole THEN ChunkOf(filePos)
                                     ELSE slots[s]]
    BY <1>4 DEF FillEnd
  <2>2. \A s \in Slots : slots'[s] = IF ~InUse(s)' THEN None
                                     ELSE IF s = fill.slot /\ whole THEN ChunkOf(filePos)
                                     ELSE slots[s]
    BY <2>1
  <2>3. ChunkOf(filePos) = fill.chunk /\ fill.chunk \in Chunks
    <3>1. /\ fill.chunk \in Nat /\ fill.chunk * Chunk < Size
          /\ io = Filler /\ fpc = "filling"
      BY <2>1, Halves DEF IInv, ControlOK, FillOK, PlacesOK
    <3>2. filePos = fill.chunk * Chunk
      BY <1>t, <3>1 DEF FileHolds
    <3>3. ChunkOf(filePos) = fill.chunk
      BY <3>1, <3>2, ChunkOrder
    <3>4. fill.chunk \in 0 .. Size
      <4> DEFINE k == fill.chunk
      <4>1. k \in Nat /\ k * Chunk < Size /\ Chunk \in Nat /\ Chunk >= 1 /\ Size \in Nat
        BY <3>1, Sizes
      <4> HIDE DEF k
      <4>2. k <= k * Chunk /\ k * Chunk \in Nat
        BY <4>1
      <4>3. k <= Size
        BY <4>1, <4>2
      <4> QED BY <4>1, <4>3 DEF k
    <3> QED BY <3>1, <3>3, <3>4 DEF Chunks
  <2>4. slots' \in [Slots -> Held]
    BY <1>t, <2>1, <2>3 DEF Held
  <2>5. ASSUME Grows PROVE slots'[fill.slot] = fill.chunk
    <3>1. SlotsOf(win') = SlotsOf(win) \cup {fill.slot}
      BY <2>5, GrowsProperty
    <3>2. ASSUME NEW s \in Slots, s = fill.slot PROVE slots'[s] = fill.chunk
      <4>1. InUse(s)'
        BY <1>u, <3>1, <3>2
      <4>2. slots' = [r \in Slots |-> IF ~InUse(r)' THEN None
                                      ELSE IF r = fill.slot THEN ChunkOf(filePos)
                                      ELSE slots[r]]
        BY <2>5 DEF Grows, FillEnd
      <4>3. slots'[s] = ChunkOf(filePos)
        BY <3>2, <4>1, <4>2
      <4> QED BY <2>3, <4>3
    <3> QED BY <1>t, <3>2
  <2> QED BY <1>u, <2>1, <2>2, <2>4, <2>5
<1>5. fpc # "filling" \/ fpc' = "filling" => ~Grows
  BY DEF Grows, FillEnd
<1>6. \/ (Forget \/ UNCHANGED slots) /\ ~Grows
      \/ FillBegin \/ \E whole \in BOOLEAN : FillEnd(whole)
  <2>1. CASE \E v \in ViewIds : Release(v)
    BY <1>5, <2>1 DEF Release, filler, Grows, FillEnd
  <2>2. CASE UNCHANGED vars
    BY <1>5, <2>2 DEF vars, memory, filler, Grows, FillEnd
  <2>3. CASE Ask
    BY <1>5, <2>3 DEF Ask, Read, View, NewView, ViewAt, SetReadahead, Close, memory, filler
  <2>4. CASE Proceed
    BY <1>5, <2>4 DEF Proceed, ReadRound, DirectBegin, DirectEnd, ViewRound, CopyChunk, CopyDone,
                     memory, filler
  <2>5. CASE Choose \/ Stopped
    BY <1>5, <2>5 DEF Choose, Stopped, memory
  <2>6. CASE (\E to \in 0 .. Size : Seek(to)) \/ (\E on \in BOOLEAN : Interrupt(on))
    BY <1>5, <2>6 DEF Seek, Interrupt, memory, filler
  <2> QED BY <2>1, <2>2, <2>3, <2>4, <2>5, <2>6 DEF NextStep, FillStep
<1> QED BY <1>1, <1>2, <1>3, <1>4, <1>6

\* The window still holds the file's chunks.
LEMMA WindowHoldsStep ==
  ASSUME IInv, [NextStep]_vars
  PROVE  WindowHolds'
<1>t. /\ win \in Windows /\ win' \in Windows /\ WindowHolds /\ FillFree
      /\ FilledEnd(win) \in Nat
  BY Halves, PinsParts, ControlStep, WindowProperty DEF IInv, ControlOK, BytesRight
<1>1. WindowHolds = \A k \in InWindow(win) : slots[SlotOf(win, k)] = k
  BY DEF WindowHolds, InWindow
<1>2. WindowHolds' = \A k \in InWindow(win') : slots'[SlotOf(win', k)] = k
  BY DEF WindowHolds, InWindow, FilledEnd, SlotOf
<1>3. ASSUME NEW k \in InWindow(win'), k \in InWindow(win), SlotOf(win', k) = SlotOf(win, k)
      PROVE  slots'[SlotOf(win', k)] = k
  <2> DEFINE s == SlotOf(win, k)
  <2>1. s \in Slots /\ s \in SlotsOf(win) /\ s \in SlotsOf(win') /\ slots[s] = k
    <3>1. k \in Int
      BY <1>t, WindowProperty
    <3> QED BY <1>t, <1>1, <1>3, <3>1, WindowProperty DEF SlotsOf
  <2>2. fpc \in {"fill", "filling"} => s # fill.slot
    BY <1>t, <2>1 DEF FillFree
  <2>3. slots'[s] = slots[s]
    BY <2>1, <2>2, SlotsStep
  <2> QED BY <1>3, <2>1, <2>3
<1>4. CASE Within(win', win)
  BY <1>2, <1>3, <1>4 DEF Within
<1>5. CASE Grows
  <2>1. /\ InWindow(win') = InWindow(win) \cup {FilledEnd(win)}
        /\ \A k : SlotOf(win', k) = SlotOf(win, k)
        /\ fill.slot = Next(win) /\ fill.chunk = FilledEnd(win)
    BY <1>5, GrowsProperty
  <2>2. SlotOf(win, FilledEnd(win)) = fill.slot
    BY <1>t, <2>1, WindowProperty
  <2>3. slots'[fill.slot] = fill.chunk
    BY <1>5, SlotsStep
  <2> QED BY <1>2, <1>3, <2>1, <2>2, <2>3
<1> QED BY <1>4, <1>5, WindowStep

\* A slot that stays pinned keeps what it holds.
LEMMA PinnedStays ==
  ASSUME IInv, [NextStep]_vars, NEW s \in Slots, pins[s] # 0, pins'[s] # 0
  PROVE  slots'[s] = slots[s]
<1>1. FillFree /\ pins'[s] \in Nat
  BY PinsParts, PinsStep DEF IInv
<1>2. fpc \in {"fill", "filling"} => s # fill.slot
  BY <1>1 DEF FillFree
<1>3. pins'[s] > 0
  BY <1>1
<1> QED BY <1>2, <1>3, SlotsStep

\* What is pinned.
LEMMA PinnedWhere ==
  ASSUME PinsCounted, NEW s \in Slots
  PROVE  /\ Copies(s) => pins[s] # 0
         /\ \A v \in Viewers(s) : pins[s] # 0
         /\ \A v \in Bouncers : bouncePins # 0 /\ (pc = "copy" => bouncePins # 1)
<1> DEFINE n == Cardinality(Viewers(s))
           m == Cardinality(Bouncers)
<1>1. /\ Viewers(s) \in SUBSET ViewIds /\ Bouncers \in SUBSET ViewIds
  BY DEF Viewers, Bouncers
<1>2. n \in Nat /\ m \in Nat
  BY <1>1, ViewsFinite
<1>3. (\A v \in Viewers(s) : n >= 1) /\ (\A v \in Bouncers : m >= 1)
  BY <1>1, OneMore
<1>4. pins[s] = n + (IF Copies(s) THEN 1 ELSE 0) /\ bouncePins = m + (IF pc = "copy" THEN 1 ELSE 0)
  BY DEF PinsCounted
<1> HIDE DEF n, m
<1> QED BY <1>2, <1>3, <1>4

\* Nor does a chunk move while it is copied.
LEMMA CopyOKStep ==
  ASSUME IInv, [NextStep]_vars
  PROVE  CopyOK'
<1> SUFFICES ASSUME pc' = "copy" PROVE CopyOK'
  BY DEF CopyOK
<1>t. /\ ControlOK /\ PlacesOK /\ MemoryOK /\ CopyOK /\ PinsCounted /\ PinsCounted'
      /\ op \in Ops /\ op.start \in Int /\ op.end \in Int /\ win' \in Windows
  BY Halves, PinsParts, PinsCountedStep, ControlStep, Sizes
  DEF IInv, ControlOK, Ops, Positions
<1> DEFINE under == Under(op.start, op.end)
           n == Cardinality(under)
           x == ChunkOf(op.start)
<1>1. ASSUME pc = "copy", op' = op PROVE \A k \in under : slots'[SlotOf(Snapshot', k)] = k
  <2> SUFFICES ASSUME NEW k \in under PROVE slots'[SlotOf(Snapshot', k)] = k
    OBVIOUS
  <2>1. SlotOf(Snapshot, k) \in SlotsUnder(Snapshot, op.start, op.end)
        /\ slots[SlotOf(Snapshot, k)] = k
    BY <1>1, <1>t DEF SlotsUnder, CopyOK
  <2>2. PICK s \in Slots :
          s = SlotOf(Snapshot, k) /\ s \in SlotsUnder(Snapshot, op.start, op.end) /\ slots[s] = k
    BY <1>t, <2>1, CopiedSlots
  <2>3. SlotOf(Snapshot', k) = s
    BY <1>1, <2>2 DEF SlotOf, Snapshot
  <2>4. Copies(s) /\ Copies(s)'
    <3>1. SlotsUnder(Snapshot, op.start, op.end)' = SlotsUnder(Snapshot, op.start, op.end)
      BY <1>1 DEF SlotsUnder, SlotOf, Snapshot
    <3> QED BY <1>1, <2>2, <3>1 DEF Copies
  <2>5. pins[s] # 0
    BY <1>t, <2>2, <2>4, PinnedWhere
  <2>6. pins'[s] # 0
    <3> DEFINE m == Cardinality(Viewers(s))'
    <3>1. m \in Nat
      BY ViewsFinite DEF Viewers
    <3>2. pins'[s] = m + 1
      BY <1>t, <2>2, <2>4 DEF PinsCounted
    <3> HIDE DEF m
    <3> QED BY <3>1, <3>2
  <2> QED BY <2>2, <2>3, <2>5, <2>6, PinnedStays
<1>2. ASSUME pc = "copy", op' = op, bounce' = bounce PROVE CopyOK'
  BY <1>1, <1>2, <1>t DEF CopyOK, Under
<1>3. CASE BounceTaken
  <2>1. /\ bounce' = <<>> /\ op' = [op EXCEPT !.base = win'.base, !.head = win'.head]
        /\ under \subseteq InWindow(win')
    BY <1>3 DEF BounceTaken, ViewBounce, There
  <2>2. op'.start = op.start /\ op'.end = op.end /\ op'.base = win'.base /\ op'.head = win'.head
    BY <1>t, <2>1 DEF Ops
  <2>3. Under(op'.start, op'.end) = under
    BY <2>2
  <2>4. \A k : SlotOf(Snapshot, k)' = SlotOf(win', k)
    BY <2>2 DEF SlotOf, Snapshot
  <2>5. \A k \in InWindow(win') : slots'[SlotOf(win', k)] = k
    BY WindowHoldsStep DEF WindowHolds, InWindow, FilledEnd, SlotOf
  <2>6. Len(bounce') = 0 /\ n \in Nat
    BY <1>t, <2>1, UnderProperty
  <2> QED BY <2>1, <2>3, <2>4, <2>5, <2>6 DEF CopyOK, Under
<1>4. CASE CopyChunk
  <2> DEFINE l == Len(bounce)
             e == slots[SlotOf(Snapshot, x + l)]
  <2>1. /\ pc = "copy" /\ l # n /\ bounce' = Append(bounce, e) /\ op' = op
    BY <1>4 DEF CopyChunk, Copied, reader
  <2>2. bounce \in Seq(Held) /\ l \in Nat
    BY <1>t DEF MemoryOK
  <2>3. l <= n /\ n \in Nat /\ x \in Int
    BY <1>t, <2>1, UnderProperty, ChunkProperty DEF CopyOK
  <2>4. l \in 0 .. (n - 1)
    <3> HIDE DEF l, n
    <3> QED BY <2>1, <2>2, <2>3
  <2>5. x + l \in under
    <3>1. op.start < op.end
      BY <1>t, <2>1 DEF PlacesOK
    <3> QED BY <1>t, <2>4, <3>1, UnderProperty
  <2>6. e = x + l
    BY <1>t, <2>1, <2>5 DEF CopyOK
  <2>7. Len(bounce') = l + 1 /\ \A i \in 1 .. (l + 1) : bounce'[i] = IF i = l + 1 THEN e ELSE bounce[i]
    <3> HIDE DEF e
    <3> QED BY <2>1, <2>2
  <2>8. \A i \in 1 .. l : bounce[i] = x + i - 1
    BY <1>t, <2>1 DEF CopyOK
  <2> HIDE DEF l, n, x, e
  <2>9. Len(bounce') <= n
    BY <2>2, <2>3, <2>4, <2>7
  <2>10. \A i \in 1 .. Len(bounce') : bounce'[i] = x + i - 1
    <3> SUFFICES ASSUME NEW i \in 1 .. Len(bounce') PROVE bounce'[i] = x + i - 1
      OBVIOUS
    <3>1. CASE i = l + 1
      BY <2>2, <2>3, <2>6, <2>7, <3>1
    <3>2. CASE i # l + 1
      <4>1. i \in 1 .. l
        BY <2>2, <2>7, <3>2
      <4> QED BY <2>2, <2>7, <2>8, <3>2, <4>1
    <3> QED BY <3>1, <3>2
  <2> QED BY <1>1, <2>1, <2>9, <2>10 DEF CopyOK, n, x
<1>5. CASE RingTaken \/ CopyDone
  BY <1>5 DEF RingTaken, ViewRing, CopyDone
<1>6. CASE Still
  BY <1>2, <1>6 DEF Still, held
<1>7. ASSUME NEW v \in ViewIds, Release(v) PROVE CopyOK'
  BY <1>2, <1>7 DEF Release, reader
<1> QED BY <1>3, <1>4, <1>5, <1>6, <1>7, MemoryStep

\* Chunks of the window that do not wrap lie in a row of slots.
LEMMA InARow ==
  ASSUME NEW w \in Windows, NEW a \in Int, NEW z \in Int, a < z,
         Under(a, z) \subseteq InWindow(w), Contiguous(w, a, z)
  PROVE  \E s \in Slots :
           /\ SlotsUnder(w, a, z) = s .. (s + Cardinality(Under(a, z)) - 1)
           /\ \A k \in Under(a, z) : SlotOf(w, k) = s + k - ChunkOf(a)
<1> DEFINE x == ChunkOf(a)
           n == Cardinality(Under(a, z))
           s == SlotOf(w, x)
           h == w.head
           b == w.base
           f == w.filled
<1>1. /\ h \in Nat /\ h < RingChunks /\ b \in Nat /\ f \in Nat /\ f <= RingChunks
      /\ RingChunks \in Nat /\ Slots = 0 .. (RingChunks - 1) /\ w.head \in Slots
  BY Sizes DEF Windows
<1>2. /\ x \in Under(a, z) /\ n \in Nat /\ Under(a, z) \subseteq Int
      /\ \A k \in Under(a, z) : k - x \in 0 .. (n - 1)
      /\ \A i \in 0 .. (n - 1) : x + i \in Under(a, z)
  BY UnderProperty
<1>3. InWindow(w) = b .. ((b + f) - 1)
  BY DEF InWindow, FilledEnd
<1>4. \A k \in b .. (b + RingChunks - 1) :
        SlotOf(w, k) = IF h + (k - b) < RingChunks THEN h + (k - b)
                       ELSE h + (k - b) - RingChunks
  BY <1>1, SlotProperty
<1>5. s + n <= RingChunks
  BY DEF Contiguous
<1>6. \A k \in Int : SlotOf(w, k) \in Slots
  BY WindowProperty
<1>7. s \in Slots /\ x \in Int
  BY <1>2, <1>6
<1> HIDE DEF x, n, h, b, f
<1>8. ASSUME NEW k \in Under(a, z) PROVE k \in b .. (b + RingChunks - 1) /\ k \in Int
  <2>1. k \in b .. ((b + f) - 1)
    BY <1>3
  <2> QED BY <1>1, <2>1
<1>9. s = IF h + (x - b) < RingChunks THEN h + (x - b) ELSE h + (x - b) - RingChunks
  BY <1>2, <1>4, <1>8
<1> HIDE DEF s
<1>10. ASSUME NEW k \in Under(a, z) PROVE SlotOf(w, k) = s + k - x
  <2>1. SlotOf(w, k) = IF h + (k - b) < RingChunks THEN h + (k - b)
                       ELSE h + (k - b) - RingChunks
    BY <1>4, <1>8
  <2>2. k - x \in 0 .. (n - 1) /\ k \in Int /\ k < b + RingChunks
    BY <1>1, <1>2, <1>8
  <2>3. (IF h + (k - b) < RingChunks THEN h + (k - b) ELSE h + (k - b) - RingChunks) = s + k - x
    BY <1>1, <1>2, <1>5, <1>7, <1>9, <2>2
  <2> QED BY <2>1, <2>3
<1>11. SlotsUnder(w, a, z) = s .. (s + n - 1)
  <2>1. ASSUME NEW k \in Under(a, z) PROVE SlotOf(w, k) \in s .. (s + n - 1)
    <3>1. SlotOf(w, k) = s + k - x /\ k - x \in 0 .. (n - 1) /\ k \in Int /\ s \in Int
      BY <1>1, <1>2, <1>7, <1>8, <1>10
    <3> QED BY <1>2, <1>7, <3>1
  <2>2. ASSUME NEW t \in s .. (s + n - 1)
        PROVE  \E k \in Under(a, z) : SlotOf(w, k) = t
    <3>1. t - s \in 0 .. (n - 1) /\ s \in Int /\ t \in Int
      BY <1>1, <1>2, <1>7
    <3>2. x + (t - s) \in Under(a, z)
      BY <1>2, <3>1
    <3>3. SlotOf(w, x + (t - s)) = t
      BY <1>7, <1>10, <3>1, <3>2
    <3> QED BY <3>2, <3>3
  <2> QED BY <2>1, <2>2 DEF SlotsUnder
<1> QED BY <1>7, <1>10, <1>11 DEF x, n

\* What a view shows.
Shows(r) ==
  LET under == Under(r.start, r.end)
      first == ChunkOf(r.start)
  IN  IF r.on = {}
      THEN \A i \in 1 .. Cardinality(under) : bounce[i] = first + i - 1
      ELSE \E s \in Slots :
             /\ r.on = s .. (s + Cardinality(under) - 1)
             /\ \A k \in under : slots[s + k - first] = k

\* A view that was alive shows what it did: its slots are pinned, and the
\* bounce area is nobody else's.
LEMMA ShowsStill ==
  ASSUME IInv, [NextStep]_vars, NEW v \in ViewIds, views[v] # None, views'[v] # None,
         NEW r, r = views[v], r = views'[v]
  PROVE  Shows(r)'
<1>t. /\ MemoryOK /\ PinsCounted /\ PinsCounted' /\ ViewsHold
      /\ r \in [start : Positions, end : Positions, on : SUBSET Slots]
  BY Halves, PinsParts, PinsCountedStep DEF IInv, BytesRight, MemoryOK, ViewsOf
<1> DEFINE under == Under(r.start, r.end)
           n == Cardinality(under)
           x == ChunkOf(r.start)
<1>1. Shows(r)
  BY <1>t DEF ViewsHold, Shows
<1>2. CASE r.on = {}
  <2>1. v \in Bouncers
    BY <1>2 DEF Bouncers
  <2>2. bouncePins # 0 /\ (pc = "copy" => bouncePins # 1)
    BY <1>t, <2>1, PinnedWhere, Sizes
  <2>3. bouncePins \in {0, 1} /\ pc # "copy"
    BY <1>t, <2>2 DEF MemoryOK
  <2>4. bounce' = bounce
    BY <2>2, <2>3, MemoryStep
    DEF Still, held, RingTaken, ViewRing, BounceTaken, CopyChunk, CopyDone, Release
  <2> QED BY <1>1, <1>2, <2>4 DEF Shows
<1>3. CASE r.on # {}
  <2>1. PICK s \in Slots :
          r.on = s .. (s + n - 1) /\ \A k \in under : slots[s + k - x] = k
    BY <1>1, <1>3 DEF Shows
  <2>2. ASSUME NEW t \in r.on PROVE t \in Slots /\ slots'[t] = slots[t]
    <3>1. t \in Slots
      BY <1>t
    <3>2. v \in Viewers(t) /\ v \in Viewers(t)'
      BY DEF Viewers
    <3>3. pins[t] # 0
      BY <1>t, <3>1, <3>2, PinnedWhere
    <3>4. pins'[t] # 0
      <4> DEFINE m == Cardinality(Viewers(t))'
      <4>1. m \in Nat /\ m >= 1
        <5>1. Viewers(t)' \in SUBSET ViewIds
          BY DEF Viewers
        <5> QED BY <3>2, <5>1, ViewsFinite, OneMore
      <4>2. pins'[t] = m + (IF Copies(t)' THEN 1 ELSE 0)
        BY <1>t, <3>1 DEF PinsCounted
      <4> HIDE DEF m
      <4> QED BY <4>1, <4>2
    <3> QED BY <3>1, <3>3, <3>4, PinnedStays
  <2>3. ASSUME NEW k \in under PROVE slots'[s + k - x] = k
    <3>1. r.start \in Int /\ r.end \in Int
      BY <1>t, Sizes DEF Positions
    <3>2. k - x \in 0 .. (n - 1) /\ k \in Int /\ x \in Int /\ n \in Nat
      BY <3>1, UnderProperty, ChunkProperty
    <3>3. s \in Int
      BY Sizes
    <3> HIDE DEF x, n
    <3>4. s + k - x \in s .. (s + n - 1)
      BY <3>2, <3>3
    <3> QED BY <2>1, <2>2, <3>4
  <2> QED BY <1>3, <2>1, <2>3 DEF Shows
<1> QED BY <1>2, <1>3

\* Every view shows the bytes of its range.
LEMMA ViewsHoldStep ==
  ASSUME IInv, [NextStep]_vars
  PROVE  ViewsHold'
<1> SUFFICES ASSUME NEW v \in ViewIds, views'[v] # None PROVE Shows(views[v])'
  BY DEF ViewsHold, Shows
<1>t. /\ ControlOK /\ PlacesOK /\ MemoryOK /\ CopyOK
      /\ op \in Ops /\ op.start \in Positions /\ op.end \in Positions
      /\ op.start \in Int /\ op.end \in Int /\ win' \in Windows
  BY Halves, ControlStep, Sizes DEF IInv, ControlOK, Ops, Positions
<1>1. CASE views'[v] = views[v]
  <2>1. \A r : r = views[v] /\ r = views'[v] => Shows(r)'
    BY <1>1, ShowsStill
  <2> QED BY <1>1, <2>1 DEF Shows
<1>2. CASE RingTaken
  <2> DEFINE on == SlotsUnder(win', op.start, op.end)
             under == Under(op.start, op.end)
             n == Cardinality(under)
  <2>1. PICK u \in ViewIds :
          views' = [views EXCEPT ![u] = [start |-> op.start, end |-> op.end, on |-> on]]
    BY <1>2 DEF RingTaken, ViewRing
  <2>2. CASE u # v
    BY <1>t, <1>1, <2>1, <2>2 DEF MemoryOK
  <2>3. CASE u = v
    <3>1. views'[v] = [start |-> op.start, end |-> op.end, on |-> on]
      BY <1>t, <2>1, <2>3 DEF MemoryOK
    <3>2. op.start < op.end /\ under \subseteq InWindow(win') /\ Contiguous(win', op.start, op.end)
      BY <1>2, <1>t DEF RingTaken, There, PlacesOK
    <3>3. PICK s \in Slots :
            on = s .. (s + n - 1) /\ \A k \in under : SlotOf(win', k) = s + k - ChunkOf(op.start)
      BY <1>t, <3>2, InARow
    <3>4. on # {}
      <4>1. ChunkOf(op.start) \in under
        BY <1>t, <3>2, UnderProperty
      <4> QED BY <4>1 DEF SlotsUnder
    <3>5. \A k \in InWindow(win') : slots'[SlotOf(win', k)] = k
      BY WindowHoldsStep DEF WindowHolds, InWindow, FilledEnd, SlotOf
    <3>6. \A k \in under : slots'[s + k - ChunkOf(op.start)] = k
      BY <3>2, <3>3, <3>5
    <3>7. views'[v].start = op.start /\ views'[v].end = op.end /\ views'[v].on = on
      BY <3>1
    <3> HIDE DEF on
    <3> QED BY <3>3, <3>4, <3>6, <3>7 DEF Shows, Under, ChunkOf
  <2> QED BY <2>2, <2>3
<1>3. CASE CopyDone
  <2>1. PICK u \in ViewIds :
          views' = [views EXCEPT ![u] = [start |-> op.start, end |-> op.end, on |-> {}]]
    BY <1>3 DEF CopyDone
  <2>2. CASE u # v
    BY <1>t, <1>1, <2>1, <2>2 DEF MemoryOK
  <2>3. CASE u = v
    <3>1. views'[v] = [start |-> op.start, end |-> op.end, on |-> {}]
      BY <1>t, <2>1, <2>3 DEF MemoryOK
    <3>2. views'[v].start = op.start /\ views'[v].end = op.end /\ views'[v].on = {}
      BY <3>1
    <3>3. pc = "copy" /\ Len(bounce) = Cardinality(Under(op.start, op.end)) /\ bounce' = bounce
      BY <1>3 DEF CopyDone, Copied
    <3>4. \A i \in 1 .. Cardinality(Under(op.start, op.end)) :
            bounce'[i] = ChunkOf(op.start) + i - 1
      BY <1>t, <3>3 DEF CopyOK
    <3> QED BY <3>2, <3>4 DEF Shows, Under, ChunkOf
  <2> QED BY <2>2, <2>3
<1>4. ASSUME NEW u \in ViewIds, Release(u) PROVE Shows(views[v])'
  <2>1. views' = [views EXCEPT ![u] = None]
    BY <1>4 DEF Release
  <2>2. u # v /\ views'[v] = views[v]
    BY <1>t, <2>1 DEF MemoryOK
  <2> QED BY <1>1, <2>2
<1>5. CASE Still \/ BounceTaken \/ CopyChunk
  BY <1>1, <1>5 DEF Still, held, BounceTaken, ViewBounce, CopyChunk
<1> QED BY <1>2, <1>3, <1>4, <1>5, MemoryStep

\* The memory keeps its types.
LEMMA MemoryOKStep ==
  ASSUME IInv, [NextStep]_vars
  PROVE  MemoryOK'
<1>t. /\ ControlOK /\ PlacesOK /\ MemoryOK /\ CopyOK /\ win' \in Windows
      /\ op \in Ops /\ op.start \in Positions /\ op.end \in Positions
      /\ op.start \in Int /\ op.end \in Int
  BY Halves, ControlStep, Sizes DEF IInv, ControlOK, Ops, Positions
<1>1. pins' \in [Slots -> Nat] /\ bouncePins' \in {0, 1} /\ slots' \in [Slots -> Held]
  BY PinsStep, SlotsStep
<1>2. bounce' \in Seq(Held)
  <2>1. CASE CopyChunk
    <3>1. SlotOf(Snapshot, ChunkOf(op.start) + Len(bounce)) \in Slots
      <4>1. ChunkOf(op.start) + Len(bounce) \in Int
        <5>1. ChunkOf(op.start) \in Int
          BY <1>t, ChunkProperty
        <5>2. Len(bounce) \in Nat
          BY <1>t DEF MemoryOK
        <5> QED BY <5>1, <5>2
      <4>2. Snapshot.base \in Nat /\ Snapshot.head \in Slots
        BY <1>t DEF Snapshot, Ops
      <4> QED BY <4>1, <4>2, SlotProperty
    <3> QED BY <1>t, <2>1, <3>1 DEF CopyChunk, MemoryOK
  <2>2. CopyChunk \/ bounce' = bounce \/ bounce' = <<>>
    BY MemoryStep
    DEF Still, held, RingTaken, ViewRing, BounceTaken, ViewBounce, CopyDone, Release
  <2>3. bounce \in Seq(Held) /\ <<>> \in Seq(Held)
    BY <1>t DEF MemoryOK
  <2> QED BY <2>1, <2>2, <2>3
<1>3. views' \in [ViewIds -> ViewsOf]
  <2>1. CASE RingTaken
    <3> DEFINE on == SlotsUnder(win', op.start, op.end)
    <3>1. on \in SUBSET Slots
      BY <1>t, <2>1, TakenSlots DEF RingTaken, There
    <3>2. \E v \in ViewIds :
            views' = [views EXCEPT ![v] = [start |-> op.start, end |-> op.end, on |-> on]]
      BY <2>1 DEF RingTaken, ViewRing
    <3> HIDE DEF on
    <3>3. [start |-> op.start, end |-> op.end, on |-> on] \in ViewsOf
      BY <1>t, <3>1, RangeProperty
    <3> QED BY <1>t, <3>2, <3>3 DEF MemoryOK
  <2>2. CASE CopyDone
    <3>1. [start |-> op.start, end |-> op.end, on |-> {}] \in ViewsOf
      BY <1>t, RangeProperty
    <3> QED BY <1>t, <2>2, <3>1 DEF CopyDone, MemoryOK
  <2>3. ASSUME NEW v \in ViewIds, Release(v) PROVE views' \in [ViewIds -> ViewsOf]
    BY <1>t, <2>3 DEF Release, MemoryOK, ViewsOf
  <2>4. CASE Still \/ BounceTaken \/ CopyChunk
    BY <1>t, <2>4 DEF Still, held, BounceTaken, ViewBounce, CopyChunk, MemoryOK
  <2> QED BY <2>1, <2>2, <2>3, <2>4, MemoryStep
<1> QED BY <1>1, <1>2, <1>3 DEF MemoryOK

\* The file's position is that of the one who holds the lock.
LEMMA FileHoldsStep ==
  ASSUME IInv, [NextStep]_vars
  PROVE  FileHolds'
<1>t. FileHolds /\ PlacesOK /\ PlacesOK'
  BY ControlStep DEF IInv, BytesRight
<1>n. None # Reader /\ None # Filler /\ Reader # Filler
  BY BufferAssumption DEF BufferAssumption
<1>1. CASE DirectBegin
  BY <1>1, <1>n DEF DirectBegin, FileHolds
<1>2. CASE FillBegin
  BY <1>2, <1>n DEF FillBegin, FileHolds
<1>3. CASE io' = None
  BY <1>3, <1>n DEF FileHolds
<1>4. CASE /\ UNCHANGED file /\ (pc = "reading" => UNCHANGED op)
           /\ (fpc = "filling" => UNCHANGED fill)
  BY <1>4, <1>t DEF file, FileHolds, PlacesOK
<1>5. CASE ReadRound
  BY <1>4, <1>5 DEF ReadRound, filler
<1>6. CASE ViewRound
  BY <1>4, <1>6 DEF ViewRound, filler
<1>7. DirectBegin \/ FillBegin \/ ReadRound \/ ViewRound \/ io' = None
      \/ /\ UNCHANGED file /\ (pc = "reading" => UNCHANGED op)
         /\ (fpc = "filling" => UNCHANGED fill)
  BY DEF NextStep, vars, Ask, Proceed, FillStep, Read, View, NewView, ViewAt, SetReadahead, Close,
         DirectEnd, Seek, CopyChunk, CopyDone, Release, Interrupt, Choose, FillEnd, Stopped,
         filler, reader, held, memory, flags, file
<1> QED BY <1>1, <1>2, <1>3, <1>4, <1>5, <1>6, <1>7

-----------------------------------------------------------------------------
(* The theorems. *)

\* It holds to begin with.
LEMMA Initially == Init => IInv
<1> SUFFICES ASSUME Init PROVE IInv
  OBVIOUS
<1> USE DEF Init
<1>0. /\ 0 \in Positions /\ 0 \in Nat /\ 0 \in Slots /\ 0 \in 0 .. RingChunks
      /\ Positions = 0 .. Size
  BY Sizes DEF Positions
<1>1. NoOp \in Ops /\ NoFill \in [chunk : Nat, slot : Slots]
  BY <1>0 DEF NoOp, NoFill, Ops
<1>2. win \in Windows /\ InWindow(win) = {}
  BY <1>0 DEF Windows, InWindow, FilledEnd
<1>3. ControlOK
  BY <1>0, <1>1, <1>2 DEF ControlOK
<1>4. MemoryOK
  <2>1. slots \in [Slots -> Held] /\ views \in [ViewIds -> ViewsOf]
    BY DEF Held, ViewsOf
  <2>2. pins \in [Slots -> Nat] /\ bouncePins \in {0, 1} /\ bounce \in Seq(Held)
    BY <1>0
  <2> QED BY <2>1, <2>2 DEF MemoryOK
<1>5. None # Reader /\ None # Filler
  BY BufferAssumption DEF BufferAssumption
<1>6. PlacesOK /\ FillOK /\ CopyOK /\ FillFree
  BY <1>5 DEF PlacesOK, FillOK, CopyOK, FillFree
<1>7. BytesRight
  <2>1. WindowHolds
    BY <1>2 DEF WindowHolds, InWindow
  <2>2. ViewsHold
    BY DEF ViewsHold
  <2>3. FileHolds
    BY <1>5 DEF FileHolds
  <2> QED BY <2>1, <2>2, <2>3 DEF BytesRight
<1>8. PinsCounted
  <2>1. (\A s \in Slots : Viewers(s) = {} /\ ~Copies(s) /\ pins[s] = 0) /\ Bouncers = {}
    BY DEF Viewers, Bouncers, Copies
  <2>2. Cardinality({}) = 0
    BY FS_EmptySet
  <2>3. Cardinality(Bouncers) = 0 /\ \A s \in Slots : Cardinality(Viewers(s)) = 0
    BY <2>1, <2>2
  <2>4. bouncePins = Cardinality(Bouncers) + (IF pc = "copy" THEN 1 ELSE 0)
    BY <2>3
  <2> QED BY <2>1, <2>3, <2>4 DEF PinsCounted
<1> QED BY <1>3, <1>4, <1>6, <1>7, <1>8, Halves, PinsParts DEF IInv

\* And after every step.
LEMMA Inductive == Spec => []IInv
<1>1. IInv /\ [NextStep]_vars => IInv'
  <2> SUFFICES ASSUME IInv, [NextStep]_vars PROVE IInv'
    OBVIOUS
  <2>1. TypeOK'
    BY ControlStep, MemoryOKStep, Halves DEF TypeOK, ControlOK, MemoryOK, Windows
  <2>2. PinsHold'
    BY FillFreeStep, PinsCountedStep
    DEF PinsHold, FillFree, PinsCounted, SlotsOf, InWindow, Viewers, Bouncers, Copies
  <2>3. BytesRight'
    BY WindowHoldsStep, ViewsHoldStep, FileHoldsStep DEF BytesRight
  <2> QED BY <2>1, <2>2, <2>3, ControlStep, FillOKStep, CopyOKStep DEF IInv
<1> QED BY Initially, <1>1, PTL DEF Spec

\* What waits has all it asked for under way, or room and reason to fetch it.
LEMMA Fed == IInv => WaiterFed
<1> DEFINE w == DropConsumed(win, cursor)
           c == ChunkOf(cursor)
           needs == IF pc = "read" THEN Min({op.end, (ChunkOf(cursor) + 1) * Chunk})
                    ELSE op.end
<1> SUFFICES ASSUME IInv, pc \in {"read", "view"}, want # 0, ~Hopeless,
                    needs > FilledEnd(w) * Chunk
             PROVE  Behind(w) /\ (pins[Next(w)] = 0 \/
                      \E v \in ViewIds : views[v] # None /\ Next(w) \in views[v].on)
  BY DEF WaiterFed
<1>t. /\ ControlOK /\ PlacesOK /\ PinsCounted
      /\ win \in Windows /\ cursor \in Nat /\ op.end \in Nat /\ op.end <= Size
      /\ want \in 0 .. RingChunks /\ Size \in Nat /\ RingChunks \in Nat /\ Depth \in Nat
  BY Halves, PinsParts, Sizes DEF IInv, ControlOK, Positions, Ops
<1>1. w \in Windows /\ FilledEnd(w) = c + w.filled /\ c \in Nat
  BY <1>t, DropProperty, ChunkOrder
<1>2. w.filled \in Nat /\ Next(w) \in Slots
  BY <1>1, WindowProperty, Sizes DEF Windows
<1>3. c + 1 \in Int /\ (c + 1) * Chunk \in Int
  <2>1. c + 1 \in Int
    BY <1>1
  <2> QED BY <2>1, InUnits
<1>4. Min({op.end, (c + 1) * Chunk}) =
        IF op.end <= (c + 1) * Chunk THEN op.end ELSE (c + 1) * Chunk
  <2> DEFINE z == (c + 1) * Chunk
  <2> HIDE DEF z
  <2>1. op.end \in Int /\ z \in Int
    BY <1>t, <1>3 DEF z
  <2>2. Min({op.end, z}) = IF op.end <= z THEN op.end ELSE z
    BY <2>1, PairProperty
  <2> QED BY <2>2 DEF z
<1>5. needs <= (c + want) * Chunk /\ needs <= op.end /\ needs \in Int
  <2>1. CASE pc = "read"
    <3>1. needs = IF op.end <= (c + 1) * Chunk THEN op.end ELSE (c + 1) * Chunk
      BY <1>4, <2>1
    <3>2. c + 1 <= c + want /\ c + want \in Int
      BY <1>t, <1>1
    <3>3. (c + 1) * Chunk <= (c + want) * Chunk /\ (c + want) * Chunk \in Int
      BY <1>3, <3>2, InUnits
    <3> HIDE DEF needs, c
    <3> QED BY <1>t, <1>3, <3>1, <3>3
  <2>2. CASE pc = "view"
    <3>1. needs = op.end
      BY <2>2
    <3>2. op.end <= (ChunkOf(cursor) + want) * Chunk
      BY <1>t, <2>2 DEF PlacesOK
    <3> QED BY <1>t, <3>1, <3>2
  <2> QED BY <2>1, <2>2
<1>6. c + w.filled < c + want /\ FilledEnd(w) * Chunk < Size
  <2> DEFINE f == FilledEnd(w)
  <2>1. f \in Int /\ c + want \in Int /\ f * Chunk \in Int /\ (c + want) * Chunk \in Int
    <3>1. f \in Int /\ c + want \in Int
      BY <1>t, <1>1, <1>2
    <3> QED BY <3>1, InUnits
  <2>2. f * Chunk < needs
    BY <2>1, <1>5
  <2> HIDE DEF f, needs
  <2>3. f * Chunk < (c + want) * Chunk /\ f * Chunk < Size
    BY <1>t, <1>5, <2>1, <2>2
  <2>4. f < c + want
    BY <2>1, <2>3, InUnits
  <2> QED BY <1>1, <2>3, <2>4 DEF f
<1> HIDE DEF w, c, needs
<1>7. w.filled < want /\ w.filled \in Nat
  BY <1>t, <1>1, <1>2, <1>6
<1>8. Max({want, Depth}) = IF want >= Depth THEN want ELSE Depth
  <2>1. want \in Int /\ Depth \in Int
    BY <1>t
  <2> QED BY <2>1, PairProperty
<1>9. Behind(w)
  <2>1. w.filled < Max({want, Depth})
    BY <1>t, <1>7, <1>8
  <2> QED BY <1>6, <2>1 DEF Behind
<1>10. ASSUME pins[Next(w)] # 0
       PROVE  \E v \in ViewIds : views[v] # None /\ Next(w) \in views[v].on
  <2>1. ~Copies(Next(w))
    BY DEF Copies
  <2>2. pins[Next(w)] = Cardinality(Viewers(Next(w))) + 0
    BY <1>t, <1>2, <2>1 DEF PinsCounted
  <2>3. Cardinality({}) = 0
    BY FS_EmptySet
  <2>4. Viewers(Next(w)) # {}
    BY <1>10, <2>2, <2>3
  <2> QED BY <2>4 DEF Viewers
<1> QED BY <1>9, <1>10

\* Every field keeps its type (buffer.rs, State): no pin count goes below
\* zero, no window outgrows the ring, nothing is read past the file's end.
THEOREM TypeCorrect == Spec => []TypeOK
<1>1. IInv => TypeOK
  BY DEF IInv
<1> QED BY <1>1, Inductive, PTL

\* No read and no view returns other bytes than the file's, whatever is sought
\* or closed while a chunk is on its way or being copied (Buffer::read, view).
THEOREM BytesAreRight == Spec => []BytesRight
<1>1. IInv => BytesRight
  BY DEF IInv
<1> QED BY <1>1, Inductive, PTL

\* A chunk is only written outside the window and unpinned, and there is a pin
\* for each view and each copy, no more (fill_next, view_locked, View::drop).
THEOREM PinsAreHeld == Spec => []PinsHold
<1>1. IInv => PinsHold
  BY DEF IInv
<1> QED BY <1>1, Inductive, PTL

\* Who waits in wait_for waits for a chunk under way, for read-ahead to fetch
\* the next one, or for a living view to give its slot back.
THEOREM WaitersAreFed == Spec => []WaiterFed
<1> QED BY Fed, Inductive, PTL

=============================================================================
