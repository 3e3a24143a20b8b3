------------------------------- MODULE Buffer --------------------------------
(***************************************************************************)
(* The shared buffer of devkit_media (src/libs/devkit_media/src/buffer.rs) *)
(* with read-ahead: one task reads the file, seeks and takes views of it;  *)
(* the read-ahead task fills a ring of chunks in front of its cursor; and  *)
(* whoever holds a view, anywhere, keeps the chunks under it pinned.       *)
(*                                                                         *)
(* A step is one section under the state's lock, one file access or one    *)
(* chunk copied without the lock.  Positions are counted in units, a few   *)
(* to a chunk; what a slot of the ring holds is the number of the file's   *)
(* chunk, or None while it is being written and once it is neither in the  *)
(* window nor pinned: nothing may rely on it from then on.  The two        *)
(* semaphores only end waits before their timeout does, so a wait may end  *)
(* at any time.                                                            *)
(***************************************************************************)
EXTENDS Integers, Sequences, FiniteSets, FiniteSetsExt

CONSTANTS
  Size,          \* of the file, in units
  Chunk,         \* units in a chunk, 64 KB in the code
  RingChunks,    \* chunks in the ring
  BounceChunks,  \* chunks in the bounce area, the largest view
  Depth,         \* chunks to read ahead
  ViewIds,       \* bound: the views alive at once
  ViewLengths,   \* bound: units in a view
  MaxRead,       \* bound: units in one read
  Reader, Filler, None

BufferAssumption ==
  /\ Size \in Nat /\ Chunk \in Nat \ {0} /\ MaxRead \in Nat
  /\ ViewLengths \subseteq 1 .. (BounceChunks * Chunk)
  /\ BounceChunks \in Nat \ {0} /\ Depth \in Nat \ {0}
  /\ RingChunks \in Nat /\ RingChunks >= 2 * Max({BounceChunks + 1, Depth})
  /\ Reader # Filler /\ None \notin {Reader, Filler}
  /\ IsFiniteSet(ViewIds) /\ None \notin [start : Nat, end : Nat, on : SUBSET Nat]
ASSUME BufferAssumption

Slots == 0 .. (RingChunks - 1)
Chunks == {k \in 0 .. Size : k * Chunk < Size}
Held == Chunks \cup {None}

VARIABLES
  cursor,     \* State::cursor
  win,                                \* State::base, in chunks, head and filled
  want, readahead, interrupted, ioError,
  pins, bouncePins,
  slots,      \* what each chunk of the ring holds
  bounce,     \* what was copied to the bounce area, chunk after chunk
  views,      \* the views alive: where they start and end, and on what memory
  io,         \* who holds the io lock
  filePos,    \* the file's position, while somebody reads the file
  pc, op,     \* the reader's place, and the range and window it works on
  fpc, fill,  \* the read-ahead task's place, and the chunk and slot it fills
  stop

reader == <<pc, op>>
filler == <<fpc, fill, stop>>
flags  == <<readahead, interrupted, ioError>>
file   == <<io, filePos>>
memory == <<pins, bouncePins, slots, bounce, views>>
held   == <<pins, bouncePins, bounce, views>>   \* without the ring itself
vars   == <<cursor, win, want, flags, memory, file, reader, filler>>

NoOp == [start |-> 0, end |-> 0, advance |-> FALSE, base |-> 0, head |-> 0]
NoFill == [chunk |-> 0, slot |-> 0]

Init ==
  /\ cursor = 0
  /\ win = [base |-> 0, head |-> 0, filled |-> 0] /\ want = 0
  /\ readahead = FALSE /\ interrupted = FALSE /\ ioError = FALSE
  /\ pins = [s \in Slots |-> 0] /\ bouncePins = 0
  /\ slots = [s \in Slots |-> None] /\ bounce = <<>>
  /\ views = [v \in ViewIds |-> None]
  /\ io = None /\ filePos = 0
  /\ pc = "idle" /\ op = NoOp
  /\ fpc = "look" /\ fill = NoFill /\ stop = FALSE

-----------------------------------------------------------------------------
ChunkOf(position) == position \div Chunk
ChunksUp(units) == (units + Chunk - 1) \div Chunk
FilledEnd(w) == w.base + w.filled

\* State::restart_window; slip: the ring's end is forgotten.
RestartedPastEnd(w, c) ==
  [base |-> ChunkOf(c), head |-> w.head + w.filled, filled |-> 0]

Restarted(w, c) ==
  [base |-> ChunkOf(c), head |-> (w.head + w.filled) % RingChunks, filled |-> 0]

\* State::drop_consumed: the chunks before the cursor go, or all of them when
\* the cursor went back before the window.
DropConsumed(w, c) ==
  LET gone == Min({w.filled, ChunkOf(c) - w.base})
  IN  IF ChunkOf(c) < w.base THEN Restarted(w, c)
      ELSE [base   |-> IF gone = w.filled THEN ChunkOf(c) ELSE w.base + gone,
            head   |-> (w.head + gone) % RingChunks,
            filled |-> w.filled - gone]

SlotOf(w, k) == (w.head + k - w.base) % RingChunks

\* The chunks, and slots of a window, under a range of positions.
Under(start, end) == ChunkOf(start) .. ChunkOf(end - 1)
SlotsUnder(w, start, end) == {SlotOf(w, k) : k \in Under(start, end)}
Pinned(n, on) == [s \in Slots |-> IF s \in on THEN pins[s] + n ELSE pins[s]]

Contiguous(w, start, end) ==
  SlotOf(w, ChunkOf(start)) + Cardinality(Under(start, end)) <= RingChunks

\* What the ring holds that somebody may still look at.
InUse(s) ==
  \/ s \in {SlotOf(win, k) : k \in win.base .. (FilledEnd(win) - 1)}
  \/ pins[s] > 0
Forget == slots' = [s \in Slots |-> IF InUse(s)' THEN slots[s] ELSE None]

\* wait_for: nothing will come, or more of the window is wanted.  Slip: the
\* chunks are counted from the cursor and not from where the window starts.
Hopeless == ~readahead \/ ioError \/ interrupted
WantedAhead(w, end) == Max({want, ChunksUp(end - cursor)})
Wanted(w, end) == Max({want, ChunksUp(end - w.base * Chunk)})

-----------------------------------------------------------------------------
\* The reader: Buffer::read.
Read(n) ==
  /\ pc = "idle" /\ cursor < Size
  /\ pc' = IF readahead THEN "read" ELSE "direct"
  /\ op' = [NoOp EXCEPT !.start = cursor, !.end = Min({cursor + n, Size})]
  /\ UNCHANGED <<cursor, win, want, flags, memory, file, filler>>

\* Copies what is there under the lock, and ends, or waits without it for the
\* next piece: to the end of a chunk or of the read.
ReadRound ==
  /\ pc = "read"
  /\ LET there == FilledEnd(DropConsumed(win, cursor)) * Chunk
         to    == IF op.end <= there THEN op.end ELSE Max({cursor, there})
         last  == Max({cursor, ChunkOf(to - 1) * Chunk})
         w     == DropConsumed(win, IF to = op.end THEN last ELSE to)
         piece == Min({op.end, (ChunkOf(to) + 1) * Chunk})
     IN /\ cursor' = to
        /\ win' = w
        /\ IF to = op.end \/ Hopeless
           THEN /\ want' = 0
                /\ pc' = "idle" /\ op' = NoOp
           ELSE /\ want' = Wanted(w, piece)
                /\ UNCHANGED reader
  /\ UNCHANGED <<flags, held, file, filler>> /\ Forget

\* With read-ahead off the file is read without the lock: under the io lock,
\* which keeps the file's position until the read is over.
DirectBegin ==
  /\ pc = "direct" /\ io = None
  /\ io' = Reader /\ filePos' = op.start /\ pc' = "reading"
  /\ UNCHANGED <<cursor, win, want, flags, memory, op, filler>>

DirectEnd ==
  /\ pc = "reading"
  /\ \E to \in op.start .. op.end : cursor' = cursor + to - op.start
  /\ io' = None /\ filePos' = 0
  /\ pc' = "idle" /\ op' = NoOp
  /\ UNCHANGED <<win, want, flags, memory, filler>>

-----------------------------------------------------------------------------
\* Buffer::seek; another task's may come while a view is copied, the case
\* view_locked pins its chunks for.
Seek(to) ==
  /\ pc \in {"idle", "copy"} /\ ~stop
  /\ cursor' = to /\ ioError' = FALSE
  /\ win' = DropConsumed(win, to)
  /\ UNCHANGED <<want, readahead, interrupted, held, file, reader, filler>> /\ Forget

\* Buffer::set_readahead.
SetReadahead(on) ==
  /\ pc = "idle"
  /\ readahead' = on
  /\ win' = IF on THEN win ELSE Restarted(win, cursor)
  /\ UNCHANGED <<cursor, want, interrupted, ioError, held, file, reader,
                 filler>>
  /\ Forget

-----------------------------------------------------------------------------
\* Buffer::view, at the cursor ...
NewView(start, n, advance) ==
  /\ pc = "idle" /\ start + n <= Size
  /\ \E v \in ViewIds : views[v] = None
  /\ pc' = "view"
  /\ op' = [NoOp EXCEPT !.start = start, !.end = start + n, !.advance = advance]
  /\ UNCHANGED <<want, readahead, interrupted, held, file, filler>>

View(n) ==
  /\ NewView(cursor, n, TRUE)
  /\ UNCHANGED <<cursor, win, ioError, slots>>

\* ... and Buffer::view_at, which moves the cursor when the view is before it
\* or more than half the ring past it.
MovesCursor(start, end) ==
  \/ start < cursor
  \/ end - ChunkOf(cursor) * Chunk > (RingChunks \div 2) * Chunk

ViewAt(start, n) ==
  /\ NewView(start, n, FALSE)
  /\ IF MovesCursor(start, start + n)
     THEN /\ cursor' = start /\ ioError' = FALSE
          /\ win' = DropConsumed(win, start) /\ Forget
     ELSE UNCHANGED <<cursor, ioError, win, slots>>

ViewFails ==
  /\ want' = 0 /\ pc' = "idle" /\ op' = NoOp
  /\ UNCHANGED <<cursor, held>>

\* The chunks lie in a row: the view is of the ring itself.
ViewRing ==
  LET on == SlotsUnder(win', op.start, op.end)
  IN  /\ pins' = Pinned(1, on)
      /\ \E v \in ViewIds :
           /\ views[v] = None
           /\ views' = [views EXCEPT ![v] = [start |-> op.start, end |-> op.end, on |-> on]]
      /\ cursor' = IF op.advance THEN op.end ELSE cursor
      /\ want' = 0 /\ pc' = "idle" /\ op' = NoOp
      /\ UNCHANGED <<bouncePins, bounce>>

\* They do not: they are pinned and copied to the bounce area.
ViewBounce ==
  /\ bouncePins' = 1 /\ bounce' = <<>>
  /\ pins' = Pinned(1, SlotsUnder(win', op.start, op.end))
  /\ pc' = "copy" /\ op' = [op EXCEPT !.base = win'.base, !.head = win'.head]
  /\ UNCHANGED <<cursor, want, views>>

\* A round of view_locked.
ViewRound ==
  /\ pc = "view"
  /\ win' = IF readahead THEN DropConsumed(win, cursor) ELSE win
  /\ LET there == op.end <= FilledEnd(win') * Chunk
         row   == Contiguous(win', op.start, op.end)
     IN \/ ~there /\ Hopeless /\ ViewFails
        \/ /\ ~there /\ ~Hopeless
           /\ want' = Wanted(win', op.end) /\ UNCHANGED <<cursor, held, reader>>
        \/ there /\ (~readahead \/ ChunkOf(op.start) < win'.base) /\ ViewFails
        \/ /\ there /\ readahead /\ ChunkOf(op.start) >= win'.base
           /\ \/ row /\ ViewRing
              \/ ~row /\ bouncePins = 0 /\ ViewBounce
              \/ ~row /\ bouncePins # 0 /\ interrupted /\ ViewFails
              \/ ~row /\ bouncePins # 0 /\ ~interrupted
                 /\ UNCHANGED <<cursor, want, held, reader>>
  /\ UNCHANGED <<flags, file, filler>> /\ Forget

\* One chunk is copied, without the lock, from where it was in the ring.
Snapshot == [base |-> op.base, head |-> op.head]
Copied == Len(bounce) = Cardinality(Under(op.start, op.end))

CopyChunk ==
  /\ pc = "copy" /\ ~Copied
  /\ bounce' = Append(bounce, slots[SlotOf(Snapshot, ChunkOf(op.start) + Len(bounce))])
  /\ UNCHANGED <<cursor, win, want, flags, pins, bouncePins, slots, views,
                 file, reader, filler>>

CopyDone ==
  /\ pc = "copy" /\ Copied
  /\ pins' = Pinned(-1, SlotsUnder(Snapshot, op.start, op.end))
  /\ \E v \in ViewIds :
       /\ views[v] = None
       /\ views' = [views EXCEPT ![v] = [start |-> op.start, end |-> op.end, on |-> {}]]
  /\ cursor' = IF op.advance THEN op.end ELSE cursor
  /\ want' = 0 /\ pc' = "idle" /\ op' = NoOp
  /\ UNCHANGED <<win, flags, bouncePins, bounce, file, filler>> /\ Forget

\* A view is dropped, on any task; one of the bounce area has no slots.
Release(v) ==
  /\ views[v] # None
  /\ views' = [views EXCEPT ![v] = None]
  /\ pins' = Pinned(-1, views[v].on)
  /\ bouncePins' = IF views[v].on = {} THEN bouncePins - 1 ELSE bouncePins
  /\ UNCHANGED <<cursor, win, want, flags, bounce, file, reader, filler>>
  /\ Forget

\* Interrupter::interrupt, by the task that waits for the reader: set while the
\* reader may be in a call, cleared when it has stopped.
Interrupt(on) ==
  /\ interrupted # on
  /\ pc \in (IF on THEN {"read", "view"} ELSE {"idle"})
  /\ interrupted' = on
  /\ UNCHANGED <<cursor, win, want, readahead, ioError, memory, file, reader,
                 filler>>

\* Buffer::drop asks the read-ahead task to stop and joins it; views may live on.
Close ==
  /\ pc = "idle"
  /\ stop' = TRUE /\ pc' = "join"
  /\ UNCHANGED <<cursor, win, want, flags, memory, file, op, fpc, fill>>

-----------------------------------------------------------------------------
\* The read-ahead task: fill_next chooses a chunk and its slot ...
Next(w) == (w.head + w.filled) % RingChunks
\* Slip: nobody looks whether the slot is pinned.
Behind(w) == w.filled < Max({want, Depth}) /\ FilledEnd(w) * Chunk < Size
MayFillPinned(w) == Behind(w)

MayFill(w) == Behind(w) /\ pins[Next(w)] = 0

Choose ==
  /\ fpc = "look" /\ ~stop
  /\ readahead /\ ~ioError
  /\ win' = DropConsumed(win, cursor)
  /\ IF MayFill(win')
     THEN /\ fpc' = "fill"
          /\ fill' = [chunk |-> FilledEnd(win'), slot |-> Next(win')]
     ELSE UNCHANGED <<fpc, fill>>
  /\ UNCHANGED <<cursor, want, flags, held, file, reader, stop>> /\ Forget

\* ... reads the file without the lock ...
FillBegin ==
  /\ fpc = "fill" /\ io = None
  /\ io' = Filler /\ filePos' = fill.chunk * Chunk
  /\ slots' = [slots EXCEPT ![fill.slot] = None]
  /\ fpc' = "filling"
  /\ UNCHANGED <<cursor, win, want, flags, pins, bouncePins, bounce, views,
                 reader, fill, stop>>

\* Slip: the place in the ring alone is compared.
StillNextSlot == readahead /\ Next(win) = fill.slot

\* ... and adds the chunk, if it came whole, when it is still the one the
\* window ends before.
StillNext == readahead /\ FilledEnd(win) = fill.chunk /\ Next(win) = fill.slot

FillEnd(whole) ==
  /\ fpc = "filling"
  /\ io' = None /\ filePos' = 0
  /\ win' = IF StillNext /\ whole THEN [win EXCEPT !.filled = @ + 1] ELSE win
  /\ ioError' = (ioError \/ (StillNext /\ ~whole))
  /\ fpc' = "look" /\ fill' = NoFill
  /\ UNCHANGED <<cursor, want, readahead, interrupted, held, reader, stop>>
  /\ slots' = [s \in Slots |-> IF ~InUse(s)' THEN None
                              ELSE IF s = fill.slot /\ whole THEN ChunkOf(filePos)
                              ELSE slots[s]]

Stopped ==
  /\ fpc = "look" /\ stop
  /\ fpc' = "ended" /\ pc' = "closed"
  /\ UNCHANGED <<cursor, win, want, flags, memory, file, op, fill, stop>>

-----------------------------------------------------------------------------
\* Bound: the task that reads is about to be joined when it is interrupted, and
\* asks for nothing more until the flag is cleared.
Ask ==
  /\ ~interrupted
  /\ \/ \E n \in 1 .. MaxRead : Read(n)
     \/ \E n \in ViewLengths :
          View(n) \/ \E start \in 0 .. (Size - 1) : ViewAt(start, n)
     \/ \E on \in BOOLEAN : SetReadahead(on)
     \/ Close

Proceed ==
  \/ ReadRound \/ DirectBegin \/ DirectEnd
  \/ ViewRound \/ CopyChunk \/ CopyDone

FillStep == Choose \/ FillBegin \/ (\E whole \in BOOLEAN : FillEnd(whole)) \/ Stopped

NextStep ==
  \/ Ask \/ Proceed \/ FillStep
  \/ \E to \in 0 .. Size : Seek(to)
  \/ \E v \in ViewIds : Release(v)
  \/ \E on \in BOOLEAN : Interrupt(on)

Spec == Init /\ [][NextStep]_vars

-----------------------------------------------------------------------------
Positions == 0 .. Size
Ops == [start : Positions, end : Positions, advance : BOOLEAN,
        base : Nat, head : Slots]
ViewsOf == [start : Positions, end : Positions, on : SUBSET Slots] \cup {None}

TypeOK ==
  /\ cursor \in Positions
  /\ win \in [base : Nat, head : Slots, filled : 0 .. RingChunks]
  /\ want \in 0 .. RingChunks
  /\ readahead \in BOOLEAN /\ interrupted \in BOOLEAN /\ ioError \in BOOLEAN
  /\ pins \in [Slots -> Nat] /\ bouncePins \in {0, 1}
  /\ slots \in [Slots -> Held] /\ bounce \in Seq(Held)
  /\ views \in [ViewIds -> ViewsOf]
  /\ io \in {None, Reader, Filler} /\ filePos \in Positions
  /\ op \in Ops
  /\ pc \in {"idle", "read", "direct", "reading", "view", "copy", "join",
             "closed"}
  /\ fpc \in {"look", "fill", "filling", "ended"}
  /\ fill \in [chunk : Nat, slot : Slots] /\ stop \in BOOLEAN

\* The window is the file's: chunk by chunk, the ring holds what follows the
\* base, whatever was sought while a chunk was on its way.
WindowHolds ==
  \A k \in win.base .. (FilledEnd(win) - 1) : slots[SlotOf(win, k)] = k

\* A view shows the bytes of its range, in their order, as long as it lives.
ViewsHold ==
  \A v \in ViewIds : views[v] # None =>
    LET under == Under(views[v].start, views[v].end)
        first == ChunkOf(views[v].start)
    IN  IF views[v].on = {}
        THEN \A i \in 1 .. Cardinality(under) : bounce[i] = first + i - 1
        ELSE \E s \in Slots :
               /\ views[v].on = s .. (s + Cardinality(under) - 1)
               /\ \A k \in under : slots[s + k - first] = k

\* Whoever reads the file reads where it sought to.
FileHolds ==
  /\ io = Reader => filePos = op.start
  /\ io = Filler => filePos = fill.chunk * Chunk

\* No read and no view ever returns other bytes than the file's.
BytesRight == WindowHolds /\ ViewsHold /\ FileHolds

\* "A chunk is only written while it is outside the filled window and
\* unpinned", and pins are those of the views and of the copy under way: a pin
\* too many would stop read-ahead for good.
PinsHold ==
  /\ fpc \in {"fill", "filling"} =>
       /\ fill.slot \notin {SlotOf(win, k) : k \in win.base .. (FilledEnd(win) - 1)}
       /\ pins[fill.slot] = 0
  /\ \A s \in Slots :
       pins[s] = Cardinality({v \in ViewIds : views[v] # None /\ s \in views[v].on})
                 + (IF pc = "copy" /\ s \in SlotsUnder(Snapshot, op.start, op.end) THEN 1 ELSE 0)
  /\ bouncePins = Cardinality({v \in ViewIds : views[v] # None /\ views[v].on = {}})
                  + (IF pc = "copy" THEN 1 ELSE 0)

\* "Read-ahead parks on a pinned chunk and a view waits for read-ahead": that
\* is all there is to wait for.  Once the reader has asked for the chunks it
\* needs, the read-ahead task has one of them under way or has room and reason
\* to fetch the next, if the slot is not pinned, and a pin is a living view's.
WaiterFed ==
  LET w     == DropConsumed(win, cursor)
      needs == IF pc = "read" THEN Min({op.end, (ChunkOf(cursor) + 1) * Chunk}) ELSE op.end
  IN  pc \in {"read", "view"} /\ want # 0 /\ ~Hopeless /\ needs > FilledEnd(w) * Chunk
      => \/ fpc \in {"fill", "filling"}
         \/ /\ Behind(w)
            /\ pins[Next(w)] = 0 \/ \E v \in ViewIds : views[v] # None /\ Next(w) \in views[v].on
=============================================================================
