------------------------------- MODULE Notify --------------------------------
(***************************************************************************)
(* A thread's notification (src/libs/idf/src/thread.rs), on which it waits *)
(* for the executor and for locks: a word with a bit for each kind of      *)
(* waiter and, beside it, a flag that something came.  FreeRTOS waits for  *)
(* the flag; wait_notify makes that a wait for one bit.  The calls below   *)
(* it are those of src/idf_compat/src/freertos_task.c, which are one step  *)
(* each under its mutex.  No wait lasts as long as the tick count does.     *)
(***************************************************************************)
EXTENDS Integers

CONSTANTS
  Lengths,   \* of timed waits, in ticks
  Forever,   \* MAX_DELAY
  None

Kinds == {"executor", "lock"}
NotifyAssumption == Lengths \subseteq Nat /\ Forever \notin Int /\ None \notin Kinds
ASSUME NotifyAssumption

VARIABLES
  value,     \* ntf_value: the bits that are set
  pending,   \* ntf_pending
  wait       \* the thread in wait_notify: its place, bit and ticks, the ticks
             \* that passed since it came, and how long it is to sleep

notifyVars == <<value, pending, wait>>

Elsewhere == [at |-> "elsewhere", bit |-> None, ticks |-> 0, passed |-> 0, left |-> 0]

NotifyInit == value = {} /\ pending = FALSE /\ wait = Elsewhere

\* xTaskGenericNotify with eSetBits.
Notify(bit) == value' = value \cup {bit} /\ pending' = TRUE /\ UNCHANGED wait

WaitNotify(bit, ticks) ==
  /\ wait' = [at |-> "clear", bit |-> bit, ticks |-> ticks, passed |-> 0, left |-> 0]
  /\ UNCHANGED <<value, pending>>

\* ulTaskGenericNotifyValueClear, which leaves the flag.  Slip: every bit is
\* taken.
ClearBits(bits) ==
  /\ wait.at = "clear"
  /\ value' = value \ bits
  /\ wait' = IF wait.bit \in value THEN Elsewhere
             ELSE IF wait.ticks = Forever THEN [wait EXCEPT !.at = "rest", !.left = Forever]
             ELSE [wait EXCEPT !.at = "look"]
  /\ UNCHANGED pending
ClearAll == ClearBits(Kinds)
Clear == ClearBits({wait.bit})

\* The clock: all ticks have passed, or the others are left to wait.  Slip: a
\* tick is added to those, as thread::ticks has done before.
LookFor(extra) ==
  /\ wait.at = "look"
  /\ wait' = IF wait.passed >= wait.ticks THEN Elsewhere
             ELSE [wait EXCEPT !.at = "rest", !.left = wait.ticks - wait.passed + extra]
  /\ UNCHANGED <<value, pending>>
LookLonger == LookFor(1)
Look == LookFor(0)

\* xTaskGenericNotifyWait sleeps unless the flag is up already, and takes it.
Rest ==
  /\ wait.at = "rest"
  /\ wait' = [wait EXCEPT !.at = IF pending THEN "clear" ELSE "asleep"]
  /\ pending' = FALSE
  /\ UNCHANGED value

Wakes ==
  /\ wait.at = "asleep" /\ (pending \/ wait.left = 0)
  /\ wait' = [wait EXCEPT !.at = "clear"]
  /\ pending' = FALSE
  /\ UNCHANGED value

WaitStep == Clear \/ Look \/ Rest \/ Wakes

\* Time passes, for a timed wait.  Once its ticks are over it counts no further.
Counted(ticks) == IF ticks < wait.ticks THEN ticks + 1 ELSE ticks
Tick ==
  /\ wait.at # "elsewhere" /\ wait.ticks # Forever
  /\ wait' = [wait EXCEPT !.passed = Counted(@),
                          !.left = IF wait.at = "asleep" /\ @ > 0 THEN @ - 1 ELSE @]
  /\ UNCHANGED <<value, pending>>

-----------------------------------------------------------------------------
Places == {"elsewhere", "clear", "look", "rest", "asleep"}
NotifyTypeOK ==
  /\ value \subseteq Kinds /\ pending \in BOOLEAN
  /\ wait \in [at : Places, bit : Kinds \cup {None}, ticks : Lengths \cup {0, Forever},
              passed : Nat, left : Nat \cup {Forever}]
  /\ wait.at = "elsewhere" <=> wait.bit = None
  /\ wait.ticks # Forever =>
       wait.passed <= wait.ticks /\ wait.left \in Nat /\ wait.left <= wait.ticks

\* Each bit is a token of its kind.
Remaining == IF wait.ticks = Forever THEN Forever ELSE wait.ticks - wait.passed
Tokens == INSTANCE TokenSpec WITH tokens <- value, waiting <- wait.bit, left <- Remaining

\* A wait whose token came, or whose time is over, ends, whatever comes of the
\* other kind meanwhile: there is no wait but one for ever, without its token.
WaitsEnd ==
  []<>(wait.bit = None \/ (wait.ticks = Forever /\ wait.bit \notin value))
=============================================================================
