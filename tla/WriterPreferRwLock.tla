--------------------------- MODULE WriterPreferRwLock -------------------------
(***************************************************************************)
(* WriterPreferRwLock of sync/rwlock.rs.  Three separate counters: readers *)
(* announce themselves in `readers' and then look at `write_locked',       *)
(* writers take `write_locked' and then look at `readers', and either side *)
(* backs out when it finds the other.  `writer_waiting' holds off readers  *)
(* that have not announced themselves yet.  One atomic operation is one    *)
(* step; on the x86-64 target each announcement is a locked instruction,   *)
(* so the load after it is not reordered before it.                        *)
(***************************************************************************)
EXTENDS Integers, FiniteSets

CONSTANT Threads   \* a finite set

VARIABLES
  readers,         \* the three counters of the lock
  writer_waiting,
  write_locked,
  pc,              \* the operation each thread does next
  older            \* history: older[w] is who was in read() when w announced itself

vars == <<readers, writer_waiting, write_locked, pc, older>>

At(labels) == {t \in Threads : pc[t] \in labels}
Reading    == At({"reading"})
Writing    == At({"writing"})
Announced  == At({"r_check", "reading", "r_undo"})
InRead     == At({"r_waiting", "r_locked", "r_add"}) \cup Announced
Waiting    == At({"w_readers", "w_cas", "w_check", "w_leave", "w_undo"})

Init ==
  /\ readers = 0 /\ writer_waiting = 0 /\ write_locked = 0
  /\ pc = [t \in Threads |-> "idle"]
  /\ older = [t \in Threads |-> {}]

Goto(t, from, to) == pc[t] = from /\ pc' = [pc EXCEPT ![t] = to]
Branch(t, from, cond, yes, no) == Goto(t, from, IF cond THEN yes ELSE no)

Counters == <<readers, writer_waiting, write_locked>>

StartRead(t) ==
  /\ Goto(t, "idle", "r_waiting")
  /\ UNCHANGED <<Counters, older>>

\* read(): the two loads of the wait loop's condition, left to right.
ReadSeesNoWaiter(t) ==
  /\ writer_waiting = 0
  /\ Goto(t, "r_waiting", "r_locked")
  /\ UNCHANGED <<Counters, older>>

ReadSeesUnlocked(t) ==
  /\ Branch(t, "r_locked", write_locked = 0, "r_add", "r_waiting")
  /\ UNCHANGED <<Counters, older>>

ReadAnnounce(t) ==
  /\ Goto(t, "r_add", "r_check")
  /\ readers' = readers + 1
  /\ UNCHANGED <<writer_waiting, write_locked, older>>

\* Mutated form of ReadCheck: no second look at write_locked.
ReadUnchecked(t) ==
  /\ Goto(t, "r_check", "reading")
  /\ UNCHANGED <<Counters, older>>

\* read(): "Double-check no writer snuck in".
ReadCheck(t) ==
  /\ Branch(t, "r_check", write_locked = 0, "reading", "r_undo")
  /\ UNCHANGED <<Counters, older>>

ReadUndo(t) ==
  /\ Goto(t, "r_undo", "r_waiting")
  /\ readers' = readers - 1
  /\ UNCHANGED <<writer_waiting, write_locked, older>>

\* WriterPreferReadGuard::drop; the reader is no longer ahead of anyone.
DropRead(t) ==
  /\ Goto(t, "reading", "idle")
  /\ readers' = readers - 1
  /\ older' = [w \in Threads |-> older[w] \ {t}]
  /\ UNCHANGED <<writer_waiting, write_locked>>

\* Mutated form of WriteAnnounce: writers do not make themselves known.
WriteSilently(t) ==
  /\ Goto(t, "idle", "w_readers")
  /\ older' = [older EXCEPT ![t] = InRead]
  /\ UNCHANGED Counters

\* write(): "Signal we're waiting".
WriteAnnounce(t) ==
  /\ Goto(t, "idle", "w_readers")
  /\ writer_waiting' = writer_waiting + 1
  /\ older' = [older EXCEPT ![t] = InRead]
  /\ UNCHANGED <<readers, write_locked>>

WriteSeesNoReaders(t) ==
  /\ readers = 0
  /\ Goto(t, "w_readers", "w_cas")
  /\ UNCHANGED <<Counters, older>>

\* write(): compare_exchange(0, 1); a failure goes round the outer loop.
WriteCas(t) ==
  /\ Branch(t, "w_cas", write_locked = 0, "w_check", "w_readers")
  /\ write_locked' = 1
  /\ UNCHANGED <<readers, writer_waiting, older>>

\* write(): "Double-check no readers".
WriteCheck(t) ==
  /\ Branch(t, "w_check", readers = 0, "w_leave", "w_undo")
  /\ UNCHANGED <<Counters, older>>

WriteEnter(t) ==
  /\ Goto(t, "w_leave", "writing")
  /\ writer_waiting' = writer_waiting - 1
  /\ older' = [older EXCEPT ![t] = {}]
  /\ UNCHANGED <<readers, write_locked>>

\* Mutated form of WriteUndo: the lock word is left set.
WriteUndoNothing(t) ==
  /\ Goto(t, "w_undo", "w_readers")
  /\ UNCHANGED <<Counters, older>>

\* write(): "Readers snuck in, release and retry".
WriteUndo(t) ==
  /\ Goto(t, "w_undo", "w_readers")
  /\ write_locked' = 0
  /\ UNCHANGED <<readers, writer_waiting, older>>

\* WriterPreferWriteGuard::drop.
DropWrite(t) ==
  /\ Goto(t, "writing", "idle")
  /\ write_locked' = 0
  /\ UNCHANGED <<readers, writer_waiting, older>>

ReadStep(t) ==
  \/ ReadSeesNoWaiter(t) \/ ReadSeesUnlocked(t) \/ ReadAnnounce(t)
  \/ ReadCheck(t) \/ ReadUndo(t) \/ DropRead(t)

WriteStep(t) ==
  \/ WriteSeesNoReaders(t) \/ WriteCas(t) \/ WriteCheck(t)
  \/ WriteEnter(t) \/ WriteUndo(t) \/ DropWrite(t)

Next == \E t \in Threads :
  StartRead(t) \/ WriteAnnounce(t) \/ ReadStep(t) \/ WriteStep(t)

Spec == Init /\ [][Next]_vars

\* Threads inside the lock's code run, guards are dropped; nobody has to call.
Fairness == \A t \in Threads : WF_vars(ReadStep(t) \/ WriteStep(t))

FairSpec == Spec /\ Fairness

-----------------------------------------------------------------------------
Shared == INSTANCE SharedLock WITH reading <- Reading, writing <- Writing

\* Readers share, writers exclude, through every race of the two double checks.
ReadersShareWritersExclude == Shared!Spec

\* A reader that calls read() while a writer waits does not get in before it.
WritersArePreferred == \A w \in Waiting : Reading \subseteq older[w]

\* The double checks cannot keep everybody out for ever: while a writer waits,
\* some writer gets the lock.
SomeWriterEnters == Waiting # {} ~> Writing # {}
===============================================================================
