--------------------------------- MODULE RwLock -------------------------------
(***************************************************************************)
(* RwLock of sync/rwlock.rs.  One AtomicU32 holds the number of readers,   *)
(* or the bit WRITER.  read() and try_read() load the word and then        *)
(* compare-and-exchange it, so that the loaded value may be stale; write() *)
(* and try_write() exchange 0 for WRITER.  The wait queues of sync/mod.rs  *)
(* are placeholders (wait() pauses, wake_*() do nothing): every blocking   *)
(* call is a spin loop, whose unsuccessful iterations are stuttering here. *)
(***************************************************************************)
EXTENDS Integers, FiniteSets

CONSTANTS
  Threads,
  WRITER      \* the writer bit, 0x80000000 in the code

ASSUME WriterAssumption == WRITER \in Nat /\ WRITER > 1

MAX_READERS == WRITER - 1

VARIABLES
  state,    \* RwLock.state
  pc,       \* where each thread is
  seen      \* the local variable `state' of read() and try_read()

vars == <<state, pc, seen>>

Readers == {t \in Threads : pc[t] = "reading"}
Writers == {t \in Threads : pc[t] = "writing"}

Init ==
  /\ state = 0
  /\ pc = [t \in Threads |-> "idle"]
  /\ seen = [t \in Threads |-> 0]

Goto(t, from, to) == pc[t] = from /\ pc' = [pc EXCEPT ![t] = to]

\* No writer, and the reader count is below its limit.
HasRoom(n) == n < MAX_READERS

\* read(): load the word; when there is no room, wait and load again.
LoadForRead(t) ==
  /\ HasRoom(state)
  /\ Goto(t, "idle", "read_cas")
  /\ seen' = [seen EXCEPT ![t] = state]
  /\ UNCHANGED state

\* try_read(): load the word; without room the call returns None.
LoadForTryRead(t) ==
  /\ HasRoom(state)
  /\ Goto(t, "idle", "try_cas")
  /\ seen' = [seen EXCEPT ![t] = state]
  /\ UNCHANGED state

\* Mutated form of CasRead: the count is stored without comparing.
StoreRead(t) ==
  /\ pc[t] \in {"read_cas", "try_cas"}
  /\ state' = seen[t] + 1
  /\ pc' = [pc EXCEPT ![t] = "reading"]
  /\ UNCHANGED seen

\* read() and try_read(): compare_exchange of the loaded count with the next.
CasRead(t) ==
  /\ pc[t] \in {"read_cas", "try_cas"}
  /\ state = seen[t]
  /\ state' = seen[t] + 1
  /\ pc' = [pc EXCEPT ![t] = "reading"]
  /\ UNCHANGED seen

\* read(): the word has changed meanwhile; start over.
CasReadFails(t) ==
  /\ state # seen[t]
  /\ Goto(t, "read_cas", "idle")
  /\ UNCHANGED <<state, seen>>

\* try_read(): the word has changed; go on with its new value or give up.
CasTryReadFails(t) ==
  /\ state # seen[t]
  /\ \/ /\ HasRoom(state)
        /\ Goto(t, "try_cas", "try_cas")
        /\ seen' = [seen EXCEPT ![t] = state]
     \/ /\ ~HasRoom(state)
        /\ Goto(t, "try_cas", "idle")
        /\ UNCHANGED seen
  /\ UNCHANGED state

\* write() and try_write(): compare_exchange(0, WRITER).
CasWrite(t) ==
  /\ state = 0
  /\ Goto(t, "idle", "writing")
  /\ state' = WRITER
  /\ UNCHANGED seen

read_unlock(t) ==
  /\ Goto(t, "reading", "idle")
  /\ state' = state - 1
  /\ UNCHANGED seen

write_unlock(t) ==
  /\ Goto(t, "writing", "idle")
  /\ state' = 0
  /\ UNCHANGED seen

Next == \E t \in Threads :
  \/ LoadForRead(t) \/ LoadForTryRead(t)
  \/ CasRead(t) \/ CasReadFails(t) \/ CasTryReadFails(t)
  \/ CasWrite(t)
  \/ read_unlock(t) \/ write_unlock(t)

Spec == Init /\ [][Next]_vars

-----------------------------------------------------------------------------
TypeOK ==
  /\ state \in 0 .. WRITER
  /\ pc \in [Threads -> {"idle", "read_cas", "try_cas", "reading", "writing"}]
  /\ seen \in [Threads -> 0 .. MAX_READERS - 1]

(***************************************************************************)
(* The word says who is inside: WRITER exactly while a writer is, and      *)
(* otherwise the number of readers, which stays below the writer bit.      *)
(***************************************************************************)
WordCountsGuards ==
  /\ Writers # {} => state = WRITER /\ Readers = {} /\ Cardinality(Writers) = 1
  /\ Writers = {} => state = Cardinality(Readers) /\ state < WRITER

Shared == INSTANCE SharedLock WITH reading <- Readers, writing <- Writers

\* Readers share, writers exclude.
ReadersShareWritersExclude == Shared!Spec
===============================================================================
