------------------------------- MODULE MpmcRing -------------------------------
(***************************************************************************)
(* MpmcRingBuffer of logging/ringbuf.rs: threads push and pop without a    *)
(* lock.  A position of head or tail names a cell, and the cell's sequence *)
(* number says whose turn at the cell it is.  One atomic operation, or one *)
(* access to the contents of a cell, is one step.                          *)
(*                                                                         *)
(* Fixed: a capacity of at least two.  With one cell the number that a     *)
(* push leaves at position p, p + 1, is also the number that invites the   *)
(* push at position p + 1, and an item is overwritten.  The positions are  *)
(* 64 bits wide and do not wrap here.  The names are chosen to be composed *)
(* with other modules by EXTENDS.                                          *)
(***************************************************************************)
EXTENDS Naturals, Sequences

CONSTANTS
  RingThreads,
  Items,
  Empty,         \* the None of a cell; no item at a thread
  Capacity,
  MaxPushes      \* bound: no push begins at or above this position

ASSUME RingAssumption ==
  /\ Capacity \in Nat /\ Capacity >= 2
  /\ Empty \notin Items

VARIABLES
  head, tail,          \* MpmcRingBuffer.head, .tail
  sequence, contents,  \* AtomicCell.sequence, .data
  ringPc,              \* the operation each thread does next
  pos,                 \* the local head of push(), tail of pop()
  item                 \* the argument of push(), the item pop() took out

ringVars == <<head, tail, sequence, contents, ringPc, pos, item>>

Cell(p) == p % Capacity
Cells == 0 .. Capacity - 1

RingInit ==
  /\ head = 0 /\ tail = 0
  /\ sequence = [c \in Cells |-> c]
  /\ contents = [c \in Cells |-> Empty]
  /\ ringPc = [t \in RingThreads |-> "idle"]
  /\ pos = [t \in RingThreads |-> 0]
  /\ item = [t \in RingThreads |-> Empty]

RingGoto(t, from, to) == ringPc[t] \in from /\ ringPc' = [ringPc EXCEPT ![t] = to]

\* The call goes on to its next operation, or ends and its locals with it.
GoOn(t, from, to) == RingGoto(t, {from}, to) /\ UNCHANGED <<pos, item>>

RingReturn(t, from) ==
  /\ RingGoto(t, {from}, "idle")
  /\ pos' = [pos EXCEPT ![t] = 0]
  /\ item' = [item EXCEPT ![t] = Empty]

-----------------------------------------------------------------------------
\* push()
BeginPush(t, i) ==
  /\ head < MaxPushes
  /\ RingGoto(t, {"idle"}, "push_load")
  /\ item' = [item EXCEPT ![t] = i]
  /\ UNCHANGED <<head, tail, sequence, contents, pos>>

LoadHead(t) ==
  /\ RingGoto(t, {"push_load"}, "push_check")
  /\ pos' = [pos EXCEPT ![t] = head]
  /\ UNCHANGED <<head, tail, sequence, contents, item>>

\* Mutated form of CheckPush: a cell of an earlier turn is taken for a free one.
CheckPushLax(t) ==
  /\ LET s == sequence[Cell(pos[t])] IN
       \/ s <= pos[t] /\ GoOn(t, "push_check", "push_claim")
       \/ s > pos[t] /\ GoOn(t, "push_check", "push_load")
  /\ UNCHANGED <<head, tail, sequence, contents>>

\* The cell is free for this position; or it still belongs to an earlier turn
\* and push() returns Err; or the head has moved on and push() tries again.
CheckPush(t) ==
  /\ LET s == sequence[Cell(pos[t])] IN
       \/ s = pos[t] /\ GoOn(t, "push_check", "push_claim")
       \/ s < pos[t] /\ RingReturn(t, "push_check")
       \/ s > pos[t] /\ GoOn(t, "push_check", "push_load")
  /\ UNCHANGED <<head, tail, sequence, contents>>

ClaimPush(t) ==
  /\ head = pos[t]
  /\ GoOn(t, "push_claim", "push_write")
  /\ head' = pos[t] + 1
  /\ UNCHANGED <<tail, sequence, contents>>

WriteData(t) ==
  /\ GoOn(t, "push_write", "push_publish")
  /\ contents' = [contents EXCEPT ![Cell(pos[t])] = item[t]]
  /\ UNCHANGED <<head, tail, sequence>>

Publish(t) ==
  /\ RingReturn(t, "push_publish")
  /\ sequence' = [sequence EXCEPT ![Cell(pos[t])] = pos[t] + 1]
  /\ UNCHANGED <<head, tail, contents>>

-----------------------------------------------------------------------------
\* pop()
LoadTail(t) ==
  /\ RingGoto(t, {"idle", "pop_load"}, "pop_check")
  /\ pos' = [pos EXCEPT ![t] = tail]
  /\ UNCHANGED <<head, tail, sequence, contents, item>>

\* The cell is published for this position; or it is not, and pop() returns
\* None; or the tail has moved on and pop() tries again.
CheckPop(t) ==
  /\ LET s == sequence[Cell(pos[t])] IN
       \/ s = pos[t] + 1 /\ GoOn(t, "pop_check", "pop_claim")
       \/ s = pos[t] /\ RingReturn(t, "pop_check")
       \/ s \notin {pos[t], pos[t] + 1} /\ GoOn(t, "pop_check", "pop_load")
  /\ UNCHANGED <<head, tail, sequence, contents>>

\* Mutated form of ClaimPop: the tail is moved whatever it is by now.
ClaimPopTwice(t) ==
  /\ GoOn(t, "pop_claim", "pop_take")
  /\ tail' = pos[t] + 1
  /\ UNCHANGED <<head, sequence, contents>>

ClaimPop(t) ==
  /\ tail = pos[t]
  /\ GoOn(t, "pop_claim", "pop_take")
  /\ tail' = pos[t] + 1
  /\ UNCHANGED <<head, sequence, contents>>

TakeData(t) ==
  /\ RingGoto(t, {"pop_take"}, "pop_release")
  /\ item' = [item EXCEPT ![t] = contents[Cell(pos[t])]]
  /\ contents' = [contents EXCEPT ![Cell(pos[t])] = Empty]
  /\ UNCHANGED <<head, tail, sequence, pos>>

ReleaseCell(t) ==
  /\ RingReturn(t, "pop_release")
  /\ sequence' = [sequence EXCEPT ![Cell(pos[t])] = pos[t] + Capacity]
  /\ UNCHANGED <<head, tail, contents>>

\* compare_exchange_weak fails because the word has changed, or spuriously.
ClaimFails(t) ==
  /\ \/ GoOn(t, "push_claim", "push_load")
     \/ GoOn(t, "pop_claim", "pop_load")
  /\ UNCHANGED <<head, tail, sequence, contents>>

RingStep(t) ==
  \/ \E i \in Items : BeginPush(t, i)
  \/ LoadHead(t) \/ CheckPush(t) \/ ClaimPush(t) \/ WriteData(t) \/ Publish(t)
  \/ LoadTail(t) \/ CheckPop(t) \/ ClaimPop(t) \/ TakeData(t) \/ ReleaseCell(t)
  \/ ClaimFails(t)

RingNext == \E t \in RingThreads : RingStep(t)

RingSpec == RingInit /\ [][RingNext]_ringVars

-----------------------------------------------------------------------------
Pushing == {"push_write", "push_publish"}
Popping == {"pop_take", "pop_release"}
RingPcs == {"idle", "push_load", "push_check", "push_claim",
            "pop_load", "pop_check", "pop_claim"} \cup Pushing \cup Popping

RingTypeOK ==
  /\ head \in Nat /\ tail \in Nat
  /\ sequence \in [Cells -> Nat]
  /\ contents \in [Cells -> Items \cup {Empty}]
  /\ ringPc \in [RingThreads -> RingPcs]
  /\ pos \in [RingThreads -> Nat]
  /\ item \in [RingThreads -> Items \cup {Empty}]

\* No two threads access the contents of one cell at the same time: what the
\* unsafe blocks of push() and pop(), and the claim that AtomicCell is Sync,
\* rely on.
CellsHaveOneOwner ==
  \A t, u \in RingThreads :
    /\ t # u
    /\ ringPc[t] \in Pushing \cup Popping /\ ringPc[u] \in Pushing \cup Popping
    => Cell(pos[t]) # Cell(pos[u])

\* The item at a position between tail and head: in the cell, or still in the
\* hands of the thread that claimed the position.
ItemAt(p) ==
  IF \E t \in RingThreads : ringPc[t] = "push_write" /\ pos[t] = p
    THEN item[CHOOSE t \in RingThreads : ringPc[t] = "push_write" /\ pos[t] = p]
    ELSE contents[Cell(p)]

Queue == INSTANCE BoundedQueue WITH
  Threads <- RingThreads,
  inside  <- [i \in 1 .. head - tail |-> ItemAt(tail + i - 1)],
  taken   <- [t \in RingThreads |->
                CASE ringPc[t] = "pop_take"    -> contents[Cell(pos[t])]
                  [] ringPc[t] = "pop_release" -> item[t]
                  [] OTHER                     -> Empty]

\* Whatever races there are for the head, the tail and the cells, an item put in
\* is taken out once, in order, and no more than the capacity are inside: push()
\* and pop() take effect when their compare_exchange succeeds.
ImplementsBoundedQueue == Queue!QueueSpec

===============================================================================
