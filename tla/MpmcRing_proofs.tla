---------------------------- MODULE MpmcRing_proofs ---------------------------
(***************************************************************************)
(* Theorems about MpmcRing, for any threads, items and capacity of at      *)
(* least two: types, that no cell is in two hands, and that the ring       *)
(* implements BoundedQueue.                                                *)
(***************************************************************************)
EXTENDS MpmcRing, SequenceTheorems, TLAPS

\* What going on to the next operation, or returning, changes.
LEMMA Moves ==
  ASSUME RingTypeOK, NEW t \in RingThreads, NEW from, NEW to \in RingPcs,
         GoOn(t, from, to) \/ (to = "idle" /\ RingReturn(t, from))
  PROVE  /\ ringPc[t] = from /\ ringPc'[t] = to
         /\ ringPc' \in [RingThreads -> RingPcs]
         /\ pos' \in [RingThreads -> Nat]
         /\ item' \in [RingThreads -> Items \cup {Empty}]
         /\ \A u \in RingThreads \ {t} :
              ringPc'[u] = ringPc[u] /\ pos'[u] = pos[u] /\ item'[u] = item[u]
<1>1. CASE GoOn(t, from, to)
  BY <1>1 DEF GoOn, RingGoto, RingTypeOK
<1>2. CASE to = "idle" /\ RingReturn(t, from)
  BY <1>2 DEF RingReturn, RingGoto, RingTypeOK
<1>3. QED
  BY <1>1, <1>2

\* A number stored in a cell.
LEMMA SequenceMoves ==
  ASSUME RingTypeOK, NEW c, NEW n \in Nat
  PROVE  [sequence EXCEPT ![c] = n] \in [Cells -> Nat]
  BY DEF RingTypeOK

\* The positions, the cells and the locals keep their types.
THEOREM RingTypeCorrect == RingSpec => []RingTypeOK
<1> USE RingAssumption DEF RingTypeOK, Cells, Pushing, Popping, RingPcs
<1>1. RingInit => RingTypeOK
  BY DEF RingInit
<1>2. ASSUME RingTypeOK, [RingNext]_ringVars
      PROVE  RingTypeOK'
  <2>1. ASSUME NEW t \in RingThreads, NEW i \in Items, BeginPush(t, i)
        PROVE  RingTypeOK'
    BY <1>2, <2>1 DEF BeginPush, RingGoto
  <2>2. ASSUME NEW t \in RingThreads, LoadHead(t) \/ LoadTail(t)
        PROVE  RingTypeOK'
    BY <1>2, <2>2 DEF LoadHead, LoadTail, RingGoto
  <2>3. ASSUME NEW t \in RingThreads, CheckPush(t) \/ CheckPop(t) \/ ClaimFails(t)
        PROVE  RingTypeOK'
    <3>1. \E from, to \in RingPcs :
            GoOn(t, from, to) \/ (to = "idle" /\ RingReturn(t, from))
      BY <2>3, Zenon DEF CheckPush, CheckPop, ClaimFails, RingPcs, Pushing
    <3>2. UNCHANGED <<head, tail, sequence, contents>>
      BY <2>3 DEF CheckPush, CheckPop, ClaimFails
    <3>3. QED
      BY <1>2, <3>1, <3>2, Moves
  <2>4. ASSUME NEW t \in RingThreads, ClaimPush(t)
        PROVE  RingTypeOK'
    BY <1>2, <2>4 DEF ClaimPush, GoOn, RingGoto, RingPcs
  <2>5. ASSUME NEW t \in RingThreads, ClaimPop(t)
        PROVE  RingTypeOK'
    BY <1>2, <2>5 DEF ClaimPop, GoOn, RingGoto, RingPcs
  <2>6. ASSUME NEW t \in RingThreads, WriteData(t) \/ TakeData(t)
        PROVE  RingTypeOK'
    <3>1. Cell(pos[t]) \in Cells
      BY <1>2 DEF Cell
    <3>2. QED
      BY <1>2, <2>6, <3>1 DEF WriteData, TakeData, GoOn, RingGoto
  <2>7. ASSUME NEW t \in RingThreads, Publish(t)
        PROVE  RingTypeOK'
    <3>1. sequence' = [sequence EXCEPT ![Cell(pos[t])] = pos[t] + 1] /\ pos[t] + 1 \in Nat
      BY <1>2, <2>7 DEF Publish
    <3>2. sequence' \in [Cells -> Nat]
      BY <1>2, <3>1, SequenceMoves
    <3>3. QED
      BY <1>2, <2>7, <3>2, Moves DEF Publish
  <2>8. ASSUME NEW t \in RingThreads, ReleaseCell(t)
        PROVE  RingTypeOK'
    <3>1. /\ sequence' = [sequence EXCEPT ![Cell(pos[t])] = pos[t] + Capacity]
          /\ pos[t] + Capacity \in Nat
      BY <1>2, <2>8 DEF ReleaseCell
    <3>2. sequence' \in [Cells -> Nat]
      BY <1>2, <3>1, SequenceMoves
    <3>3. QED
      BY <1>2, <2>8, <3>2, Moves DEF ReleaseCell
  <2>9. CASE UNCHANGED ringVars
    BY <1>2, <2>9 DEF ringVars
  <2>10. QED
    BY <1>2, <2>1, <2>2, <2>3, <2>4, <2>5, <2>6, <2>7, <2>8, <2>9 DEF RingNext, RingStep
<1>3. QED
  BY <1>1, <1>2, PTL DEF RingSpec

-----------------------------------------------------------------------------
\* A position is a turn and a cell of the ring.
LEMMA TurnAndCell ==
  ASSUME NEW p \in Nat
  PROVE  /\ p = Capacity * (p \div Capacity) + Cell(p)
         /\ p \div Capacity \in Nat
         /\ Cell(p) \in Cells
  BY RingAssumption DEF Cell, Cells

\* The cell of a position that is written as turns and a remainder.
LEMMA CellOfTurn ==
  ASSUME NEW a \in Nat, NEW c \in Cells
  PROVE  Cell(Capacity * a + c) = c
  BY RingAssumption DEF Cell, Cells

\* Two positions less than a capacity apart have different cells.
LEMMA CellsDiffer ==
  ASSUME NEW p \in Nat, NEW q \in Nat, p < q, q < p + Capacity
  PROVE  Cell(p) # Cell(q)
<1> USE RingAssumption
<1> SUFFICES ASSUME Cell(p) = Cell(q)
             PROVE  FALSE
  OBVIOUS
<1> DEFINE a == p \div Capacity  b == q \div Capacity  c == Cell(p)
<1>1. /\ p = Capacity * a + c /\ q = Capacity * b + c
      /\ a \in Nat /\ b \in Nat /\ c \in Cells
  BY TurnAndCell
<1> HIDE DEF a, b, c
<1>2. Capacity * a \in Nat /\ Capacity * b \in Nat /\ c \in Nat
  BY <1>1 DEF Cells
<1>3. Capacity * b - Capacity * a < Capacity /\ Capacity * b - Capacity * a > 0
  BY <1>1, <1>2
<1>4. Capacity * b - Capacity * a = Capacity * (b - a)
  BY <1>1
<1>5. CASE b - a <= 0
  BY <1>1, <1>3, <1>4, <1>5
<1>6. CASE b - a >= 1
  BY <1>1, <1>3, <1>4, <1>6
<1>7. QED
  BY <1>1, <1>5, <1>6

\* A position and the one a capacity further have the same cell.
LEMMA CellRecurs ==
  ASSUME NEW p \in Nat
  PROVE  Cell(p + Capacity) = Cell(p)
<1>1. PICK a \in Nat, c \in Cells : p = Capacity * a + c /\ c = Cell(p)
  BY TurnAndCell
<1>2. p + Capacity = Capacity * (a + 1) + c /\ a + 1 \in Nat
  BY <1>1, RingAssumption DEF Cells
<1>3. QED
  BY <1>1, <1>2, CellOfTurn

-----------------------------------------------------------------------------
Owning == Pushing \cup Popping
Number(p) == sequence[Cell(p)]

\* Head and tail are at most a capacity apart.
Window == tail <= head /\ head <= tail + Capacity

\* A position between them is published, or a thread is about to publish it.
Occupied ==
  \A p \in tail .. head - 1 :
    \/ Number(p) = p + 1
    \/ Number(p) = p /\ \E t \in RingThreads : ringPc[t] \in Pushing /\ pos[t] = p

\* A position behind the head is released, or a thread is about to release it.
Free ==
  \A p \in head .. tail + Capacity - 1 :
    \/ Number(p) = p
    \/ /\ Number(p) + Capacity = p + 1
       /\ \E t \in RingThreads : ringPc[t] \in Popping /\ pos[t] + Capacity = p

\* Where the positions are that threads have claimed.
Owners ==
  \A t \in RingThreads :
    /\ ringPc[t] \in Owning => pos[t] < head /\ head <= pos[t] + Capacity
    /\ ringPc[t] \in Pushing => tail <= pos[t] /\ Number(pos[t]) = pos[t]
    /\ ringPc[t] \in Popping => pos[t] < tail /\ Number(pos[t]) = pos[t] + 1

Distinct ==
  \A t, u \in RingThreads :
    t # u /\ ringPc[t] \in Owning /\ ringPc[u] \in Owning => pos[t] # pos[u]

\* What a thread has seen is still so when its compare_exchange succeeds.
Seen ==
  \A t \in RingThreads :
    /\ ringPc[t] \in {"push_check", "push_claim"} => pos[t] <= head
    /\ ringPc[t] \in {"pop_check", "pop_claim"} => pos[t] <= tail
    /\ ringPc[t] = "push_claim" /\ pos[t] = head => Number(pos[t]) = pos[t]
    /\ ringPc[t] = "pop_claim" /\ pos[t] = tail => Number(pos[t]) = pos[t] + 1

RingInv == Window /\ Occupied /\ Free /\ Owners /\ Distinct /\ Seen

\* Different positions less than a capacity apart, in either order.
LEMMA NearCellsDiffer ==
  ASSUME NEW p \in Nat, NEW q \in Nat, p # q, p < q + Capacity, q < p + Capacity
  PROVE  Cell(p) # Cell(q)
  BY CellsDiffer

\* Two owners are at different cells.
LEMMA OwnersAreApart ==
  ASSUME RingTypeOK, Owners, Distinct, NEW t \in RingThreads, NEW u \in RingThreads,
         t # u, ringPc[t] \in Owning, ringPc[u] \in Owning
  PROVE  Cell(pos[t]) # Cell(pos[u])
<1>1. /\ pos[t] \in Nat /\ pos[u] \in Nat /\ pos[t] # pos[u]
      /\ pos[t] < pos[u] + Capacity /\ pos[u] < pos[t] + Capacity
  BY RingAssumption DEF RingTypeOK, Owners, Distinct
<1>2. QED
  BY <1>1, NearCellsDiffer

\* A number stored at a position is seen a capacity further on, too, and not at
\* the positions near it.
LEMMA NumberChanges ==
  ASSUME RingTypeOK, NEW q \in Nat, NEW n \in Nat,
         sequence' = [sequence EXCEPT ![Cell(q)] = n]
  PROVE  /\ sequence'[Cell(q)] = n /\ sequence'[Cell(q + Capacity)] = n
         /\ \A p \in Nat : p # q /\ p < q + Capacity /\ q < p + Capacity
                          => sequence'[Cell(p)] = Number(p)
<1>1. Cell(q) \in Cells /\ Cell(q + Capacity) = Cell(q)
  BY TurnAndCell, CellRecurs
<1>2. sequence'[Cell(q)] = n
  BY <1>1 DEF RingTypeOK
<1>3. ASSUME NEW p \in Nat, p # q, p < q + Capacity, q < p + Capacity
      PROVE  sequence'[Cell(p)] = Number(p)
  <2>1. Cell(p) # Cell(q) /\ Cell(p) \in Cells
    BY <1>3, NearCellsDiffer, TurnAndCell
  <2>2. QED
    BY <2>1 DEF RingTypeOK, Number
<1>4. QED
  BY <1>1, <1>2, <1>3

\* A sequence number is a number.
LEMMA NumberIsNat ==
  ASSUME RingTypeOK, NEW p \in Nat
  PROVE  Number(p) \in Nat
  BY TurnAndCell DEF RingTypeOK, Number

\* A thread that neither owns a cell nor comes to own one disturbs nothing.
LEMMA LocalStepKeeps ==
  ASSUME RingTypeOK, RingInv, UNCHANGED <<head, tail, sequence>>,
         NEW t \in RingThreads, ringPc[t] \notin Owning, ringPc'[t] \notin Owning,
         \A u \in RingThreads \ {t} : ringPc'[u] = ringPc[u] /\ pos'[u] = pos[u]
  PROVE  /\ Window' /\ Occupied' /\ Free' /\ Owners' /\ Distinct'
<1>1. Window'
  BY DEF RingInv, Window
<1>2. Occupied'
  <2> SUFFICES ASSUME NEW p \in tail .. head - 1
               PROVE  \/ Number(p)' = p + 1
                      \/ /\ Number(p)' = p
                         /\ \E u \in RingThreads : ringPc'[u] \in Pushing /\ pos'[u] = p
    BY DEF Occupied
  <2>1. Number(p)' = Number(p)
    BY DEF Number
  <2>2. QED
    BY <2>1 DEF RingInv, Occupied, Owning
<1>3. Free'
  <2> SUFFICES ASSUME NEW p \in head .. tail + Capacity - 1
               PROVE  \/ Number(p)' = p
                      \/ /\ Number(p)' + Capacity = p + 1
                         /\ \E u \in RingThreads : ringPc'[u] \in Popping /\ pos'[u] + Capacity = p
    BY DEF Free
  <2>1. Number(p)' = Number(p)
    BY DEF Number
  <2>2. QED
    BY <2>1 DEF RingInv, Free, Owning
<1>4. Owners'
  BY DEF RingInv, Owners, Number, Owning
<1>5. Distinct'
  BY DEF RingInv, Distinct
<1>6. QED
  BY <1>1, <1>2, <1>3, <1>4, <1>5

\* push() and pop(): where every cell's sequence number stands and whose it is, in every
\* race of the loads, the exchanges and the stores.
THEOREM RingInvHolds == RingSpec => []RingInv
<1> USE RingAssumption
<1>1. RingInit => RingInv
  <2> SUFFICES ASSUME RingInit PROVE RingInv
    OBVIOUS
  <2>1. \A t \in RingThreads : ringPc[t] = "idle"
    BY DEF RingInit
  <2>2. \A p \in Cells : Number(p) = p
    <3> SUFFICES ASSUME NEW p \in Cells PROVE Number(p) = p
      OBVIOUS
    <3>1. Capacity * 0 + p = p /\ 0 \in Nat
      BY DEF Cells
    <3>2. Cell(p) = p
      BY <3>1, CellOfTurn
    <3>3. QED
      BY <3>2 DEF RingInit, Number
  <2>3. Window /\ Occupied /\ Free
    BY <2>2 DEF RingInit, Window, Occupied, Free, Cells
  <2>4. Owners /\ Distinct /\ Seen
    BY <2>1 DEF Owners, Distinct, Seen, Owning, Pushing, Popping
  <2>5. QED
    BY <2>3, <2>4 DEF RingInv
<1>2. ASSUME RingTypeOK, RingTypeOK', RingInv, [RingNext]_ringVars
      PROVE  RingInv'
  <2>1. ASSUME NEW t \in RingThreads, NEW i \in Items, BeginPush(t, i)
        PROVE  RingInv'
    <3>1. /\ ringPc[t] = "idle" /\ ringPc'[t] = "push_load" /\ pos' = pos
          /\ UNCHANGED <<head, tail, sequence>>
          /\ \A u \in RingThreads \ {t} : ringPc'[u] = ringPc[u]
      BY <1>2, <2>1 DEF BeginPush, RingGoto, RingTypeOK
    <3>2. Seen'
      BY <1>2, <3>1 DEF RingInv, Seen, Number
    <3>3. QED
      BY <1>2, <3>1, <3>2, LocalStepKeeps DEF RingInv, Owning, Pushing, Popping
  <2>2. ASSUME NEW t \in RingThreads, LoadHead(t) \/ LoadTail(t)
        PROVE  RingInv'
    <3>1. /\ \/ ringPc[t] = "push_load" /\ ringPc'[t] = "push_check" /\ pos'[t] = head
             \/ ringPc[t] \in {"idle", "pop_load"} /\ ringPc'[t] = "pop_check" /\ pos'[t] = tail
          /\ UNCHANGED <<head, tail, sequence>>
          /\ \A u \in RingThreads \ {t} : ringPc'[u] = ringPc[u] /\ pos'[u] = pos[u]
      BY <1>2, <2>2 DEF LoadHead, LoadTail, RingGoto, RingTypeOK
    <3>2. Seen'
      BY <1>2, <3>1 DEF RingInv, Seen, Number, RingTypeOK
    <3>3. QED
      BY <1>2, <3>1, <3>2, LocalStepKeeps DEF RingInv, Owning, Pushing, Popping
  <2>3. ASSUME NEW t \in RingThreads, CheckPush(t) \/ CheckPop(t) \/ ClaimFails(t)
        PROVE  RingInv'
    <3>1. UNCHANGED <<head, tail, sequence>>
      BY <2>3 DEF CheckPush, CheckPop, ClaimFails
    <3>2. \/ GoOn(t, "push_check", "push_claim") /\ Number(pos[t]) = pos[t]
          \/ GoOn(t, "pop_check", "pop_claim") /\ Number(pos[t]) = pos[t] + 1
          \/ \E from \in {"push_check", "pop_check", "push_claim", "pop_claim"},
                to \in {"push_load", "pop_load", "idle"} :
               GoOn(t, from, to) \/ (to = "idle" /\ RingReturn(t, from))
      BY <2>3, Zenon DEF CheckPush, CheckPop, ClaimFails, Number
    <3>3. /\ ringPc[t] \in {"push_check", "pop_check", "push_claim", "pop_claim"}
          /\ \/ /\ ringPc[t] = "push_check" /\ ringPc'[t] = "push_claim"
                /\ pos'[t] = pos[t] /\ Number(pos[t]) = pos[t]
             \/ /\ ringPc[t] = "pop_check" /\ ringPc'[t] = "pop_claim"
                /\ pos'[t] = pos[t] /\ Number(pos[t]) = pos[t] + 1
             \/ ringPc'[t] \in {"push_load", "pop_load", "idle"}
          /\ \A u \in RingThreads \ {t} : ringPc'[u] = ringPc[u] /\ pos'[u] = pos[u]
      BY <1>2, <3>2 DEF GoOn, RingReturn, RingGoto, RingTypeOK
    <3>4. Seen'
      BY <1>2, <3>1, <3>3 DEF RingInv, Seen, Number
    <3>5. QED
      BY <1>2, <3>1, <3>3, <3>4, LocalStepKeeps DEF RingInv, Owning, Pushing, Popping
  <2>4. ASSUME NEW t \in RingThreads, ClaimPush(t)
        PROVE  RingInv'
    <3>1. /\ ringPc[t] = "push_claim" /\ ringPc'[t] = "push_write" /\ pos[t] = head
          /\ head' = head + 1 /\ pos' = pos /\ UNCHANGED <<tail, sequence>>
          /\ \A u \in RingThreads \ {t} : ringPc'[u] = ringPc[u]
      BY <1>2, <2>4 DEF ClaimPush, GoOn, RingGoto, RingTypeOK
    <3>2. /\ head \in Nat /\ tail \in Nat /\ pos \in [RingThreads -> Nat]
          /\ \A p \in Nat : Number(p) \in Nat /\ Number(p)' = Number(p)
      BY <1>2, <3>1, NumberIsNat DEF RingTypeOK, Number
    <3>3. Number(head) = head
      BY <1>2, <3>1 DEF RingInv, Seen
    <3>4. Window'
      <4>1. head # tail + Capacity
        <5> SUFFICES ASSUME head = tail + Capacity PROVE FALSE
          OBVIOUS
        <5>1. Number(tail) = Number(head)
          BY <3>2, CellRecurs DEF Number
        <5>2. Number(tail) \in {tail, tail + 1}
          BY <1>2, <3>2 DEF RingInv, Occupied
        <5>3. QED
          BY <3>2, <3>3, <5>1, <5>2
      <4>2. QED
        BY <1>2, <3>1, <3>2, <4>1 DEF RingInv, Window
    <3>5. Occupied'
      <4> SUFFICES ASSUME NEW p \in tail .. head
                   PROVE  \/ Number(p) = p + 1
                          \/ /\ Number(p) = p
                             /\ \E u \in RingThreads : ringPc'[u] \in Pushing /\ pos'[u] = p
        BY <3>1, <3>2 DEF Occupied
      <4>1. CASE p = head
        BY <3>1, <3>3, <4>1 DEF Pushing
      <4>2. CASE p \in tail .. head - 1
        <5>1. \A u \in RingThreads : ringPc[u] \in Pushing => ringPc'[u] \in Pushing
          BY <3>1 DEF Pushing
        <5>2. QED
          BY <1>2, <3>1, <4>2, <5>1 DEF RingInv, Occupied
      <4>3. QED
        BY <3>2, <4>1, <4>2
    <3>6. Free'
      <4> SUFFICES ASSUME NEW p \in head + 1 .. tail + Capacity - 1
                   PROVE  \/ Number(p) = p
                          \/ /\ Number(p) + Capacity = p + 1
                             /\ \E u \in RingThreads :
                                  ringPc'[u] \in Popping /\ pos'[u] + Capacity = p
        BY <3>1, <3>2 DEF Free
      <4>1. \A u \in RingThreads : ringPc[u] \in Popping => ringPc'[u] \in Popping
        BY <3>1 DEF Popping
      <4>2. p \in head .. tail + Capacity - 1
        BY <3>2
      <4>3. QED
        BY <1>2, <3>1, <4>1, <4>2 DEF RingInv, Free
    <3>7. Owners'
      <4> SUFFICES ASSUME NEW u \in RingThreads
                   PROVE  /\ ringPc'[u] \in Owning => pos[u] < head + 1 /\ head + 1 <= pos[u] + Capacity
                          /\ ringPc'[u] \in Pushing => tail <= pos[u] /\ Number(pos[u]) = pos[u]
                          /\ ringPc'[u] \in Popping => pos[u] < tail /\ Number(pos[u]) = pos[u] + 1
        BY <3>1, <3>2 DEF Owners
      <4>1. CASE u = t
        BY <1>2, <3>1, <3>2, <3>3, <4>1 DEF RingInv, Window, Owning, Pushing, Popping
      <4>2. CASE u # t
        <5>1. ASSUME ringPc[u] \in Owning PROVE pos[u] + Capacity # head
          <6>1. Number(pos[u] + Capacity) = Number(pos[u])
            BY <3>2, CellRecurs DEF Number
          <6>2. Number(pos[u]) \in {pos[u], pos[u] + 1}
            BY <1>2, <5>1 DEF RingInv, Owners, Owning
          <6>3. QED
            BY <3>2, <3>3, <6>1, <6>2
        <5>2. QED
          BY <1>2, <3>1, <3>2, <4>2, <5>1 DEF RingInv, Owners
      <4>3. QED
        BY <4>1, <4>2
    <3>8. Distinct'
      BY <1>2, <3>1, <3>2 DEF RingInv, Distinct, Owners
    <3>9. Seen'
      BY <1>2, <3>1, <3>2 DEF RingInv, Seen
    <3>10. QED
      BY <3>4, <3>5, <3>6, <3>7, <3>8, <3>9 DEF RingInv
  <2>5. ASSUME NEW t \in RingThreads, ClaimPop(t)
        PROVE  RingInv'
    <3>1. /\ ringPc[t] = "pop_claim" /\ ringPc'[t] = "pop_take" /\ pos[t] = tail
          /\ tail' = tail + 1 /\ pos' = pos /\ UNCHANGED <<head, sequence>>
          /\ \A u \in RingThreads \ {t} : ringPc'[u] = ringPc[u]
      BY <1>2, <2>5 DEF ClaimPop, GoOn, RingGoto, RingTypeOK
    <3>2. /\ head \in Nat /\ tail \in Nat /\ pos \in [RingThreads -> Nat]
          /\ \A p \in Nat : Number(p) \in Nat /\ Number(p)' = Number(p)
      BY <1>2, <3>1, NumberIsNat DEF RingTypeOK, Number
    <3>3. Number(tail) = tail + 1
      BY <1>2, <3>1 DEF RingInv, Seen
    <3>4. tail < head
      BY <1>2, <3>2, <3>3 DEF RingInv, Window, Free
    <3>5. Window'
      BY <1>2, <3>1, <3>2, <3>4 DEF RingInv, Window
    <3>6. Occupied'
      <4> SUFFICES ASSUME NEW p \in tail + 1 .. head - 1
                   PROVE  \/ Number(p) = p + 1
                          \/ /\ Number(p) = p
                             /\ \E u \in RingThreads : ringPc'[u] \in Pushing /\ pos'[u] = p
        BY <3>1, <3>2 DEF Occupied
      <4>1. \A u \in RingThreads : ringPc[u] \in Pushing => ringPc'[u] \in Pushing
        BY <3>1 DEF Pushing
      <4>2. p \in tail .. head - 1
        BY <3>2
      <4>3. QED
        BY <1>2, <3>1, <4>1, <4>2 DEF RingInv, Occupied
    <3>7. Free'
      <4> SUFFICES ASSUME NEW p \in head .. tail + Capacity
                   PROVE  \/ Number(p) = p
                          \/ /\ Number(p) + Capacity = p + 1
                             /\ \E u \in RingThreads :
                                  ringPc'[u] \in Popping /\ pos'[u] + Capacity = p
        BY <3>1, <3>2 DEF Free
      <4>1. CASE p = tail + Capacity
        <5>1. Number(p) = tail + 1
          BY <3>2, <3>3, <4>1, CellRecurs DEF Number
        <5>2. QED
          BY <3>1, <3>2, <4>1, <5>1 DEF Popping
      <4>2. CASE p \in head .. tail + Capacity - 1
        <5>1. \A u \in RingThreads : ringPc[u] \in Popping => ringPc'[u] \in Popping
          BY <3>1 DEF Popping
        <5>2. QED
          BY <1>2, <3>1, <4>2, <5>1 DEF RingInv, Free
      <4>3. QED
        BY <3>2, <4>1, <4>2
    <3>8. \A u \in RingThreads : ringPc[u] \in Owning => pos[u] # tail
      <4> SUFFICES ASSUME NEW u \in RingThreads, ringPc[u] \in Owning, pos[u] = tail
                   PROVE  FALSE
        OBVIOUS
      <4>1. CASE ringPc[u] \in Pushing
        BY <1>2, <3>2, <3>3, <4>1 DEF RingInv, Owners
      <4>2. CASE ringPc[u] \in Popping
        BY <1>2, <3>2, <4>2 DEF RingInv, Owners
      <4>3. QED
        BY <4>1, <4>2 DEF Owning
    <3>9. Owners'
      <4> SUFFICES ASSUME NEW u \in RingThreads
                   PROVE  /\ ringPc'[u] \in Owning => pos[u] < head /\ head <= pos[u] + Capacity
                          /\ ringPc'[u] \in Pushing => tail + 1 <= pos[u] /\ Number(pos[u]) = pos[u]
                          /\ ringPc'[u] \in Popping => pos[u] < tail + 1 /\ Number(pos[u]) = pos[u] + 1
        BY <3>1, <3>2 DEF Owners
      <4>1. CASE u = t
        BY <1>2, <3>1, <3>2, <3>3, <3>4, <4>1 DEF RingInv, Window, Owning, Pushing, Popping
      <4>2. CASE u # t
        BY <1>2, <3>1, <3>2, <3>8, <4>2 DEF RingInv, Owners, Owning
      <4>3. QED
        BY <4>1, <4>2
    <3>10. Distinct'
      BY <1>2, <3>1, <3>2, <3>8 DEF RingInv, Distinct
    <3>11. Seen'
      BY <1>2, <3>1, <3>2 DEF RingInv, Seen
    <3>12. QED
      BY <3>5, <3>6, <3>7, <3>9, <3>10, <3>11 DEF RingInv
  <2>6. ASSUME NEW t \in RingThreads, WriteData(t) \/ TakeData(t)
        PROVE  RingInv'
    <3>1. /\ \/ ringPc[t] = "push_write" /\ ringPc'[t] = "push_publish"
             \/ ringPc[t] = "pop_take" /\ ringPc'[t] = "pop_release"
          /\ pos' = pos /\ UNCHANGED <<head, tail, sequence>>
          /\ \A u \in RingThreads \ {t} : ringPc'[u] = ringPc[u]
      BY <1>2, <2>6 DEF WriteData, TakeData, GoOn, RingGoto, RingTypeOK
    <3>2. \A u \in RingThreads : /\ ringPc'[u] \in Pushing <=> ringPc[u] \in Pushing
                                 /\ ringPc'[u] \in Popping <=> ringPc[u] \in Popping
      BY <3>1 DEF Pushing, Popping
    <3>3. \A p : Number(p)' = Number(p)
      BY <3>1 DEF Number
    <3>4. Window' /\ Occupied' /\ Free'
      BY <1>2, <3>1, <3>2, <3>3 DEF RingInv, Window, Occupied, Free
    <3>5. Owners' /\ Distinct'
      BY <1>2, <3>1, <3>2, <3>3 DEF RingInv, Owners, Distinct, Owning
    <3>6. Seen'
      BY <1>2, <3>1, <3>3 DEF RingInv, Seen
    <3>7. QED
      BY <3>4, <3>5, <3>6 DEF RingInv
  <2>7. ASSUME NEW t \in RingThreads, Publish(t)
        PROVE  RingInv'
    <3>0. PICK q \in Nat : q = pos[t]
      BY <1>2 DEF RingTypeOK
    <3>1. /\ ringPc[t] = "push_publish" /\ ringPc'[t] = "idle"
          /\ sequence' = [sequence EXCEPT ![Cell(q)] = q + 1] /\ UNCHANGED <<head, tail>>
          /\ \A u \in RingThreads \ {t} : ringPc'[u] = ringPc[u] /\ pos'[u] = pos[u]
      BY <1>2, <2>7, <3>0 DEF Publish, RingReturn, RingGoto, RingTypeOK
    <3>2. /\ head \in Nat /\ tail \in Nat /\ q \in Nat /\ tail <= q /\ q < head
          /\ head <= tail + Capacity /\ head <= q + Capacity
          /\ pos \in [RingThreads -> Nat]
      BY <1>2, <3>0, <3>1 DEF RingInv, Window, Owners, Owning, Pushing, RingTypeOK
    <3>3. /\ Number(q)' = q + 1
          /\ \A p \in Nat : p # q /\ p < q + Capacity /\ q < p + Capacity
                           => Number(p)' = Number(p)
      <4>1. q + 1 \in Nat
        BY <3>2
      <4>2. /\ sequence'[Cell(q)] = q + 1
            /\ \A p \in Nat : p # q /\ p < q + Capacity /\ q < p + Capacity
                             => sequence'[Cell(p)] = Number(p)
        BY <1>2, <3>1, <4>1, NumberChanges
      <4>3. QED
        BY <4>2 DEF Number
    <3>4. Window'
      BY <1>2, <3>1 DEF RingInv, Window
    <3>5. Occupied'
      <4> SUFFICES ASSUME NEW p \in tail .. head - 1
                   PROVE  \/ Number(p)' = p + 1
                          \/ /\ Number(p)' = p
                             /\ \E u \in RingThreads : ringPc'[u] \in Pushing /\ pos'[u] = p
        BY <3>1 DEF Occupied
      <4>1. CASE p = q
        BY <3>3, <4>1
      <4>2. CASE p # q
        <5>1. Number(p)' = Number(p)
          BY <3>2, <3>3, <4>2
        <5>2. \A u \in RingThreads : pos[u] = p /\ ringPc[u] \in Pushing
                                   => pos'[u] = p /\ ringPc'[u] \in Pushing
          BY <3>0, <3>1, <4>2
        <5>3. QED
          BY <1>2, <5>1, <5>2 DEF RingInv, Occupied
      <4>3. QED
        BY <4>1, <4>2
    <3>6. Free'
      <4> SUFFICES ASSUME NEW p \in head .. tail + Capacity - 1
                   PROVE  \/ Number(p)' = p
                          \/ /\ Number(p)' + Capacity = p + 1
                             /\ \E u \in RingThreads :
                                  ringPc'[u] \in Popping /\ pos'[u] + Capacity = p
        BY <3>1 DEF Free
      <4>1. Number(p)' = Number(p)
        BY <3>2, <3>3
      <4>2. \A u \in RingThreads : ringPc[u] \in Popping
                                 => pos'[u] = pos[u] /\ ringPc'[u] \in Popping
        BY <3>1 DEF Popping
      <4>3. QED
        BY <1>2, <4>1, <4>2 DEF RingInv, Free
    <3>7. Owners'
      <4> SUFFICES ASSUME NEW u \in RingThreads, ringPc'[u] \in Owning
                   PROVE  /\ pos'[u] < head /\ head <= pos'[u] + Capacity
                          /\ ringPc'[u] \in Pushing => tail <= pos'[u] /\ Number(pos[u])' = pos'[u]
                          /\ ringPc'[u] \in Popping => pos'[u] < tail /\ Number(pos[u])' = pos'[u] + 1
        BY <3>1 DEF Owners, Owning
      <4>1. u # t
        BY <3>1 DEF Owning, Pushing, Popping
      <4>2. /\ ringPc'[u] = ringPc[u] /\ pos'[u] = pos[u]
            /\ pos[u] < head /\ head <= pos[u] + Capacity /\ pos[u] # q
        BY <1>2, <3>0, <3>1, <4>1 DEF RingInv, Owners, Distinct, Owning, Pushing
      <4>3. Number(pos[u])' = Number(pos[u])
        BY <3>2, <3>3, <4>2 DEF Number
      <4>4. QED
        BY <1>2, <4>2, <4>3 DEF RingInv, Owners
    <3>8. Distinct'
      BY <1>2, <3>1 DEF RingInv, Distinct, Owning, Pushing, Popping
    <3>9. Seen'
      <4> SUFFICES ASSUME NEW u \in RingThreads, u # t
                   PROVE  /\ ringPc[u] \in {"push_check", "push_claim"} => pos[u] <= head
                          /\ ringPc[u] \in {"pop_check", "pop_claim"} => pos[u] <= tail
                          /\ ringPc[u] = "push_claim" /\ pos[u] = head => Number(pos[u])' = pos[u]
                          /\ ringPc[u] = "pop_claim" /\ pos[u] = tail => Number(pos[u])' = pos[u] + 1
        BY <3>1 DEF Seen
      <4>1. ASSUME ringPc[u] = "push_claim", pos[u] = head
            PROVE  Number(pos[u])' = pos[u]
        <5>1. Number(head) = head /\ Number(q) = q
          BY <1>2, <3>0, <3>1, <4>1 DEF RingInv, Seen, Owners, Pushing
        <5>2. head # q + Capacity
          BY <3>2, <5>1, CellRecurs DEF Number
        <5>3. sequence'[Cell(head)] = Number(head)
          BY <3>2, <3>3, <5>2 DEF Number
        <5>4. QED
          BY <3>1, <4>1, <5>1, <5>3 DEF Number
      <4>2. ASSUME ringPc[u] = "pop_claim", pos[u] = tail
            PROVE  Number(pos[u])' = pos[u] + 1
        <5>1. Number(tail) = tail + 1 /\ Number(q) = q
          BY <1>2, <3>0, <3>1, <4>2 DEF RingInv, Seen, Owners, Pushing
        <5>2. tail # q
          BY <3>2, <5>1
        <5>3. sequence'[Cell(tail)] = Number(tail)
          BY <3>2, <3>3, <5>2 DEF Number
        <5>4. QED
          BY <3>1, <4>2, <5>1, <5>3 DEF Number
      <4>3. QED
        BY <1>2, <4>1, <4>2 DEF RingInv, Seen
    <3>10. QED
      BY <3>4, <3>5, <3>6, <3>7, <3>8, <3>9 DEF RingInv
  <2>8. ASSUME NEW t \in RingThreads, ReleaseCell(t)
        PROVE  RingInv'
    <3>0. PICK q \in Nat : q = pos[t]
      BY <1>2 DEF RingTypeOK
    <3>1. /\ ringPc[t] = "pop_release" /\ ringPc'[t] = "idle"
          /\ sequence' = [sequence EXCEPT ![Cell(q)] = q + Capacity] /\ UNCHANGED <<head, tail>>
          /\ \A u \in RingThreads \ {t} : ringPc'[u] = ringPc[u] /\ pos'[u] = pos[u]
      BY <1>2, <2>8, <3>0 DEF ReleaseCell, RingReturn, RingGoto, RingTypeOK
    <3>2. /\ head \in Nat /\ tail \in Nat /\ q < tail /\ tail <= head
          /\ head <= q + Capacity /\ Number(q) = q + 1
          /\ pos \in [RingThreads -> Nat]
      BY <1>2, <3>0, <3>1 DEF RingInv, Window, Owners, Owning, Popping, RingTypeOK
    <3>3. /\ Number(q + Capacity)' = q + Capacity
          /\ \A p \in Nat : p # q /\ p < q + Capacity /\ q < p + Capacity
                           => Number(p)' = Number(p)
      <4>1. q + Capacity \in Nat
        OBVIOUS
      <4>2. /\ sequence'[Cell(q + Capacity)] = q + Capacity
            /\ \A p \in Nat : p # q /\ p < q + Capacity /\ q < p + Capacity
                             => sequence'[Cell(p)] = Number(p)
        BY <1>2, <3>1, <4>1, NumberChanges
      <4>3. QED
        BY <4>2 DEF Number
    <3>4. Window'
      BY <1>2, <3>1 DEF RingInv, Window
    <3>5. Occupied'
      <4> SUFFICES ASSUME NEW p \in tail .. head - 1
                   PROVE  \/ Number(p)' = p + 1
                          \/ /\ Number(p)' = p
                             /\ \E u \in RingThreads : ringPc'[u] \in Pushing /\ pos'[u] = p
        BY <3>1 DEF Occupied
      <4>1. Number(p)' = Number(p)
        BY <3>2, <3>3
      <4>2. \A u \in RingThreads : ringPc[u] \in Pushing
                                 => pos'[u] = pos[u] /\ ringPc'[u] \in Pushing
        BY <3>1 DEF Pushing
      <4>3. QED
        BY <1>2, <4>1, <4>2 DEF RingInv, Occupied
    <3>6. Free'
      <4> SUFFICES ASSUME NEW p \in head .. tail + Capacity - 1
                   PROVE  \/ Number(p)' = p
                          \/ /\ Number(p)' + Capacity = p + 1
                             /\ \E u \in RingThreads :
                                  ringPc'[u] \in Popping /\ pos'[u] + Capacity = p
        BY <3>1 DEF Free
      <4>1. CASE p = q + Capacity
        BY <3>3, <4>1
      <4>2. CASE p # q + Capacity
        <5>1. CASE p < q + Capacity
          <6>1. Number(p)' = Number(p)
            BY <3>2, <3>3, <5>1
          <6>2. \A u \in RingThreads : pos[u] + Capacity = p /\ ringPc[u] \in Popping
                                     => pos'[u] + Capacity = p /\ ringPc'[u] \in Popping
            BY <3>0, <3>1, <4>2
          <6>3. QED
            BY <1>2, <6>1, <6>2 DEF RingInv, Free
        <5>2. CASE p > q + Capacity
          <6>1. PICK r \in Nat : p = r + Capacity
            <7>1. p - Capacity \in Nat /\ p = (p - Capacity) + Capacity
              BY <3>2, <5>2
            <7>2. QED
              BY <7>1
          <6>2. sequence'[Cell(p)] = Number(p)
            <7>1. Cell(p) = Cell(r)
              BY <6>1, CellRecurs
            <7>2. sequence'[Cell(r)] = Number(r)
              BY <3>2, <3>3, <5>2, <6>1 DEF Number
            <7>3. QED
              BY <7>1, <7>2 DEF Number
          <6>3. \A u \in RingThreads : pos[u] + Capacity = p /\ ringPc[u] \in Popping
                                     => pos'[u] + Capacity = p /\ ringPc'[u] \in Popping
            BY <3>0, <3>1, <4>2
          <6>4. QED
            BY <1>2, <6>2, <6>3 DEF RingInv, Free, Number
        <5>3. QED
          BY <3>2, <4>2, <5>1, <5>2
      <4>3. QED
        BY <4>1, <4>2
    <3>7. Owners'
      <4> SUFFICES ASSUME NEW u \in RingThreads, ringPc'[u] \in Owning
                   PROVE  /\ pos'[u] < head /\ head <= pos'[u] + Capacity
                          /\ ringPc'[u] \in Pushing => tail <= pos'[u] /\ Number(pos[u])' = pos'[u]
                          /\ ringPc'[u] \in Popping => pos'[u] < tail /\ Number(pos[u])' = pos'[u] + 1
        BY <3>1 DEF Owners, Owning
      <4>1. u # t
        BY <3>1 DEF Owning, Pushing, Popping
      <4>2. /\ ringPc'[u] = ringPc[u] /\ pos'[u] = pos[u]
            /\ pos[u] < head /\ head <= pos[u] + Capacity /\ pos[u] # q
        BY <1>2, <3>0, <3>1, <4>1 DEF RingInv, Owners, Distinct, Owning, Popping
      <4>3. Number(pos[u])' = Number(pos[u])
        BY <3>2, <3>3, <4>2 DEF Number
      <4>4. QED
        BY <1>2, <4>2, <4>3 DEF RingInv, Owners
    <3>8. Distinct'
      BY <1>2, <3>1 DEF RingInv, Distinct, Owning, Pushing, Popping
    <3>9. Seen'
      <4> SUFFICES ASSUME NEW u \in RingThreads, u # t
                   PROVE  /\ ringPc[u] \in {"push_check", "push_claim"} => pos[u] <= head
                          /\ ringPc[u] \in {"pop_check", "pop_claim"} => pos[u] <= tail
                          /\ ringPc[u] = "push_claim" /\ pos[u] = head => Number(pos[u])' = pos[u]
                          /\ ringPc[u] = "pop_claim" /\ pos[u] = tail => Number(pos[u])' = pos[u] + 1
        BY <3>1 DEF Seen
      <4>1. ASSUME ringPc[u] = "push_claim", pos[u] = head
            PROVE  Number(pos[u])' = pos[u]
        <5>1. Number(head) = head
          BY <1>2, <3>1, <4>1 DEF RingInv, Seen
        <5>2. head # q + Capacity
          BY <3>2, <5>1, CellRecurs DEF Number
        <5>3. sequence'[Cell(head)] = Number(head)
          BY <3>2, <3>3, <5>2 DEF Number
        <5>4. QED
          BY <3>1, <4>1, <5>1, <5>3 DEF Number
      <4>2. ASSUME ringPc[u] = "pop_claim", pos[u] = tail
            PROVE  Number(pos[u])' = pos[u] + 1
        <5>1. Number(tail) = tail + 1
          BY <1>2, <3>1, <4>2 DEF RingInv, Seen
        <5>2. tail # q + Capacity
          BY <3>2, <5>1, CellRecurs DEF Number
        <5>3. sequence'[Cell(tail)] = Number(tail)
          BY <3>2, <3>3, <5>2 DEF Number
        <5>4. QED
          BY <3>1, <4>2, <5>1, <5>3 DEF Number
      <4>3. QED
        BY <1>2, <4>1, <4>2 DEF RingInv, Seen
    <3>10. QED
      BY <3>4, <3>5, <3>6, <3>7, <3>8, <3>9 DEF RingInv
  <2>9. CASE UNCHANGED ringVars
    BY <1>2, <2>9 DEF ringVars, RingInv, Window, Occupied, Free, Owners, Distinct, Seen, Number
  <2>10. QED
    BY <1>2, <2>1, <2>2, <2>3, <2>4, <2>5, <2>6, <2>7, <2>8, <2>9 DEF RingNext, RingStep
<1>3. QED
  BY <1>1, <1>2, RingTypeCorrect, PTL DEF RingSpec

\* No two threads are at one cell: what makes the unsafe accesses of push() and
\* pop() to the contents of a cell exclusive.
THEOREM CellsAlwaysHaveOneOwner == RingSpec => []CellsHaveOneOwner
<1>1. RingTypeOK /\ RingInv => CellsHaveOneOwner
  BY OwnersAreApart DEF RingInv, CellsHaveOneOwner, Owning
<1>2. QED
  BY <1>1, RingTypeCorrect, RingInvHolds, PTL

-----------------------------------------------------------------------------
\* There is an item wherever there should be one.
Filled ==
  /\ \A p \in tail .. head - 1 : Number(p) = p + 1 => contents[Cell(p)] \in Items
  /\ \A t \in RingThreads :
       /\ ringPc[t] \in {"push_load", "push_check", "push_claim", "push_write", "pop_release"}
            => item[t] \in Items
       /\ ringPc[t] \in {"push_publish", "pop_take"} => contents[Cell(pos[t])] \in Items

\* A step that leaves the cells alone, and the items of the others.
LEMMA FilledStays ==
  ASSUME RingTypeOK, Filled, UNCHANGED <<head, tail, sequence, contents>>, NEW t \in RingThreads,
         \A u \in RingThreads \ {t} :
           ringPc'[u] = ringPc[u] /\ pos'[u] = pos[u] /\ item'[u] = item[u],
         ringPc'[t] \notin {"push_write", "push_publish", "pop_take", "pop_release"},
         ringPc'[t] \in {"push_load", "push_check", "push_claim"} => item'[t] \in Items
  PROVE  Filled'
<1>1. \A p \in tail .. head - 1 : Number(p)' = p + 1 => contents'[Cell(p)] \in Items
  BY DEF Filled, Number
<1>2. QED
  BY <1>1 DEF Filled

\* A cell that push() has published holds an item until pop() has taken it.
THEOREM FilledHolds == RingSpec => []Filled
<1> USE RingAssumption
<1>1. RingInit => Filled
  BY DEF RingInit, Filled
<1>2. ASSUME RingTypeOK, RingTypeOK', RingInv, Filled, [RingNext]_ringVars
      PROVE  Filled'
  <2>1. ASSUME NEW t \in RingThreads, NEW i \in Items, BeginPush(t, i)
        PROVE  Filled'
    <3>1. /\ ringPc'[t] = "push_load" /\ item'[t] \in Items
          /\ \A u \in RingThreads \ {t} :
               ringPc'[u] = ringPc[u] /\ pos'[u] = pos[u] /\ item'[u] = item[u]
          /\ UNCHANGED <<head, tail, sequence, contents>>
      BY <1>2, <2>1 DEF BeginPush, RingGoto, RingTypeOK
    <3>2. QED
      BY <1>2, <3>1, FilledStays
  <2>2. ASSUME NEW t \in RingThreads, LoadHead(t) \/ LoadTail(t)
        PROVE  Filled'
    <3>1. /\ \/ ringPc[t] = "push_load" /\ ringPc'[t] = "push_check"
             \/ ringPc'[t] = "pop_check"
          /\ item' = item
          /\ \A u \in RingThreads \ {t} : ringPc'[u] = ringPc[u] /\ pos'[u] = pos[u]
          /\ UNCHANGED <<head, tail, sequence, contents>>
      BY <1>2, <2>2 DEF LoadHead, LoadTail, RingGoto, RingTypeOK
    <3>2. ringPc'[t] = "push_check" => item'[t] \in Items
      BY <1>2, <3>1 DEF Filled
    <3>3. QED
      BY <1>2, <3>1, <3>2, FilledStays
  <2>3. ASSUME NEW t \in RingThreads, CheckPush(t) \/ CheckPop(t) \/ ClaimFails(t)
        PROVE  Filled'
    <3>1. UNCHANGED <<head, tail, sequence, contents>>
      BY <2>3 DEF CheckPush, CheckPop, ClaimFails
    <3>2. \/ \E from \in {"push_check", "push_claim"}, to \in {"push_claim", "push_load"} :
               GoOn(t, from, to)
          \/ \E from \in {"pop_check", "pop_claim"}, to \in {"pop_claim", "pop_load"} :
               GoOn(t, from, to)
          \/ \E from \in {"push_check", "pop_check"} : RingReturn(t, from)
      BY <2>3, Zenon DEF CheckPush, CheckPop, ClaimFails
    <3>3. /\ \/ /\ ringPc[t] \in {"push_check", "push_claim"} /\ item'[t] = item[t]
                /\ ringPc'[t] \in {"push_claim", "push_load"}
             \/ ringPc'[t] \in {"pop_claim", "pop_load", "idle"}
          /\ \A u \in RingThreads \ {t} :
               ringPc'[u] = ringPc[u] /\ pos'[u] = pos[u] /\ item'[u] = item[u]
      BY <1>2, <3>2 DEF GoOn, RingReturn, RingGoto, RingTypeOK
    <3>4. ringPc'[t] \in {"push_load", "push_check", "push_claim"} => item'[t] \in Items
      BY <1>2, <3>3 DEF Filled
    <3>5. QED
      BY <1>2, <3>1, <3>3, <3>4, FilledStays
  <2>4. ASSUME NEW t \in RingThreads, ClaimPush(t)
        PROVE  Filled'
    <3>1. /\ ringPc[t] = "push_claim" /\ ringPc'[t] = "push_write" /\ pos[t] = head
          /\ head' = head + 1 /\ UNCHANGED <<tail, sequence, contents, pos, item>>
          /\ \A u \in RingThreads \ {t} : ringPc'[u] = ringPc[u]
      BY <1>2, <2>4 DEF ClaimPush, GoOn, RingGoto, RingTypeOK
    <3>2. Number(head) = head /\ head \in Nat /\ tail \in Nat
      BY <1>2, <3>1 DEF RingInv, Seen, RingTypeOK
    <3>3. \A p \in tail .. head : Number(p)' = p + 1 => contents'[Cell(p)] \in Items
      BY <1>2, <3>1, <3>2 DEF Filled, Number
    <3>4. QED
      BY <1>2, <3>1, <3>2, <3>3 DEF Filled
  <2>5. ASSUME NEW t \in RingThreads, ClaimPop(t)
        PROVE  Filled'
    <3>1. /\ ringPc[t] = "pop_claim" /\ ringPc'[t] = "pop_take" /\ pos[t] = tail
          /\ tail' = tail + 1 /\ UNCHANGED <<head, sequence, contents, pos, item>>
          /\ \A u \in RingThreads \ {t} : ringPc'[u] = ringPc[u]
      BY <1>2, <2>5 DEF ClaimPop, GoOn, RingGoto, RingTypeOK
    <3>2. Number(tail) = tail + 1 /\ head \in Nat /\ tail \in Nat
      BY <1>2, <3>1 DEF RingInv, Seen, RingTypeOK
    <3>3. tail < head
      BY <1>2, <3>2 DEF RingInv, Window, Free
    <3>4. contents[Cell(tail)] \in Items
      BY <1>2, <3>2, <3>3 DEF Filled
    <3>5. \A p \in tail + 1 .. head - 1 : Number(p)' = p + 1 => contents'[Cell(p)] \in Items
      BY <1>2, <3>1, <3>2 DEF Filled, Number
    <3>6. QED
      BY <1>2, <3>1, <3>2, <3>4, <3>5 DEF Filled
  <2>6. ASSUME NEW t \in RingThreads, WriteData(t) \/ TakeData(t)
        PROVE  Filled'
    <3>1. /\ \/ /\ ringPc[t] = "push_write" /\ ringPc'[t] = "push_publish"
                /\ contents'[Cell(pos[t])] = item[t]
             \/ /\ ringPc[t] = "pop_take" /\ ringPc'[t] = "pop_release"
                /\ item'[t] = contents[Cell(pos[t])]
          /\ pos' = pos /\ UNCHANGED <<head, tail, sequence>>
          /\ \A c \in Cells : c # Cell(pos[t]) => contents'[c] = contents[c]
          /\ \A u \in RingThreads \ {t} : ringPc'[u] = ringPc[u] /\ item'[u] = item[u]
      BY <1>2, <2>6, TurnAndCell DEF WriteData, TakeData, GoOn, RingGoto, RingTypeOK
    <3>2. ringPc[t] \in Owning
      BY <3>1 DEF Owning, Pushing, Popping
    <3>3. ASSUME NEW p \in tail .. head - 1, Number(p)' = p + 1
          PROVE  contents'[Cell(p)] \in Items
      <4>1. p \in Nat /\ pos[t] \in Nat /\ Number(p) = p + 1
        BY <1>2, <3>1, <3>3 DEF RingTypeOK, Number
      <4>2. p # pos[t] /\ p < pos[t] + Capacity /\ pos[t] < p + Capacity
        <5>1. head \in Nat /\ tail \in Nat /\ head <= tail + Capacity
          BY <1>2 DEF RingInv, Window, RingTypeOK
        <5>2. pos[t] < head /\ head <= pos[t] + Capacity
          BY <1>2, <3>2 DEF RingInv, Owners
        <5>3. p # pos[t]
          BY <1>2, <3>1, <4>1, <5>1 DEF RingInv, Owners, Pushing, Popping
        <5>4. QED
          BY <4>1, <5>1, <5>2, <5>3
      <4>3. Cell(p) # Cell(pos[t]) /\ Cell(p) \in Cells
        BY <4>1, <4>2, NearCellsDiffer, TurnAndCell
      <4>4. QED
        BY <1>2, <3>1, <4>1, <4>3 DEF Filled
    <3>4. ASSUME NEW u \in RingThreads
          PROVE  /\ ringPc'[u] \in {"push_load", "push_check", "push_claim", "push_write", "pop_release"}
                      => item'[u] \in Items
                 /\ ringPc'[u] \in {"push_publish", "pop_take"} => contents'[Cell(pos[u])] \in Items
      <4>1. CASE u = t
        BY <1>2, <3>1, <4>1 DEF Filled
      <4>2. CASE u # t
        <5>1. ASSUME ringPc[u] \in {"push_publish", "pop_take"}
              PROVE  contents'[Cell(pos[u])] = contents[Cell(pos[u])]
          <6>1. ringPc[u] \in Owning
            BY <5>1 DEF Owning, Pushing, Popping
          <6>2. Cell(pos[u]) # Cell(pos[t]) /\ Cell(pos[u]) \in Cells
            BY <1>2, <3>2, <4>2, <6>1, OwnersAreApart, TurnAndCell DEF RingInv, RingTypeOK
          <6>3. QED
            BY <3>1, <6>2
        <5>2. QED
          BY <1>2, <3>1, <4>2, <5>1 DEF Filled
      <4>3. QED
        BY <4>1, <4>2
    <3>5. QED
      BY <3>1, <3>3, <3>4 DEF Filled
  <2>7. ASSUME NEW t \in RingThreads, Publish(t)
        PROVE  Filled'
    <3>0. PICK q \in Nat : q = pos[t]
      BY <1>2 DEF RingTypeOK
    <3>1. /\ ringPc[t] = "push_publish" /\ ringPc'[t] = "idle"
          /\ sequence' = [sequence EXCEPT ![Cell(q)] = q + 1] /\ UNCHANGED <<head, tail, contents>>
          /\ \A u \in RingThreads \ {t} :
               ringPc'[u] = ringPc[u] /\ pos'[u] = pos[u] /\ item'[u] = item[u]
      BY <1>2, <2>7, <3>0 DEF Publish, RingReturn, RingGoto, RingTypeOK
    <3>2. ASSUME NEW p \in tail .. head - 1, Number(p)' = p + 1
          PROVE  contents'[Cell(p)] \in Items
      <4>1. CASE p = q
        BY <1>2, <3>0, <3>1, <4>1 DEF Filled
      <4>2. CASE p # q
        <5>1. head \in Nat /\ tail \in Nat /\ head <= tail + Capacity
          BY <1>2 DEF RingInv, Window, RingTypeOK
        <5>2. tail <= q /\ q < head
          BY <1>2, <3>0, <3>1 DEF RingInv, Owners, Owning, Pushing
        <5>3. p \in Nat /\ q + 1 \in Nat /\ p < q + Capacity /\ q < p + Capacity
          BY <5>1, <5>2
        <5>4. sequence'[Cell(p)] = Number(p)
          BY <1>2, <3>1, <4>2, <5>3, NumberChanges
        <5>5. QED
          BY <1>2, <3>1, <3>2, <5>4 DEF Filled, Number
      <4>3. QED
        BY <4>1, <4>2
    <3>3. QED
      BY <1>2, <3>1, <3>2 DEF Filled
  <2>8. ASSUME NEW t \in RingThreads, ReleaseCell(t)
        PROVE  Filled'
    <3>0. PICK q \in Nat : q = pos[t]
      BY <1>2 DEF RingTypeOK
    <3>1. /\ ringPc[t] = "pop_release" /\ ringPc'[t] = "idle"
          /\ sequence' = [sequence EXCEPT ![Cell(q)] = q + Capacity] /\ UNCHANGED <<head, tail, contents>>
          /\ \A u \in RingThreads \ {t} :
               ringPc'[u] = ringPc[u] /\ pos'[u] = pos[u] /\ item'[u] = item[u]
      BY <1>2, <2>8, <3>0 DEF ReleaseCell, RingReturn, RingGoto, RingTypeOK
    <3>2. ASSUME NEW p \in tail .. head - 1, Number(p)' = p + 1
          PROVE  contents'[Cell(p)] \in Items
      <4>1. head \in Nat /\ tail \in Nat /\ q < tail /\ head <= q + Capacity
        BY <1>2, <3>0, <3>1 DEF RingInv, Owners, Owning, Popping, RingTypeOK
      <4>2. p \in Nat /\ q + Capacity \in Nat /\ p # q /\ p < q + Capacity /\ q < p + Capacity
        BY <4>1
      <4>3. sequence'[Cell(p)] = Number(p)
        BY <1>2, <3>1, <4>2, NumberChanges
      <4>4. QED
        BY <1>2, <3>1, <3>2, <4>3 DEF Filled, Number
    <3>3. QED
      BY <1>2, <3>1, <3>2 DEF Filled
  <2>9. CASE UNCHANGED ringVars
    BY <1>2, <2>9 DEF ringVars, Filled, Number
  <2>10. QED
    BY <1>2, <2>1, <2>2, <2>3, <2>4, <2>5, <2>6, <2>7, <2>8, <2>9 DEF RingNext, RingStep
<1>3. QED
  BY <1>1, <1>2, RingTypeCorrect, RingInvHolds, PTL DEF RingSpec

-----------------------------------------------------------------------------
Inside == [i \in 1 .. head - tail |-> ItemAt(tail + i - 1)]
Taken(t) ==
  CASE ringPc[t] = "pop_take"    -> contents[Cell(pos[t])]
    [] ringPc[t] = "pop_release" -> item[t]
    [] OTHER                     -> Empty

\* The CHOOSE of ItemAt names the only thread that it can.
LEMMA OnlyWriter ==
  ASSUME NEW pc, NEW at, NEW it, NEW p, NEW t \in RingThreads, pc[t] = "push_write", at[t] = p,
         \A u \in RingThreads : pc[u] = "push_write" /\ at[u] = p => u = t
  PROVE  it[CHOOSE u \in RingThreads : pc[u] = "push_write" /\ at[u] = p] = it[t]
<1> DEFINE w == CHOOSE u \in RingThreads : pc[u] = "push_write" /\ at[u] = p
<1>1. w \in RingThreads /\ pc[w] = "push_write" /\ at[w] = p
  OBVIOUS
<1>2. w = t
  BY <1>1
<1>3. QED
  BY <1>2

\* An item not yet written is in the hands of the thread that claimed its position.
LEMMA ItemOfWriter ==
  ASSUME RingInv, NEW t \in RingThreads, ringPc[t] = "push_write"
  PROVE  ItemAt(pos[t]) = item[t]
<1>1. \A u \in RingThreads : ringPc[u] = "push_write" /\ pos[u] = pos[t] => u = t
  BY DEF RingInv, Distinct, Owning, Pushing
<1>2. QED
  BY <1>1, OnlyWriter DEF ItemAt

\* A position whose writers and whose cell stay as they are keeps its item.
LEMMA ItemStays ==
  ASSUME RingInv, RingInv', NEW p,
         \A u \in RingThreads :
           /\ (ringPc'[u] = "push_write" /\ pos'[u] = p) <=> (ringPc[u] = "push_write" /\ pos[u] = p)
           /\ ringPc[u] = "push_write" /\ pos[u] = p => item'[u] = item[u],
         (\A u \in RingThreads : ~(ringPc[u] = "push_write" /\ pos[u] = p))
           => contents'[Cell(p)] = contents[Cell(p)]
  PROVE  ItemAt(p)' = ItemAt(p)
<1>1. ASSUME NEW t \in RingThreads, ringPc[t] = "push_write", pos[t] = p
      PROVE  ItemAt(p)' = ItemAt(p)
  <2>1. ItemAt(p) = item[t]
    BY <1>1, ItemOfWriter
  <2>2. ringPc'[t] = "push_write" /\ pos'[t] = p /\ item'[t] = item[t]
    BY <1>1
  <2>3. \A u \in RingThreads : ringPc'[u] = "push_write" /\ pos'[u] = p => u = t
    BY <2>2 DEF RingInv, Distinct, Owning, Pushing
  <2>4. ItemAt(p)' = item'[t]
    BY <2>2, <2>3, OnlyWriter DEF ItemAt
  <2>5. QED
    BY <2>1, <2>2, <2>4
<1>2. ASSUME \A u \in RingThreads : ~(ringPc[u] = "push_write" /\ pos[u] = p)
      PROVE  ItemAt(p)' = ItemAt(p)
  BY <1>2 DEF ItemAt
<1>3. QED
  BY <1>1, <1>2

\* There are items inside and nothing else.
LEMMA ItemsInside ==
  ASSUME RingTypeOK, RingInv, Filled
  PROVE  /\ Inside \in Seq(Items) /\ Len(Inside) = head - tail
         /\ \A i \in 1 .. head - tail : Inside[i] = ItemAt(tail + i - 1)
<1>1. ASSUME NEW p \in tail .. head - 1
      PROVE  ItemAt(p) \in Items
  <2>1. p \in Nat
    BY DEF RingTypeOK
  <2>2. CASE \E t \in RingThreads : ringPc[t] = "push_write" /\ pos[t] = p
    BY <2>2, ItemOfWriter DEF Filled
  <2>3. CASE \A t \in RingThreads : ~(ringPc[t] = "push_write" /\ pos[t] = p)
    <3>1. contents[Cell(p)] \in Items
      <4>1. CASE Number(p) = p + 1
        BY <4>1 DEF Filled
      <4>2. CASE \E t \in RingThreads : ringPc[t] \in Pushing /\ pos[t] = p
        BY <2>3, <4>2 DEF Filled, Pushing
      <4>3. QED
        BY <4>1, <4>2 DEF RingInv, Occupied
    <3>2. QED
      BY <2>3, <3>1 DEF ItemAt
  <2>4. QED
    BY <2>2, <2>3
<1>2. head - tail \in Nat
  BY DEF RingTypeOK, RingInv, Window
<1>3. \A i \in 1 .. head - tail : ItemAt(tail + i - 1) \in Items
  BY <1>1 DEF RingTypeOK
<1>4. QED
  BY <1>2, <1>3 DEF Inside

\* Append and Tail as functions.
LEMMA AppendAndTail ==
  ASSUME NEW S, NEW s \in Seq(S), NEW e \in S
  PROVE  /\ Append(s, e) = [i \in 1 .. Len(s) + 1 |-> IF i = Len(s) + 1 THEN e ELSE s[i]]
         /\ s # << >> => Tail(s) = [i \in 1 .. Len(s) - 1 |-> s[i + 1]]
<1>1. /\ Append(s, e) \in Seq(S) /\ Len(Append(s, e)) = Len(s) + 1
      /\ \A i \in 1 .. Len(s) + 1 : Append(s, e)[i] = IF i = Len(s) + 1 THEN e ELSE s[i]
  OBVIOUS
<1>2. Append(s, e) = [i \in 1 .. Len(s) + 1 |-> Append(s, e)[i]]
  BY <1>1, LenProperties
<1>3. ASSUME s # << >>
      PROVE  Tail(s) = [i \in 1 .. Len(s) - 1 |-> s[i + 1]]
  <2>1. /\ Tail(s) \in Seq(S) /\ Len(Tail(s)) = Len(s) - 1
        /\ \A i \in 1 .. Len(s) - 1 : Tail(s)[i] = s[i + 1]
    BY <1>3
  <2>2. Tail(s) = [i \in 1 .. Len(s) - 1 |-> Tail(s)[i]]
    BY <2>1, LenProperties
  <2>3. QED
    BY <2>1, <2>2
<1>4. QED
  BY <1>1, <1>2, <1>3

\* What the queue holds depends on its positions and their items alone.
LEMMA InsideStays ==
  ASSUME RingTypeOK, UNCHANGED <<head, tail>>,
         \A p \in tail .. head - 1 : ItemAt(p)' = ItemAt(p)
  PROVE  Inside' = Inside
<1>1. \A i \in 1 .. head - tail : tail + i - 1 \in tail .. head - 1
  BY DEF RingTypeOK
<1>2. \A i \in 1 .. head - tail : ItemAt(tail + i - 1)' = ItemAt(tail + i - 1)
  BY <1>1
<1>3. QED
  BY <1>2 DEF Inside

\* A thread that neither holds an item nor comes to hold one.
LEMMA SilentStep ==
  ASSUME RingTypeOK, RingInv, RingInv', UNCHANGED <<head, tail, contents>>, NEW t \in RingThreads,
         ringPc[t] \notin {"push_write", "pop_take", "pop_release"},
         ringPc'[t] \notin {"push_write", "pop_take", "pop_release"},
         \A u \in RingThreads \ {t} :
           ringPc'[u] = ringPc[u] /\ pos'[u] = pos[u] /\ item'[u] = item[u]
  PROVE  Inside' = Inside /\ \A u \in RingThreads : Taken(u)' = Taken(u)
<1>1. ASSUME NEW p \in tail .. head - 1
      PROVE  ItemAt(p)' = ItemAt(p)
  BY ItemStays
<1>2. ASSUME NEW u \in RingThreads
      PROVE  Taken(u)' = Taken(u)
  <2>1. CASE u = t
    BY <2>1 DEF Taken
  <2>2. CASE u # t
    BY <2>2 DEF Taken
  <2>3. QED
    BY <2>1, <2>2
<1>3. QED
  BY <1>1, <1>2, InsideStays

\* MpmcRingBuffer implements BoundedQueue: items are taken once, in the order in which
\* head was exchanged, and never more than the capacity are inside.
THEOREM RingImplementsBoundedQueue == RingSpec => ImplementsBoundedQueue
<1> USE RingAssumption
<1> DEFINE taken == [t \in RingThreads |-> Taken(t)]
<1>1. RingInit => Queue!QueueInit
  BY DEF RingInit, Queue!QueueInit
<1>2. ASSUME RingTypeOK, RingTypeOK', RingInv, RingInv', Filled, Filled', [RingNext]_ringVars
      PROVE  [Queue!QueueNext]_(Queue!queueVars)
  <2>1. ASSUME NEW t \in RingThreads,
               \/ \E i \in Items : BeginPush(t, i)
               \/ LoadHead(t) \/ LoadTail(t) \/ CheckPush(t) \/ CheckPop(t) \/ ClaimFails(t)
               \/ Publish(t)
        PROVE  UNCHANGED Queue!queueVars
    <3>1. UNCHANGED <<head, tail, contents>>
      BY <2>1 DEF BeginPush, LoadHead, LoadTail, CheckPush, CheckPop, ClaimFails, Publish
    <3>2. /\ ringPc[t] \notin {"push_write", "pop_take", "pop_release"}
          /\ ringPc'[t] \notin {"push_write", "pop_take", "pop_release"}
          /\ \A u \in RingThreads \ {t} :
               ringPc'[u] = ringPc[u] /\ pos'[u] = pos[u] /\ item'[u] = item[u]
      <4>1. CASE (\E i \in Items : BeginPush(t, i)) \/ LoadHead(t) \/ LoadTail(t)
        BY <1>2, <4>1 DEF BeginPush, LoadHead, LoadTail, RingGoto, RingTypeOK
      <4>2. CASE CheckPush(t) \/ CheckPop(t) \/ ClaimFails(t) \/ Publish(t)
        <5>1. \E from \in {"push_check", "push_claim", "pop_check", "pop_claim", "push_publish"},
                 to \in {"push_claim", "push_load", "pop_claim", "pop_load"} :
                GoOn(t, from, to) \/ RingReturn(t, from)
          BY <4>2, Zenon DEF CheckPush, CheckPop, ClaimFails, Publish
        <5>2. QED
          BY <1>2, <5>1 DEF GoOn, RingReturn, RingGoto, RingTypeOK
      <4>3. QED
        BY <2>1, <4>1, <4>2
    <3>3. Inside' = Inside /\ \A u \in RingThreads : Taken(u)' = Taken(u)
      BY <1>2, <3>1, <3>2, SilentStep
    <3>4. taken' = taken
      BY <3>3
    <3>5. QED
      BY <3>3, <3>4 DEF Queue!queueVars, Inside, Taken
  <2>2. ASSUME NEW t \in RingThreads, ClaimPush(t)
        PROVE  Queue!Put
    <3>1. /\ ringPc[t] = "push_claim" /\ ringPc'[t] = "push_write" /\ pos[t] = head
          /\ head' = head + 1 /\ UNCHANGED <<tail, sequence, contents, pos, item>>
          /\ \A u \in RingThreads \ {t} : ringPc'[u] = ringPc[u]
      BY <1>2, <2>2 DEF ClaimPush, GoOn, RingGoto, RingTypeOK
    <3>2. /\ head \in Nat /\ tail \in Nat /\ tail <= head /\ head + 1 <= tail + Capacity
          /\ item[t] \in Items
      BY <1>2, <3>1 DEF RingInv, Window, Filled, RingTypeOK
    <3>3. \A p \in tail .. head - 1 : ItemAt(p)' = ItemAt(p)
      BY <1>2, <3>1, <3>2, ItemStays
    <3>4. PICK h \in Nat : h = head
      BY <3>2
    <3>5. ItemAt(h)' = item[t]
      <4>1. ringPc'[t] = "push_write" /\ pos'[t] = h /\ item'[t] = item[t]
        BY <3>1, <3>4
      <4>2. \A u \in RingThreads : ringPc'[u] = "push_write" /\ pos'[u] = h => u = t
        BY <1>2, <4>1 DEF RingInv, Distinct, Owning, Pushing
      <4>3. QED
        BY <4>1, <4>2, OnlyWriter DEF ItemAt
    <3>6. Inside' = Append(Inside, item[t])
      <4>1. /\ Inside' = [i \in 1 .. (head - tail) + 1 |-> ItemAt(tail + i - 1)']
            /\ Len(Inside) = head - tail
        BY <3>1, <3>2 DEF Inside
      <4>2. \A i \in 1 .. (head - tail) + 1 :
              ItemAt(tail + i - 1)' = IF i = (head - tail) + 1 THEN item[t] ELSE ItemAt(tail + i - 1)
        <5> SUFFICES ASSUME NEW i \in 1 .. (head - tail) + 1
                     PROVE  ItemAt(tail + i - 1)'
                              = IF i = (head - tail) + 1 THEN item[t] ELSE ItemAt(tail + i - 1)
          OBVIOUS
        <5>1. CASE i = (head - tail) + 1
          <6>1. tail + i - 1 = h /\ tail' + i - 1 = h
            BY <3>1, <3>2, <3>4, <5>1
          <6>2. QED
            BY <3>5, <5>1, <6>1
        <5>2. CASE i # (head - tail) + 1
          <6>1. PICK p \in tail .. head - 1 : p = tail + i - 1
            BY <3>2, <5>2
          <6>2. ItemAt(p)' = ItemAt(p) /\ tail' + i - 1 = p
            BY <3>1, <3>3, <6>1
          <6>3. QED
            BY <5>2, <6>1, <6>2
        <5>3. QED
          BY <5>1, <5>2
      <4>3. /\ Inside \in Seq(Items) /\ Len(Inside) = head - tail
            /\ \A i \in 1 .. head - tail : Inside[i] = ItemAt(tail + i - 1)
        BY <1>2, ItemsInside
      <4>4. Append(Inside, item[t])
              = [i \in 1 .. (head - tail) + 1 |-> IF i = (head - tail) + 1 THEN item[t] ELSE Inside[i]]
        BY <3>2, <4>3, AppendAndTail
      <4>5. QED
        BY <3>2, <4>1, <4>2, <4>3, <4>4
    <3>7. \A u \in RingThreads : Taken(u)' = Taken(u)
      BY <3>1 DEF Taken
    <3>8. taken' = taken
      BY <3>7
    <3>9. Len(Inside) < Capacity
      BY <3>2 DEF Inside
    <3>10. QED
      BY <3>2, <3>6, <3>8, <3>9 DEF Queue!Put, Inside, Taken
  <2>3. ASSUME NEW t \in RingThreads, ClaimPop(t)
        PROVE  Queue!Take(t)
    <3>1. /\ ringPc[t] = "pop_claim" /\ ringPc'[t] = "pop_take" /\ pos[t] = tail
          /\ tail' = tail + 1 /\ UNCHANGED <<head, sequence, contents, pos, item>>
          /\ \A u \in RingThreads \ {t} : ringPc'[u] = ringPc[u]
      BY <1>2, <2>3 DEF ClaimPop, GoOn, RingGoto, RingTypeOK
    <3>2. head \in Nat /\ tail \in Nat /\ Number(tail) = tail + 1
      BY <1>2, <3>1 DEF RingInv, Seen, RingTypeOK
    <3>3. tail < head
      BY <1>2, <3>2 DEF RingInv, Window, Free
    <3>4. \A p \in tail .. head - 1 : ItemAt(p)' = ItemAt(p)
      BY <1>2, <3>1, <3>2, ItemStays
    <3>5. ItemAt(tail) = contents[Cell(tail)]
      <4>1. \A u \in RingThreads : ~(ringPc[u] = "push_write" /\ pos[u] = tail)
        BY <1>2, <3>2 DEF RingInv, Owners, Pushing
      <4>2. QED
        BY <4>1 DEF ItemAt
    <3>6. Inside # << >> /\ Head(Inside) = contents[Cell(tail)]
      BY <3>2, <3>3, <3>5 DEF Inside
    <3>7. Inside' = Tail(Inside)
      <4>1. Inside' = [i \in 1 .. (head - tail) - 1 |-> ItemAt(tail + i - 1)']
        BY <3>1, <3>2 DEF Inside
      <4>2. \A i \in 1 .. (head - tail) - 1 : ItemAt(tail + i - 1)' = ItemAt(tail + (i + 1) - 1)
        <5> SUFFICES ASSUME NEW i \in 1 .. (head - tail) - 1
                     PROVE  ItemAt(tail + i - 1)' = ItemAt(tail + (i + 1) - 1)
          OBVIOUS
        <5>1. PICK p \in tail .. head - 1 : p = tail + (i + 1) - 1 /\ p = tail' + i - 1
          BY <3>1, <3>2
        <5>2. ItemAt(p)' = ItemAt(p)
          BY <3>4, <5>1
        <5>3. QED
          BY <5>1, <5>2
      <4>3. Tail(Inside) = [i \in 1 .. (head - tail) - 1 |-> ItemAt(tail + (i + 1) - 1)]
        <5>1. /\ Inside \in Seq(Items) /\ Len(Inside) = head - tail
              /\ \A i \in 1 .. head - tail : Inside[i] = ItemAt(tail + i - 1)
          BY <1>2, ItemsInside
        <5>2. Tail(Inside) = [i \in 1 .. (head - tail) - 1 |-> Inside[i + 1]]
          BY <3>3, <3>6, <5>1, AppendAndTail
        <5>3. QED
          BY <3>2, <5>1, <5>2
      <4>4. QED
        BY <4>1, <4>2, <4>3
    <3>8. /\ Taken(t) = Empty /\ Taken(t)' = contents[Cell(tail)]
          /\ \A u \in RingThreads \ {t} : Taken(u)' = Taken(u)
      BY <3>1 DEF Taken
    <3>9. taken[t] = Empty /\ taken' = [taken EXCEPT ![t] = Head(Inside)]
      BY <3>6, <3>8
    <3>10. QED
      BY <3>6, <3>7, <3>9 DEF Queue!Take, Inside, Taken
  <2>4. ASSUME NEW t \in RingThreads, WriteData(t)
        PROVE  UNCHANGED Queue!queueVars
    <3>0. PICK q \in Nat : q = pos[t]
      BY <1>2 DEF RingTypeOK
    <3>1. /\ ringPc[t] = "push_write" /\ ringPc'[t] = "push_publish"
          /\ UNCHANGED <<head, tail, sequence, pos, item>> /\ contents'[Cell(q)] = item[t]
          /\ \A c \in Cells : c # Cell(q) => contents'[c] = contents[c]
          /\ \A u \in RingThreads \ {t} : ringPc'[u] = ringPc[u]
      BY <1>2, <2>4, <3>0, TurnAndCell DEF WriteData, GoOn, RingGoto, RingTypeOK
    <3>2. \A u \in RingThreads : pos[u] = q /\ ringPc[u] \in Owning => u = t
      BY <1>2, <3>0, <3>1 DEF RingInv, Distinct, Owning, Pushing
    <3>3. ASSUME NEW p \in tail .. head - 1
          PROVE  ItemAt(p)' = ItemAt(p)
      <4>1. CASE p = q
        <5>1. ItemAt(p) = item[t]
          BY <1>2, <3>0, <3>1, <4>1, ItemOfWriter
        <5>2. \A u \in RingThreads : ~(ringPc'[u] = "push_write" /\ pos'[u] = q)
          BY <3>1, <3>2 DEF Owning, Pushing
        <5>3. ItemAt(q)' = contents'[Cell(q)]
          BY <5>2 DEF ItemAt
        <5>4. QED
          BY <3>1, <4>1, <5>1, <5>3
      <4>2. CASE p # q
        <5>1. head \in Nat /\ tail \in Nat /\ head <= tail + Capacity
          BY <1>2 DEF RingInv, Window, RingTypeOK
        <5>2. tail <= q /\ q < head
          BY <1>2, <3>0, <3>1 DEF RingInv, Owners, Owning, Pushing
        <5>3. p \in Nat /\ p < q + Capacity /\ q < p + Capacity
          BY <5>1, <5>2
        <5>4. Cell(p) # Cell(q) /\ Cell(p) \in Cells
          BY <4>2, <5>3, NearCellsDiffer, TurnAndCell
        <5>5. QED
          BY <1>2, <3>0, <3>1, <4>2, <5>4, ItemStays
      <4>3. QED
        BY <4>1, <4>2
    <3>4. Inside' = Inside
      BY <1>2, <3>1, <3>3, InsideStays
    <3>5. ASSUME NEW u \in RingThreads
          PROVE  Taken(u)' = Taken(u)
      <4>1. ASSUME ringPc[u] = "pop_take"
            PROVE  contents'[Cell(pos[u])] = contents[Cell(pos[u])]
        <5>1. Cell(pos[u]) # Cell(q) /\ Cell(pos[u]) \in Cells
          BY <1>2, <3>0, <3>1, <4>1, OwnersAreApart, TurnAndCell
          DEF RingInv, RingTypeOK, Owning, Pushing, Popping
        <5>2. QED
          BY <3>1, <5>1
      <4>2. QED
        BY <3>1, <4>1 DEF Taken
    <3>6. taken' = taken
      BY <3>5
    <3>7. QED
      BY <3>4, <3>6 DEF Queue!queueVars, Inside, Taken
  <2>5. ASSUME NEW t \in RingThreads, TakeData(t)
        PROVE  UNCHANGED Queue!queueVars
    <3>0. PICK q \in Nat : q = pos[t]
      BY <1>2 DEF RingTypeOK
    <3>1. /\ ringPc[t] = "pop_take" /\ ringPc'[t] = "pop_release"
          /\ UNCHANGED <<head, tail, sequence, pos>> /\ item'[t] = contents[Cell(q)]
          /\ \A c \in Cells : c # Cell(q) => contents'[c] = contents[c]
          /\ \A u \in RingThreads \ {t} : ringPc'[u] = ringPc[u] /\ item'[u] = item[u]
      BY <1>2, <2>5, <3>0, TurnAndCell DEF TakeData, RingGoto, RingTypeOK
    <3>2. ASSUME NEW p \in tail .. head - 1
          PROVE  ItemAt(p)' = ItemAt(p)
      <4>1. /\ head \in Nat /\ tail \in Nat /\ q < tail /\ head <= q + Capacity
        BY <1>2, <3>0, <3>1 DEF RingInv, Owners, Owning, Popping, RingTypeOK
      <4>2. p \in Nat /\ p # q /\ p < q + Capacity /\ q < p + Capacity
        BY <4>1
      <4>3. Cell(p) # Cell(q) /\ Cell(p) \in Cells
        BY <4>2, NearCellsDiffer, TurnAndCell
      <4>4. QED
        BY <1>2, <3>1, <4>3, ItemStays
    <3>3. Inside' = Inside
      BY <1>2, <3>1, <3>2, InsideStays
    <3>4. ASSUME NEW u \in RingThreads
          PROVE  Taken(u)' = Taken(u)
      <4>1. CASE u = t
        BY <3>0, <3>1, <4>1 DEF Taken
      <4>2. CASE u # t
        <5>1. ASSUME ringPc[u] = "pop_take"
              PROVE  contents'[Cell(pos[u])] = contents[Cell(pos[u])]
          <6>1. Cell(pos[u]) # Cell(q) /\ Cell(pos[u]) \in Cells
            BY <1>2, <3>0, <3>1, <4>2, <5>1, OwnersAreApart, TurnAndCell
            DEF RingInv, RingTypeOK, Owning, Popping
          <6>2. QED
            BY <3>1, <6>1
        <5>2. QED
          BY <3>1, <4>2, <5>1 DEF Taken
      <4>3. QED
        BY <4>1, <4>2
    <3>5. taken' = taken
      BY <3>4
    <3>6. QED
      BY <3>3, <3>5 DEF Queue!queueVars, Inside, Taken
  <2>6. ASSUME NEW t \in RingThreads, ReleaseCell(t)
        PROVE  Queue!Return(t)
    <3>1. /\ ringPc[t] = "pop_release" /\ ringPc'[t] = "idle" /\ UNCHANGED <<head, tail, contents>>
          /\ \A u \in RingThreads \ {t} :
               ringPc'[u] = ringPc[u] /\ pos'[u] = pos[u] /\ item'[u] = item[u]
      BY <1>2, <2>6 DEF ReleaseCell, RingReturn, RingGoto, RingTypeOK
    <3>2. \A p \in tail .. head - 1 : ItemAt(p)' = ItemAt(p)
      BY <1>2, <3>1, ItemStays
    <3>3. Inside' = Inside
      BY <1>2, <3>1, <3>2, InsideStays
    <3>4. /\ Taken(t) = item[t] /\ item[t] \in Items /\ Taken(t)' = Empty
          /\ \A u \in RingThreads \ {t} : Taken(u)' = Taken(u)
      BY <1>2, <3>1 DEF Taken, Filled
    <3>5. taken[t] # Empty /\ taken' = [taken EXCEPT ![t] = Empty]
      BY <3>4
    <3>6. QED
      BY <3>3, <3>5 DEF Queue!Return, Inside, Taken
  <2>7. CASE UNCHANGED ringVars
    BY <2>7 DEF ringVars, Queue!queueVars, ItemAt
  <2>8. QED
    BY <1>2, <2>1, <2>2, <2>3, <2>4, <2>5, <2>6, <2>7 DEF RingNext, RingStep, Queue!QueueNext
<1>3. QED
  BY <1>1, <1>2, RingTypeCorrect, RingInvHolds, FilledHolds, PTL
  DEF RingSpec, ImplementsBoundedQueue, Queue!QueueSpec
===============================================================================
