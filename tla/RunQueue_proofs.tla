---------------------------- MODULE RunQueue_proofs ---------------------------
(***************************************************************************)
(* Theorems about RunQueue, for any set of CPUs and threads, any number of *)
(* priority levels and any scheduling parameters: types, the bitmap, the   *)
(* request to reschedule for real-time threads, the thread schedule()      *)
(* takes, and the count of runnable threads.                               *)
(***************************************************************************)
EXTENDS RunQueue, FiniteSetTheorems, SequenceTheorems, WellFoundedInduction, TLAPS

\* ClassQueue::enqueue puts every thread into one of the queue's slots.
LEMMA SlotType ==
  ASSUME NEW p \in Params \cup {DefaultParams}
  PROVE  /\ SlotOf(p) \in Slots
         /\ SlotOf(p)[1] = p.class
<1>1. p.class \in Classes /\ p.priority \in Int /\ p.rt_priority \in Nat
  BY RunQueueAssumption
<1>2. \A n \in Int : Clamp(n) \in Levels
  BY RunQueueAssumption DEF Clamp, Levels
<1>3. 0 \in Levels
  BY RunQueueAssumption DEF Levels
<1>4. CASE p.class \in {1, 2, 3}
  BY <1>1, <1>2, <1>4 DEF SlotOf, Slots
<1>5. CASE p.class \in {4, 5}
  BY <1>1, <1>2, <1>5 DEF SlotOf, Slots
<1>6. CASE p.class \in {0, 6}
  BY <1>1, <1>3, <1>6 DEF SlotOf, Slots
<1>7. QED
  BY <1>1, <1>4, <1>5, <1>6 DEF Classes

\* Taking one entry out of a sequence.
LEMMA WithoutType ==
  ASSUME NEW q \in Seq(Threads), NEW i \in DOMAIN q
  PROVE  /\ Without(q, i) \in Seq(Threads)
         /\ Len(Without(q, i)) = Len(q) - 1
<1>1. Len(q) \in Nat /\ i \in 1 .. Len(q)
  BY LenProperties
<1>2. /\ SubSeq(q, 1, i - 1) \in Seq(Threads)
      /\ Len(SubSeq(q, 1, i - 1)) = i - 1
  BY <1>1, SubSeqProperties
<1>3. /\ SubSeq(q, i + 1, Len(q)) \in Seq(Threads)
      /\ Len(SubSeq(q, i + 1, Len(q))) = Len(q) - i
  BY <1>1, SubSeqProperties
<1> DEFINE before == SubSeq(q, 1, i - 1)
<1> DEFINE after == SubSeq(q, i + 1, Len(q))
<1> HIDE DEF before, after
<1>4. /\ before \o after \in Seq(Threads)
      /\ Len(before \o after) = Len(before) + Len(after)
  BY <1>2, <1>3, ConcatProperties DEF before, after
<1>5. Without(q, i) = before \o after
  BY DEF Without, before, after
<1>6. Len(before) = i - 1 /\ Len(after) = Len(q) - i
  BY <1>2, <1>3 DEF before, after
<1>7. QED
  BY <1>1, <1>4, <1>5, <1>6

\* A non-empty set of numbers up to n has a greatest one.
LEMMA GreatestExists ==
  ASSUME NEW n \in Nat, NEW S, S \subseteq 0 .. n, S # {}
  PROVE  \E x \in S : \A y \in S : y <= x
<1> DEFINE T == {n - x : x \in S}
<1>1. T \subseteq Nat /\ T # {}
  <2>1. \A x \in S : x \in Int /\ 0 <= x /\ x <= n
    OBVIOUS
  <2>2. \A x \in S : n - x \in Nat
    BY <2>1
  <2>3. QED
    BY <2>2
<1>2. PICK m \in T : \A j \in T : ~ (<<j, m>> \in OpToRel(<, Nat))
  <2> HIDE DEF T
  <2>1. QED
    BY <1>1, NatLessThanWellFounded, WFMin
<1>3. \A j \in T : ~ (j < m)
  BY <1>1, <1>2 DEF OpToRel
<1>4. PICK x \in S : m = n - x
  BY <1>2
<1>5. \A y \in S : y <= x
  <2> TAKE y \in S
  <2>1. n - y \in T
    OBVIOUS
  <2>2. ~ (n - y < n - x)
    BY <1>3, <1>4, <2>1
  <2>3. QED
    BY <2>2
<1>6. QED
  BY <1>5

\* Highest finds the greatest level of a set.
LEMMA HighestIsGreatest ==
  ASSUME NEW S \in SUBSET Levels, S # {}
  PROVE  Highest(S) \in S /\ \A y \in S : y <= Highest(S)
<1>1. \E x \in S : \A y \in S : y <= x
  <2>1. PRIORITY_LEVELS - 1 \in Nat
    BY RunQueueAssumption
  <2>2. QED
    BY <2>1, GreatestExists DEF Levels
<1>2. QED
  BY <1>1 DEF Highest

\* When a class offers a thread, one of the classes that do is asked first.
LEMMA SomeClassIsAsked ==
  ASSUME NEW c \in CPUs, NEW k0 \in Classes, Offers(c, k0)
  PROVE  \E k \in Classes : Asked(c, k) /\ Rank(k0) <= Rank(k)
<1> DEFINE R == {Rank(k) : k \in {j \in Classes : Offers(c, j)}}
<1>1. \A k \in Classes : Rank(k) \in 0 .. 6
  BY DEF Classes, Rank
<1>2. R \subseteq 0 .. 6 /\ R # {}
  BY <1>1
<1>3. PICK r \in R : \A q \in R : q <= r
  <2> HIDE DEF R
  <2>1. QED
    BY <1>2, GreatestExists
<1>4. PICK k \in Classes : Offers(c, k) /\ r = Rank(k)
  BY <1>3
<1>5. \A j \in Classes : Offers(c, j) => Rank(j) <= Rank(k)
  BY <1>3, <1>4
<1>6. QED
  BY <1>4, <1>5 DEF Asked

-------------------------------------------------------------------------------
(* The queues and their bitmap *)

\* What the bitmap invariant says, slot by slot.
QueueTypes ==
  /\ queue \in [CPUs -> [Slots -> Seq(Threads)]]
  /\ bitmap \in [CPUs -> [Classes -> SUBSET Levels]]

\* PriorityQueues::enqueue_priority keeps the bitmap.
LEMMA PushKeepsBitmap ==
  ASSUME QueueTypes, BitmapMatchesLevels,
         NEW c \in CPUs, NEW s \in Slots, NEW t \in Threads,
         queue' = [queue EXCEPT ![c][s] = Append(@, t)],
         bitmap' = [bitmap EXCEPT ![c][s[1]] = @ \cup {s[2]}]
  PROVE  /\ QueueTypes' /\ BitmapMatchesLevels'
         /\ \A d \in CPUs : d # c => queue'[d] = queue[d]
         /\ \A r \in Slots : r # s => queue'[c][r] = queue[c][r]
<1>1. s[1] \in Classes /\ s[2] \in Levels /\ s = <<s[1], s[2]>>
  BY DEF Slots
<1>2. Append(queue[c][s], t) \in Seq(Threads) /\ Append(queue[c][s], t) # << >>
  BY AppendProperties DEF QueueTypes
<1>3. /\ queue' \in [CPUs -> [Slots -> Seq(Threads)]]
      /\ bitmap' \in [CPUs -> [Classes -> SUBSET Levels]]
  BY <1>1, <1>2 DEF QueueTypes
<1>4. /\ \A d \in CPUs : d # c => queue'[d] = queue[d] /\ bitmap'[d] = bitmap[d]
      /\ \A r \in Slots : r # s => queue'[c][r] = queue[c][r]
      /\ queue'[c][s] # << >>
      /\ \A k \in Classes : k # s[1] => bitmap'[c][k] = bitmap[c][k]
      /\ bitmap'[c][s[1]] = bitmap[c][s[1]] \cup {s[2]}
  BY <1>1, <1>2 DEF QueueTypes
<1>5. ASSUME NEW d \in CPUs, NEW k \in Classes, NEW l \in Levels
      PROVE  l \in bitmap'[d][k] <=> queue'[d][<<k, l>>] # << >>
  <2>1. l \in bitmap[d][k] <=> queue[d][<<k, l>>] # << >>
    BY DEF BitmapMatchesLevels
  <2>2. <<k, l>> \in Slots
    BY DEF Slots
  <2>3. CASE d = c /\ <<k, l>> = s
    BY <1>1, <1>4, <2>3
  <2>4. CASE d = c /\ <<k, l>> # s
    BY <1>1, <1>4, <2>1, <2>2, <2>4
  <2>5. CASE d # c
    BY <1>4, <2>1, <2>5
  <2>6. QED
    BY <2>3, <2>4, <2>5
<1>6. BitmapMatchesLevels'
  BY <1>3, <1>5 DEF BitmapMatchesLevels
<1>7. QED
  BY <1>3, <1>4, <1>6 DEF QueueTypes

\* PriorityQueues::dequeue and pick_next keep the bitmap.
LEMMA RemoveKeepsBitmap ==
  ASSUME QueueTypes, BitmapMatchesLevels,
         NEW c \in CPUs, NEW s \in Slots, NEW i \in DOMAIN queue[c][s],
         Remove(c, s, i)
  PROVE  /\ QueueTypes' /\ BitmapMatchesLevels'
         /\ \A d \in CPUs : d # c => queue'[d] = queue[d]
         /\ \A r \in Slots : queue'[c][r] # << >> => queue[c][r] # << >>
<1>1. s[1] \in Classes /\ s[2] \in Levels /\ s = <<s[1], s[2]>>
  BY DEF Slots
<1> DEFINE rest == Without(queue[c][s], i)
<1>2. /\ queue[c][s] \in Seq(Threads)
      /\ rest \in Seq(Threads) /\ Len(rest) = Len(queue[c][s]) - 1
      /\ Len(queue[c][s]) \in Nat /\ queue[c][s] # << >>
  <2>1. queue[c][s] \in Seq(Threads)
    BY DEF QueueTypes
  <2> DEFINE q == queue[c][s]
  <2> HIDE DEF q
  <2>2. q \in Seq(Threads) /\ i \in DOMAIN q
    BY <2>1 DEF q
  <2>3. Len(q) \in Nat /\ q # << >>
    BY <2>2, LenProperties, EmptySeq
  <2>4. Without(q, i) \in Seq(Threads) /\ Len(Without(q, i)) = Len(q) - 1
    BY <2>2, WithoutType
  <2>5. QED
    BY <2>2, <2>3, <2>4 DEF q
<1>3. rest = << >> <=> Len(queue[c][s]) = 1
  <2>1. rest = << >> <=> Len(rest) = 0
    <3> HIDE DEF rest
    <3>1. QED
      BY <1>2, EmptySeq
  <2>2. QED
    BY <1>2, <2>1
<1> HIDE DEF rest
<1>4. queue' = [queue EXCEPT ![c][s] = rest]
  BY DEF Remove, rest
<1>5. /\ queue' \in [CPUs -> [Slots -> Seq(Threads)]]
      /\ \A d \in CPUs : d # c => queue'[d] = queue[d]
      /\ \A r \in Slots : r # s => queue'[c][r] = queue[c][r]
      /\ queue'[c][s] = rest
  BY <1>2, <1>4 DEF QueueTypes
<1>6. /\ bitmap' \in [CPUs -> [Classes -> SUBSET Levels]]
      /\ \A d \in CPUs : d # c => bitmap'[d] = bitmap[d]
      /\ \A k \in Classes : k # s[1] => bitmap'[c][k] = bitmap[c][k]
      /\ bitmap'[c][s[1]] = IF rest = << >> THEN bitmap[c][s[1]] \ {s[2]}
                                             ELSE bitmap[c][s[1]]
  BY <1>1, <1>3 DEF Remove, QueueTypes
<1>7. ASSUME NEW d \in CPUs, NEW k \in Classes, NEW l \in Levels
      PROVE  l \in bitmap'[d][k] <=> queue'[d][<<k, l>>] # << >>
  <2>1. l \in bitmap[d][k] <=> queue[d][<<k, l>>] # << >>
    BY DEF BitmapMatchesLevels
  <2>2. <<k, l>> \in Slots
    BY DEF Slots
  <2>3. CASE d = c /\ <<k, l>> = s
    BY <1>1, <1>2, <1>5, <1>6, <2>1, <2>3
  <2>4. CASE d = c /\ <<k, l>> # s
    BY <1>1, <1>5, <1>6, <2>1, <2>2, <2>4
  <2>5. CASE d # c
    BY <1>5, <1>6, <2>1, <2>5
  <2>6. QED
    BY <2>3, <2>4, <2>5
<1>8. BitmapMatchesLevels'
  BY <1>6, <1>7 DEF BitmapMatchesLevels
<1>9. \A r \in Slots : queue'[c][r] # << >> => queue[c][r] # << >>
  BY <1>2, <1>5
<1>10. QED
  BY <1>5, <1>6, <1>8, <1>9 DEF QueueTypes

-------------------------------------------------------------------------------
(* schedule() *)

\* The class of a thread that is queued offers one.
LEMMA QueuedIsOffered ==
  ASSUME QueueTypes, BitmapMatchesLevels,
         NEW c \in CPUs, NEW k \in Classes, NEW l \in Levels,
         queue[c][<<k, l>>] # << >>
  PROVE  Offers(c, k)
<1>1. l \in bitmap[c][k] /\ bitmap[c][k] \in SUBSET Levels
  BY DEF BitmapMatchesLevels, QueueTypes
<1>2. Highest(bitmap[c][k]) \in bitmap[c][k]
  BY <1>1, HighestIsGreatest
<1>3. queue[c][<<k, Highest(bitmap[c][k])>>] # << >>
  BY <1>2 DEF BitmapMatchesLevels
<1>4. QED
  BY <1>1, <1>3 DEF Offers

\* The classes that real-time threads give way to are real-time classes.
LEMMA RealTimeRanks ==
  ASSUME NEW j \in RealTime, NEW k \in Classes, Rank(j) <= Rank(k)
  PROVE  k \in RealTime
BY DEF RealTime, Classes, Rank

\* The thread pick_next takes, and where it comes from.
LEMMA PickThreadTakes ==
  ASSUME TypeOK, BitmapMatchesLevels, NEW c \in CPUs, PickThread(c)
  PROVE  /\ QueueTypes' /\ BitmapMatchesLevels'
         /\ \A d \in CPUs : d # c => queue'[d] = queue[d]
         /\ current' \in [CPUs -> Threads \cup {None}]
         /\ picked' \in [CPUs -> Classes]
         /\ slice' \in [CPUs -> 0 .. TIME_SLICE]
         /\ is_idle' \in [CPUs -> BOOLEAN]
         /\ \A d \in CPUs : d # c => current'[d] = current[d] /\ picked'[d] = picked[d]
         /\ current'[c] \in Threads
         /\ RealTimeQueued(c)' => picked'[c] \in RealTime
<1> DEFINE slot(k) == <<k, Highest(bitmap[c][k])>>
<1>1. PICK k \in Classes :
        /\ Asked(c, k)
        /\ Remove(c, slot(k), 1)
        /\ current' = [current EXCEPT ![c] = Head(queue[c][slot(k)])]
        /\ picked' = [picked EXCEPT ![c] = k]
        /\ is_idle' = [is_idle EXCEPT ![c] = @ /\ Head(queue[c][slot(k)]) = current[c]]
        /\ slice' = [slice EXCEPT ![c] =
                      IF Head(queue[c][slot(k)]) = current[c] THEN @ ELSE TIME_SLICE]
  BY DEF PickThread
<1> DEFINE s == slot(k)
<1>2. QueueTypes
  BY DEF TypeOK, QueueTypes
<1>3. s \in Slots /\ queue[c][s] # << >>
  <2>1. bitmap[c][k] \in SUBSET Levels /\ bitmap[c][k] # {}
    BY <1>1, <1>2 DEF QueueTypes, Asked, Offers
  <2>2. Highest(bitmap[c][k]) \in Levels
    BY <2>1, HighestIsGreatest
  <2>3. QED
    BY <1>1, <2>2 DEF Slots, Asked, Offers
<1> DEFINE q == queue[c][s]
<1>4. q \in Seq(Threads) /\ q # << >>
  BY <1>2, <1>3 DEF QueueTypes
<1> DEFINE new == Head(q)
<1>5. new \in Threads /\ 1 \in DOMAIN q
  <2> HIDE DEF q
  <2>1. Head(q) \in Threads
    BY <1>4, HeadTailProperties
  <2>2. Len(q) \in Nat /\ Len(q) # 0 /\ DOMAIN q = 1 .. Len(q)
    BY <1>4, LenProperties, EmptySeq
  <2>3. 1 \in DOMAIN q
    BY <2>2
  <2>4. QED
    BY <2>1, <2>3
<1>6. Remove(c, s, 1)
  BY <1>1
<1>7. /\ current' = [current EXCEPT ![c] = new]
      /\ is_idle' = [is_idle EXCEPT ![c] = @ /\ new = current[c]]
      /\ slice' = [slice EXCEPT ![c] = IF new = current[c] THEN @ ELSE TIME_SLICE]
  BY <1>1
<1>8. 1 \in DOMAIN queue[c][s]
  BY <1>5
<1> HIDE DEF q, new, s, slot
<1>9. /\ QueueTypes' /\ BitmapMatchesLevels'
      /\ \A d \in CPUs : d # c => queue'[d] = queue[d]
      /\ \A r \in Slots : queue'[c][r] # << >> => queue[c][r] # << >>
  BY <1>2, <1>3, <1>6, <1>8, RemoveKeepsBitmap
<1>10. /\ current' \in [CPUs -> Threads \cup {None}]
       /\ \A d \in CPUs : d # c => current'[d] = current[d]
       /\ current'[c] \in Threads
  BY <1>5, <1>7 DEF TypeOK
<1>11. /\ picked' \in [CPUs -> Classes]
       /\ \A d \in CPUs : d # c => picked'[d] = picked[d]
       /\ picked'[c] = k
  BY <1>1 DEF TypeOK
<1>12. is_idle' \in [CPUs -> BOOLEAN]
  BY <1>7 DEF TypeOK
<1>13. slice' \in [CPUs -> 0 .. TIME_SLICE]
  <2>1. TIME_SLICE \in 0 .. TIME_SLICE
    BY RunQueueAssumption
  <2>2. QED
    BY <1>7, <2>1 DEF TypeOK
<1>14. ASSUME RealTimeQueued(c)'  PROVE k \in RealTime
  <2>1. PICK j \in RealTime, l \in Levels : queue'[c][<<j, l>>] # << >>
    BY <1>14 DEF RealTimeQueued
  <2>2. j \in Classes /\ <<j, l>> \in Slots
    BY DEF RealTime, Classes, Slots
  <2>3. Offers(c, j)
    BY <1>2, <1>9, <2>1, <2>2, QueuedIsOffered
  <2>4. Rank(j) <= Rank(k)
    BY <1>1, <2>2, <2>3 DEF Asked
  <2>5. QED
    BY <2>4, RealTimeRanks
<1>15. QED
  BY <1>9, <1>10, <1>11, <1>12, <1>13, <1>14

\* A CPU that finds no thread to run has no real-time thread queued.
LEMMA PickNoneTakes ==
  ASSUME TypeOK, BitmapMatchesLevels, NEW c \in CPUs, PickNone(c)
  PROVE  /\ queue' = queue /\ bitmap' = bitmap /\ slice' = slice /\ picked' = picked
         /\ current' \in [CPUs -> Threads \cup {None}]
         /\ is_idle' \in [CPUs -> BOOLEAN]
         /\ \A d \in CPUs : d # c => current'[d] = current[d]
         /\ ~RealTimeQueued(c)'
<1>1. /\ queue' = queue /\ bitmap' = bitmap /\ slice' = slice /\ picked' = picked
      /\ current' = [current EXCEPT ![c] = None]
      /\ is_idle' = [is_idle EXCEPT ![c] = @ \/ current[c] # None]
      /\ \A k \in Classes : ~Offers(c, k)
  BY DEF PickNone
<1>2. QueueTypes
  BY DEF TypeOK, QueueTypes
<1>3. ASSUME RealTimeQueued(c)'  PROVE FALSE
  <2>1. PICK j \in RealTime, l \in Levels : queue[c][<<j, l>>] # << >>
    BY <1>1, <1>3 DEF RealTimeQueued
  <2>2. j \in Classes
    BY DEF RealTime, Classes
  <2>3. Offers(c, j)
    BY <1>2, <2>1, <2>2, QueuedIsOffered
  <2>4. QED
    BY <1>1, <2>2, <2>3
<1>4. /\ current' \in [CPUs -> Threads \cup {None}]
      /\ \A d \in CPUs : d # c => current'[d] = current[d]
  BY <1>1 DEF TypeOK
<1>5. is_idle' \in [CPUs -> BOOLEAN]
  BY <1>1 DEF TypeOK
<1>6. QED
  BY <1>1, <1>3, <1>4, <1>5

\* CpuRunQueue::schedule: after it the CPU runs a real-time thread if one is queued.
LEMMA ScheduleKeeps ==
  ASSUME TypeOK, BitmapMatchesLevels, NEW c \in CPUs, schedule(c),
         pc' \in [CPUs -> {"run", "schedule"}],
         in_tick' \in [CPUs -> BOOLEAN],
         lock' \in [CPUs -> CPUs \cup {None}]
  PROVE  /\ TypeOK' /\ BitmapMatchesLevels'
         /\ RealTimeQueued(c)' => RealTimeRuns(c)'
         /\ \A d \in CPUs : d # c => /\ RealTimeQueued(d)' = RealTimeQueued(d)
                                    /\ RealTimeRuns(d)' = RealTimeRuns(d)
                                    /\ need_resched'[d] = need_resched[d]
<1>1. /\ need_resched' = [need_resched EXCEPT ![c] = FALSE]
      /\ nr_running' = nr_running
      /\ PickNone(c) \/ PickThread(c)
  BY DEF schedule
<1>2. /\ need_resched' \in [CPUs -> BOOLEAN]
      /\ \A d \in CPUs : d # c => need_resched'[d] = need_resched[d]
  BY <1>1 DEF TypeOK
<1>3. nr_running' \in [CPUs -> Int]
  BY <1>1 DEF TypeOK
<1>4. CASE PickNone(c)
  <2>1. /\ queue' = queue /\ bitmap' = bitmap /\ slice' = slice /\ picked' = picked
        /\ current' \in [CPUs -> Threads \cup {None}]
        /\ is_idle' \in [CPUs -> BOOLEAN]
        /\ \A d \in CPUs : d # c => current'[d] = current[d]
        /\ ~RealTimeQueued(c)'
    BY <1>4, PickNoneTakes
  <2>2. TypeOK'
    BY <1>2, <1>3, <2>1 DEF TypeOK
  <2>3. BitmapMatchesLevels'
    BY <2>1 DEF BitmapMatchesLevels
  <2>4. \A d \in CPUs : d # c => RealTimeQueued(d)' = RealTimeQueued(d)
    BY <2>1 DEF RealTimeQueued
  <2>5. \A d \in CPUs : d # c => RealTimeRuns(d)' = RealTimeRuns(d)
    BY <2>1 DEF RealTimeRuns
  <2>6. QED
    BY <1>2, <2>1, <2>2, <2>3, <2>4, <2>5
<1>5. CASE PickThread(c)
  <2>1. /\ QueueTypes' /\ BitmapMatchesLevels'
        /\ \A d \in CPUs : d # c => queue'[d] = queue[d]
        /\ current' \in [CPUs -> Threads \cup {None}]
        /\ picked' \in [CPUs -> Classes]
        /\ slice' \in [CPUs -> 0 .. TIME_SLICE]
        /\ is_idle' \in [CPUs -> BOOLEAN]
        /\ \A d \in CPUs : d # c => current'[d] = current[d] /\ picked'[d] = picked[d]
        /\ current'[c] \in Threads
        /\ RealTimeQueued(c)' => picked'[c] \in RealTime
    BY <1>5, PickThreadTakes
  <2>2. TypeOK'
    BY <1>2, <1>3, <2>1 DEF TypeOK, QueueTypes
  <2>3. RealTimeQueued(c)' => RealTimeRuns(c)'
    BY <2>1, RunQueueAssumption DEF RealTimeRuns
  <2>4. \A d \in CPUs : d # c => RealTimeQueued(d)' = RealTimeQueued(d)
    BY <2>1 DEF RealTimeQueued
  <2>5. \A d \in CPUs : d # c => RealTimeRuns(d)' = RealTimeRuns(d)
    BY <2>1 DEF RealTimeRuns
  <2>6. QED
    BY <1>2, <2>1, <2>2, <2>3, <2>4, <2>5
<1>6. QED
  BY <1>1, <1>4, <1>5

-------------------------------------------------------------------------------
(* The inductive invariant *)

\* Each part needs the others: schedule() finds a queued real-time thread only
\* through the bitmap, and the bitmap is only meaningful for typed queues.
IInv == TypeOK /\ BitmapMatchesLevels /\ RealTimeAsksForResched

\* What RealTimeAsksForResched says of one CPU.
Asks(c) == RealTimeQueued(c) => RealTimeRuns(c) \/ need_resched[c] \/ pc[c] = "schedule"

\* Every CPU starts with empty queues and no bit set.
LEMMA InitHolds == Init => IInv
<1> SUFFICES ASSUME Init PROVE IInv
  OBVIOUS
<1>1. \A s \in Slots : << >> \in Seq(Threads)
  BY EmptySeq
<1>2. TIME_SLICE \in 0 .. TIME_SLICE
  BY RunQueueAssumption
<1>3. 0 \in Classes
  BY DEF Classes
<1>4. TypeOK
  BY <1>1, <1>2, <1>3 DEF Init, TypeOK
<1>5. \A c \in CPUs, k \in Classes :
        bitmap[c][k] = {} /\ \A l \in Levels : queue[c][<<k, l>>] = << >>
  BY DEF Init, Slots
<1>6. BitmapMatchesLevels
  BY <1>5 DEF BitmapMatchesLevels
<1>7. RealTime \subseteq Classes
  BY DEF RealTime, Classes
<1>8. RealTimeAsksForResched
  BY <1>5, <1>7 DEF RealTimeAsksForResched, RealTimeQueued
<1>9. QED
  BY <1>4, <1>6, <1>8 DEF IInv

\* enqueue(), whoever calls it.
LEMMA EnqueueKeeps ==
  ASSUME IInv, NEW c \in CPUs, NEW t \in Threads,
         NEW p \in Params \cup {DefaultParams}, enqueue(c, t, p)
  PROVE  IInv'
<1> DEFINE s == SlotOf(p)
<1>1. s \in Slots /\ s[1] = p.class
  BY SlotType
<1>2. /\ queue' = [queue EXCEPT ![c][s] = Append(@, t)]
      /\ bitmap' = [bitmap EXCEPT ![c][s[1]] = @ \cup {s[2]}]
      /\ nr_running' = [nr_running EXCEPT ![c] = @ + 1]
      /\ need_resched' = [need_resched EXCEPT ![c] = @ \/ ShouldPreempt(p)]
      /\ current' = current /\ slice' = slice /\ is_idle' = is_idle
      /\ pc' = pc /\ in_tick' = in_tick /\ lock' = lock /\ picked' = picked
  BY DEF enqueue
<1> HIDE DEF s
<1>3. TypeOK /\ BitmapMatchesLevels /\ QueueTypes
  BY DEF IInv, TypeOK, QueueTypes
<1>4. /\ QueueTypes' /\ BitmapMatchesLevels'
      /\ \A d \in CPUs : d # c => queue'[d] = queue[d]
      /\ \A r \in Slots : r # s => queue'[c][r] = queue[c][r]
  BY <1>1, <1>2, <1>3, PushKeepsBitmap
<1>5. nr_running' \in [CPUs -> Int]
  BY <1>2, <1>3 DEF TypeOK
<1>6. ShouldPreempt(p) \in BOOLEAN
  BY DEF ShouldPreempt
<1>7. /\ need_resched' \in [CPUs -> BOOLEAN]
      /\ \A d \in CPUs : d # c => need_resched'[d] = need_resched[d]
      /\ need_resched'[c] = (need_resched[c] \/ ShouldPreempt(p))
  BY <1>2, <1>3, <1>6, Zenon DEF TypeOK
<1>8. TypeOK'
  BY <1>2, <1>3, <1>4, <1>5, <1>7 DEF TypeOK, QueueTypes
<1>9. ASSUME NEW d \in CPUs  PROVE Asks(d)'
  <2>1. Asks(d)
    BY DEF IInv, RealTimeAsksForResched, Asks
  <2>2. RealTimeRuns(d)' = RealTimeRuns(d) /\ pc'[d] = pc[d]
    BY <1>2 DEF RealTimeRuns
  <2>3. CASE d # c
    <3>1. RealTimeQueued(d)' = RealTimeQueued(d) /\ need_resched'[d] = need_resched[d]
      BY <1>4, <1>7, <2>3 DEF RealTimeQueued
    <3>2. QED
      BY <2>1, <2>2, <3>1 DEF Asks
  <2>4. CASE d = c /\ p.class \in RealTime
    <3>1. need_resched'[d]
      BY <1>7, <2>4 DEF ShouldPreempt
    <3>2. QED
      BY <3>1 DEF Asks
  <2>5. CASE d = c /\ p.class \notin RealTime
    <3>1. \A k \in RealTime, l \in Levels : <<k, l>> \in Slots /\ <<k, l>> # s
      BY <1>1, <2>5 DEF Slots, RealTime, Classes
    <3>2. RealTimeQueued(d)' => RealTimeQueued(d)
      BY <1>4, <2>5, <3>1 DEF RealTimeQueued
    <3>3. need_resched[d] => need_resched'[d]
      BY <1>7, <2>5
    <3>4. QED
      BY <2>1, <2>2, <3>2, <3>3 DEF Asks
  <2>6. QED
    BY <2>3, <2>4, <2>5
<1>10. RealTimeAsksForResched'
  BY <1>9 DEF RealTimeAsksForResched, Asks
<1>11. QED
  BY <1>4, <1>8, <1>10 DEF IInv

\* dequeue() of a thread that is queued on this CPU.
LEMMA DequeueKeeps ==
  ASSUME IInv, NEW c \in CPUs, NEW t \in Threads, Dequeue(c, t)
  PROVE  IInv'
<1>1. PICK s \in Slots : \E i \in DOMAIN queue[c][s] :
        /\ queue[c][s][i] = t
        /\ Remove(c, s, i)
        /\ nr_running' = [nr_running EXCEPT ![c] = @ - 1]
        /\ UNCHANGED <<current, slice, need_resched, is_idle, pc, in_tick, lock, picked>>
  BY DEF Dequeue
<1>2. PICK i \in DOMAIN queue[c][s] :
        /\ Remove(c, s, i)
        /\ nr_running' = [nr_running EXCEPT ![c] = @ - 1]
        /\ UNCHANGED <<current, slice, need_resched, is_idle, pc, in_tick, lock, picked>>
  BY <1>1
<1>3. TypeOK /\ BitmapMatchesLevels /\ QueueTypes
  BY DEF IInv, TypeOK, QueueTypes
<1>4. /\ QueueTypes' /\ BitmapMatchesLevels'
      /\ \A d \in CPUs : d # c => queue'[d] = queue[d]
      /\ \A r \in Slots : queue'[c][r] # << >> => queue[c][r] # << >>
  BY <1>2, <1>3, RemoveKeepsBitmap
<1>5. nr_running' \in [CPUs -> Int]
  BY <1>2, <1>3 DEF TypeOK
<1>6. TypeOK'
  BY <1>2, <1>3, <1>4, <1>5 DEF TypeOK, QueueTypes
<1>7. ASSUME NEW d \in CPUs  PROVE Asks(d)'
  <2>1. Asks(d)
    BY DEF IInv, RealTimeAsksForResched, Asks
  <2>2. \A k \in RealTime, l \in Levels : <<k, l>> \in Slots
    BY DEF Slots, RealTime, Classes
  <2>3. RealTimeQueued(d)' => RealTimeQueued(d)
    BY <1>4, <2>2 DEF RealTimeQueued
  <2>4. RealTimeRuns(d)' = RealTimeRuns(d)
    BY <1>2 DEF RealTimeRuns
  <2>5. need_resched'[d] = need_resched[d] /\ pc'[d] = pc[d]
    BY <1>2
  <2>6. QED
    BY <2>1, <2>3, <2>4, <2>5 DEF Asks
<1>8. RealTimeAsksForResched'
  BY <1>7 DEF RealTimeAsksForResched, Asks
<1>9. QED
  BY <1>4, <1>6, <1>8 DEF IInv

\* A step that leaves the queues alone: only the third part is left to show.
LEMMA QuietStepKeeps ==
  ASSUME IInv, TypeOK', queue' = queue, bitmap' = bitmap,
         \A d \in CPUs : Asks(d)'
  PROVE  IInv'
<1>1. BitmapMatchesLevels'
  BY DEF IInv, BitmapMatchesLevels
<1>2. RealTimeAsksForResched'
  BY DEF RealTimeAsksForResched, Asks
<1>3. QED
  BY <1>1, <1>2 DEF IInv

\* A step that ends in schedule(): on CPU c no request is needed any more, and
\* the other CPUs see nothing of it.
LEMMA ScheduleStepKeeps ==
  ASSUME IInv, NEW c \in CPUs, schedule(c),
         pc' \in [CPUs -> {"run", "schedule"}],
         in_tick' \in [CPUs -> BOOLEAN],
         lock' \in [CPUs -> CPUs \cup {None}],
         \A d \in CPUs : d # c => pc'[d] = pc[d]
  PROVE  IInv'
<1>1. TypeOK /\ BitmapMatchesLevels
  BY DEF IInv
<1>2. /\ TypeOK' /\ BitmapMatchesLevels'
      /\ RealTimeQueued(c)' => RealTimeRuns(c)'
      /\ \A d \in CPUs : d # c => /\ RealTimeQueued(d)' = RealTimeQueued(d)
                                 /\ RealTimeRuns(d)' = RealTimeRuns(d)
                                 /\ need_resched'[d] = need_resched[d]
  BY <1>1, ScheduleKeeps
<1>3. ASSUME NEW d \in CPUs  PROVE Asks(d)'
  <2>1. CASE d = c
    BY <1>2, <2>1 DEF Asks
  <2>2. CASE d # c
    <3>1. Asks(d)
      BY DEF IInv, RealTimeAsksForResched, Asks
    <3>2. QED
      BY <1>2, <2>2, <3>1 DEF Asks
  <2>3. QED
    BY <2>1, <2>2
<1>4. RealTimeAsksForResched'
  BY <1>3 DEF RealTimeAsksForResched, Asks
<1>5. QED
  BY <1>2, <1>4 DEF IInv

\* yield_current(): schedule() is still to come.
LEMMA YieldKeeps ==
  ASSUME IInv, NEW c \in CPUs, YieldCurrent(c)
  PROVE  IInv'
<1>1. TypeOK
  BY DEF IInv
<1>2. /\ need_resched' = [need_resched EXCEPT ![c] = TRUE]
      /\ pc' = [pc EXCEPT ![c] = "schedule"]
      /\ UNCHANGED <<queue, bitmap, current, nr_running, slice, is_idle, in_tick, lock, picked>>
  BY DEF YieldCurrent
<1>3. TypeOK'
  BY <1>1, <1>2 DEF TypeOK
<1>4. ASSUME NEW d \in CPUs  PROVE Asks(d)'
  <2>1. Asks(d)
    BY DEF IInv, RealTimeAsksForResched, Asks
  <2>2. CASE d = c
    BY <1>1, <1>2, <2>2 DEF Asks, TypeOK
  <2>3. CASE d # c
    <3>1. need_resched'[d] = need_resched[d] /\ pc'[d] = pc[d]
      BY <1>1, <1>2, <2>3 DEF TypeOK
    <3>2. RealTimeQueued(d)' = RealTimeQueued(d) /\ RealTimeRuns(d)' = RealTimeRuns(d)
      BY <1>2 DEF RealTimeQueued, RealTimeRuns
    <3>3. QED
      BY <2>1, <3>1, <3>2 DEF Asks
  <2>4. QED
    BY <2>2, <2>3
<1>5. QED
  BY <1>2, <1>3, <1>4, QuietStepKeeps

\* block_current(): the CPU runs no thread, schedule() is still to come.
LEMMA BlockKeeps ==
  ASSUME IInv, NEW c \in CPUs, BlockCurrent(c)
  PROVE  IInv'
<1>1. TypeOK
  BY DEF IInv
<1>2. /\ current' = [current EXCEPT ![c] = None]
      /\ nr_running' = [nr_running EXCEPT ![c] = @ - 1]
      /\ pc' = [pc EXCEPT ![c] = "schedule"]
      /\ UNCHANGED <<queue, bitmap, slice, need_resched, is_idle, in_tick, lock, picked>>
  BY DEF BlockCurrent
<1>3. TypeOK'
  BY <1>1, <1>2 DEF TypeOK
<1>4. ASSUME NEW d \in CPUs  PROVE Asks(d)'
  <2>1. Asks(d)
    BY DEF IInv, RealTimeAsksForResched, Asks
  <2>2. CASE d = c
    BY <1>1, <1>2, <2>2 DEF Asks, TypeOK
  <2>3. CASE d # c
    <3>1. current'[d] = current[d] /\ pc'[d] = pc[d]
      BY <1>1, <1>2, <2>3 DEF TypeOK
    <3>2. RealTimeQueued(d)' = RealTimeQueued(d) /\ RealTimeRuns(d)' = RealTimeRuns(d)
      BY <1>2, <3>1 DEF RealTimeQueued, RealTimeRuns
    <3>3. QED
      BY <1>2, <2>1, <3>1, <3>2 DEF Asks
  <2>4. QED
    BY <2>2, <2>3
<1>5. QED
  BY <1>2, <1>3, <1>4, QuietStepKeeps

\* The first half of the timer interrupt only ever sets need_resched.
LEMMA TickSliceKeeps ==
  ASSUME IInv, NEW c \in CPUs, TickSlice(c)
  PROVE  IInv'
<1>1. TypeOK
  BY DEF IInv
<1>2. /\ in_tick' = [in_tick EXCEPT ![c] = TRUE]
      /\ slice' = [slice EXCEPT ![c] = IF @ = 0 THEN 0 ELSE @ - 1]
      /\ need_resched' = [need_resched EXCEPT ![c] = @ \/ slice[c] = 1]
      /\ UNCHANGED <<queue, bitmap, current, nr_running, is_idle, pc, picked>>
  BY DEF TickSlice
<1>3. slice' \in [CPUs -> 0 .. TIME_SLICE]
  <2>1. slice \in [CPUs -> 0 .. TIME_SLICE] /\ TIME_SLICE \in Nat
    BY <1>1, RunQueueAssumption DEF TypeOK
  <2>2. (IF slice[c] = 0 THEN 0 ELSE slice[c] - 1) \in 0 .. TIME_SLICE
    BY <2>1
  <2>3. QED
    BY <1>2, <2>1, <2>2
<1>4. /\ need_resched' \in [CPUs -> BOOLEAN]
      /\ \A d \in CPUs : need_resched[d] => need_resched'[d]
  BY <1>1, <1>2, Zenon DEF TypeOK
<1>5. TypeOK'
  <2>1. lock' \in [CPUs -> CPUs \cup {None}]
    BY <1>1 DEF TickSlice, TypeOK
  <2>2. QED
    BY <1>1, <1>2, <1>3, <1>4, <2>1 DEF TypeOK
<1>6. ASSUME NEW d \in CPUs  PROVE Asks(d)'
  <2>1. Asks(d)
    BY DEF IInv, RealTimeAsksForResched, Asks
  <2>2. RealTimeQueued(d)' = RealTimeQueued(d) /\ RealTimeRuns(d)' = RealTimeRuns(d)
    BY <1>2 DEF RealTimeQueued, RealTimeRuns
  <2>3. QED
    BY <1>2, <1>4, <2>1, <2>2 DEF Asks
<1>7. QED
  BY <1>2, <1>5, <1>6, QuietStepKeeps

\* The end of the timer interrupt.
LEMMA TickEndsKeepsTypes ==
  ASSUME TypeOK, NEW c \in CPUs, TickEnds(c)
  PROVE  in_tick' \in [CPUs -> BOOLEAN] /\ lock' \in [CPUs -> CPUs \cup {None}]
BY DEF TypeOK, TickEnds

\* The timer interrupt that finds nothing to do.
LEMMA TickReturnsKeeps ==
  ASSUME IInv, NEW c \in CPUs, TickReturns(c)
  PROVE  IInv'
<1>1. TypeOK
  BY DEF IInv
<1>2. /\ TickEnds(c)
      /\ UNCHANGED <<queue, bitmap, current, nr_running, slice, need_resched,
                     is_idle, pc, picked>>
  BY DEF TickReturns
<1>3. TypeOK'
  BY <1>1, <1>2, TickEndsKeepsTypes DEF TypeOK
<1>4. ASSUME NEW d \in CPUs  PROVE Asks(d)'
  <2>1. Asks(d)
    BY DEF IInv, RealTimeAsksForResched, Asks
  <2>2. RealTimeQueued(d)' = RealTimeQueued(d) /\ RealTimeRuns(d)' = RealTimeRuns(d)
    BY <1>2 DEF RealTimeQueued, RealTimeRuns
  <2>3. QED
    BY <1>2, <2>1, <2>2 DEF Asks
<1>5. QED
  BY <1>2, <1>3, <1>4, QuietStepKeeps

\* One step per operation.
LEMMA StepKeeps == IInv /\ [Next]_vars => IInv'
<1> SUFFICES ASSUME IInv, [Next]_vars PROVE IInv'
  OBVIOUS
<1>1. TypeOK
  BY DEF IInv
<1>2. ASSUME NEW c \in CPUs, NEW t \in Threads, NEW p \in Params, Enqueue(c, t, p)
      PROVE  IInv'
  <2>1. enqueue(c, t, p)
    BY <1>2 DEF Enqueue
  <2>2. QED
    BY <2>1, EnqueueKeeps
<1>3. ASSUME NEW c \in CPUs, NEW t \in Threads, WakeUp(c, t)
      PROVE  IInv'
  <2>1. enqueue(c, t, DefaultParams)
    BY <1>3 DEF WakeUp
  <2>2. QED
    BY <2>1, EnqueueKeeps
<1>4. ASSUME NEW c \in CPUs, ScheduleNow(c)
      PROVE  IInv'
  <2>1. schedule(c) /\ pc' = pc /\ in_tick' = in_tick /\ lock' = lock
    BY <1>4 DEF ScheduleNow
  <2>2. /\ pc' \in [CPUs -> {"run", "schedule"}] /\ in_tick' \in [CPUs -> BOOLEAN]
        /\ lock' \in [CPUs -> CPUs \cup {None}]
    BY <1>1, <2>1 DEF TypeOK
  <2>3. QED
    BY <2>1, <2>2, ScheduleStepKeeps
<1>5. ASSUME NEW c \in CPUs, CallSchedule(c)
      PROVE  IInv'
  <2>1. /\ schedule(c) /\ pc' = [pc EXCEPT ![c] = "run"]
        /\ in_tick' = in_tick /\ lock' = lock
    BY <1>5 DEF CallSchedule
  <2>2. /\ pc' \in [CPUs -> {"run", "schedule"}] /\ in_tick' \in [CPUs -> BOOLEAN]
        /\ lock' \in [CPUs -> CPUs \cup {None}]
        /\ \A d \in CPUs : d # c => pc'[d] = pc[d]
    BY <1>1, <2>1 DEF TypeOK
  <2>3. QED
    BY <2>1, <2>2, ScheduleStepKeeps
<1>6. ASSUME NEW c \in CPUs, TickReschedules(c)
      PROVE  IInv'
  <2>1. schedule(c) /\ TickEnds(c) /\ pc' = pc
    BY <1>6 DEF TickReschedules
  <2>2. /\ pc' \in [CPUs -> {"run", "schedule"}] /\ in_tick' \in [CPUs -> BOOLEAN]
        /\ lock' \in [CPUs -> CPUs \cup {None}]
    BY <1>1, <2>1, TickEndsKeepsTypes DEF TypeOK
  <2>3. QED
    BY <2>1, <2>2, ScheduleStepKeeps
<1>7. CASE UNCHANGED vars
  <2>1. TypeOK'
    BY <1>1, <1>7 DEF TypeOK, vars
  <2>2. ASSUME NEW d \in CPUs  PROVE Asks(d)'
    <3>1. Asks(d)
      BY DEF IInv, RealTimeAsksForResched, Asks
    <3>2. RealTimeQueued(d)' = RealTimeQueued(d) /\ RealTimeRuns(d)' = RealTimeRuns(d)
      BY <1>7 DEF RealTimeQueued, RealTimeRuns, vars
    <3>3. QED
      BY <1>7, <3>1, <3>2 DEF Asks, vars
  <2>3. queue' = queue /\ bitmap' = bitmap
    BY <1>7 DEF vars
  <2>4. QED
    BY <2>1, <2>2, <2>3, QuietStepKeeps
<1>8. QED
  BY <1>2, <1>3, <1>4, <1>5, <1>6, <1>7, DequeueKeeps, YieldKeeps, BlockKeeps,
     TickSliceKeeps, TickReturnsKeeps DEF Next

-------------------------------------------------------------------------------
(* Theorems *)

\* The invariant holds in every state.
LEMMA IInvHolds == Spec => []IInv
BY InitHolds, StepKeeps, PTL DEF Spec

\* Every queue holds threads, every counter a number, every slice at most
\* DEFAULT_TIME_SLICE_NS: the run queues are what percpu.rs declares.
THEOREM TypeCorrect == Spec => []TypeOK
<1>1. IInv => TypeOK
  BY DEF IInv
<1>2. QED
  BY IInvHolds, <1>1, PTL

\* The bitmap pick_next reads (percpu.rs:467-484) is exact for any number of
\* levels: no queued thread is overlooked, and no set bit leads to an empty level.
THEOREM BitmapAlwaysMatches == Spec => []BitmapMatchesLevels
<1>1. IInv => BitmapMatchesLevels
  BY DEF IInv
<1>2. QED
  BY IInvHolds, <1>1, PTL

\* A real-time thread never waits on a CPU that has not been told to reschedule
\* (percpu.rs:158-165, 216), on any number of CPUs.
THEOREM RealTimeAlwaysAsks == Spec => []RealTimeAsksForResched
<1>1. IInv => RealTimeAsksForResched
  BY DEF IInv
<1>2. QED
  BY IInvHolds, <1>1, PTL

-------------------------------------------------------------------------------
(* What schedule() picks *)

\* The action property HighestClassRuns, for one CPU.
TakesHighest(c) ==
  current'[c] \notin {None, current[c]} =>
    \A k \in Classes, l \in Levels :
      queue[c][<<k, l>>] # << >> =>
        /\ Rank(k) <= Rank(picked'[c])
        /\ k = picked'[c] => \E m \in Levels :
                               m >= l /\ queue'[c][<<k, m>>] # queue[c][<<k, m>>]

\* pick_next takes from the highest class, and from its highest level.
LEMMA PickThreadTakesHighest ==
  ASSUME TypeOK, BitmapMatchesLevels, NEW c \in CPUs, PickThread(c)
  PROVE  TakesHighest(c)
<1>1. PICK j \in Classes :
        /\ Asked(c, j)
        /\ Remove(c, <<j, Highest(bitmap[c][j])>>, 1)
        /\ picked' = [picked EXCEPT ![c] = j]
  BY DEF PickThread
<1>2. QueueTypes /\ picked'[c] = j
  BY <1>1 DEF TypeOK, QueueTypes
<1> DEFINE m == Highest(bitmap[c][j])
<1> DEFINE s == <<j, m>>
<1>3. /\ m \in Levels /\ \A l \in bitmap[c][j] : l <= m
      /\ queue[c][s] # << >>
  <2>1. bitmap[c][j] \in SUBSET Levels /\ bitmap[c][j] # {}
    BY <1>1, <1>2 DEF QueueTypes, Asked, Offers
  <2>2. m \in bitmap[c][j] /\ \A l \in bitmap[c][j] : l <= m
    BY <2>1, HighestIsGreatest
  <2>3. QED
    BY <1>1, <2>1, <2>2 DEF Asked, Offers
<1>4. Remove(c, s, 1) /\ s \in Slots
  BY <1>1, <1>3 DEF Slots
<1> HIDE DEF m
<1>5. queue[c][s] \in Seq(Threads) /\ queue'[c][s] = Without(queue[c][s], 1)
  BY <1>2, <1>4 DEF Remove, QueueTypes
<1> DEFINE q == queue[c][s]
<1> HIDE DEF q
<1>6. q \in Seq(Threads) /\ q # << >> /\ queue'[c][s] = Without(q, 1)
  BY <1>3, <1>5 DEF q
<1>7. 1 \in DOMAIN q
  <2>1. Len(q) \in Nat /\ Len(q) # 0 /\ DOMAIN q = 1 .. Len(q)
    BY <1>6, LenProperties, EmptySeq
  <2>2. QED
    BY <2>1
<1>8. queue'[c][s] # queue[c][s]
  <2>1. Len(Without(q, 1)) = Len(q) - 1 /\ Len(q) \in Nat
    BY <1>6, <1>7, WithoutType, LenProperties
  <2>2. Without(q, 1) # q
    BY <2>1
  <2>3. QED
    BY <1>6, <2>2 DEF q
<1>9. ASSUME NEW k \in Classes, NEW l \in Levels, queue[c][<<k, l>>] # << >>
      PROVE  /\ Rank(k) <= Rank(j)
             /\ k = j => l <= m
  <2>1. Offers(c, k)
    BY <1>2, <1>9, QueuedIsOffered
  <2>2. Rank(k) <= Rank(j)
    BY <1>1, <2>1 DEF Asked
  <2>3. l \in bitmap[c][k]
    BY <1>9 DEF BitmapMatchesLevels
  <2>4. QED
    BY <1>3, <2>2, <2>3
<1>10. ASSUME NEW l \in Levels, l <= m
       PROVE  \E n \in Levels : n >= l /\ queue'[c][<<j, n>>] # queue[c][<<j, n>>]
  <2>1. m >= l
    BY <1>3, <1>10 DEF Levels
  <2>2. queue'[c][<<j, m>>] # queue[c][<<j, m>>]
    BY <1>8
  <2>3. QED
    BY <1>3, <2>1, <2>2
<1>11. QED
  BY <1>2, <1>9, <1>10 DEF TakesHighest

\* schedule() of one CPU seen from all of them.
LEMMA ScheduleTakesHighest ==
  ASSUME TypeOK, BitmapMatchesLevels, NEW c \in CPUs, schedule(c), NEW d \in CPUs
  PROVE  TakesHighest(d)
<1>1. CASE PickNone(c)
  <2>1. current' = [current EXCEPT ![c] = None]
    BY <1>1 DEF PickNone
  <2>2. current'[d] \in {None, current[d]}
    BY <2>1 DEF TypeOK
  <2>3. QED
    BY <2>2 DEF TakesHighest
<1>2. CASE PickThread(c)
  <2>1. CASE d = c
    BY <1>2, <2>1, PickThreadTakesHighest
  <2>2. CASE d # c
    <3>1. current'[d] = current[d]
      BY <1>2, <2>2, PickThreadTakes
    <3>2. QED
      BY <3>1 DEF TakesHighest
  <2>3. QED
    BY <2>1, <2>2
<1>3. QED
  BY <1>1, <1>2 DEF schedule

\* Only schedule() changes a CPU to another thread.
LEMMA StepTakesHighest ==
  ASSUME TypeOK, BitmapMatchesLevels, [Next]_vars, NEW d \in CPUs
  PROVE  TakesHighest(d)
<1>1. ASSUME NEW c \in CPUs, schedule(c)  PROVE TakesHighest(d)
  BY <1>1, ScheduleTakesHighest
<1>2. ASSUME current'[d] \in {None, current[d]}  PROVE TakesHighest(d)
  BY <1>2 DEF TakesHighest
<1>3. ASSUME NEW c \in CPUs, NEW t \in Threads, NEW p, enqueue(c, t, p)
      PROVE  TakesHighest(d)
  BY <1>2, <1>3 DEF enqueue
<1>4. ASSUME NEW c \in CPUs, NEW t \in Threads, Dequeue(c, t)  PROVE TakesHighest(d)
  BY <1>2, <1>4 DEF Dequeue
<1>5. ASSUME NEW c \in CPUs, BlockCurrent(c)  PROVE TakesHighest(d)
  <2>1. current' = [current EXCEPT ![c] = None]
    BY <1>5 DEF BlockCurrent
  <2>2. current'[d] \in {None, current[d]}
    BY <2>1 DEF TypeOK
  <2>3. QED
    BY <1>2, <2>2
<1>6. ASSUME NEW c \in CPUs, YieldCurrent(c) \/ TickSlice(c) \/ TickReturns(c)
      PROVE  TakesHighest(d)
  BY <1>2, <1>6 DEF YieldCurrent, TickSlice, TickReturns
<1>7. CASE UNCHANGED vars
  BY <1>2, <1>7 DEF vars
<1>8. CASE Next
  BY <1>1, <1>3, <1>4, <1>5, <1>6, <1>8
     DEF Next, Enqueue, WakeUp, ScheduleNow, CallSchedule, TickReschedules
<1>9. QED
  BY <1>7, <1>8

\* schedule() takes a thread of the highest class and level queued on its CPU
\* (percpu.rs:182), for any number of levels and whatever the threads' parameters.
THEOREM AlwaysTakesHighest == Spec => HighestClassRuns
<1>1. IInv /\ [Next]_vars => \A c \in CPUs : TakesHighest(c)
  BY StepTakesHighest DEF IInv
<1>2. IInv /\ [Next]_vars =>
        [\A c \in CPUs :
           current'[c] \notin {None, current[c]} =>
             \A k \in Classes, l \in Levels :
               queue[c][<<k, l>>] # << >> =>
                 /\ Rank(k) <= Rank(picked'[c])
                 /\ k = picked'[c] => \E m \in Levels :
                                        m >= l /\ queue'[c][<<k, m>>] # queue[c][<<k, m>>]]_vars
  BY <1>1 DEF TakesHighest
<1>3. QED
  BY IInvHolds, <1>2, PTL DEF Spec, HighestClassRuns

-------------------------------------------------------------------------------
(* What nr_running counts *)

\* The invariant NrRunningCovers, for one CPU, with what its proof adds: the queue of
\* the CPU holds finitely many threads, so that they can be counted one by one.
Covers(c) == IsFiniteSet(Entries(c)) /\ nr_running[c] >= Backlog(c)

\* The entries of a queue, level by level.
LEMMA EntryIsPlace ==
  ASSUME NEW c, queue[c] \in [Slots -> Seq(Threads)], NEW s \in Slots, NEW i
  PROVE  <<s, i>> \in Entries(c) <=> i \in 1 .. Len(queue[c][s])
<1>1. DOMAIN queue[c][s] = 1 .. Len(queue[c][s])
  BY LenProperties
<1>2. <<s, i>> \in Entries(c) <=> i \in DOMAIN queue[c][s]
  BY DEF Entries
<1>3. QED
  BY <1>1, <1>2

\* An entry is a slot and a position in it.
LEMMA EntryIsPair ==
  ASSUME NEW c, NEW e \in Entries(c)
  PROVE  \E s \in Slots : \E i : e = <<s, i>>
BY DEF Entries

\* What a queue that changed in slot s alone holds.
LEMMA EntriesChanged ==
  ASSUME TypeOK, QueueTypes', NEW c \in CPUs, NEW s \in Slots,
         \A r \in Slots : r # s => queue'[c][r] = queue[c][r]
  PROVE  /\ Len(queue'[c][s]) = Len(queue[c][s]) + 1 =>
              /\ Entries(c)' = Entries(c) \cup {<<s, Len(queue'[c][s])>>}
              /\ <<s, Len(queue'[c][s])>> \notin Entries(c)
         /\ Len(queue'[c][s]) = Len(queue[c][s]) - 1 =>
              /\ Entries(c)' = Entries(c) \ {<<s, Len(queue[c][s])>>}
              /\ <<s, Len(queue[c][s])>> \in Entries(c)
<1>1. queue[c] \in [Slots -> Seq(Threads)] /\ queue'[c] \in [Slots -> Seq(Threads)]
  BY DEF TypeOK, QueueTypes
<1>2. PICK m \in Nat, n \in Nat : m = Len(queue[c][s]) /\ n = Len(queue'[c][s])
  BY <1>1, LenProperties
<1>3. \A r \in Slots : \A i : <<r, i>> \in Entries(c) <=> i \in 1 .. Len(queue[c][r])
  BY <1>1, EntryIsPlace
<1>4. ASSUME NEW r \in Slots, NEW i
      PROVE  <<r, i>> \in Entries(c)' <=> i \in 1 .. Len(queue'[c][r])
  <2>1. DOMAIN queue'[c][r] = 1 .. Len(queue'[c][r])
    BY <1>1, LenProperties
  <2>2. <<r, i>> \in Entries(c)' <=> i \in DOMAIN queue'[c][r]
    BY DEF Entries
  <2>3. QED
    BY <2>1, <2>2
<1>5. \A e \in Entries(c) : \E r \in Slots : \E i : e = <<r, i>>
  BY EntryIsPair
<1>6. \A e \in Entries(c)' : \E r \in Slots : \E i : e = <<r, i>>
  BY DEF Entries
<1>7. ASSUME NEW r \in Slots, r # s, NEW i
      PROVE  <<r, i>> \in Entries(c)' <=> <<r, i>> \in Entries(c)
  BY <1>3, <1>4, <1>7
<1>8. \A i : /\ <<s, i>> \in Entries(c) <=> i \in 1 .. m
             /\ <<s, i>> \in Entries(c)' <=> i \in 1 .. n
  BY <1>2, <1>3, <1>4
<1>9. ASSUME n = m + 1
      PROVE  /\ Entries(c)' = Entries(c) \cup {<<s, n>>} /\ <<s, n>> \notin Entries(c)
  <2>1. \A i : i \in 1 .. n <=> i \in 1 .. m \/ i = n
    BY <1>9
  <2>2. n \notin 1 .. m
    BY <1>9
  <2>3. <<s, n>> \notin Entries(c)
    BY <1>8, <2>2
  <2>4. ASSUME NEW r \in Slots, NEW i
        PROVE  <<r, i>> \in Entries(c)' <=> <<r, i>> \in Entries(c) \cup {<<s, n>>}
    BY <1>7, <1>8, <2>1
  <2>5. Entries(c)' = Entries(c) \cup {<<s, n>>}
    BY <1>5, <1>6, <2>4
  <2>6. QED
    BY <2>3, <2>5
<1>10. ASSUME n = m - 1
       PROVE  /\ Entries(c)' = Entries(c) \ {<<s, m>>} /\ <<s, m>> \in Entries(c)
  <2>1. \A i : i \in 1 .. n <=> i \in 1 .. m /\ i # m
    BY <1>10
  <2>2. m \in 1 .. m
    BY <1>10
  <2>3. <<s, m>> \in Entries(c)
    BY <1>8, <2>2
  <2>4. ASSUME NEW r \in Slots, NEW i
        PROVE  <<r, i>> \in Entries(c)' <=> <<r, i>> \in Entries(c) \ {<<s, m>>}
    BY <1>7, <1>8, <2>1
  <2>5. Entries(c)' = Entries(c) \ {<<s, m>>}
    BY <1>5, <1>6, <2>4
  <2>6. QED
    BY <2>3, <2>5
<1>11. QED
  BY <1>2, <1>9, <1>10

\* CPUs whose queue, current thread and counter stay as they are.
LEMMA CoversKept ==
  ASSUME NEW c \in CPUs, Covers(c), queue'[c] = queue[c],
         current'[c] = current[c], nr_running'[c] = nr_running[c]
  PROVE  Covers(c)'
<1>1. Entries(c)' = Entries(c)
  BY DEF Entries
<1>2. QED
  BY <1>1 DEF Covers, Backlog

\* An enqueued thread takes one place more, and is counted.
LEMMA EnqueueCovers ==
  ASSUME IInv, NEW c \in CPUs, NEW t \in Threads, NEW p \in Params \cup {DefaultParams},
         enqueue(c, t, p), \A d \in CPUs : Covers(d)
  PROVE  \A d \in CPUs : Covers(d)'
<1>1. PICK s \in Slots : s = SlotOf(p)
  BY SlotType
<1>2. /\ queue' = [queue EXCEPT ![c][s] = Append(@, t)]
      /\ nr_running' = [nr_running EXCEPT ![c] = @ + 1]
      /\ current' = current
  BY <1>1 DEF enqueue
<1>3. TypeOK /\ TypeOK'
  BY EnqueueKeeps DEF IInv
<1>4. /\ queue[c][s] \in Seq(Threads) /\ queue'[c][s] = Append(queue[c][s], t)
      /\ \A r \in Slots : r # s => queue'[c][r] = queue[c][r]
      /\ \A d \in CPUs : d # c => queue'[d] = queue[d]
  BY <1>2, <1>3 DEF TypeOK
<1>5. Len(queue'[c][s]) = Len(queue[c][s]) + 1
  BY <1>4, AppendProperties
<1>6. QueueTypes'
  BY <1>3 DEF TypeOK, QueueTypes
<1>7. PICK e : Entries(c)' = Entries(c) \cup {e} /\ e \notin Entries(c)
  BY <1>3, <1>4, <1>5, <1>6, EntriesChanged
<1>8. /\ IsFiniteSet(Entries(c)') /\ Cardinality(Entries(c)') = Cardinality(Entries(c)) + 1
      /\ Cardinality(Entries(c)) \in Nat
  BY <1>7, FS_AddElement, FS_CardinalityType DEF Covers
<1>9. nr_running'[c] = nr_running[c] + 1 /\ nr_running[c] \in Int
      /\ \A d \in CPUs : d # c => nr_running'[d] = nr_running[d]
  BY <1>2, <1>3 DEF TypeOK
<1>10. Covers(c)'
  BY <1>2, <1>8, <1>9 DEF Covers, Backlog
<1>11. \A d \in CPUs : d # c => Covers(d)'
  BY <1>2, <1>4, <1>9, CoversKept
<1>12. QED
  BY <1>10, <1>11

\* A removed thread leaves one place less.
LEMMA RemoveCovers ==
  ASSUME IInv, QueueTypes', NEW c \in CPUs, NEW s \in Slots, NEW i \in DOMAIN queue[c][s],
         Remove(c, s, i), Covers(c)
  PROVE  /\ IsFiniteSet(Entries(c)')
         /\ Cardinality(Entries(c)') = Cardinality(Entries(c)) - 1
         /\ Cardinality(Entries(c)) \in Nat
<1>1. TypeOK /\ queue[c][s] \in Seq(Threads)
  BY DEF IInv, TypeOK
<1>2. /\ queue'[c][s] = Without(queue[c][s], i)
      /\ \A r \in Slots : r # s => queue'[c][r] = queue[c][r]
  BY <1>1 DEF TypeOK, Remove
<1>3. Len(queue'[c][s]) = Len(queue[c][s]) - 1
  BY <1>1, <1>2, WithoutType
<1>4. PICK e : Entries(c)' = Entries(c) \ {e} /\ e \in Entries(c)
  BY <1>1, <1>2, <1>3, EntriesChanged
<1>5. QED
  BY <1>4, FS_RemoveElement, FS_CardinalityType DEF Covers

\* dequeue_cpu() counts down for the thread it found, and only then.
LEMMA DequeueCovers ==
  ASSUME IInv, NEW c \in CPUs, NEW t \in Threads, Dequeue(c, t), \A d \in CPUs : Covers(d)
  PROVE  \A d \in CPUs : Covers(d)'
<1>0. PICK s \in Slots :
        \E i \in DOMAIN queue[c][s] :
          /\ Remove(c, s, i)
          /\ nr_running' = [nr_running EXCEPT ![c] = @ - 1]
          /\ current' = current
  BY DEF Dequeue
<1>1. PICK i \in DOMAIN queue[c][s] :
        /\ Remove(c, s, i)
        /\ nr_running' = [nr_running EXCEPT ![c] = @ - 1]
        /\ current' = current
  BY <1>0
<1>2. TypeOK /\ QueueTypes'
  BY DequeueKeeps DEF IInv, TypeOK, QueueTypes
<1>3. /\ IsFiniteSet(Entries(c)')
      /\ Cardinality(Entries(c)') = Cardinality(Entries(c)) - 1
      /\ Cardinality(Entries(c)) \in Nat
  BY <1>1, <1>2, RemoveCovers
<1>4. /\ nr_running'[c] = nr_running[c] - 1 /\ nr_running[c] \in Int
      /\ \A d \in CPUs : d # c => nr_running'[d] = nr_running[d] /\ queue'[d] = queue[d]
  BY <1>1, <1>2 DEF TypeOK, Remove
<1>5. Covers(c)'
  BY <1>1, <1>3, <1>4 DEF Covers, Backlog
<1>6. \A d \in CPUs : d # c => Covers(d)'
  BY <1>1, <1>4, CoversKept
<1>7. QED
  BY <1>5, <1>6

\* schedule() moves a thread from the queue to the CPU, or takes the current one away.
LEMMA ScheduleCovers ==
  ASSUME IInv, IInv', NEW c \in CPUs, schedule(c), \A d \in CPUs : Covers(d)
  PROVE  \A d \in CPUs : Covers(d)'
<1>1. TypeOK /\ QueueTypes /\ QueueTypes' /\ BitmapMatchesLevels
      /\ nr_running' = nr_running /\ nr_running[c] \in Int
  BY DEF IInv, TypeOK, QueueTypes, schedule
<1>2. CASE PickNone(c)
  <2>1. queue' = queue /\ current' = [current EXCEPT ![c] = None]
    BY <1>2 DEF PickNone
  <2>2. current'[c] = None /\ \A d \in CPUs : d # c => current'[d] = current[d]
    BY <1>1, <2>1 DEF TypeOK
  <2>3. Entries(c)' = Entries(c)
    BY <2>1 DEF Entries
  <2>4. Cardinality(Entries(c)) \in Nat
    BY FS_CardinalityType DEF Covers
  <2>5. Covers(c)'
    BY <1>1, <2>2, <2>3, <2>4 DEF Covers, Backlog
  <2>6. \A d \in CPUs : d # c => Covers(d)'
    BY <1>1, <2>1, <2>2, CoversKept
  <2>7. QED
    BY <2>5, <2>6
<1>3. CASE PickThread(c)
  <2>1. PICK k \in Classes :
          /\ Asked(c, k)
          /\ Remove(c, <<k, Highest(bitmap[c][k])>>, 1)
    BY <1>3 DEF PickThread
  <2>2. PICK s \in Slots : s = <<k, Highest(bitmap[c][k])>> /\ queue[c][s] # << >>
    <3>1. bitmap[c][k] \in SUBSET Levels /\ bitmap[c][k] # {}
      BY <1>1, <2>1 DEF QueueTypes, Asked, Offers
    <3>2. Highest(bitmap[c][k]) \in Levels
      BY <3>1, HighestIsGreatest
    <3>3. QED
      BY <2>1, <3>2 DEF Slots, Asked, Offers
  <2>3. 1 \in DOMAIN queue[c][s]
    <3>1. PICK q \in Seq(Threads) : q = queue[c][s] /\ q # << >>
      BY <1>1, <2>2 DEF QueueTypes
    <3>2. Len(q) \in Nat /\ Len(q) # 0 /\ DOMAIN q = 1 .. Len(q)
      BY <3>1, LenProperties, EmptySeq
    <3>3. QED
      BY <3>1, <3>2
  <2>4. /\ IsFiniteSet(Entries(c)')
        /\ Cardinality(Entries(c)') = Cardinality(Entries(c)) - 1
        /\ Cardinality(Entries(c)) \in Nat
    BY <1>1, <2>1, <2>2, <2>3, RemoveCovers
  <2>5. \A d \in CPUs : d # c => queue'[d] = queue[d] /\ current'[d] = current[d]
    BY <1>1, <1>3, PickThreadTakes DEF IInv
  <2>6. Covers(c)'
    BY <1>1, <2>4 DEF Covers, Backlog
  <2>7. \A d \in CPUs : d # c => Covers(d)'
    BY <1>1, <2>5, CoversKept
  <2>8. QED
    BY <2>6, <2>7
<1>4. QED
  BY <1>2, <1>3 DEF schedule

\* One step per operation; block_current() counts down for the thread it takes away.
LEMMA StepCovers ==
  ASSUME IInv, IInv', [Next]_vars, \A c \in CPUs : Covers(c)
  PROVE  \A c \in CPUs : Covers(c)'
<1>1. ASSUME NEW c \in CPUs, NEW t \in Threads, NEW p \in Params, Enqueue(c, t, p)
      PROVE  \A d \in CPUs : Covers(d)'
  BY <1>1, EnqueueCovers DEF Enqueue
<1>2. ASSUME NEW c \in CPUs, NEW t \in Threads, WakeUp(c, t)
      PROVE  \A d \in CPUs : Covers(d)'
  BY <1>2, EnqueueCovers DEF WakeUp
<1>3. ASSUME NEW c \in CPUs, ScheduleNow(c) \/ CallSchedule(c) \/ TickReschedules(c)
      PROVE  \A d \in CPUs : Covers(d)'
  BY <1>3, ScheduleCovers DEF ScheduleNow, CallSchedule, TickReschedules
<1>4. ASSUME NEW c \in CPUs, BlockCurrent(c)
      PROVE  \A d \in CPUs : Covers(d)'
  <2>1. /\ current[c] # None /\ current' = [current EXCEPT ![c] = None]
        /\ nr_running' = [nr_running EXCEPT ![c] = @ - 1] /\ queue' = queue
    BY <1>4 DEF BlockCurrent
  <2>2. /\ current'[c] = None /\ nr_running'[c] = nr_running[c] - 1 /\ nr_running[c] \in Int
        /\ \A d \in CPUs : d # c => current'[d] = current[d] /\ nr_running'[d] = nr_running[d]
    BY <2>1 DEF IInv, TypeOK
  <2>3. Entries(c)' = Entries(c) /\ Cardinality(Entries(c)) \in Nat
    BY <2>1, FS_CardinalityType DEF Entries, Covers
  <2>4. Covers(c)'
    BY <2>1, <2>2, <2>3 DEF Covers, Backlog
  <2>5. \A d \in CPUs : d # c => Covers(d)'
    BY <2>1, <2>2, CoversKept
  <2>6. QED
    BY <2>4, <2>5
<1>5. ASSUME NEW c \in CPUs, YieldCurrent(c) \/ TickSlice(c) \/ TickReturns(c)
      PROVE  \A d \in CPUs : Covers(d)'
  BY <1>5, CoversKept DEF YieldCurrent, TickSlice, TickReturns
<1>6. CASE UNCHANGED vars
  BY <1>6, CoversKept DEF vars
<1>7. QED
  BY <1>1, <1>2, <1>3, <1>4, <1>5, <1>6, DequeueCovers DEF Next

\* nr_running never falls below the number of threads it stands for: the fetch_sub of
\* dequeue and of block_current (percpu.rs:171, 363) never wraps, on any number of CPUs
\* and for queues of any length.
THEOREM NrRunningAlwaysCovers == Spec => []NrRunningCovers
<1> DEFINE Counted == \A c \in CPUs : Covers(c)
<1>1. Init => Counted
  <2> SUFFICES ASSUME Init, NEW c \in CPUs PROVE Covers(c)
    OBVIOUS
  <2>1. \A s \in Slots : queue[c][s] = << >>
    BY DEF Init
  <2>2. Entries(c) = {}
    BY <2>1 DEF Entries
  <2>3. IsFiniteSet(Entries(c)) /\ Cardinality(Entries(c)) = 0
    BY <2>2, FS_EmptySet
  <2>4. nr_running[c] = 0 /\ current[c] = None
    BY DEF Init
  <2>5. QED
    BY <2>3, <2>4 DEF Covers, Backlog
<1>2. IInv /\ IInv' /\ Counted /\ [Next]_vars => Counted'
  BY StepCovers
<1>3. Counted => NrRunningCovers
  BY DEF NrRunningCovers, Covers
<1>4. QED
  <2> HIDE DEF Counted
  <2>1. QED
    BY <1>1, <1>2, <1>3, IInvHolds, PTL DEF Spec

-------------------------------------------------------------------------------
(* Handlers that spin *)

\* CPUs whose timer interrupts wait for each other's interrupted code.
Waiting(S) == \A d \in S : in_tick[d] /\ need_resched[d] /\ lock[d] \in S

\* A CPU of such a set does not take its lock and does not return.
LEMMA WaitingIsClosed ==
  ASSUME NEW S \in SUBSET CPUs, Waiting(S), NEW c \in CPUs,
         lock[c] = None \/ ~need_resched[c] \/ ~in_tick[c]
  PROVE  c \notin S
BY RunQueueAssumption DEF Waiting

\* schedule() of a CPU outside the set takes no request from the set's CPUs.
LEMMA ScheduleLeavesWaiting ==
  ASSUME TypeOK, NEW S \in SUBSET CPUs, Waiting(S), NEW c \in CPUs, schedule(c)
  PROVE  c \notin S /\ \A d \in S : need_resched'[d]
<1>1. lock[c] = None /\ need_resched' = [need_resched EXCEPT ![c] = FALSE]
  BY DEF schedule
<1>2. c \notin S
  BY <1>1, WaitingIsClosed
<1>3. \A d \in S : need_resched'[d] = need_resched[d]
  BY <1>1, <1>2 DEF TypeOK
<1>4. QED
  BY <1>2, <1>3 DEF Waiting

\* An interrupt that ends on a CPU outside the set lets go of no lock the set waits for.
LEMMA TickEndsLeavesWaiting ==
  ASSUME TypeOK, NEW S \in SUBSET CPUs, Waiting(S), NEW c \in CPUs, TickEnds(c), c \notin S
  PROVE  \A d \in S : in_tick'[d] /\ lock'[d] \in S
BY DEF TypeOK, Waiting, TickEnds

\* No step of any CPU ends the waiting.
LEMMA WaitingGoesOn ==
  ASSUME TypeOK, [Next]_vars, NEW S \in SUBSET CPUs, Waiting(S)
  PROVE  Waiting(S)'
<1>1. ASSUME NEW c \in CPUs, NEW t \in Threads, NEW p, enqueue(c, t, p)
      PROVE  Waiting(S)'
  <2>1. /\ need_resched' = [need_resched EXCEPT ![c] = @ \/ ShouldPreempt(p)]
        /\ in_tick' = in_tick /\ lock' = lock
    BY <1>1 DEF enqueue
  <2>2. \A d \in S : need_resched[d] => need_resched'[d]
    BY <2>1, Zenon DEF TypeOK
  <2>3. QED
    BY <2>1, <2>2 DEF Waiting
<1>2. ASSUME NEW c \in CPUs, NEW t \in Threads, Dequeue(c, t)  PROVE Waiting(S)'
  BY <1>2 DEF Dequeue, Waiting
<1>3. ASSUME NEW c \in CPUs, schedule(c), in_tick' = in_tick, lock' = lock
      PROVE  Waiting(S)'
  BY <1>3, ScheduleLeavesWaiting DEF Waiting
<1>4. ASSUME NEW c \in CPUs, schedule(c), TickEnds(c)  PROVE Waiting(S)'
  <2>1. c \notin S /\ \A d \in S : need_resched'[d]
    BY <1>4, ScheduleLeavesWaiting
  <2>2. \A d \in S : in_tick'[d] /\ lock'[d] \in S
    BY <1>4, <2>1, TickEndsLeavesWaiting
  <2>3. QED
    BY <2>1, <2>2 DEF Waiting
<1>5. ASSUME NEW c \in CPUs, TickReturns(c)  PROVE Waiting(S)'
  <2>1. ~need_resched[c] /\ TickEnds(c) /\ need_resched' = need_resched
    BY <1>5 DEF TickReturns
  <2>2. c \notin S
    BY <2>1, WaitingIsClosed
  <2>3. \A d \in S : in_tick'[d] /\ lock'[d] \in S
    BY <2>1, <2>2, TickEndsLeavesWaiting
  <2>4. QED
    BY <2>1, <2>3 DEF Waiting
<1>6. ASSUME NEW c \in CPUs, TickSlice(c)  PROVE Waiting(S)'
  <2>1. /\ in_tick' = [in_tick EXCEPT ![c] = TRUE]
        /\ need_resched' = [need_resched EXCEPT ![c] = @ \/ slice[c] = 1]
    BY <1>6 DEF TickSlice
  <2>2. \A d \in S : in_tick'[d]
    BY <2>1 DEF TypeOK, Waiting
  <2>3. \A d \in S : need_resched'[d]
    <3>1. \A d \in S : need_resched[d] /\ d \in CPUs
      BY DEF Waiting
    <3>2. QED
      BY <2>1, <3>1, Zenon DEF TypeOK
  <2>4. \A d \in S : lock'[d] = lock[d]
    <3>1. CASE lock' = lock
      BY <3>1
    <3>2. CASE lock' # lock
      <4>1. PICK q \in CPUs : lock[q] = None /\ lock' = [lock EXCEPT ![q] = c]
        BY <1>6, <3>2 DEF TickSlice
      <4>2. q \notin S
        BY <4>1, WaitingIsClosed
      <4>3. QED
        BY <4>1, <4>2 DEF TypeOK
    <3>3. QED
      BY <3>1, <3>2
  <2>5. QED
    BY <2>2, <2>3, <2>4 DEF Waiting
<1>7. ASSUME NEW c \in CPUs, YieldCurrent(c)  PROVE Waiting(S)'
  <2>1. /\ need_resched' = [need_resched EXCEPT ![c] = TRUE]
        /\ in_tick' = in_tick /\ lock' = lock
    BY <1>7 DEF YieldCurrent
  <2>2. \A d \in S : need_resched'[d]
    BY <2>1 DEF TypeOK, Waiting
  <2>3. QED
    BY <2>1, <2>2 DEF Waiting
<1>8. ASSUME NEW c \in CPUs, BlockCurrent(c)  PROVE Waiting(S)'
  BY <1>8 DEF BlockCurrent, Waiting
<1>9. CASE UNCHANGED vars
  BY <1>9 DEF vars, Waiting
<1>10. QED
  BY <1>1, <1>2, <1>3, <1>4, <1>5, <1>6, <1>7, <1>8, <1>9
     DEF Next, Enqueue, WakeUp, ScheduleNow, CallSchedule, TickReschedules

\* The way out that RealTimePreempts leaves open is final: once the timer interrupt of
\* a CPU waits in schedule() for a lock (percpu.rs:254, 552) that interrupted code
\* holds which itself waits so, no step of any CPU, however many there are, ends it.
THEOREM SpinningNeverEnds ==
  Spec => [][\A c \in CPUs : SpinsForEver(c) => SpinsForEver(c)']_vars
<1>1. ASSUME IInv, [Next]_vars, NEW c \in CPUs, SpinsForEver(c)
      PROVE  SpinsForEver(c)'
  <2>1. PICK S \in SUBSET CPUs : c \in S /\ Waiting(S)
    BY <1>1 DEF SpinsForEver, Waiting
  <2>2. Waiting(S)'
    BY <1>1, <2>1, WaitingGoesOn DEF IInv
  <2>3. QED
    BY <2>1, <2>2 DEF SpinsForEver, Waiting
<1>2. IInv /\ [Next]_vars =>
        [\A c \in CPUs : SpinsForEver(c) => SpinsForEver(c)']_vars
  BY <1>1
<1>3. QED
  BY IInvHolds, <1>2, PTL DEF Spec
===============================================================================
