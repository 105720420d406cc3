-------------------------------- MODULE RunQueue ------------------------------
(***************************************************************************)
(* The per-CPU run queues of sched/percpu.rs.  Every access to a queue is  *)
(* made under that queue's `lock', so the body of one locked section is    *)
(* one step; what the code does outside the lock (the first half of        *)
(* yield_current and block_current, the two halves of timer_tick) is a     *)
(* step of its own, and the timer interrupt can come between the halves of *)
(* the other operations.  The locks are taken with interrupts on, so it    *)
(* can also come inside a section, which then holds its lock until the     *)
(* handler has returned; the handler's own schedule() needs such a lock.   *)
(* do_context_switch is empty in the code: a CPU "runs" the thread its     *)
(* `current' names.                                                        *)
(***************************************************************************)
EXTENDS Integers, Sequences, FiniteSets

CONSTANTS
  CPUs,
  Threads,
  None,              \* `current' of a CPU that runs no thread
  PRIORITY_LEVELS,
  TIME_SLICE,        \* DEFAULT_TIME_SLICE_NS in ticks
  Params,            \* the SchedParams threads are enqueued with
  DefaultParams,     \* SchedParams::default(), what wake_thread uses
  MaxRunning         \* bound: no enqueue once nr_running has reached it

Levels  == 0 .. PRIORITY_LEVELS - 1
Classes == 0 .. 6    \* Idle, Normal, Batch, AI, RealTimeRR, RealTimeFIFO, Deadline
RealTime == {4, 5, 6}
Slots   == Classes \X Levels

ASSUME RunQueueAssumption ==
  /\ PRIORITY_LEVELS \in Nat \ {0}
  /\ TIME_SLICE \in Nat \ {0}
  /\ MaxRunning \in Nat
  /\ None \notin Threads \cup CPUs
  /\ Params \cup {DefaultParams} \subseteq
       [class : Classes, priority : Int, rt_priority : Nat]

VARIABLES
  queue,         \* queue[c][<<k, l>>]: level l of the queue of class k
  bitmap,        \* bitmap[c][k]: the levels whose bit is set
  current,
  nr_running,
  slice,         \* time_slice_remaining, in ticks
  need_resched,
  is_idle,
  pc,            \* "run", or "schedule" when an operation is about to call schedule()
  in_tick,       \* the CPU is in the timer interrupt, after rq.timer_tick()
  lock,          \* the CPU whose interrupted code is inside a section of this queue
  picked         \* history: the class `current' was taken from

vars == <<queue, bitmap, current, nr_running, slice, need_resched, is_idle,
          pc, in_tick, lock, picked>>

Init ==
  /\ queue = [c \in CPUs |-> [s \in Slots |-> << >>]]
  /\ bitmap = [c \in CPUs |-> [k \in Classes |-> {}]]
  /\ current = [c \in CPUs |-> None]
  /\ nr_running = [c \in CPUs |-> 0]
  /\ slice = [c \in CPUs |-> TIME_SLICE]
  /\ need_resched = [c \in CPUs |-> FALSE]
  /\ is_idle = [c \in CPUs |-> TRUE]
  /\ pc = [c \in CPUs |-> "run"]
  /\ in_tick = [c \in CPUs |-> FALSE]
  /\ lock = [c \in CPUs |-> None]
  /\ picked = [c \in CPUs |-> 0]

Holds(c, s, t) == \E i \in DOMAIN queue[c][s] : queue[c][s][i] = t
Queued(t) == \E c \in CPUs, s \in Slots : Holds(c, s, t)

-------------------------------------------------------------------------------
(* Queues *)

Clamp(n) == IF n < 0 THEN 0 ELSE IF n >= PRIORITY_LEVELS THEN PRIORITY_LEVELS - 1 ELSE n

\* ClassQueue::enqueue: the level a thread of these parameters goes to.
SlotOf(p) ==
  <<p.class, CASE p.class \in {1, 2, 3} -> Clamp(p.priority)
               [] p.class \in {4, 5}    -> Clamp(p.rt_priority)
               [] p.class \in {0, 6}    -> 0>>

\* Mutated form of ShouldPreempt: deadline threads do not ask for a reschedule.
ShouldPreemptFixedOnly(p) == p.class \in {4, 5}

ShouldPreempt(p) == p.class \in RealTime

\* Mutated form of enqueue: the thread is not counted.
enqueue_uncounted(c, t, p) ==
  LET s == SlotOf(p) IN
  /\ queue' = [queue EXCEPT ![c][s] = Append(@, t)]
  /\ bitmap' = [bitmap EXCEPT ![c][s[1]] = @ \cup {s[2]}]
  /\ need_resched' = [need_resched EXCEPT ![c] = @ \/ ShouldPreempt(p)]
  /\ UNCHANGED <<current, nr_running, slice, is_idle, pc, in_tick, lock, picked>>

\* CpuRunQueue::enqueue.
enqueue(c, t, p) ==
  LET s == SlotOf(p) IN
  /\ queue' = [queue EXCEPT ![c][s] = Append(@, t)]
  /\ bitmap' = [bitmap EXCEPT ![c][s[1]] = @ \cup {s[2]}]
  /\ nr_running' = [nr_running EXCEPT ![c] = @ + 1]
  /\ need_resched' = [need_resched EXCEPT ![c] = @ \/ ShouldPreempt(p)]
  /\ UNCHANGED <<current, slice, is_idle, pc, in_tick, lock, picked>>

\* sched::enqueue, from any CPU: select_cpu's choice among the CPUs is left open.
\* Its callers add new threads and threads that were blocked: none is queued.
Enqueue(c, t, p) ==
  /\ lock[c] = None /\ ~Queued(t) /\ nr_running[c] < MaxRunning
  /\ enqueue(c, t, p)

\* sched::wake_up on CPU c: this CPU's queue and the default parameters, whatever
\* the thread had.
WakeUp(c, t) ==
  /\ lock[c] = None /\ ~Queued(t) /\ nr_running[c] < MaxRunning
  /\ enqueue(c, t, DefaultParams)

Without(q, i) == SubSeq(q, 1, i - 1) \o SubSeq(q, i + 1, Len(q))

\* Mutated form of Remove: no bit is ever cleared.
RemoveKeepsBit(c, s, i) ==
  /\ queue' = [queue EXCEPT ![c][s] = Without(@, i)]
  /\ UNCHANGED bitmap

\* PriorityQueues: position i of slot s leaves the queue, and the bit with the last.
Remove(c, s, i) ==
  /\ queue' = [queue EXCEPT ![c][s] = Without(@, i)]
  /\ bitmap' = IF Len(queue[c][s]) = 1
               THEN [bitmap EXCEPT ![c][s[1]] = @ \ {s[2]}]
               ELSE bitmap

\* Mutated form of Dequeue: the bit of an emptied level stays set.
DequeueKeepsBit(c, t) ==
  /\ lock[c] = None
  /\ \E s \in Slots : \E i \in DOMAIN queue[c][s] :
       /\ queue[c][s][i] = t
       /\ queue' = [queue EXCEPT ![c][s] = Without(@, i)]
  /\ nr_running' = [nr_running EXCEPT ![c] = @ - 1]
  /\ UNCHANGED <<bitmap, current, slice, need_resched, is_idle, pc, in_tick, lock, picked>>

\* dequeue_cpu, which sched::dequeue calls for each CPU in turn; a CPU that does
\* not have the thread is left as it is.
Dequeue(c, t) ==
  /\ lock[c] = None
  /\ \E s \in Slots : \E i \in DOMAIN queue[c][s] :
       /\ queue[c][s][i] = t
       /\ Remove(c, s, i)
  /\ nr_running' = [nr_running EXCEPT ![c] = @ - 1]
  /\ UNCHANGED <<current, slice, need_resched, is_idle, pc, in_tick, lock, picked>>

-------------------------------------------------------------------------------
(* Scheduling *)

\* The order in which pick_next_unlocked asks the classes: Normal before Batch.
Rank(k) == CASE k = 1 -> 2 [] k = 2 -> 1 [] OTHER -> k

Highest(S) == CHOOSE x \in S : \A y \in S : y <= x

\* PriorityQueues::pick_next finds a thread: the level of the highest bit has one.
Offers(c, k) == bitmap[c][k] # {} /\ queue[c][<<k, Highest(bitmap[c][k])>>] # << >>

Asked(c, k) == Offers(c, k) /\ \A j \in Classes : Offers(c, j) => Rank(j) <= Rank(k)

PickNone(c) ==
  /\ \A k \in Classes : ~Offers(c, k)
  /\ current' = [current EXCEPT ![c] = None]
  /\ is_idle' = [is_idle EXCEPT ![c] = @ \/ current[c] # None]
  /\ UNCHANGED <<queue, bitmap, slice, picked>>

\* `current' is replaced and not put back: "Re-enqueue if still runnable" is a comment.
PickThread(c) ==
  \E k \in Classes :
    /\ Asked(c, k)
    /\ LET s == <<k, Highest(bitmap[c][k])>>
           new == Head(queue[c][s])
       IN /\ Remove(c, s, 1)
          /\ current' = [current EXCEPT ![c] = new]
          /\ picked' = [picked EXCEPT ![c] = k]
          /\ is_idle' = [is_idle EXCEPT ![c] = @ /\ new = current[c]]
          /\ slice' = [slice EXCEPT ![c] = IF new = current[c] THEN @ ELSE TIME_SLICE]

\* CpuRunQueue::schedule, which waits for the lock.
schedule(c) ==
  /\ lock[c] = None
  /\ need_resched' = [need_resched EXCEPT ![c] = FALSE]
  /\ PickNone(c) \/ PickThread(c)
  /\ UNCHANGED nr_running

\* The base code of CPU c runs: no interrupt is being handled on it.
InBase(c, label) == pc[c] = label /\ ~in_tick[c]

\* percpu::schedule
ScheduleNow(c) ==
  /\ InBase(c, "run")
  /\ schedule(c)
  /\ UNCHANGED <<pc, in_tick, lock>>

\* yield_current, block_current: the call of schedule() that ends them.
CallSchedule(c) ==
  /\ InBase(c, "schedule")
  /\ schedule(c)
  /\ pc' = [pc EXCEPT ![c] = "run"]
  /\ UNCHANGED <<in_tick, lock>>

\* CpuRunQueue::yield_current up to its call of schedule().
YieldCurrent(c) ==
  /\ InBase(c, "run") /\ current[c] # None
  /\ need_resched' = [need_resched EXCEPT ![c] = TRUE]
  /\ pc' = [pc EXCEPT ![c] = "schedule"]
  /\ UNCHANGED <<queue, bitmap, current, nr_running, slice, is_idle, in_tick, lock, picked>>

\* CpuRunQueue::block_current up to its call of schedule(): not under `lock'.
BlockCurrent(c) ==
  /\ InBase(c, "run") /\ current[c] # None
  /\ current' = [current EXCEPT ![c] = None]
  /\ nr_running' = [nr_running EXCEPT ![c] = @ - 1]
  /\ pc' = [pc EXCEPT ![c] = "schedule"]
  /\ UNCHANGED <<queue, bitmap, slice, need_resched, is_idle, in_tick, lock, picked>>

\* percpu::timer_tick, first half: CpuRunQueue::timer_tick.  A slice that is used
\* up already is left alone.  The code it interrupts may be inside a section of some
\* queue: one that has done its work, or that finds none (dequeue of a thread that is
\* not there), and that lets go of the lock when the handler has returned.
TickSlice(c) ==
  /\ ~in_tick[c]
  /\ in_tick' = [in_tick EXCEPT ![c] = TRUE]
  /\ slice' = [slice EXCEPT ![c] = IF @ = 0 THEN 0 ELSE @ - 1]
  /\ need_resched' = [need_resched EXCEPT ![c] = @ \/ slice[c] = 1]
  /\ \/ UNCHANGED lock
     \/ \E q \in CPUs : lock[q] = None /\ lock' = [lock EXCEPT ![q] = c]
  /\ UNCHANGED <<queue, bitmap, current, nr_running, is_idle, pc, picked>>

\* The handler returns, and the code it interrupted lets go of the lock it held.
TickEnds(c) ==
  /\ in_tick' = [in_tick EXCEPT ![c] = FALSE]
  /\ lock' = [q \in CPUs |-> IF lock[q] = c THEN None ELSE lock[q]]


\* percpu::timer_tick, second half: the test of need_resched and schedule().
TickReschedules(c) ==
  /\ in_tick[c] /\ need_resched[c]
  /\ schedule(c)
  /\ TickEnds(c)
  /\ UNCHANGED pc

TickReturns(c) ==
  /\ in_tick[c] /\ ~need_resched[c]
  /\ TickEnds(c)
  /\ UNCHANGED <<queue, bitmap, current, nr_running, slice, need_resched, is_idle, pc, picked>>

Next ==
  \E c \in CPUs :
    \/ \E t \in Threads, p \in Params : Enqueue(c, t, p)
    \/ \E t \in Threads : WakeUp(c, t)
    \/ \E t \in Threads : Dequeue(c, t)
    \/ ScheduleNow(c)
    \/ CallSchedule(c)
    \/ YieldCurrent(c)
    \/ BlockCurrent(c)
    \/ TickSlice(c)
    \/ TickReschedules(c)
    \/ TickReturns(c)

Spec == Init /\ [][Next]_vars

\* The timer interrupt keeps coming, and returns unless its schedule() finds the lock
\* held; between two of them an operation that has begun gets on (strong fairness:
\* each interrupt disables the step for a while) and reaches its call of schedule().
\* Nobody has to enqueue, yield or block, and no tick has to spare a locked section.
FairSpec ==
  /\ Spec
  /\ \A c \in CPUs :
       /\ WF_vars(TickSlice(c))
       /\ WF_vars(TickReschedules(c) \/ TickReturns(c))
       /\ SF_vars(CallSchedule(c))

-------------------------------------------------------------------------------
(* Properties *)

TypeOK ==
  /\ queue \in [CPUs -> [Slots -> Seq(Threads)]]
  /\ bitmap \in [CPUs -> [Classes -> SUBSET Levels]]
  /\ current \in [CPUs -> Threads \cup {None}]
  /\ nr_running \in [CPUs -> Int]
  /\ slice \in [CPUs -> 0 .. TIME_SLICE]
  /\ need_resched \in [CPUs -> BOOLEAN]
  /\ is_idle \in [CPUs -> BOOLEAN]
  /\ pc \in [CPUs -> {"run", "schedule"}]
  /\ in_tick \in [CPUs -> BOOLEAN]
  /\ lock \in [CPUs -> CPUs \cup {None}]
  /\ picked \in [CPUs -> Classes]

\* A bit of the priority bitmap is set exactly for the levels that hold a thread
\* (percpu.rs:445-484): pick_next looks at no level without its bit and gives up
\* on a class whose highest bit is stale.
BitmapMatchesLevels ==
  \A c \in CPUs, k \in Classes :
    bitmap[c][k] = {l \in Levels : queue[c][<<k, l>>] # << >>}

RealTimeQueued(c) == \E k \in RealTime, l \in Levels : queue[c][<<k, l>>] # << >>
RealTimeRuns(c)   == current[c] # None /\ picked[c] \in RealTime

\* "RT always preempts normal" (percpu.rs:216): while a real-time or deadline
\* thread is queued on a CPU that runs no such thread, the CPU has been told to
\* reschedule or is about to.
RealTimeAsksForResched ==
  \A c \in CPUs :
    RealTimeQueued(c) => RealTimeRuns(c) \/ need_resched[c] \/ pc[c] = "schedule"

\* The timer interrupt of CPU c spins in schedule() on a lock that is never let go:
\* the code it interrupted holds the lock itself, or code interrupted on another CPU
\* that waits in the same way.
SpinsForEver(c) ==
  \E S \in SUBSET CPUs :
    /\ c \in S
    /\ \A d \in S : in_tick[d] /\ need_resched[d] /\ lock[d] \in S


\* "Check classes in priority order (highest first)" (percpu.rs:182): whenever a
\* CPU changes to a thread, no thread of a higher class, and none of a higher
\* level of its class, stays behind in that CPU's queue.
HighestClassRuns ==
  [][\A c \in CPUs :
       current'[c] \notin {None, current[c]} =>
         \A k \in Classes, l \in Levels :
           queue[c][<<k, l>>] # << >> =>
             /\ Rank(k) <= Rank(picked'[c])
             /\ k = picked'[c] => \E m \in Levels :
                                    m >= l /\ queue'[c][<<k, m>>] # queue[c][<<k, m>>]]_vars

\* The places in c's queue that are taken, and one for its current thread.
Entries(c) == UNION {{s} \X DOMAIN queue[c][s] : s \in Slots}
Backlog(c) == Cardinality(Entries(c)) + IF current[c] = None THEN 0 ELSE 1

\* nr_running counts at least the queued threads and the current one, so that
\* the fetch_sub of dequeue and of block_current never takes the unsigned
\* counter below zero (percpu.rs:171, 363).  It may count more: see
\* IdleTakesQueued and the threads schedule() drops.
NrRunningCovers == \A c \in CPUs : nr_running[c] >= Backlog(c)

\* "No runnable threads, return idle thread" (percpu.rs:200): a CPU that runs no
\* thread while one waits in its queue gets to run it, if its handler does not spin
\* for ever.
IdleTakesQueued ==
  \A c \in CPUs :
    (current[c] = None /\ Backlog(c) > 0) ~>
      (current[c] # None \/ Backlog(c) = 0 \/ SpinsForEver(c))

===============================================================================
