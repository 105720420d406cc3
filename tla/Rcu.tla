---------------------------------- MODULE Rcu ---------------------------------
(***************************************************************************)
(* Read-copy-update of sync/rcu.rs: read-side sections, context switches   *)
(* that report a quiescent state, synchronize and call_rcu, each CPU one   *)
(* atomic operation at a time.                                             *)
(*                                                                         *)
(* What is fixed: every CPU is online from the start; a CPU runs one       *)
(* thread at a time, which is not preempted within a read-side section and *)
(* does not go idle or synchronize there.  `quiescent' is written and      *)
(* never read by the code, and left out.                                   *)
(*                                                                         *)
(* gp_waiting is a usize.  Below zero it stands for the wrapped value; the *)
(* code only compares it with 1.                                           *)
(***************************************************************************)
EXTENDS Integers, Sequences, FiniteSets

CONSTANTS
  CPUs,
  Calls,      \* the calls updaters make: a subset of {"synchronize", "call_rcu"}
  MaxCalls    \* bound: calls of updaters in a behaviour

VARIABLES
  gp_seq, gp_completed, gp_waiting, gp_in_progress, callbacks,  \* RCU_STATE
  last_gp, nesting,                \* PER_CPU_RCU
  pc,
  op,                              \* the call a CPU's thread is in
  current_gp,                      \* the local of that name
  ready,                           \* callbacks popped, not yet called
  calls,                           \* how many calls have been made
  awaited, gpAwaited,              \* history: see ActiveReaders
  stray                            \* history: see Strays

vars == <<gp_seq, gp_completed, gp_waiting, gp_in_progress, callbacks, last_gp, nesting,
          pc, op, current_gp, ready, calls, awaited, gpAwaited, stray>>

State  == <<gp_seq, gp_completed, gp_waiting, gp_in_progress, callbacks>>
PerCpu == <<last_gp, nesting>>
Locals == <<op, current_gp, ready>>
History == <<calls, awaited, gpAwaited, stray>>

\* CPUs inside a read-side section.  A call's or a grace period's awaited set
\* starts as this set and loses each CPU at the end of its section.
ActiveReaders == {c \in CPUs : nesting[c] > 0}

\* gp_seq is 1 before there is a grace period: every CPU has a first report to
\* make, for a period that nobody counts and nobody completes.
Init ==
  /\ gp_seq = 1 /\ gp_completed = 0 /\ gp_in_progress = FALSE
  /\ gp_waiting = 0
  /\ callbacks = <<>>
  /\ last_gp = [c \in CPUs |-> 0]
  /\ nesting = [c \in CPUs |-> 0]
  /\ pc = [c \in CPUs |-> "run"]
  /\ op = [c \in CPUs |-> 0]
  /\ current_gp = [c \in CPUs |-> 0]
  /\ ready = [c \in CPUs |-> <<>>]
  /\ calls = 0 /\ awaited = [i \in 1..MaxCalls |-> {}] /\ gpAwaited = {}
  /\ stray = FALSE

Goto(c, from, to) == pc[c] = from /\ pc' = [pc EXCEPT ![c] = to]

\* Where a CPU goes on after a report: wait_gp's loop, or its own business.
Back(c) == IF op[c] # 0 THEN "wait" ELSE "run"

rcu_read_lock(c) ==
  /\ pc[c] = "run" /\ nesting[c] < 2
  /\ nesting' = [nesting EXCEPT ![c] = @ + 1]
  /\ UNCHANGED <<State, last_gp, pc, Locals, History>>

rcu_read_unlock(c) ==
  /\ pc[c] = "run" /\ nesting[c] > 0
  /\ nesting' = [nesting EXCEPT ![c] = @ - 1]
  /\ IF nesting[c] = 1
       THEN /\ awaited' = [i \in 1..MaxCalls |-> awaited[i] \ {c}]
            /\ gpAwaited' = gpAwaited \ {c}
       ELSE UNCHANGED <<awaited, gpAwaited>>
  /\ UNCHANGED <<State, last_gp, pc, Locals, calls, stray>>

\* Mutated form of rcu_note_context_switch: reports from a reader, too.
rcu_note_any_switch(c) ==
  /\ Goto(c, "run", "report")
  /\ UNCHANGED <<State, PerCpu, Locals, History>>

rcu_note_context_switch(c) ==
  /\ nesting[c] = 0
  /\ Goto(c, "run", "report")
  /\ UNCHANGED <<State, PerCpu, Locals, History>>

\* rcu_report_qs: once for each grace period; last_gp is the CPU's own ...
Report(c) ==
  /\ Goto(c, "report", IF last_gp[c] < gp_seq THEN "decrement" ELSE Back(c))
  /\ last_gp' = [last_gp EXCEPT ![c] = gp_seq]
  /\ UNCHANGED <<State, nesting, Locals, History>>

\* A report loaded gp_seq before a grace period began, and is taken from the
\* count of that one: the CPU is to report for it again, and counts twice.
Strays(c) == last_gp[c] < gp_seq /\ \A d \in CPUs : pc[d] # "count"

CountDown(c, last) ==
  /\ Goto(c, "decrement", IF gp_waiting = last THEN "complete" ELSE Back(c))
  /\ gp_waiting' = gp_waiting - 1
  /\ stray' = (stray \/ Strays(c))
  /\ UNCHANGED <<gp_seq, gp_completed, gp_in_progress, callbacks, PerCpu, Locals,
                 calls, awaited, gpAwaited>>

\* Mutated form of Decrement: takes what fetch_sub returns for the new count.
DecrementEarly(c) == CountDown(c, 2)

\* ... and the CPU that takes the count from 1 completes the grace period.
Decrement(c) == CountDown(c, 1)

\* complete_gp: gp_seq stands still until gp_in_progress is cleared.
Complete(c) ==
  /\ Goto(c, "complete", "clear")
  /\ gp_completed' = gp_seq
  /\ current_gp' = [current_gp EXCEPT ![c] = gp_seq]
  /\ UNCHANGED <<gp_seq, gp_waiting, gp_in_progress, callbacks, PerCpu, op, ready, History>>

Clear(c) ==
  /\ Goto(c, "clear", "process")
  /\ gp_in_progress' = FALSE
  /\ UNCHANGED <<gp_seq, gp_completed, gp_waiting, callbacks, PerCpu, Locals, History>>

\* Mutated form of IsSafe: the grace period a callback was registered in will do.
IsSafeNow(cb, gp) == cb.gp_registered <= gp

IsSafe(cb, gp) == cb.gp_registered < gp

\* process_callbacks: the longest prefix of callbacks that are safe to run.
Process(c) ==
  /\ Goto(c, "process", "execute")
  /\ \E n \in 0..Len(callbacks) :
       /\ \A i \in 1..n : IsSafe(callbacks[i], current_gp[c])
       /\ n < Len(callbacks) => ~IsSafe(callbacks[n + 1], current_gp[c])
       /\ ready' = [ready EXCEPT ![c] = SubSeq(callbacks, 1, n)]
       /\ callbacks' = SubSeq(callbacks, n + 1, Len(callbacks))
  /\ UNCHANGED <<gp_seq, gp_completed, gp_waiting, gp_in_progress, PerCpu, op, current_gp, History>>

Execute(c) ==
  /\ \/ ready[c] # <<>> /\ pc[c] = "execute" /\ ready' = [ready EXCEPT ![c] = Tail(@)]
        /\ UNCHANGED pc
     \/ ready[c] = <<>> /\ Goto(c, "execute", Back(c)) /\ UNCHANGED ready
  /\ UNCHANGED <<State, PerCpu, op, current_gp, History>>

\* An updater's call, number calls + 1; it waits for the readers of this moment.
Call ==
  /\ calls < MaxCalls
  /\ calls' = calls + 1
  /\ awaited' = [awaited EXCEPT ![calls + 1] = ActiveReaders]
  /\ UNCHANGED <<gpAwaited, stray>>

synchronize(c) ==
  /\ "synchronize" \in Calls
  /\ Call
  /\ nesting[c] = 0
  /\ Goto(c, "run", "start")
  /\ op' = [op EXCEPT ![c] = calls + 1]
  /\ UNCHANGED <<State, PerCpu, current_gp, ready>>

\* call_rcu: note the grace period (in `ready', until the queue is locked) ...
call_rcu(c) ==
  /\ "call_rcu" \in Calls
  /\ Call
  /\ Goto(c, "run", "push")
  /\ ready' = [ready EXCEPT ![c] = <<[call |-> calls + 1, gp_registered |-> gp_seq]>>]
  /\ UNCHANGED <<State, PerCpu, op, current_gp>>

\* ... and, with the queue locked, add the callback.
Push(c) ==
  /\ Goto(c, "push", IF gp_in_progress THEN "run" ELSE "start")
  /\ callbacks' = callbacks \o ready[c]
  /\ ready' = [ready EXCEPT ![c] = <<>>]
  /\ UNCHANGED <<gp_seq, gp_completed, gp_waiting, gp_in_progress, PerCpu, op, current_gp, History>>

\* Where start_gp returns to.
Started(c) == IF op[c] # 0 THEN "wait_gp" ELSE "run"

\* start_gp: one grace period at a time ...
Start(c) ==
  /\ Goto(c, "start", IF gp_in_progress THEN Started(c) ELSE "advance")
  /\ gp_in_progress' = TRUE
  /\ UNCHANGED <<gp_seq, gp_completed, gp_waiting, callbacks, PerCpu, Locals, History>>

\* ... gets its number, from here on CPUs report for it ...
Advance(c) ==
  /\ Goto(c, "advance", "count")
  /\ gp_seq' = gp_seq + 1
  /\ gpAwaited' = ActiveReaders
  /\ UNCHANGED <<gp_completed, gp_waiting, gp_in_progress, callbacks, PerCpu, Locals, calls, awaited, stray>>

\* ... and then the number of CPUs it waits for.
Count(c) ==
  /\ Goto(c, "count", Started(c))
  /\ gp_waiting' = Cardinality(CPUs)
  /\ UNCHANGED <<gp_seq, gp_completed, gp_in_progress, callbacks, PerCpu, Locals, History>>

\* wait_gp: the grace period to wait for ...
WaitLoad(c) ==
  /\ Goto(c, "wait_gp", "wait")
  /\ current_gp' = [current_gp EXCEPT ![c] = gp_seq]
  /\ UNCHANGED <<State, PerCpu, op, ready, History>>

\* ... and the loop, which reports for its own CPU.
Wait(c) ==
  /\ gp_completed < current_gp[c]
  /\ Goto(c, "wait", "report")
  /\ UNCHANGED <<State, PerCpu, Locals, History>>

Return(c) ==
  /\ gp_completed >= current_gp[c]
  /\ Goto(c, "wait", "run")
  /\ op' = [op EXCEPT ![c] = 0]
  /\ UNCHANGED <<State, PerCpu, current_gp, ready, History>>

Next == \E c \in CPUs :
  \/ rcu_read_lock(c) \/ rcu_read_unlock(c) \/ rcu_note_context_switch(c)
  \/ Report(c) \/ Decrement(c) \/ Complete(c) \/ Clear(c) \/ Process(c) \/ Execute(c)
  \/ synchronize(c) \/ call_rcu(c) \/ Push(c)
  \/ Start(c) \/ Advance(c) \/ Count(c) \/ WaitLoad(c) \/ Wait(c) \/ Return(c)

Spec == Init /\ [][Next]_vars

-----------------------------------------------------------------------------
\* While no report was taken from the count of a later grace period, a grace
\* period outlasts the readers it began with: it is completed only when every
\* section that was open when it got its number has ended.  Where one was, the
\* count is short by one, and the code does complete a grace period too early.
GracePeriodOutlastsReaders ==
  ~stray => \A c \in CPUs : pc[c] = "complete" => gpAwaited = {}

\* "The callback will be called after all current readers complete": under the
\* same condition, it is not called while a section that was open at call_rcu lasts.
CallbacksAwaitReaders ==
  ~stray => \A c \in CPUs : pc[c] = "execute" => \A i \in 1..Len(ready[c]) : awaited[ready[c][i].call] = {}

\* Only a CPU's first report can go astray first, and only in the first grace
\* period: once that one, gp_seq 2, is completed and its count was right, every
\* report that is still to be counted is for the grace period in progress.
LaterCountsAreRight ==
  ~stray /\ gp_completed >= 2 => \A c \in CPUs : pc[c] = "decrement" => last_gp[c] = gp_seq

\* "all readers that were active when this function was called have
\* completed": synchronize returns only then, even where every count was right.
SynchronizeAwaitsReaders ==
  [][\A c \in CPUs : Return(c) /\ ~stray => awaited[op[c]] = {}]_vars
===============================================================================
