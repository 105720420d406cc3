-------------------------------- MODULE Barrier -------------------------------
(***************************************************************************)
(* The barriers of sync/barrier.rs that count arrivals in one word:        *)
(* Barrier and SpinBarrier, whose waiters watch a generation number, and   *)
(* SenseBarrier, whose waiters compare a shared sense with their own.  The *)
(* barrier is used over and over, by as many threads as it was made for.   *)
(* WaitQueue::wait pauses and wake_all does nothing, so that Barrier spins *)
(* like SpinBarrier.  The names carry the prefix Bar to be composed with   *)
(* other modules by EXTENDS.                                               *)
(***************************************************************************)
EXTENDS Integers, FiniteSets

CONSTANTS
  Crew,          \* the threads that call wait()
  GenMod,        \* generation values before the counter wraps; 2^32 in the code
  MaxRounds      \* bound: how often each thread calls wait()

ASSUME CrewAssumption ==
  /\ IsFiniteSet(Crew)
  /\ GenMod \in Nat /\ GenMod > 1
  /\ MaxRounds \in Nat

VARIABLES
  sensing,       \* TRUE: a SenseBarrier
  count,         \* the field count
  flag,          \* the field generation, or sense
  barPc,         \* the operation each thread does next
  mine,          \* the local gen, or the caller's local_sense
  waits,         \* history: how often each thread has been counted
  returns,       \* history: how often its wait() has returned
  leads          \* history: how often the barrier was opened

barVars == <<sensing, count, flag, barPc, mine, waits, returns, leads>>

BarThreshold == Cardinality(Crew)

Flags == 0 .. (IF sensing THEN 1 ELSE GenMod - 1)

BarInit ==
  /\ sensing \in BOOLEAN
  /\ count = 0 /\ flag = 0
  /\ barPc = [t \in Crew |-> "out"]
  /\ mine = [t \in Crew |-> 0]
  /\ waits = [t \in Crew |-> 0]
  /\ returns = [t \in Crew |-> 0]
  /\ leads = 0

BarGoto(t, from, to) == barPc[t] = from /\ barPc' = [barPc EXCEPT ![t] = to]

\* wait(): load the generation, or turn the local sense round.
BarEnter(t) ==
  /\ waits[t] < MaxRounds
  /\ BarGoto(t, "out", "add")
  /\ mine' = [mine EXCEPT ![t] = IF sensing THEN 1 - @ ELSE flag]
  /\ UNCHANGED <<sensing, count, flag, waits, returns, leads>>

\* Mutated form of BarAdd: the arrivals before one's own are counted.
BarAddEarly(t) ==
  /\ BarGoto(t, "add", IF count = BarThreshold - 2 THEN "reset" ELSE "spin")
  /\ count' = count + 1
  /\ waits' = [waits EXCEPT ![t] = @ + 1]
  /\ UNCHANGED <<sensing, flag, mine, returns, leads>>

\* wait(): count.fetch_add(1); the last one to arrive opens the barrier.
BarAdd(t) ==
  /\ BarGoto(t, "add", IF count + 1 = BarThreshold THEN "reset" ELSE "spin")
  /\ count' = count + 1
  /\ waits' = [waits EXCEPT ![t] = @ + 1]
  /\ UNCHANGED <<sensing, flag, mine, returns, leads>>

\* Mutated form of BarReset: the count goes on.
BarResetNothing(t) ==
  /\ BarGoto(t, "reset", "open")
  /\ UNCHANGED <<sensing, count, flag, mine, waits, returns, leads>>

BarReset(t) ==
  /\ BarGoto(t, "reset", "open")
  /\ count' = 0
  /\ UNCHANGED <<sensing, flag, mine, waits, returns, leads>>

\* generation.fetch_add(1), a wrapping addition.
NextGeneration == IF flag = GenMod - 1 THEN 0 ELSE flag + 1

\* The next generation, or the leader's sense; the leader returns.
BarOpen(t) ==
  /\ BarGoto(t, "open", "out")
  /\ flag' = IF sensing THEN mine[t] ELSE NextGeneration
  /\ leads' = leads + 1
  /\ returns' = [returns EXCEPT ![t] = @ + 1]
  /\ UNCHANGED <<sensing, count, mine, waits>>

\* Mutated form of BarIsOpen: both kinds of barrier wait for a change.
BarFlagDiffers(t) == flag # mine[t]

\* The loop condition of the waiters.
BarIsOpen(t) == IF sensing THEN flag = mine[t] ELSE flag # mine[t]

BarSeeOpen(t) ==
  /\ BarIsOpen(t)
  /\ BarGoto(t, "spin", "out")
  /\ returns' = [returns EXCEPT ![t] = @ + 1]
  /\ UNCHANGED <<sensing, count, flag, mine, waits, leads>>

BarStep(t) == BarAdd(t) \/ BarReset(t) \/ BarOpen(t) \/ BarSeeOpen(t)

BarNext == \E t \in Crew : BarEnter(t) \/ BarStep(t)

BarSpec == BarInit /\ [][BarNext]_barVars

\* A thread inside wait() runs; nobody has to call it.
BarFairness == \A t \in Crew : WF_barVars(BarStep(t))

-----------------------------------------------------------------------------
BarTypeOK ==
  /\ sensing \in BOOLEAN
  /\ count \in 0 .. BarThreshold
  /\ flag \in Flags
  /\ barPc \in [Crew -> {"out", "add", "spin", "reset", "open"}]
  /\ mine \in [Crew -> Flags]
  /\ waits \in [Crew -> Nat]
  /\ returns \in [Crew -> Nat]
  /\ leads \in Nat

BarLeader(t) == barPc[t] \in {"reset", "open"}

\* The threads counted since the barrier was last opened.
BarArrived == {t \in Crew : waits[t] = leads + 1}

(***************************************************************************)
(* Where every thread stands between the opening before and the next one.  *)
(* The word to wait for is told apart from the one that is there, though   *)
(* the barrier may have been used again by everybody else meanwhile.       *)
(***************************************************************************)
BarPlaces ==
  \A t \in Crew :
    /\ barPc[t] = "out"  => waits[t] = leads /\ returns[t] = leads
    /\ barPc[t] = "add"  => waits[t] = leads /\ returns[t] = leads
    /\ barPc[t] = "spin" =>
         /\ waits[t] \in {leads, leads + 1} /\ returns[t] = waits[t] - 1
         /\ BarIsOpen(t) <=> waits[t] = leads
    /\ BarLeader(t)      => waits[t] = leads + 1 /\ returns[t] = leads
    /\ barPc[t] = "out" /\ sensing => mine[t] = flag
    /\ barPc[t] = "add" => (mine[t] = flag <=> ~sensing)
    /\ BarLeader(t) /\ sensing => mine[t] # flag

\* The count is the number of arrivals; the last of them, and nobody else,
\* opens the barrier.
BarCountsArrivals ==
  /\ count = IF \E t \in Crew : barPc[t] = "open" THEN 0 ELSE Cardinality(BarArrived)
  /\ \A t, u \in Crew : BarLeader(t) /\ BarLeader(u) => t = u
  /\ (\E t \in Crew : BarLeader(t)) <=> BarArrived = Crew /\ Crew # {}

(***************************************************************************)
(* "Returns true for exactly one thread (the leader)": nobody is more      *)
(* often out of the barrier than it was opened, and it was not opened more *)
(* often than everybody arrived.                                           *)
(***************************************************************************)
OneLeaderPerRound ==
  \A t, u \in Crew : returns[t] <= leads /\ leads <= waits[u]

Meet == INSTANCE Rendezvous

\* Nobody passes the barrier before everybody has arrived, however often it is
\* used and however late a waiter looks.
NobodyPassesEarly == Meet!Spec

\* Once everybody has arrived everybody gets out.
EverybodyPasses ==
  \A n \in 1 .. MaxRounds :
    (\A t \in Crew : waits[t] >= n) ~> (\A t \in Crew : returns[t] >= n)
===============================================================================
