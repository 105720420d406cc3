-------------------------------- MODULE MCShared ------------------------------
(***************************************************************************)
(* Four structures that threads share: a pipe, the lock-free ring buffer,  *)
(* read-copy-update and the metadata of a thin pool, in one run.  They     *)
(* have nothing in common: the initial state says which of them is used,   *)
(* and the others stay as they were created.                               *)
(***************************************************************************)
EXTENDS Pipe, MpmcRing, FiniteSets

CONSTANTS
  CPUs, Calls, MaxRcuCalls,                                  \* Rcu
  Callers, Devices, VBlocks, NoBlock, NrBlocks, MaxRefs      \* ThinPool

ASSUME RcuAssumption ==
  /\ IsFiniteSet(CPUs) /\ CPUs # {}
  /\ Calls \subseteq {"synchronize", "call_rcu"}
  /\ MaxRcuCalls \in Nat

ASSUME ThinAssumption ==
  /\ IsFiniteSet(Callers) /\ IsFiniteSet(Devices) /\ IsFiniteSet(VBlocks)
  /\ NrBlocks \in Nat \ {0} /\ MaxRefs \in Nat
  /\ NoBlock \notin 0 .. NrBlocks - 1

VARIABLES
  kind,                                                      \* the structure in use
  gp_seq, gp_completed, gp_waiting, gp_in_progress, callbacks, last_gp, nesting,
  rcuPc, op, current_gp, ready, calls, awaited, gpAwaited, stray,
  thin_devices, mappings, ref_counts, nr_free, search_start, used_data_blocks,
  thinPc, thinCall, block

rcuVars == <<gp_seq, gp_completed, gp_waiting, gp_in_progress, callbacks, last_gp, nesting,
             rcuPc, op, current_gp, ready, calls, awaited, gpAwaited, stray>>
thinVars == <<thin_devices, mappings, ref_counts, nr_free, search_start, used_data_blocks,
              thinPc, thinCall, block>>

R == INSTANCE Rcu WITH pc <- rcuPc, MaxCalls <- MaxRcuCalls
Thin == INSTANCE ThinPool WITH pc <- thinPc, call <- thinCall

\* Where the pipe is not used, one of its initial states is enough.
MCInit ==
  /\ kind \in {"pipe", "ring", "rcu", "thin"}
  /\ Init /\ (kind # "pipe" => ~nonblock_read /\ \A n \in Capacities : n >= max_size)
  /\ RingInit /\ R!Init /\ Thin!Init

MCNext ==
  /\ UNCHANGED kind
  /\ \/ kind = "pipe" /\ Next      /\ UNCHANGED <<ringVars, rcuVars, thinVars>>
     \/ kind = "ring" /\ RingNext  /\ UNCHANGED <<vars, rcuVars, thinVars>>
     \/ kind = "rcu"  /\ R!Next    /\ UNCHANGED <<vars, ringVars, thinVars>>
     \/ kind = "thin" /\ Thin!Next /\ UNCHANGED <<vars, ringVars, rcuVars>>

\* The fairness of Pipe, which is asked of a pipe in use.
MCFairness ==
  /\ \A w \in Writers : WF_vars(kind = "pipe" /\ WriteStep(w))
  /\ \A r \in Readers :
       /\ WF_vars(kind = "pipe" /\ ReadStep(r))
       /\ WF_vars(kind = "pipe" /\ \E n \in ReadLengths : ReadBegin(r, n))

MCSpec == MCInit /\ [][MCNext]_<<kind, vars, ringVars, rcuVars, thinVars>> /\ MCFairness

-----------------------------------------------------------------------------
\* A grace period outlasts the readers it began with, as long as no first report
\* was taken from its count.
RcuGracePeriodOutlastsReaders == R!GracePeriodOutlastsReaders

\* A callback is not called while a reader lasts that call_rcu found, as long as
\* no first report was taken from a count.
RcuCallbacksAwaitReaders == R!CallbacksAwaitReaders

\* If the first grace period's count was right, so are all later ones.
RcuLaterCountsAreRight == R!LaterCountsAreRight

\* A block that a thin device maps, or is about to map, is counted.
ThinBlocksAreCounted == Thin!BlocksAreCounted

\* Thin devices share blocks only as snapshots do.
ThinSharersAreSnapshots == Thin!SharersAreSnapshots
===============================================================================
