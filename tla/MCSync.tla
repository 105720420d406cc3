--------------------------------- MODULE MCSync -------------------------------
(***************************************************************************)
(* The locks and meeting points of the sync module beside the spinlocks,   *)
(* in one run.  They share nothing: the initial state says which of them   *)
(* is used, and the others stay as they were created, where their fairness *)
(* asks for nothing.                                                       *)
(***************************************************************************)
EXTENDS RwLock, SeqLock, Barrier

CONSTANTS OnceThreads, NoValue, Uses, Outcomes, Builds, N, Radix

ASSUME OnceAssumption ==
  /\ NoValue \notin OnceThreads
  /\ Uses \subseteq (SUBSET {"get_or_init", "set", "get_or_try_init"}) \ {{}}
  /\ Outcomes \subseteq {"ok", "err", "panic"}
  /\ Builds \subseteq BOOLEAN

ASSUME TreeAssumption == N \in 1 .. 64 /\ Radix \in Nat \ {0}

VARIABLES
  kind,                                                                         \* what is in use
  readers, writer_waiting, write_locked, wpPc, older,                           \* WriterPreferRwLock
  unwinds, calls, onceState, value, oncePc, op, current, failed, result, runs,  \* OnceCell
  arrived, sense, treePc, local_sense, treeWaits, treeReturns                   \* TreeBarrier

wpVars   == <<readers, writer_waiting, write_locked, wpPc, older>>
onceVars == <<unwinds, calls, onceState, value, oncePc, op, current, failed, result, runs>>
treeVars == <<arrived, sense, treePc, local_sense, treeWaits, treeReturns>>

Wp == INSTANCE WriterPreferRwLock WITH pc <- wpPc

Once == INSTANCE OnceCell WITH Threads <- OnceThreads, state <- onceState, pc <- oncePc

Tree == INSTANCE TreeBarrier WITH pc <- treePc, waits <- treeWaits, returns <- treeReturns

MCInit ==
  /\ kind \in {"rw", "seq", "barrier", "wp", "once", "tree"}
  /\ Init /\ SeqInit /\ BarInit /\ Wp!Init /\ Once!Init /\ Tree!Init
  /\ kind # "barrier" => ~sensing
  /\ kind # "once" => calls = CHOOSE use \in Uses : TRUE
  /\ kind # "once" => unwinds = CHOOSE build \in Builds : TRUE

UsesOnly(k) ==
  /\ kind = k /\ UNCHANGED kind
  /\ k # "rw"      => UNCHANGED vars
  /\ k # "seq"     => UNCHANGED seqVars
  /\ k # "barrier" => UNCHANGED barVars
  /\ k # "wp"      => UNCHANGED wpVars
  /\ k # "once"    => UNCHANGED onceVars
  /\ k # "tree"    => UNCHANGED treeVars

MCNext ==
  \/ UsesOnly("rw")      /\ Next
  \/ UsesOnly("seq")     /\ SeqNext
  \/ UsesOnly("barrier") /\ BarNext
  \/ UsesOnly("wp")      /\ Wp!Next
  \/ UsesOnly("once")    /\ Once!Next
  \/ UsesOnly("tree")    /\ Tree!Next

MCSpec ==
  /\ MCInit
  /\ [][MCNext]_<<kind, vars, seqVars, barVars, wpVars, onceVars, treeVars>>
  /\ BarFairness /\ Wp!Fairness /\ Once!Fairness

-----------------------------------------------------------------------------
\* No reader overtakes a writer that has announced itself.
WpWritersArePreferred == Wp!WritersArePreferred

\* Its two double checks let readers share and writers exclude.
WpReadersShareWritersExclude == Wp!ReadersShareWritersExclude

\* They do not keep everybody out for ever.
WpSomeWriterEnters == Wp!SomeWriterEnters

\* call_once runs one initialiser.
CallOnceInitializesOnce == Once!CallOnceInitializesOnce

\* get_or_init and set report success only for the value in the cell.
SuccessMeansStored == Once!SuccessMeansStored

\* They return only when the cell has been initialised.
ReturnsInitialized == Once!ReturnsInitialized

\* They end, by returning or by panicking, unless an initialiser has panicked in
\* a build that does not unwind.
CallsEnd == Once!CallsEnd

\* Nobody passes the tree barrier early.
TreeNobodyPassesEarly == Tree!NobodyPassesEarly
===============================================================================
