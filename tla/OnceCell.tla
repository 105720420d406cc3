-------------------------------- MODULE OnceCell ------------------------------
(***************************************************************************)
(* Once and OnceCell of sync/once.rs: threads race to initialise one cell  *)
(* through get_or_init and set (built on call_once) and get_or_try_init    *)
(* (built on call_once_force).  The value a thread's initialiser makes is  *)
(* named by the thread.                                                    *)
(*                                                                         *)
(* A panic does not unwind in the kernel: Cargo.toml sets panic = "abort"  *)
(* and the panic handler of lib.rs halts the CPU, so the guards that       *)
(* poison a Once are not dropped: unwinds is FALSE.  It is TRUE in a build *)
(* in which they are.                                                      *)
(***************************************************************************)
EXTENDS Integers

CONSTANTS
  Threads,
  NoValue,    \* Option::None in the cell
  Uses,       \* the sets of calls a cell is used with; each a subset of AllCalls
  Outcomes,   \* how initialisers may end: a subset of {"ok", "err", "panic"}
  Builds      \* the builds looked at, by whether a panic drops the guards

AllCalls == {"get_or_init", "set", "get_or_try_init"}

VARIABLES
  unwinds,  \* the build: a panic drops the guards
  calls,    \* the calls made of this cell
  state,    \* Once.state
  value,    \* OnceCell.value
  pc,       \* the operation each thread does next
  op,       \* the call a thread is in
  current,  \* the local `next' of call_once_force_slow
  failed,   \* failed[t]: t's initialiser returned Err
  result,   \* how the thread's last call ended
  runs      \* history: initialisers that stored a value; counts up to 2

vars == <<unwinds, calls, state, value, pc, op, current, failed, result, runs>>

Init ==
  /\ unwinds \in Builds
  /\ calls \in Uses
  /\ state = "INCOMPLETE"
  /\ value = NoValue
  /\ pc = [t \in Threads |-> "idle"]
  /\ op = [t \in Threads |-> CHOOSE c \in calls : TRUE]
  /\ current = [t \in Threads |-> "INCOMPLETE"]
  /\ failed = [t \in Threads |-> FALSE]
  /\ result = [t \in Threads |-> "none"]
  /\ runs = 0

Cell   == <<unwinds, calls, state, value, runs>>
Locals == <<op, current, failed, result>>

Goto(t, from, to) == pc[t] = from /\ pc' = [pc EXCEPT ![t] = to]

is_completed == state = "COMPLETE"

\* The cell is initialised through call_once alone.
CallOnceOnly == "get_or_try_init" \notin calls

\* A call starts; get_or_init and set first take call_once's fast path.
\* Bound: in a use with get_or_try_init a thread makes one call.
Call(t, c) ==
  /\ CallOnceOnly \/ result[t] = "none"
  /\ op' = [op EXCEPT ![t] = c]
  /\ failed' = [failed EXCEPT ![t] = FALSE]
  /\ result' = [result EXCEPT ![t] = "none"]
  /\ \/ c = "get_or_try_init" /\ Goto(t, "idle", "try_get")
     \/ c # "get_or_try_init" /\ is_completed /\ Goto(t, "idle", "return")
     \/ c # "get_or_try_init" /\ ~is_completed /\ Goto(t, "idle", "cas")
  /\ UNCHANGED <<Cell, current>>

\* Mutated form of Cas: the state is tested but not claimed.
CasUnclaimed(t) ==
  /\ CASE state = "INCOMPLETE" -> Goto(t, "cas", "run")
       [] state = "RUNNING"    -> Goto(t, "cas", "wait")
       [] state = "COMPLETE"   -> Goto(t, "cas", "return")
       [] state = "POISONED"   -> Goto(t, "cas", "panicked")
  /\ UNCHANGED <<Cell, Locals>>

\* call_once_slow: compare_exchange(INCOMPLETE, RUNNING).
Cas(t) ==
  /\ CASE state = "INCOMPLETE" -> Goto(t, "cas", "run")
       [] state = "RUNNING"    -> Goto(t, "cas", "wait")
       [] state = "COMPLETE"   -> Goto(t, "cas", "return")
       [] state = "POISONED"   -> Goto(t, "cas", "panicked")
  /\ state' = IF state = "INCOMPLETE" THEN "RUNNING" ELSE state
  /\ UNCHANGED <<unwinds, calls, value, runs, Locals>>

\* Mutated form of Wait: the loop ends with a completion alone.
WaitForComplete(t) ==
  /\ is_completed
  /\ Goto(t, "wait", "recheck")
  /\ UNCHANGED <<Cell, Locals>>

\* call_once_slow: the wait loop ends.
Wait(t) ==
  /\ state # "RUNNING"
  /\ Goto(t, "wait", "recheck")
  /\ UNCHANGED <<Cell, Locals>>

\* Mutated form of Recheck: a waiter takes any end for a completion.
RecheckNothing(t) ==
  /\ Goto(t, "recheck", "return")
  /\ UNCHANGED <<Cell, Locals>>

\* call_once_slow: "Check if it completed or was poisoned".
Recheck(t) ==
  /\ CASE state = "COMPLETE" -> Goto(t, "recheck", "return")
       [] state = "POISONED" -> Goto(t, "recheck", "panicked")
       [] OTHER              -> Goto(t, "recheck", "cas")
  /\ UNCHANGED <<Cell, Locals>>

\* get_or_try_init: the value is there already, or call_once_force is entered.
TryGet(t) ==
  /\ \/ is_completed /\ value # NoValue /\ Goto(t, "try_get", "return")
     \/ ~(is_completed /\ value # NoValue) /\ Goto(t, "try_get", "force")
  /\ UNCHANGED <<Cell, Locals>>

\* call_once_force: its fast path.
Force(t) ==
  /\ \/ is_completed /\ Goto(t, "force", "return")
     \/ ~is_completed /\ Goto(t, "force", "load")
  /\ UNCHANGED <<Cell, Locals>>

\* call_once_force_slow: the value to be exchanged is the one just loaded,
\* whatever it is, except that POISONED becomes INCOMPLETE.
ForceLoad(t) ==
  /\ Goto(t, "load", "force_cas")
  /\ current' = [current EXCEPT ![t] = IF state = "POISONED" THEN "INCOMPLETE" ELSE state]
  /\ UNCHANGED <<Cell, op, failed, result>>

\* call_once_force_slow: compare_exchange(next, RUNNING).
ForceCas(t) ==
  /\ IF state = current[t]
       THEN Goto(t, "force_cas", "run") /\ state' = "RUNNING"
       ELSE /\ CASE state = "RUNNING"  -> Goto(t, "force_cas", "force_wait")
                 [] state = "COMPLETE" -> Goto(t, "force_cas", "return")
                 [] OTHER              -> Goto(t, "force_cas", "load")
            /\ UNCHANGED state
  /\ UNCHANGED <<unwinds, calls, value, runs, Locals>>

ForceWait(t) ==
  /\ state # "RUNNING"
  /\ Goto(t, "force_wait", "force_recheck")
  /\ UNCHANGED <<Cell, Locals>>

ForceRecheck(t) ==
  /\ \/ is_completed /\ Goto(t, "force_recheck", "return")
     \/ ~is_completed /\ Goto(t, "force_recheck", "load")
  /\ UNCHANGED <<Cell, Locals>>

\* The initialiser makes a value and the closure stores it.
RunOk(t) ==
  /\ "ok" \in Outcomes
  /\ Goto(t, "run", "publish")
  /\ value' = t
  /\ runs' = IF runs < 2 THEN runs + 1 ELSE runs
  /\ UNCHANGED <<unwinds, calls, state, Locals>>

\* get_or_try_init: the initialiser returns Err; the closure keeps it.
RunErr(t) ==
  /\ "err" \in Outcomes /\ op[t] = "get_or_try_init"
  /\ Goto(t, "run", "publish")
  /\ failed' = [failed EXCEPT ![t] = TRUE]
  /\ UNCHANGED <<Cell, op, current, result>>

\* The initialiser panics.  Without unwinding its CPU halts where it is; with
\* it, Guard::drop poisons the Once.
RunPanic(t) ==
  /\ "panic" \in Outcomes
  /\ Goto(t, "run", "panicked")
  /\ state' = IF unwinds THEN "POISONED" ELSE state
  /\ UNCHANGED <<unwinds, calls, value, runs, Locals>>

\* Both slow paths: the initialiser has returned, the Once is complete.
Publish(t) ==
  /\ Goto(t, "publish", "return")
  /\ state' = "COMPLETE"
  /\ result' = [result EXCEPT ![t] = "stored"]
  /\ UNCHANGED <<unwinds, calls, value, runs, op, current, failed>>

\* Mutated form of Stored: any completed cell will do.
StoredByAnyone(t) == is_completed

\* The thread's own closure has run and consumed its value.
Stored(t) == result[t] = "stored"

\* The end of a call.  set: Err for a caller whose closure did not run.
\* get_or_try_init: Err of the own initialiser.  Otherwise get().unwrap(),
\* which panics when the cell is not complete or holds None.
Return(t) ==
  /\ LET ends(how) == /\ Goto(t, "return", "idle")
                     /\ result' = [result EXCEPT ![t] = how]
     IN  \/ op[t] = "set" /\ ends(IF Stored(t) THEN "ok" ELSE "err")
         \/ op[t] = "get_or_try_init" /\ failed[t] /\ ends("err")
         \/ /\ op[t] # "set" /\ ~failed[t]
            /\ \/ is_completed /\ value # NoValue /\ ends("ok")
               \/ /\ ~(is_completed /\ value # NoValue)
                  /\ Goto(t, "return", "panicked") /\ UNCHANGED result
  /\ UNCHANGED <<Cell, op, current, failed>>

Step(t) ==
  \/ Cas(t) \/ Wait(t) \/ Recheck(t)
  \/ TryGet(t) \/ Force(t) \/ ForceLoad(t) \/ ForceCas(t) \/ ForceWait(t) \/ ForceRecheck(t)
  \/ RunOk(t) \/ RunErr(t) \/ RunPanic(t) \/ Publish(t) \/ Return(t)

Next == \E t \in Threads : Step(t) \/ \E c \in calls : Call(t, c)

Spec == Init /\ [][Next]_vars

\* A thread inside a call keeps running, its initialiser ends.
Fairness == \A t \in Threads : WF_vars(Step(t))

FairSpec == Spec /\ Fairness

-----------------------------------------------------------------------------
\* "Performs an initialization routine once and only once": at most one
\* initialiser is running or has stored a value, and no other replaces it.
InitializesOnce ==
  /\ \A t, u \in Threads : pc[t] \in {"run", "publish"} /\ pc[u] \in {"run", "publish"} => t = u
  /\ runs <= 1

\* Through call_once that holds in every race.
CallOnceInitializesOnce == CallOnceOnly => InitializesOnce

\* A call that reports success is right: the cell is complete, holds a value,
\* and of all the set calls only the one whose value it is succeeded.
SuccessMeansStored ==
  \A t \in Threads : CallOnceOnly /\ pc[t] = "idle" /\ result[t] = "ok" =>
    /\ is_completed /\ value # NoValue
    /\ op[t] = "set" => value = t

\* A call of get_or_init or set returns only when the cell has been
\* initialised: behind a poisoned initialisation every caller panics instead.
ReturnsInitialized ==
  \A t \in Threads : CallOnceOnly /\ pc[t] = "idle" /\ result[t] # "none" =>
    is_completed /\ value # NoValue

\* An initialiser has panicked where nothing unwinds: the state stays RUNNING.
OwnerHalted == ~unwinds /\ \E t \in Threads : pc[t] = "panicked"

\* Every call of get_or_init and set ends, by returning or by panicking, unless
\* an initialiser has panicked in a build like the kernel's: then, and only
\* then, those that wait for it spin for ever.
CallsEnd ==
  \A t \in Threads :
    CallOnceOnly /\ pc[t] # "idle" ~> pc[t] \in {"idle", "panicked"} \/ OwnerHalted
===============================================================================
