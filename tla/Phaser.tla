--------------------------------- MODULE Phaser -------------------------------
(***************************************************************************)
(* Phaser of sync/barrier.rs: a barrier whose parties may change.  Threads *)
(* arrive, with or without waiting, register and deregister.  A caller     *)
(* keeps to the protocol: it arrives once in a phase, and leaves the       *)
(* phaser only between two arrivals.  One atomic operation is one step.    *)
(***************************************************************************)
EXTENDS Integers, FiniteSets

CONSTANTS
  Threads,
  Members,      \* the threads the phaser is created for, with new(n)
  MaxPhases     \* bound: calls are made in the phases below it

VARIABLES
  phase, parties, arrived,   \* the three counters of the phaser
  pc,                        \* the operation each thread does next
  op,                        \* the call it is in
  current,                   \* the local current_phase of arrive_and_await
  last,                      \* the local `arrived'
  registered,                \* history: the threads that count as parties
  arrivals                   \* history: the phases each thread has arrived in

vars == <<phase, parties, arrived, pc, op, current, last, registered, arrivals>>

Init ==
  /\ phase = 0 /\ parties = Cardinality(Members) /\ arrived = 0
  /\ pc = [t \in Threads |-> "out"]
  /\ op = [t \in Threads |-> "arrive"]
  /\ current = [t \in Threads |-> 0]
  /\ last = [t \in Threads |-> 0]
  /\ registered = Members
  /\ arrivals = [t \in Threads |-> 0]

Goto(t, from, to) == pc[t] = from /\ pc' = [pc EXCEPT ![t] = to]

\* The phase of the thread's last arrival is over.
MayArrive(t) == t \in registered /\ arrivals[t] <= phase /\ phase < MaxPhases

\* The last party has arrived, and has not yet begun the next phase.
Ending == \E t \in Threads : pc[t] \in {"reset", "advance"}

\* register(); the caller has missed the phases that are over, and the one that
\* is ending: it is to arrive in the next.
register(t) ==
  /\ t \notin registered /\ pc[t] = "out" /\ phase < MaxPhases
  /\ parties' = parties + 1
  /\ registered' = registered \cup {t}
  /\ arrivals' = [arrivals EXCEPT ![t] = IF Ending THEN phase + 1 ELSE phase]
  /\ UNCHANGED <<phase, arrived, pc, op, current, last>>

\* deregister(), and the first step of arrive_and_deregister().
deregister(t) ==
  /\ MayArrive(t)
  /\ \/ Goto(t, "out", "out") /\ UNCHANGED op
     \/ Goto(t, "out", "add") /\ op' = [op EXCEPT ![t] = "leave"]
  /\ parties' = parties - 1
  /\ registered' = registered \ {t}
  /\ UNCHANGED <<phase, arrived, current, last, arrivals>>

StartArrive(t) ==
  /\ MayArrive(t)
  /\ Goto(t, "out", "add")
  /\ op' = [op EXCEPT ![t] = "arrive"]
  /\ UNCHANGED <<phase, parties, arrived, current, last, registered, arrivals>>

\* arrive_and_await(): load the phase.
StartAwait(t) ==
  /\ MayArrive(t)
  /\ Goto(t, "out", "add")
  /\ op' = [op EXCEPT ![t] = "await"]
  /\ current' = [current EXCEPT ![t] = phase]
  /\ UNCHANGED <<phase, parties, arrived, last, registered, arrivals>>

\* arrived.fetch_add(1).
Arrive(t) ==
  /\ Goto(t, "add", "compare")
  /\ arrived' = arrived + 1
  /\ last' = [last EXCEPT ![t] = arrived + 1]
  /\ arrivals' = [arrivals EXCEPT ![t] = @ + 1]
  /\ UNCHANGED <<phase, parties, op, current, registered>>

\* The number of parties is loaded and compared.
Compare(t) ==
  /\ \/ last[t] = parties /\ Goto(t, "compare", "reset")
     \/ last[t] # parties /\ op[t] = "await" /\ Goto(t, "compare", "spin")
     \/ last[t] # parties /\ op[t] # "await" /\ Goto(t, "compare", "out")
  /\ UNCHANGED <<phase, parties, arrived, op, current, last, registered, arrivals>>

Reset(t) ==
  /\ Goto(t, "reset", "advance")
  /\ arrived' = 0
  /\ UNCHANGED <<phase, parties, op, current, last, registered, arrivals>>

Advance(t) ==
  /\ Goto(t, "advance", IF op[t] = "await" THEN "passed" ELSE "out")
  /\ phase' = phase + 1
  /\ UNCHANGED <<parties, arrived, op, current, last, registered, arrivals>>

\* arrive_and_await(): the phase is another one.
SeePhase(t) ==
  /\ phase # current[t]
  /\ Goto(t, "spin", "passed")
  /\ UNCHANGED <<phase, parties, arrived, op, current, last, registered, arrivals>>

Return(t) ==
  /\ Goto(t, "passed", "out")
  /\ UNCHANGED <<phase, parties, arrived, op, current, last, registered, arrivals>>

Next == \E t \in Threads :
  \/ register(t) \/ deregister(t) \/ StartArrive(t) \/ StartAwait(t)
  \/ Arrive(t) \/ Compare(t) \/ Reset(t) \/ Advance(t) \/ SeePhase(t) \/ Return(t)

Spec == Init /\ [][Next]_vars

-----------------------------------------------------------------------------
\* "Arrive and wait for others": whoever comes out of arrive_and_await finds
\* that all the parties have arrived as often as itself.
WaitsForOthers ==
  \A t \in Threads : pc[t] = "passed" =>
    \A u \in registered : arrivals[t] <= arrivals[u]
===============================================================================
