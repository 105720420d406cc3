------------------------------- MODULE Rendezvous -----------------------------
(***************************************************************************)
(* What a barrier promises to the threads that meet at it: nobody leaves   *)
(* its n-th meeting before everybody has come to theirs.                   *)
(***************************************************************************)
EXTENDS Naturals

CONSTANT Crew   \* the threads that meet

VARIABLES
  waits,        \* how often each thread has arrived
  returns       \* how often it has left again

vars == <<waits, returns>>

Init ==
  /\ waits = [t \in Crew |-> 0]
  /\ returns = [t \in Crew |-> 0]

Arrive(t) ==
  /\ waits[t] = returns[t]
  /\ waits' = [waits EXCEPT ![t] = @ + 1]
  /\ UNCHANGED returns

Leave(t) ==
  /\ returns[t] < waits[t]
  /\ \A u \in Crew : waits[t] <= waits[u]
  /\ returns' = [returns EXCEPT ![t] = @ + 1]
  /\ UNCHANGED waits

Next == \E t \in Crew : Arrive(t) \/ Leave(t)

Spec == Init /\ [][Next]_vars
===============================================================================
