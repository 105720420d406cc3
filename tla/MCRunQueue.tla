------------------------------- MODULE MCRunQueue -----------------------------
(* Values for RunQueue's parameters that a configuration file cannot write. *)
EXTENDS RunQueue

P(k, n, r) == [class |-> k, priority |-> n, rt_priority |-> r]

MCParams == {P(1, 0, 0), P(4, 0, 0), P(4, 0, 99), P(6, 0, 0)}
MCDefaultParams == P(1, 20, 0)
===============================================================================
