---------------------------------- MODULE MCTcp --------------------------------
(* Values for Tcp's parameters that a configuration file cannot write. *)
EXTENDS Tcp

\* The client's numbers wrap with its first byte; those of the server's connections
\* follow each other as closely as the counter of generate_isn lets them, and wrap too.
MCISN == [i \in Conns |-> Wrap(SeqNumMod - 3 + (IF i = 0 THEN 1 ELSE i))]
===============================================================================
