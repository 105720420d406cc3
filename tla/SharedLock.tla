------------------------------- MODULE SharedLock -----------------------------
(***************************************************************************)
(* What the readers-writer locks of sync/rwlock.rs promise: any number of  *)
(* readers or one writer has access to the data.  Nothing is promised      *)
(* about who comes first.                                                  *)
(***************************************************************************)
CONSTANT Threads

VARIABLES
  reading,  \* the threads with read access
  writing   \* the threads with write access

vars == <<reading, writing>>

Init == reading = {} /\ writing = {}

BeginRead(t) ==
  /\ t \notin reading /\ writing = {}
  /\ reading' = reading \cup {t}
  /\ UNCHANGED writing

EndRead(t) ==
  /\ t \in reading
  /\ reading' = reading \ {t}
  /\ UNCHANGED writing

BeginWrite(t) ==
  /\ reading = {} /\ writing = {}
  /\ writing' = {t}
  /\ UNCHANGED reading

EndWrite(t) ==
  /\ t \in writing
  /\ writing' = writing \ {t}
  /\ UNCHANGED reading

Next == \E t \in Threads : BeginRead(t) \/ EndRead(t) \/ BeginWrite(t) \/ EndWrite(t)

Spec == Init /\ [][Next]_vars
===============================================================================
