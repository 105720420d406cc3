------------------------------- MODULE ByteStream -----------------------------
(***************************************************************************)
(* What a pipe promises its two ends: the bytes put in come out once, in   *)
(* order and none missing, and a reader is told "end of file" only when    *)
(* everything came out and nothing will go in any more.                    *)
(***************************************************************************)
EXTENDS Naturals, Sequences

CONSTANT Bytes

VARIABLES
  inside,      \* put in and not taken out yet
  ended        \* a reader has been told so

streamVars == <<inside, ended>>

StreamInit == inside = << >> /\ ended = FALSE

Put ==
  /\ ~ended /\ UNCHANGED ended
  /\ Len(inside') > Len(inside)
  /\ SubSeq(inside', 1, Len(inside)) = inside
  /\ inside' \in Seq(Bytes)

Take ==
  /\ \E n \in 1 .. Len(inside) : inside' = SubSeq(inside, n + 1, Len(inside))
  /\ UNCHANGED ended

End == inside = << >> /\ ended' = TRUE /\ UNCHANGED inside

StreamNext == Put \/ Take \/ End

StreamSpec == StreamInit /\ [][StreamNext]_streamVars

===============================================================================
