------------------------------ MODULE Shared_proofs ----------------------------
(***************************************************************************)
(* What the pipe, read-copy-update and the thin pool promise, for any      *)
(* number of threads, CPUs, devices and blocks and every size: the pipe is *)
(* a stream of bytes in which short writes stay whole, grace periods and   *)
(* callbacks wait for the readers they began with, and a data block is     *)
(* counted as often as it is mapped.                                       *)
(***************************************************************************)
EXTENDS MCShared, FiniteSetTheorems, SequenceTheorems, TLAPS

-----------------------------------------------------------------------------
\* The pipe.

-------------------------------------------------------------------------------
(* The inductive invariant *)

\* A call has not put in more than its slice; nobody is inside write() once the
\* write end is dropped; end of file was reported after that, with the buffer
\* empty.
PipeIInv ==
  /\ TypeOK
  /\ \A w \in Writers : total[w] <= len[w]
  /\ write_closed => \A w \in Writers : pc[w] = "idle"
  /\ eof => write_closed /\ data = << >>

\* What WriteFits puts into the buffer.
Room(w) == Least(len[w] - total[w], Space)
Piece(w) == [i \in 1 .. Room(w) |-> Byte(w, call[w], total[w] + i)]

\* The piece is a sequence of bytes, no longer than what is left of the slice.
LEMMA PieceType ==
  ASSUME PipeIInv, NEW w \in Writers
  PROVE  /\ Room(w) \in Nat
         /\ total[w] + Room(w) <= len[w]
         /\ Piece(w) \in Seq(Bytes)
         /\ Len(Piece(w)) = Room(w)
<1>1. /\ len[w] \in Nat /\ total[w] \in Nat /\ call[w] \in Nat
      /\ total[w] <= len[w]
  BY DEF PipeIInv, TypeOK, Threads
<1>2. Space \in Nat
  BY LenProperties, PipeAssumption DEF PipeIInv, TypeOK, Space
<1>3. Room(w) \in Nat /\ total[w] + Room(w) <= len[w]
  BY <1>1, <1>2 DEF Room, Least
<1>4. \A i \in 1 .. Room(w) : Byte(w, call[w], total[w] + i) \in Bytes
  BY <1>1, <1>3 DEF Byte, Bytes
<1>5. Piece(w) \in Seq(Bytes)
  BY <1>3, <1>4, IsASeq DEF Piece
<1>6. Len(Piece(w)) = Room(w)
  BY <1>3, <1>5, LenProperties DEF Piece
<1>7. QED
  BY <1>3, <1>5, <1>6

\* What ReadData leaves in the buffer.
LEMMA RestType ==
  ASSUME NEW s \in Seq(Bytes), NEW k \in Nat
  PROVE  SubSeq(s, Least(k, Len(s)) + 1, Len(s)) \in Seq(Bytes)
<1>1. Len(s) \in Nat /\ Least(k, Len(s)) \in 0 .. Len(s)
  BY LenProperties DEF Least
<1>2. QED
  BY <1>1, SubSeqProperties

\* Return sets the result of one writer, with the flag of the moment.
LEMMA ReturnSets ==
  ASSUME PipeIInv, NEW w \in Writers, NEW n \in Nat, NEW k \in {"ok", "would_block", "broken"},
         Return(w, k, n)
  PROVE  /\ result' \in [Writers -> Result]
         /\ result'[w].kind = k /\ result'[w].n = n
         /\ result'[w].nonblock = nonblock_write
         /\ \A v \in Writers \ {w} : result'[v] = result[v]
<1> PICK f \in BOOLEAN : f = nonblock_write
  BY Zenon DEF PipeIInv, TypeOK
<1> DEFINE r == [kind |-> k, n |-> n, nonblock |-> f]
<1>1. result' = [result EXCEPT ![w] = r] /\ result \in [Writers -> Result]
  BY DEF Return, PipeIInv, TypeOK
<1>2. r \in Result
  BY DEF Result
<1>3. r.kind = k /\ r.n = n /\ r.nonblock = f
  OBVIOUS
<1> HIDE DEF r
<1>4. result'[w] = r /\ result' \in [Writers -> Result]
  BY <1>1, <1>2
<1>5. \A v \in Writers \ {w} : result'[v] = result[v]
  BY <1>1
<1>6. QED
  BY <1>3, <1>4, <1>5

\* What a loop that does not block returns.
LEMMA GiveUpSets ==
  ASSUME PipeIInv, NEW w \in Writers, GiveUp(w)
  PROVE  /\ result' \in [Writers -> Result]
         /\ result'[w].nonblock = nonblock_write
         /\ \/ result'[w].kind = "ok" /\ result'[w].n = total[w] /\ total[w] > 0
            \/ result'[w].kind = "would_block" /\ total[w] = 0
         /\ \A v \in Writers \ {w} : result'[v] = result[v]
<1>1. PICK n \in Nat : n = total[w]
  BY DEF PipeIInv, TypeOK
<1>2. CASE n > 0
  <2>1. Return(w, "ok", n)
    BY <1>1, <1>2 DEF GiveUp
  <2>2. QED
    BY <1>1, <1>2, <2>1, ReturnSets
<1>3. CASE ~(n > 0)
  <2>1. Return(w, "would_block", 0)
    BY <1>1, <1>3 DEF GiveUp
  <2>2. QED
    BY <1>1, <1>3, <2>1, ReturnSets
<1>4. QED
  BY <1>2, <1>3

\* A new pipe satisfies the invariant.
LEMMA PipeInitHolds == Init => PipeIInv
<1> SUFFICES ASSUME Init
             PROVE  PipeIInv
  OBVIOUS
<1>1. nonblock_read \in BOOLEAN /\ nonblock_write \in BOOLEAN
  BY ZenonT(30) DEF Init
<1>2. data \in Seq(Bytes)
  BY EmptySeq DEF Init
<1>3. read_closed \in BOOLEAN /\ write_closed \in BOOLEAN /\ eof \in BOOLEAN
  BY Zenon DEF Init
<1>4. TypeOK
  <2>1. call \in [Writers -> 0 .. MaxCalls]
    BY PipeAssumption DEF Init
  <2>2. result \in [Writers -> Result]
    <3>1. None \in Result
      BY DEF None, Result
    <3>2. QED
      BY <3>1 DEF Init
  <2>3. QED
    BY <1>1, <1>2, <1>3, <2>1, <2>2 DEF Init, TypeOK, Threads
<1>5. \A w \in Writers : total[w] <= len[w] /\ pc[w] = "idle"
  <2>1. /\ total = [w \in Writers |-> 0]
        /\ len = [t \in Threads |-> 0]
        /\ pc = [t \in Threads |-> "idle"]
    BY DEF Init
  <2>2. \A w \in Writers : total[w] = 0 /\ len[w] = 0 /\ pc[w] = "idle"
    BY <2>1, Zenon DEF Threads
  <2>3. 0 <= 0
    OBVIOUS
  <2>4. QED
    BY <2>2, <2>3, Zenon
<1>6. ~eof
  BY Zenon DEF Init
<1>7. QED
  BY <1>4, <1>5, <1>6 DEF PipeIInv

\* Every step preserves the invariant.
LEMMA PipeStepHolds == PipeIInv /\ [Next]_vars => PipeIInv'
<1> SUFFICES ASSUME PipeIInv, [Next]_vars
             PROVE  PipeIInv'
  OBVIOUS
<1> USE PipeAssumption DEF PipeIInv, TypeOK, Threads, flags, Goto
<1>1. ASSUME NEW w \in Writers, NEW n \in WriteLengths, WriteBegin(w, n)
      PROVE  PipeIInv'
  <2>1. result' \in [Writers -> Result]
    <3>1. None \in Result
      BY DEF None, Result
    <3>2. QED
      BY <1>1, <3>1 DEF WriteBegin
  <2>2. QED
    BY <1>1, <2>1 DEF WriteBegin
<1>2. ASSUME NEW w \in Writers, WriteEntry(w)
      PROVE  PipeIInv'
  <2>1. result' \in [Writers -> Result]
    BY <1>2, ReturnSets DEF WriteEntry
  <2>2. QED
    BY <1>2, <2>1 DEF WriteEntry
<1>3. ASSUME NEW w \in Writers, WriteFits(w)
      PROVE  PipeIInv'
  <2>1. /\ data' = data \o Piece(w)
        /\ total' = [total EXCEPT ![w] = @ + Room(w)]
        /\ pc[w] = "try"
        /\ pc' \in [Threads -> {"idle", "entry", "try", "closed?", "nonblock?"}]
        /\ UNCHANGED <<max_size, flags, call, len, eof>>
    BY <1>3 DEF WriteFits, Fill, Room, Piece
  <2>2. data' \in Seq(Bytes)
    BY <2>1, PieceType, ConcatProperties
  <2>3. ~write_closed
    BY <2>1
  <2>4. Room(w) \in Nat /\ total[w] + Room(w) <= len[w]
    BY PieceType
  <2>5. /\ total' \in [Writers -> Nat]
        /\ \A v \in Writers : total'[v] <= len'[v]
    BY <2>1, <2>4
  <2>6. result' \in [Writers -> Result]
    <3>1. PICK n \in Nat : n = total[w] + Room(w)
      BY <2>4
    <3>2. Return(w, "ok", n) \/ result' = result
      BY <1>3, <3>1 DEF WriteFits, Room
    <3>3. QED
      BY <3>2, ReturnSets
  <2>7. QED
    BY <2>1, <2>2, <2>3, <2>5, <2>6
<1>4. ASSUME NEW w \in Writers, WriteFull(w)
      PROVE  PipeIInv'
  <2>1. result' \in [Writers -> Result]
    BY <1>4, GiveUpSets DEF WriteFull
  <2>2. QED
    BY <1>4, <2>1 DEF WriteFull
<1>5. ASSUME NEW w \in Writers, WriteLooksAtReadEnd(w)
      PROVE  PipeIInv'
  <2>1. result' \in [Writers -> Result]
    BY <1>5, ReturnSets DEF WriteLooksAtReadEnd
  <2>2. QED
    BY <1>5, <2>1 DEF WriteLooksAtReadEnd
<1>6. ASSUME NEW w \in Writers, WriteMayGiveUp(w)
      PROVE  PipeIInv'
  <2>1. result' \in [Writers -> Result]
    BY <1>6, GiveUpSets DEF WriteMayGiveUp
  <2>2. QED
    BY <1>6, <2>1 DEF WriteMayGiveUp
<1>7. ASSUME NEW r \in Readers, NEW n \in ReadLengths, ReadBegin(r, n)
      PROVE  PipeIInv'
  BY <1>7 DEF ReadBegin, writing
<1>8. ASSUME NEW r \in Readers, ReadData(r)
      PROVE  PipeIInv'
  <2>1. data' \in Seq(Bytes)
    BY <1>8, RestType DEF ReadData
  <2>2. QED
    BY <1>8, <2>1 DEF ReadData, writing
<1>9. ASSUME NEW r \in Readers, ReadEnd(r)
      PROVE  PipeIInv'
  BY <1>9 DEF ReadEnd, writing
<1>10. ASSUME NEW r \in Readers, ReadEmpty(r)
       PROVE  PipeIInv'
  BY <1>10 DEF ReadEmpty, writing
<1>11. ASSUME NEW r \in Readers, ReadMayGiveUp(r)
       PROVE  PipeIInv'
  BY <1>11 DEF ReadMayGiveUp, writing
<1>12. CASE close_read
  BY <1>12 DEF close_read, Unmoved
<1>17. CASE close_write
  BY <1>17 DEF close_write, Unmoved
<1>16. CASE set_nonblock_read \/ set_nonblock_write
  <2>1. nonblock_read' \in BOOLEAN /\ nonblock_write' \in BOOLEAN
    <3>1. \A b \in BOOLEAN : (~b) \in BOOLEAN
      OBVIOUS
    <3>2. QED
      BY <3>1, <1>16, ZenonT(30) DEF set_nonblock_read, set_nonblock_write
  <2>2. QED
    BY <1>16, <2>1 DEF set_nonblock_read, set_nonblock_write, Unmoved
<1>13. ASSUME NEW size \in Capacities, set_capacity(size)
       PROVE  PipeIInv'
  BY <1>13 DEF set_capacity, Unmoved
<1>14. CASE UNCHANGED vars
  BY <1>14 DEF vars
<1>15. QED
  BY <1>1, <1>2, <1>3, <1>4, <1>5, <1>6, <1>7, <1>8, <1>9, <1>10, <1>11, <1>12, <1>13, <1>14, <1>16, <1>17
     DEF Next, WriteStep, ReadStep

\* The types of the model's state, the bounds on a call's progress and what end
\* of file implies (Pipe::write, Pipe::read and the drops of the two ends).
THEOREM PipeInvariantHolds == Spec => []PipeIInv
  BY PipeInitHolds, PipeStepHolds, PTL DEF Spec

\* The same, for the types alone.
THEOREM PipeTypeCorrect == Spec => []TypeOK
  BY PipeInvariantHolds, PTL DEF PipeIInv

-------------------------------------------------------------------------------
(* Refinement *)

\* A hold of the mutex by write() is a Put, or nothing when no byte fits.
LEMMA WriteFitsPuts ==
  ASSUME PipeIInv, NEW w \in Writers, WriteFits(w)
  PROVE  Stream!Put \/ UNCHANGED <<data, eof>>
<1>1. data' = data \o Piece(w) /\ eof' = eof
  BY DEF WriteFits, Fill, Room, Piece
<1>2. /\ data \in Seq(Bytes) /\ Piece(w) \in Seq(Bytes)
      /\ Room(w) \in Nat /\ Len(Piece(w)) = Room(w)
  BY PieceType DEF PipeIInv, TypeOK
<1>3. /\ data' \in Seq(Bytes)
      /\ Len(data') = Len(data) + Room(w)
  BY <1>1, <1>2, ConcatProperties
<1>4. SubSeq(data', 1, Len(data)) = data
  BY <1>1, <1>2, SubSeqOfConcat1, SubSeqFull, LenProperties
<1>5. ~eof
  <2>1. pc[w] = "try"
    BY DEF WriteFits, Goto
  <2>2. QED
    BY <2>1 DEF PipeIInv
<1>6. CASE Room(w) > 0
  <2>1. Len(data') > Len(data)
    BY <1>2, <1>3, <1>6, LenProperties
  <2>2. QED
    BY <1>1, <1>3, <1>4, <1>5, <2>1 DEF Stream!Put
<1>7. CASE Room(w) = 0
  <2>1. Piece(w) = << >>
    BY <1>2, <1>7, EmptySeq
  <2>2. data' = data
    BY <1>1, <1>2, <2>1, ConcatEmptySeq
  <2>3. QED
    BY <1>1, <2>2
<1>8. QED
  BY <1>2, <1>6, <1>7

\* A hold of the mutex by read() that finds data is a Take.
LEMMA ReadDataTakes ==
  ASSUME PipeIInv, NEW r \in Readers, ReadData(r)
  PROVE  Stream!Take \/ UNCHANGED <<data, eof>>
<1> DEFINE n == Least(len[r], Len(data))
<1>1. /\ data \in Seq(Bytes) /\ data # << >> /\ len[r] \in Nat
      /\ data' = SubSeq(data, n + 1, Len(data)) /\ eof' = eof
  BY DEF ReadData, PipeIInv, TypeOK, Threads
<1>2. n \in 0 .. Len(data)
  BY <1>1, LenProperties DEF Least
<1>3. CASE n = 0
  BY <1>1, <1>3, SubSeqFull
<1>4. CASE n # 0
  <2>1. n \in 1 .. Len(data)
    BY <1>1, <1>2, <1>4, LenProperties
  <2> HIDE DEF n
  <2>2. QED
    BY <1>1, <2>1 DEF Stream!Take
<1>5. QED
  BY <1>3, <1>4

\* Every step of the pipe is a step of the byte stream, or a stutter of it.
LEMMA PipeStepRefines ==
  PipeIInv /\ [Next]_vars => [Stream!StreamNext]_(Stream!streamVars)
<1> SUFFICES ASSUME PipeIInv, [Next]_vars
             PROVE  Stream!StreamNext \/ UNCHANGED <<data, eof>>
  BY DEF Stream!streamVars
<1>1. ASSUME NEW w \in Writers, WriteFits(w)
      PROVE  Stream!StreamNext \/ UNCHANGED <<data, eof>>
  BY <1>1, WriteFitsPuts DEF Stream!StreamNext
<1>2. ASSUME NEW w \in Writers,
             \/ WriteEntry(w) \/ WriteFull(w)
             \/ WriteLooksAtReadEnd(w) \/ WriteMayGiveUp(w)
             \/ \E n \in WriteLengths : WriteBegin(w, n)
      PROVE  UNCHANGED <<data, eof>>
  BY <1>2 DEF WriteEntry, WriteFull, WriteLooksAtReadEnd, WriteMayGiveUp, WriteBegin
<1>3. ASSUME NEW r \in Readers, ReadData(r)
      PROVE  Stream!StreamNext \/ UNCHANGED <<data, eof>>
  BY <1>3, ReadDataTakes DEF Stream!StreamNext
<1>4. ASSUME NEW r \in Readers, ReadEnd(r)
      PROVE  Stream!End
  BY <1>4 DEF ReadEnd, Stream!End
<1>5. ASSUME NEW r \in Readers,
             \/ ReadEmpty(r) \/ ReadMayGiveUp(r)
             \/ \E n \in ReadLengths : ReadBegin(r, n)
      PROVE  UNCHANGED <<data, eof>>
  BY <1>5 DEF ReadEmpty, ReadMayGiveUp, ReadBegin
<1>6. CASE \/ close_read \/ close_write \/ set_nonblock_read \/ set_nonblock_write
           \/ \E size \in Capacities : set_capacity(size)
  BY <1>6 DEF close_read, close_write, set_nonblock_read, set_nonblock_write,
              set_capacity, Unmoved
<1>7. CASE UNCHANGED vars
  BY <1>7 DEF vars
<1>8. QED
  BY <1>1, <1>2, <1>3, <1>4, <1>5, <1>6, <1>7
     DEF Next, WriteStep, ReadStep, Stream!StreamNext

\* Pipe::write and Pipe::read implement a byte stream: bytes come out once and in
\* order, and after end of file was reported none goes in.
THEOREM PipeIsByteStream == Spec => ImplementsByteStream
<1>1. Init => Stream!StreamInit
  BY DEF Init, Stream!StreamInit
<1>2. QED
  BY <1>1, PipeStepRefines, PipeInvariantHolds, PTL DEF Spec, ImplementsByteStream, Stream!StreamSpec

-----------------------------------------------------------------------------
\* The pipe: what a call puts in.

\* Where the bytes in the history come from, and how far a call in progress is: a
\* write that must be atomic has put nothing in before its one locked section.
PipeHistory ==
  /\ stream \in Seq(Bytes)
  /\ \A i \in DOMAIN stream : stream[i][2] \in 1 .. call[stream[i][1]]
  /\ \A w \in Writers :
       pc[w] # "idle" => /\ result[w].kind = "none" /\ call[w] > 0 /\ len[w] > 0
                         /\ total[w] = 0 \/ len[w] > PIPE_BUF

\* The bytes of a call that are in the history: the first total of its slice.
CallBytes ==
  \A w \in Writers :
    LET P == Positions(w, call[w]) IN
    /\ {stream[i][3] : i \in P} = 1 .. total[w]
    /\ \A i, j \in P : i < j => stream[i][3] < stream[j][3]

\* What a result says of total.
ResultsAreTotals ==
  \A w \in Writers :
    /\ result[w].kind = "ok" =>
         /\ result[w].n = total[w] /\ total[w] \in 1 .. len[w]
         /\ total[w] = len[w] \/ result[w].nonblock
    /\ result[w].kind = "would_block" => total[w] = 0 /\ result[w].nonblock
    /\ result[w].kind = "broken" => read_closed

StreamIInv ==
  PipeIInv /\ PipeHistory /\ AtomicWritesStayWhole /\ CallBytes /\ ResultsAreTotals

\* The bytes in the history, and the types of their parts.
LEMMA StreamElements ==
  ASSUME StreamIInv, NEW i \in DOMAIN stream
  PROVE  /\ DOMAIN stream = 1 .. Len(stream) /\ Len(stream) \in Nat
         /\ stream[i][1] \in Writers /\ stream[i][2] \in Nat /\ stream[i][3] \in Nat
         /\ stream[i] = <<stream[i][1], stream[i][2], stream[i][3]>>
<1>1. stream \in Seq(Bytes)
  BY DEF StreamIInv, PipeHistory
<1>2. DOMAIN stream = 1 .. Len(stream) /\ Len(stream) \in Nat
  BY <1>1, LenProperties
<1>3. stream[i] \in Bytes
  BY <1>1, <1>2, ElementOfSeq
<1>4. QED
  BY <1>2, <1>3 DEF Bytes

\* A new pipe has no history.
LEMMA StreamInitHolds == Init => StreamIInv
<1> SUFFICES ASSUME Init PROVE StreamIInv
  OBVIOUS
<1>1. PipeIInv
  BY PipeInitHolds
<1>2. stream \in Seq(Bytes) /\ DOMAIN stream = {} /\ stream = << >>
  BY EmptySeq DEF Init
<1>3. \A w \in Writers : total[w] = 0 /\ len[w] = 0 /\ pc[w] = "idle"
                             /\ result[w].kind = "none"
  <2>1. None.kind = "none"
    BY DEF None
  <2>2. QED
    BY <2>1, Zenon DEF Init, Threads
<1>4. PipeHistory
  BY <1>2, <1>3 DEF PipeHistory
<1>5. \A w \in Writers : Positions(w, call[w]) = {}
  BY <1>2 DEF Positions
<1>6. AtomicWritesStayWhole
  BY <1>5 DEF AtomicWritesStayWhole
<1>7. CallBytes
  <2>1. {stream[i][3] : i \in {}} = 1 .. 0
    OBVIOUS
  <2>2. QED
    BY <1>3, <1>5, <2>1 DEF CallBytes
<1>8. ResultsAreTotals
  BY <1>3 DEF ResultsAreTotals
<1>9. QED
  BY <1>1, <1>4, <1>6, <1>7, <1>8 DEF StreamIInv

\* A step that puts nothing into the pipe and starts no call.
LEMMA StreamKept ==
  ASSUME StreamIInv, PipeIInv', UNCHANGED <<stream, call, total>>,
         \A w \in Writers : len'[w] = len[w],
         read_closed => read_closed',
         \A w \in Writers :
           \/ pc'[w] = pc[w] /\ result'[w] = result[w]
           \/ pc[w] # "idle" /\ pc'[w] # "idle" /\ result'[w] = result[w]
           \/ /\ pc[w] # "idle" /\ pc'[w] = "idle"
              /\ \/ /\ result'[w].kind = "ok" /\ result'[w].n = total[w] /\ total[w] > 0
                    /\ result'[w].nonblock
                 \/ result'[w].kind = "would_block" /\ total[w] = 0 /\ result'[w].nonblock
                 \/ result'[w].kind = "broken" /\ read_closed
  PROVE  StreamIInv'
<1>1. PipeHistory'
  BY DEF StreamIInv, PipeHistory
<1>2. \A w \in Writers : Positions(w, call[w])' = Positions(w, call[w])
  BY DEF Positions
<1>3. AtomicWritesStayWhole'
  BY <1>2 DEF StreamIInv, AtomicWritesStayWhole
<1>4. CallBytes'
  BY <1>2 DEF StreamIInv, CallBytes
<1>5. ResultsAreTotals'
  <2>1. \A w \in Writers : total[w] \in Nat /\ len[w] \in Nat /\ total[w] <= len[w]
    BY DEF StreamIInv, PipeIInv, TypeOK, Threads
  <2>2. QED
    BY <2>1 DEF StreamIInv, ResultsAreTotals
<1>6. QED
  BY <1>1, <1>3, <1>4, <1>5 DEF StreamIInv

\* The bytes of a call are the only ones with its number, so that a new call has
\* none in the pipe.
LEMMA StreamBegin ==
  ASSUME StreamIInv, PipeIInv', NEW w \in Writers, NEW n \in WriteLengths, WriteBegin(w, n)
  PROVE  StreamIInv'
<1>1. /\ call' = [call EXCEPT ![w] = call[w] + 1]
      /\ len' = [len EXCEPT ![w] = n] /\ total' = [total EXCEPT ![w] = 0]
      /\ result' = [result EXCEPT ![w] = None]
      /\ pc[w] = "idle" /\ pc' = [pc EXCEPT ![w] = "entry"]
      /\ stream' = stream /\ read_closed' = read_closed
  BY DEF WriteBegin, Goto, flags
<1>2. /\ call \in [Writers -> 0 .. MaxCalls] /\ total \in [Writers -> Nat]
      /\ len \in [Threads -> Nat] /\ pc \in [Threads -> {"idle", "entry", "try", "closed?", "nonblock?"}]
      /\ result \in [Writers -> Result]
      /\ n \in Nat \ {0} /\ Writers \subseteq Threads /\ MaxCalls \in Nat
  BY PipeAssumption DEF StreamIInv, PipeIInv, TypeOK, Threads
<1>3. \A v \in Writers \ {w} :
        /\ call'[v] = call[v] /\ len'[v] = len[v] /\ total'[v] = total[v]
        /\ result'[v] = result[v] /\ pc'[v] = pc[v]
  BY <1>1, <1>2
<1>4. /\ call'[w] = call[w] + 1 /\ len'[w] = n /\ total'[w] = 0 /\ result'[w].kind = "none"
      /\ pc'[w] = "entry" /\ call[w] \in Nat
  <2>1. None.kind = "none"
    BY DEF None
  <2>2. result'[w] = None
    BY <1>1, <1>2
  <2>3. QED
    BY <1>1, <1>2, <2>1, <2>2
<1>5. PipeHistory'
  <2>1. \A i \in DOMAIN stream' : stream'[i][2] \in 1 .. call'[stream'[i][1]]
    BY <1>1, <1>3, <1>4, StreamElements DEF StreamIInv, PipeHistory
  <2>2. \A v \in Writers :
          pc'[v] # "idle" => /\ result'[v].kind = "none" /\ call'[v] > 0 /\ len'[v] > 0
                             /\ total'[v] = 0 \/ len'[v] > PIPE_BUF
    <3>1. \A v \in Writers \ {w} :
            pc'[v] # "idle" => /\ result'[v].kind = "none" /\ call'[v] > 0 /\ len'[v] > 0
                               /\ total'[v] = 0 \/ len'[v] > PIPE_BUF
      BY <1>3 DEF StreamIInv, PipeHistory
    <3>2. call'[w] > 0 /\ len'[w] > 0
      BY <1>2, <1>4
    <3>3. QED
      BY <3>1, <3>2, <1>4
  <2>3. stream' \in Seq(Bytes)
    BY <1>1 DEF StreamIInv, PipeHistory
  <2>4. QED
    BY <2>1, <2>2, <2>3 DEF PipeHistory
<1>6. Positions(w, call[w])' = {}
  <2>1. \A i \in DOMAIN stream : stream[i][1] = w => stream[i][2] # call[w] + 1
    BY <1>4, StreamElements DEF StreamIInv, PipeHistory
  <2>2. QED
    BY <2>1, <1>1, <1>4 DEF Positions
<1>7. \A v \in Writers \ {w} : Positions(v, call[v])' = Positions(v, call[v])
  BY <1>1, <1>3 DEF Positions
<1>8. AtomicWritesStayWhole'
  BY <1>1, <1>3, <1>6, <1>7 DEF StreamIInv, AtomicWritesStayWhole
<1>9. CallBytes'
  <2> SUFFICES ASSUME NEW v \in Writers
               PROVE  /\ {stream'[i][3] : i \in Positions(v, call[v])'} = 1 .. total'[v]
                      /\ \A i, j \in Positions(v, call[v])' : i < j => stream'[i][3] < stream'[j][3]
    BY DEF CallBytes
  <2>1. CASE v = w
    BY <2>1, <1>4, <1>6
  <2>2. CASE v # w
    BY <2>2, <1>1, <1>3, <1>7 DEF StreamIInv, CallBytes
  <2>3. QED
    BY <2>1, <2>2
<1>10. ResultsAreTotals'
  BY <1>1, <1>3, <1>4 DEF StreamIInv, ResultsAreTotals
<1>11. QED
  BY <1>5, <1>8, <1>9, <1>10 DEF StreamIInv

\* The locked section that puts bytes in.
LEMMA StreamFits ==
  ASSUME StreamIInv, PipeIInv', NEW w \in Writers, WriteFits(w)
  PROVE  StreamIInv'
<1> DEFINE L == Len(stream)
           k == Room(w)
           s == total[w] + k
<1>1. /\ stream' = stream \o Piece(w)
      /\ total' = [total EXCEPT ![w] = s]
      /\ call' = call /\ len' = len
      /\ pc[w] = "try" /\ ~MustWait(w)
      /\ \/ s >= len[w] /\ pc' = [pc EXCEPT ![w] = "idle"] /\ Return(w, "ok", s)
         \/ ~(s >= len[w]) /\ pc' = [pc EXCEPT ![w] = "closed?"] /\ result' = result
      /\ read_closed' = read_closed
  BY DEF WriteFits, Fill, Room, Piece, Goto, flags
<1>2. /\ call \in [Writers -> 0 .. MaxCalls] /\ total \in [Writers -> Nat]
      /\ len \in [Threads -> Nat] /\ pc \in [Threads -> {"idle", "entry", "try", "closed?", "nonblock?"}]
      /\ result \in [Writers -> Result]
      /\ Writers \subseteq Threads /\ MaxCalls \in Nat /\ PIPE_BUF \in Nat
  BY PipeAssumption DEF StreamIInv, PipeIInv, TypeOK, Threads
<1>3. /\ k \in Nat /\ s <= len[w] /\ s \in Nat
      /\ Piece(w) \in Seq(Bytes) /\ Len(Piece(w)) = k
      /\ \A i \in 1 .. k : Piece(w)[i] = <<w, call[w], total[w] + i>>
  BY <1>2, PieceType DEF StreamIInv, Piece, Byte
<1>4. /\ stream \in Seq(Bytes) /\ L \in Nat /\ DOMAIN stream = 1 .. L
      /\ DOMAIN stream' = 1 .. L + k /\ stream' \in Seq(Bytes)
      /\ \A i \in 1 .. L : stream'[i] = stream[i]
      /\ \A i \in L + 1 .. L + k : stream'[i] = <<w, call[w], total[w] + (i - L)>>
  <2>1. stream \in Seq(Bytes)
    BY DEF StreamIInv, PipeHistory
  <2>2. L \in Nat /\ DOMAIN stream = 1 .. L
    BY <2>1, LenProperties
  <2>3. /\ stream' \in Seq(Bytes) /\ Len(stream') = L + k
        /\ \A i \in 1 .. L + k : stream'[i] = IF i <= L THEN stream[i] ELSE Piece(w)[i - L]
    <3> HIDE DEF L, k
    <3>1. QED
      BY <1>1, <1>3, <2>1, ConcatProperties DEF L
  <2>4. DOMAIN stream' = 1 .. L + k
    BY <2>3, LenProperties
  <2>5. \A i \in 1 .. L : stream'[i] = stream[i]
    BY <2>2, <2>3, <1>3
  <2>6. \A i \in L + 1 .. L + k : i \in 1 .. L + k /\ ~(i <= L) /\ i - L \in 1 .. k
    BY <2>2, <1>3
  <2>7. QED
    BY <1>3, <2>1, <2>2, <2>3, <2>4, <2>5, <2>6
<1> DEFINE New == L + 1 .. L + k
<1>5. \A v \in Writers \ {w} : Positions(v, call[v])' = Positions(v, call[v])
  <2>1. \A i \in New : stream'[i][1] = w
    BY <1>4
  <2>2. DOMAIN stream' = (DOMAIN stream) \cup New
    BY <1>3, <1>4
  <2>3. QED
    <3>1. ASSUME NEW v \in Writers \ {w} PROVE Positions(v, call[v])' = Positions(v, call[v])
      <4>1. Positions(v, call[v])' =
              {i \in DOMAIN stream' : stream'[i][1] = v /\ stream'[i][2] = call[v]}
        BY <1>1 DEF Positions
      <4>2. \A i \in DOMAIN stream' : i \in New \/ (i \in DOMAIN stream /\ stream'[i] = stream[i])
        BY <2>2, <1>4
      <4>3. QED
        BY <2>1, <2>2, <4>1, <4>2, <1>4 DEF Positions
    <3>2. QED
      BY <3>1
<1>6. Positions(w, call[w])' = Positions(w, call[w]) \cup New
  <2>1. \A i \in New : stream'[i][1] = w /\ stream'[i][2] = call'[w]
    <3>1. \A i \in New : stream'[i][1] = w /\ stream'[i][2] = call[w]
      BY <1>4
    <3>2. QED
      BY <3>1, <1>1
  <2>2. DOMAIN stream' = (DOMAIN stream) \cup New
    BY <1>3, <1>4
  <2>3. QED
    BY <1>1, <1>4, <2>1, <2>2 DEF Positions
<1>7. \A v \in Writers : Positions(v, call[v]) \subseteq 1 .. L
  BY <1>4 DEF Positions
<1>8. /\ total'[w] = s /\ len'[w] = len[w]
      /\ \A v \in Writers \ {w} : /\ total'[v] = total[v] /\ len'[v] = len[v] /\ pc'[v] = pc[v]
                                  /\ result'[v] = result[v]
      /\ \/ /\ s >= len[w] /\ pc'[w] = "idle"
            /\ result'[w].kind = "ok" /\ result'[w].n = total'[w]
         \/ ~(s >= len[w]) /\ pc'[w] = "closed?" /\ result'[w] = result[w]
  <2>1. PICK n \in Nat : n = s
    BY <1>3
  <2>2. /\ total'[w] = n /\ len'[w] = len[w]
        /\ \A v \in Writers \ {w} : total'[v] = total[v] /\ len'[v] = len[v] /\ pc'[v] = pc[v]
    BY <1>1, <1>2, <2>1
  <2>3. CASE s >= len[w]
    <3>1. Return(w, "ok", n) /\ pc'[w] = "idle" /\ PipeIInv
      BY <1>1, <1>2, <1>3, <2>1, <2>3 DEF StreamIInv
    <3>2. /\ result'[w].kind = "ok" /\ result'[w].n = n
          /\ \A v \in Writers \ {w} : result'[v] = result[v]
      BY <3>1, ReturnSets
    <3>3. QED
      BY <2>1, <2>2, <2>3, <3>1, <3>2
  <2>4. CASE ~(s >= len[w])
    <3>1. pc'[w] = "closed?" /\ result' = result
      BY <1>1, <1>2, <1>3, <2>4
    <3>2. QED
      BY <2>1, <2>2, <2>4, <3>1
  <2>5. QED
    BY <2>3, <2>4
<1>9. /\ result[w].kind = "none" /\ len[w] > 0 /\ (total[w] = 0 \/ len[w] > PIPE_BUF)
  BY <1>1 DEF StreamIInv, PipeHistory
<1>10. len[w] <= PIPE_BUF => total[w] = 0 /\ k = len[w]
  <2> SUFFICES ASSUME len[w] <= PIPE_BUF PROVE total[w] = 0 /\ k = len[w]
    OBVIOUS
  <2>1. total[w] = 0
    BY <1>2, <1>9
  <2>2. Space \in Nat /\ len[w] \in Nat
    BY <1>2, LenProperties, PipeAssumption DEF StreamIInv, PipeIInv, TypeOK, Space
  <2>3. len[w] <= Space
    BY <2>2, <1>1 DEF MustWait
  <2>4. QED
    BY <2>1, <2>2, <2>3 DEF Room, Least
<1>11. PipeHistory'
  <2>1. \A i \in DOMAIN stream' : stream'[i][2] \in 1 .. call'[stream'[i][1]]
    <3>1. \A i \in 1 .. L : stream'[i][2] \in 1 .. call'[stream'[i][1]]
      BY <1>1, <1>4 DEF StreamIInv, PipeHistory
    <3>2. call[w] \in 1 .. call[w]
      BY <1>1, <1>2 DEF StreamIInv, PipeHistory
    <3>3. \A i \in New : stream'[i][2] \in 1 .. call'[stream'[i][1]]
      <4>1. \A i \in New : stream'[i][1] = w /\ stream'[i][2] = call[w]
        BY <1>4
      <4>2. QED
        BY <4>1, <1>1, <3>2
    <3>4. QED
      BY <3>1, <3>3, <1>3, <1>4
  <2>2. \A v \in Writers :
          pc'[v] # "idle" => /\ result'[v].kind = "none" /\ call'[v] > 0 /\ len'[v] > 0
                             /\ total'[v] = 0 \/ len'[v] > PIPE_BUF
    <3>1. pc'[w] # "idle" => len[w] > PIPE_BUF
      BY <1>2, <1>3, <1>8, <1>10
    <3>2. call'[w] > 0 /\ len'[w] > 0 /\ result[w].kind = "none"
      BY <1>1, <1>2, <1>8, <1>9 DEF StreamIInv, PipeHistory
    <3>3. \A v \in Writers \ {w} :
            pc'[v] # "idle" => /\ result'[v].kind = "none" /\ call'[v] > 0 /\ len'[v] > 0
                               /\ total'[v] = 0 \/ len'[v] > PIPE_BUF
      BY <1>1, <1>8 DEF StreamIInv, PipeHistory
    <3>4. QED
      BY <3>1, <3>2, <3>3, <1>8
  <2>3. QED
    BY <2>1, <2>2, <1>4 DEF PipeHistory
<1>12. AtomicWritesStayWhole'
  <2> SUFFICES ASSUME NEW v \in Writers, len'[v] \in 1 .. PIPE_BUF
               PROVE  \/ Positions(v, call[v])' = {}
                      \/ \E first \in Positions(v, call[v])' :
                           Positions(v, call[v])' = first .. first + len'[v] - 1
    BY DEF AtomicWritesStayWhole
  <2>1. CASE v # w
    BY <2>1, <1>5, <1>8 DEF StreamIInv, AtomicWritesStayWhole
  <2>2. CASE v = w
    <3>1. total[w] = 0 /\ k = len[w] /\ len[w] > 0
      BY <2>2, <1>2, <1>8, <1>9, <1>10
    <3>2. Positions(w, call[w]) = {}
      <4>1. {stream[i][3] : i \in Positions(w, call[w])} = 1 .. 0
        BY <3>1, Zenon DEF StreamIInv, CallBytes
      <4>2. \A i \in Positions(w, call[w]) : stream[i][3] \in 1 .. 0
        BY <4>1, Zenon
      <4>3. \A x : x \notin 1 .. 0
        OBVIOUS
      <4>4. QED
        BY <4>2, <4>3, Zenon
    <3>3. Positions(w, call[w])' = L + 1 .. (L + 1) + len'[w] - 1
      <4>1. L \in Nat /\ k \in Nat /\ len'[w] = k
        BY <3>1, <1>3, <1>4, <1>8
      <4>2. (L + 1) + len'[w] - 1 = L + k
        BY <4>1
      <4>3. Positions(w, call[w])' = L + 1 .. L + k
        BY <3>2, <1>6
      <4>4. QED
        BY <4>2, <4>3, Zenon
    <3>4. L + 1 \in Positions(w, call[w])'
      BY <3>1, <3>3, <1>3, <1>4, <1>8
    <3>5. QED
      BY <2>2, <3>3, <3>4
  <2>3. QED
    BY <2>1, <2>2
<1>13. CallBytes'
  <2> SUFFICES ASSUME NEW v \in Writers
               PROVE  /\ {stream'[i][3] : i \in Positions(v, call[v])'} = 1 .. total'[v]
                      /\ \A i, j \in Positions(v, call[v])' : i < j => stream'[i][3] < stream'[j][3]
    BY DEF CallBytes
  <2>1. CASE v # w
    <3>1. \A i \in Positions(v, call[v]) : stream'[i] = stream[i]
      BY <1>4, <1>7
    <3>2. QED
      BY <2>1, <3>1, <1>5, <1>8 DEF StreamIInv, CallBytes
  <2>2. CASE v = w
    <3> DEFINE P == Positions(w, call[w])
    <3>1. \A i \in P : stream'[i] = stream[i]
      BY <1>4, <1>7
    <3>2. /\ {stream[i][3] : i \in P} = 1 .. total[w]
          /\ \A i, j \in P : i < j => stream[i][3] < stream[j][3]
      BY DEF StreamIInv, CallBytes
    <3>3. \A i \in New : stream'[i][3] = total[w] + (i - L)
      BY <1>4
    <3>4. total[w] \in Nat /\ L \in Nat /\ k \in Nat
      BY <1>2, <1>3, <1>4
    <3>5. {stream'[i][3] : i \in P \cup New} = 1 .. s
      <4> HIDE DEF P, L, k
      <4>1. ASSUME NEW i \in P \cup New PROVE stream'[i][3] \in 1 .. s
        <5>1. CASE i \in P
          <6>1. stream'[i][3] \in 1 .. total[w]
            BY <3>1, <3>2, <5>1
          <6>2. QED
            BY <6>1, <3>4
        <5>2. CASE i \in New
          BY <3>3, <3>4, <5>2
        <5>3. QED
          BY <4>1, <5>1, <5>2
      <4>2. ASSUME NEW x \in 1 .. s PROVE \E i \in P \cup New : stream'[i][3] = x
        <5>1. CASE x <= total[w]
          <6>1. x \in {stream[i][3] : i \in P}
            BY <3>2, <3>4, <5>1
          <6>2. QED
            BY <6>1, <3>1
        <5>2. CASE ~(x <= total[w])
          <6>1. L + (x - total[w]) \in New
            BY <3>4, <5>2
          <6>2. stream'[L + (x - total[w])][3] = x
            BY <6>1, <3>3, <3>4, <5>2
          <6>3. QED
            BY <6>1, <6>2
        <5>3. QED
          BY <5>1, <5>2
      <4>3. QED
        BY <4>1, <4>2
    <3>6. \A i, j \in P \cup New : i < j => stream'[i][3] < stream'[j][3]
      <4>1. P \subseteq 1 .. L
        BY <1>7
      <4>2. \A i \in P : stream[i][3] \in 1 .. total[w]
        BY <3>2
      <4> HIDE DEF P, L, k
      <4>3. SUFFICES ASSUME NEW i \in P \cup New, NEW j \in P \cup New, i < j
                     PROVE  stream'[i][3] < stream'[j][3]
        OBVIOUS
      <4>4. CASE i \in P /\ j \in P
        BY <4>3, <4>4, <3>1, <3>2
      <4>5. CASE i \in P /\ j \in New
        <5>1. stream'[i][3] \in 1 .. total[w] /\ stream'[j][3] = total[w] + (j - L)
          BY <4>2, <4>5, <3>1, <3>3
        <5>2. QED
          BY <5>1, <4>5, <3>4
      <4>6. CASE i \in New /\ j \in P
        BY <4>1, <4>3, <4>6, <3>4
      <4>7. CASE i \in New /\ j \in New
        BY <4>3, <4>7, <3>3, <3>4
      <4>8. QED
        BY <4>4, <4>5, <4>6, <4>7
    <3>7. QED
      BY <2>2, <3>5, <3>6, <1>6, <1>8
  <2>3. QED
    BY <2>1, <2>2
<1>14. ResultsAreTotals'
  <2>1. total'[w] \in Nat /\ total'[w] <= len'[w] /\ len'[w] > 0 /\ len'[w] \in Nat
    BY <1>2, <1>3, <1>8, <1>9
  <2>2. QED
    BY <2>1, <1>1, <1>8, <1>9 DEF StreamIInv, ResultsAreTotals
<1>15. QED
  BY <1>11, <1>12, <1>13, <1>14 DEF StreamIInv

\* One step per operation.
LEMMA StreamStepHolds == StreamIInv /\ [Next]_vars => StreamIInv'
<1> SUFFICES ASSUME StreamIInv, [Next]_vars PROVE StreamIInv'
  OBVIOUS
<1>1. PipeIInv'
  BY PipeStepHolds DEF StreamIInv
<1>2. /\ pc \in [Threads -> {"idle", "entry", "try", "closed?", "nonblock?"}]
      /\ len \in [Threads -> Nat] /\ total \in [Writers -> Nat]
      /\ result \in [Writers -> Result]
      /\ Threads = Writers \cup Readers /\ Writers \cap Readers = {}
  BY PipeAssumption DEF StreamIInv, PipeIInv, TypeOK, Threads
<1>3. ASSUME NEW w \in Writers, NEW n \in WriteLengths, WriteBegin(w, n) PROVE StreamIInv'
  BY <1>1, <1>3, StreamBegin
<1>4. ASSUME NEW w \in Writers, WriteFits(w) PROVE StreamIInv'
  BY <1>1, <1>4, StreamFits
<1>5. ASSUME NEW w \in Writers,
             \/ WriteEntry(w) \/ WriteFull(w) \/ WriteLooksAtReadEnd(w) \/ WriteMayGiveUp(w)
      PROVE  StreamIInv'
  <2>1. UNCHANGED <<stream, call, total, len, read_closed>> /\ PipeIInv
    BY <1>5 DEF WriteEntry, WriteFull, WriteLooksAtReadEnd, WriteMayGiveUp, flags, StreamIInv
  <2>2. \A v \in Writers \ {w} : pc'[v] = pc[v]
    BY <1>2, <1>5 DEF WriteEntry, WriteFull, WriteLooksAtReadEnd, WriteMayGiveUp, Goto
  <2>3. \/ pc[w] # "idle" /\ pc'[w] # "idle" /\ result' = result
        \/ pc[w] # "idle" /\ pc'[w] = "idle" /\ GiveUp(w) /\ nonblock_write
        \/ pc[w] # "idle" /\ pc'[w] = "idle" /\ Return(w, "broken", 0) /\ read_closed
    BY <1>2, <1>5 DEF WriteEntry, WriteFull, WriteLooksAtReadEnd, WriteMayGiveUp, Goto
  <2>4. CASE result' = result /\ pc[w] # "idle" /\ pc'[w] # "idle"
    BY <1>1, <2>1, <2>2, <2>3, <2>4, StreamKept
  <2>5. CASE GiveUp(w) /\ nonblock_write /\ pc[w] # "idle" /\ pc'[w] = "idle"
    <3>1. /\ \/ /\ result'[w].kind = "ok" /\ result'[w].n = total[w] /\ total[w] > 0
                /\ result'[w].nonblock
             \/ result'[w].kind = "would_block" /\ total[w] = 0 /\ result'[w].nonblock
          /\ \A v \in Writers \ {w} : result'[v] = result[v]
      BY <2>1, <2>5, GiveUpSets
    <3>2. QED
      BY <1>1, <2>1, <2>2, <2>5, <3>1, StreamKept
  <2>6. CASE Return(w, "broken", 0) /\ read_closed /\ pc[w] # "idle" /\ pc'[w] = "idle"
    <3>1. result'[w].kind = "broken" /\ \A v \in Writers \ {w} : result'[v] = result[v]
      BY <2>1, <2>6, ReturnSets
    <3>2. QED
      BY <1>1, <2>1, <2>2, <2>6, <3>1, StreamKept
  <2>7. QED
    BY <2>3, <2>4, <2>5, <2>6
<1>6. ASSUME NEW r \in Readers, ReadStep(r) \/ \E n \in ReadLengths : ReadBegin(r, n)
      PROVE  StreamIInv'
  <2>1. UNCHANGED <<stream, call, total, result, read_closed>>
    BY <1>6 DEF ReadStep, ReadData, ReadEnd, ReadEmpty, ReadMayGiveUp, ReadBegin, writing, flags
  <2>2. \A w \in Writers : pc'[w] = pc[w] /\ len'[w] = len[w]
    BY <1>2, <1>6 DEF ReadStep, ReadData, ReadEnd, ReadEmpty, ReadMayGiveUp, ReadBegin, Goto
  <2>3. QED
    BY <1>1, <2>1, <2>2, StreamKept
<1>7. CASE \/ close_read \/ close_write \/ set_nonblock_read \/ set_nonblock_write
           \/ \E size \in Capacities : set_capacity(size)
           \/ UNCHANGED vars
  <2>1. UNCHANGED <<stream, call, total, result, pc, len>>
    BY <1>7 DEF close_read, close_write, set_nonblock_read, set_nonblock_write,
                set_capacity, Unmoved, vars
  <2>2. read_closed => read_closed'
    BY <1>7 DEF close_read, close_write, set_nonblock_read, set_nonblock_write,
                set_capacity, flags, vars
  <2>3. QED
    BY <1>1, <2>1, <2>2, StreamKept
<1>8. QED
  BY <1>3, <1>4, <1>5, <1>6, <1>7 DEF Next, WriteStep

\* Pipe::write: a write of at most PIPE_BUF bytes is in the pipe as a whole or not at all.
THEOREM AtomicWritesAlwaysWhole == Spec => []AtomicWritesStayWhole
<1>1. StreamIInv => AtomicWritesStayWhole
  BY DEF StreamIInv
<1>2. QED
  BY <1>1, StreamInitHolds, StreamStepHolds, PTL DEF Spec

\* Pipe::write: the number it returns is the number of bytes it has put into the
\* pipe, less than its slice only when the write end did not block; WouldBlock means
\* that no byte went in, BrokenPipe that the read end is gone.
THEOREM ResultAlwaysCountsBytes == Spec => []ResultCountsBytes
<1>1. StreamIInv => ResultCountsBytes
  <2> SUFFICES ASSUME StreamIInv, NEW w \in Writers
               PROVE  LET P == Positions(w, call[w])
                          r == result[w]
                      IN  /\ r.kind = "ok" =>
                               /\ {stream[i][3] : i \in P} = 1 .. r.n
                               /\ \A i, j \in P : i < j => stream[i][3] < stream[j][3]
                               /\ r.n = len[w] \/ (r.n \in 1 .. len[w] /\ r.nonblock)
                          /\ r.kind = "would_block" => P = {} /\ r.nonblock
                          /\ r.kind = "broken" => read_closed
    BY DEF ResultCountsBytes
  <2>1. /\ {stream[i][3] : i \in Positions(w, call[w])} = 1 .. total[w]
        /\ \A i, j \in Positions(w, call[w]) : i < j => stream[i][3] < stream[j][3]
    BY DEF StreamIInv, CallBytes
  <2>2. total[w] = 0 => Positions(w, call[w]) = {}
    <3>1. total[w] = 0 => \A i \in Positions(w, call[w]) : stream[i][3] \in 1 .. 0
      BY <2>1, Zenon
    <3>2. \A x : x \notin 1 .. 0
      OBVIOUS
    <3>3. QED
      BY <3>1, <3>2, Zenon
  <2>3. QED
    BY <2>1, <2>2 DEF StreamIInv, ResultsAreTotals
<1>2. QED
  BY <1>1, StreamInitHolds, StreamStepHolds, PTL DEF Spec

-----------------------------------------------------------------------------
\* Read-copy-update.

Callback == [call : 1 .. MaxRcuCalls, gp_registered : Nat]

RcuTypeOK ==
  /\ gp_seq \in Nat /\ gp_completed \in Nat /\ gp_waiting \in Int
  /\ gp_in_progress \in BOOLEAN
  /\ callbacks \in Seq(Callback)
  /\ last_gp \in [CPUs -> Nat] /\ nesting \in [CPUs -> Nat]
  /\ rcuPc \in [CPUs -> {"run", "report", "decrement", "complete", "clear", "process",
                         "execute", "push", "start", "advance", "count", "wait_gp", "wait"}]
  /\ op \in [CPUs -> 0 .. MaxRcuCalls]
  /\ current_gp \in [CPUs -> Nat]
  /\ ready \in [CPUs -> Seq(Callback)]
  /\ calls \in 0 .. MaxRcuCalls
  /\ awaited \in [1 .. MaxRcuCalls -> SUBSET CPUs]
  /\ gpAwaited \in SUBSET CPUs
  /\ stray \in BOOLEAN

\* A CPU that reports, or whose thread is inside synchronize, is in no section.
RcuQuiet ==
  \A c \in CPUs :
    /\ op[c] # 0 => rcuPc[c] \notin {"run", "push"}
    /\ rcuPc[c] \in {"wait_gp", "wait"} => op[c] # 0
    /\ op[c] # 0 \/ rcuPc[c] \in {"report", "decrement"} => nesting[c] = 0

\* The CPUs that have not reported for the current grace period, and those that
\* have but are still to take one from gp_waiting.
RcuOwing == {c \in CPUs : last_gp[c] < gp_seq \/ rcuPc[c] = "decrement"}

\* Who works on the state of the grace period.
RcuGpWork(c) == rcuPc[c] \in {"advance", "count", "complete", "clear"}

\* A grace period has one CPU that works on it, nobody owes a report outside of
\* one but before the first, and while it is counted down gp_waiting covers all
\* that do.  A report that has loaded an older gp_seq than there is can only be a
\* first one, in the first grace period.
RcuGpCounts ==
  /\ gp_seq >= 1 /\ gp_completed <= gp_seq
  /\ \A c \in CPUs : last_gp[c] <= gp_seq
  /\ \A c \in CPUs : RcuGpWork(c) => gp_in_progress
  /\ \A c, d \in CPUs : RcuGpWork(c) /\ RcuGpWork(d) => c = d
  /\ ~gp_in_progress => (gp_seq = 1 \/ RcuOwing = {}) /\ gp_waiting <= 0
  /\ \A c \in CPUs :
       /\ RcuGpWork(c) => gp_waiting <= 0
       /\ rcuPc[c] = "advance" => gp_seq = 1 \/ RcuOwing = {}
       /\ rcuPc[c] \in {"complete", "clear"} => RcuOwing = {}
  /\ gp_in_progress /\ (\A c \in CPUs : ~RcuGpWork(c)) =>
       gp_waiting >= 1 /\ gp_waiting >= Cardinality(RcuOwing)
  /\ \A c \in CPUs : rcuPc[c] = "decrement" =>
       \/ last_gp[c] = gp_seq
       \/ last_gp[c] = 1 /\ gp_seq = 2 /\ gp_completed < 2

\* The readers a grace period waits for are in their sections and have not
\* reported for it.
RcuAwaitsReaders ==
  /\ \A c \in gpAwaited : nesting[c] > 0 /\ last_gp[c] < gp_seq
  /\ \A i \in 1 .. MaxRcuCalls : \A c \in awaited[i] : nesting[c] > 0

\* A callback of an earlier grace period waits for nobody the current one does
\* not wait for; one that is before a completed one waits for nobody.
RcuCallbackOK(cb) ==
  /\ cb.call <= calls
  /\ cb.gp_registered <= gp_seq
  /\ cb.gp_registered < gp_seq => awaited[cb.call] \subseteq gpAwaited
  /\ \A c \in CPUs : rcuPc[c] \in {"clear", "process"} /\ cb.gp_registered < current_gp[c] =>
       awaited[cb.call] = {}

RcuCallbacksOK ==
  /\ \A i \in DOMAIN callbacks : RcuCallbackOK(callbacks[i])
  /\ \A c \in CPUs : \A i \in DOMAIN ready[c] : RcuCallbackOK(ready[c][i])
  /\ \A c \in CPUs : rcuPc[c] \in {"clear", "process"} => current_gp[c] <= gp_seq

\* What is being called waits for nobody.
RcuExecuted ==
  \A c \in CPUs : rcuPc[c] = "execute" => \A i \in 1 .. Len(ready[c]) : awaited[ready[c][i].call] = {}

RcuIInv ==
  /\ RcuTypeOK /\ RcuQuiet /\ RcuGpCounts /\ RcuAwaitsReaders /\ RcuCallbacksOK
  /\ RcuExecuted

\* Once a report was taken from the count of a later grace period, only the types
\* are left.
RcuSafe == RcuTypeOK /\ (~stray => RcuIInv)

\* Cardinality means the same inside the instance; there is a CPU.
LEMMA RcuCardinality == /\ R!Cardinality(CPUs) = Cardinality(CPUs)
                        /\ Cardinality(CPUs) \in Nat /\ Cardinality(CPUs) > 0
<1>1. R!Cardinality(CPUs) = Cardinality(CPUs)
  BY Zenon DEF R!Cardinality, Cardinality
<1>2. Cardinality(CPUs) \in Nat /\ Cardinality(CPUs) # 0
  BY RcuAssumption, FS_CardinalityType, FS_EmptySet
<1>3. QED
  BY <1>1, <1>2

\* At the start no grace period has begun.
LEMMA RcuInitHolds == R!Init => RcuSafe
<1> SUFFICES ASSUME R!Init PROVE RcuSafe
  OBVIOUS
<1> USE RcuAssumption
<1>2. /\ gp_seq = 1 /\ gp_completed = 0 /\ gp_in_progress = FALSE
      /\ gp_waiting = 0 /\ callbacks = <<>>
      /\ last_gp = [c \in CPUs |-> 0] /\ nesting = [c \in CPUs |-> 0]
      /\ rcuPc = [c \in CPUs |-> "run"] /\ op = [c \in CPUs |-> 0]
      /\ current_gp = [c \in CPUs |-> 0] /\ ready = [c \in CPUs |-> <<>>]
      /\ calls = 0 /\ awaited = [i \in 1 .. MaxRcuCalls |-> {}] /\ gpAwaited = {}
      /\ stray = FALSE
  BY DEF R!Init
<1>3. <<>> \in Seq(Callback) /\ DOMAIN <<>> = {}
  BY EmptySeq
<1>4. RcuTypeOK
  <2>1. gp_in_progress \in BOOLEAN /\ stray \in BOOLEAN
    BY <1>2, Zenon
  <2>2. QED
    BY <1>2, <1>3, <2>1 DEF RcuTypeOK
<1>5. RcuQuiet
  BY <1>2 DEF RcuQuiet
<1>6. RcuGpCounts
  <2>1. \A c \in CPUs : rcuPc[c] = "run" /\ ~RcuGpWork(c)
    BY <1>2 DEF RcuGpWork
  <2>2. QED
    BY <1>2, <2>1 DEF RcuGpCounts
<1>7. RcuAwaitsReaders
  BY <1>2 DEF RcuAwaitsReaders
<1>8. RcuCallbacksOK /\ RcuExecuted
  BY <1>2, <1>3 DEF RcuCallbacksOK, RcuExecuted
<1>9. QED
  BY <1>4, <1>5, <1>6, <1>7, <1>8 DEF RcuIInv, RcuSafe

\* Types are kept by every step.
LEMMA RcuTypeKept ==
  ASSUME RcuTypeOK, NEW c \in CPUs,
         \/ R!rcu_read_lock(c) \/ R!rcu_read_unlock(c) \/ R!rcu_note_context_switch(c)
         \/ R!Report(c) \/ R!Decrement(c) \/ R!Complete(c) \/ R!Clear(c)
         \/ R!Process(c) \/ R!Execute(c)
         \/ R!synchronize(c) \/ R!call_rcu(c) \/ R!Push(c)
         \/ R!Start(c) \/ R!Advance(c) \/ R!Count(c) \/ R!WaitLoad(c) \/ R!Wait(c) \/ R!Return(c)
  PROVE  RcuTypeOK'
<1> USE RcuAssumption DEF RcuTypeOK, R!Goto, R!State, R!PerCpu, R!Locals, R!History
<1>1. CASE R!rcu_read_lock(c)
  <2>1. nesting' \in [CPUs -> Nat]
    BY <1>1 DEF R!rcu_read_lock
  <2>2. UNCHANGED <<gp_seq, gp_completed, gp_waiting, gp_in_progress, callbacks, last_gp,
                    rcuPc, op, current_gp, ready, calls, awaited, gpAwaited, stray>>
    BY <1>1 DEF R!rcu_read_lock
  <2> HIDE DEF R!Goto
  <2>3. QED
    BY <2>1, <2>2
<1>2. CASE R!rcu_read_unlock(c)
  <2>1. awaited' \in [1 .. MaxRcuCalls -> SUBSET CPUs] /\ gpAwaited' \in SUBSET CPUs
    BY <1>2 DEF R!rcu_read_unlock
  <2>2. nesting' \in [CPUs -> Nat]
    BY <1>2 DEF R!rcu_read_unlock
  <2>3. QED
    BY <1>2, <2>1, <2>2 DEF R!rcu_read_unlock
<1>3. CASE R!rcu_note_context_switch(c) \/ R!Wait(c)
  BY <1>3 DEF R!rcu_note_context_switch, R!Wait
<1>4. CASE R!Report(c)
  BY <1>4 DEF R!Report, R!Back
<1>5. CASE R!Decrement(c)
  <2>1. stray' \in BOOLEAN
    BY <1>5, Zenon DEF R!Decrement, R!CountDown
  <2>2. QED
    BY <1>5, <2>1 DEF R!Decrement, R!CountDown, R!Back
<1>6. CASE R!Complete(c)
  BY <1>6 DEF R!Complete
<1>7. CASE R!Clear(c)
  BY <1>7 DEF R!Clear
<1>8. CASE R!Process(c)
  <2>1. PICK n \in 0 .. Len(callbacks) :
          /\ ready' = [ready EXCEPT ![c] = SubSeq(callbacks, 1, n)]
          /\ callbacks' = SubSeq(callbacks, n + 1, Len(callbacks))
    BY <1>8 DEF R!Process
  <2>2. Len(callbacks) \in Nat /\ \A i \in 1 .. Len(callbacks) : callbacks[i] \in Callback
    BY LenProperties, ElementOfSeq
  <2>3. SubSeq(callbacks, 1, n) \in Seq(Callback)
    BY <2>2, SubSeqProperties
  <2>4. callbacks' \in Seq(Callback)
    BY <2>1, <2>2, SubSeqProperties
  <2>5. QED
    BY <1>8, <2>1, <2>3, <2>4 DEF R!Process
<1>9. CASE R!Execute(c)
  <2>1. ready[c] # <<>> => Tail(ready[c]) \in Seq(Callback)
    BY HeadTailProperties
  <2>2. ready' \in [CPUs -> Seq(Callback)]
    BY <1>9, <2>1 DEF R!Execute
  <2>3. QED
    BY <1>9, <2>2 DEF R!Execute, R!Back
<1>10. CASE R!synchronize(c)
  <2>1. calls' \in 1 .. MaxRcuCalls /\ calls' = calls + 1 /\ R!ActiveReaders \subseteq CPUs
    BY <1>10 DEF R!synchronize, R!Call, R!ActiveReaders
  <2>2. QED
    BY <1>10, <2>1 DEF R!synchronize, R!Call
<1>11. CASE R!call_rcu(c)
  <2>1. calls' \in 1 .. MaxRcuCalls /\ calls' = calls + 1 /\ R!ActiveReaders \subseteq CPUs
    BY <1>11 DEF R!call_rcu, R!Call, R!ActiveReaders
  <2>2. [call |-> calls + 1, gp_registered |-> gp_seq] \in Callback
    BY <2>1 DEF Callback
  <2>3. <<[call |-> calls + 1, gp_registered |-> gp_seq]>> \in Seq(Callback)
    BY <2>2
  <2>4. ready' \in [CPUs -> Seq(Callback)]
    BY <1>11, <2>3 DEF R!call_rcu
  <2>5. awaited' \in [1 .. MaxRcuCalls -> SUBSET CPUs] /\ calls' \in 0 .. MaxRcuCalls
    BY <1>11, <2>1 DEF R!call_rcu, R!Call
  <2>6. rcuPc' \in [CPUs -> {"run", "report", "decrement", "complete", "clear", "process",
                         "execute", "push", "start", "advance", "count", "wait_gp", "wait"}]
    BY <1>11 DEF R!call_rcu
  <2>7. UNCHANGED <<gp_seq, gp_completed, gp_waiting, gp_in_progress, callbacks, last_gp, nesting,
                    op, current_gp, gpAwaited, stray>>
    BY <1>11 DEF R!call_rcu, R!Call
  <2> HIDE DEF R!Goto
  <2>8. QED
    BY <2>4, <2>5, <2>6, <2>7
<1>12. CASE R!Push(c)
  <2>1. callbacks' \in Seq(Callback)
    BY <1>12, ConcatProperties DEF R!Push
  <2>2. ready' \in [CPUs -> Seq(Callback)]
    BY <1>12, EmptySeq DEF R!Push
  <2>3. QED
    BY <1>12, <2>1, <2>2 DEF R!Push
<1>13. CASE R!Start(c)
  BY <1>13 DEF R!Start, R!Started
<1>14. CASE R!Advance(c)
  <2>1. R!ActiveReaders \subseteq CPUs
    BY DEF R!ActiveReaders
  <2>2. QED
    BY <1>14, <2>1 DEF R!Advance
<1>15. CASE R!Count(c)
  <2>1. gp_waiting' \in Int
    BY <1>15, RcuCardinality DEF R!Count
  <2>2. QED
    BY <1>15, <2>1 DEF R!Count, R!Started
<1>16. CASE R!WaitLoad(c)
  BY <1>16 DEF R!WaitLoad
<1>17. CASE R!Return(c)
  BY <1>17 DEF R!Return
<1>18. QED
  BY <1>1, <1>2, <1>3, <1>4, <1>5, <1>6, <1>7, <1>8, <1>9, <1>10, <1>11, <1>12, <1>13, <1>14,
     <1>15, <1>16, <1>17

-----------------------------------------------------------------------------
\* A step of a CPU that is no step of the grace period's.
LEMMA RcuGpKept ==
  ASSUME RcuIInv, NEW c \in CPUs, NEW p,
         rcuPc[c] \notin {"decrement", "advance", "count", "complete", "clear"},
         p \notin {"decrement", "advance", "count", "complete", "clear"},
         rcuPc' = [rcuPc EXCEPT ![c] = p],
         UNCHANGED <<gp_seq, gp_completed, gp_waiting, gp_in_progress, last_gp>>
  PROVE  RcuGpCounts'
<1>1. \A d \in CPUs : /\ RcuGpWork(d)' <=> RcuGpWork(d)
                      /\ rcuPc'[d] = "advance" <=> rcuPc[d] = "advance"
                      /\ rcuPc'[d] \in {"complete", "clear"} <=> rcuPc[d] \in {"complete", "clear"}
                      /\ rcuPc'[d] = "decrement" <=> rcuPc[d] = "decrement"
  BY DEF RcuIInv, RcuTypeOK, RcuGpWork
<1>2. RcuOwing' = RcuOwing
  BY <1>1 DEF RcuOwing
<1>3. QED
  BY <1>1, <1>2 DEF RcuIInv, RcuGpCounts

\* A callback stays safe when no grace period begins and no call is forgotten.
LEMMA RcuCallbackKept ==
  ASSUME NEW cb \in Callback, RcuCallbackOK(cb), RcuTypeOK,
         UNCHANGED <<gp_seq, gpAwaited>>, calls' \in Nat, calls <= calls',
         \A i \in 1 .. calls : awaited'[i] = awaited[i],
         \A d \in CPUs : rcuPc'[d] \in {"clear", "process"} =>
            rcuPc[d] \in {"clear", "process"} /\ current_gp'[d] = current_gp[d]
  PROVE  RcuCallbackOK(cb)'
<1>1. cb.call \in 1 .. calls /\ calls \in Nat
  BY DEF RcuCallbackOK, RcuTypeOK, Callback
<1>2. awaited'[cb.call] = awaited[cb.call] /\ gpAwaited' = gpAwaited
  BY <1>1
<1>3. cb.call <= calls'
  BY <1>1
<1>4. QED
  BY <1>1, <1>2, <1>3 DEF RcuCallbackOK

\* The callbacks are where they were, and so are the sections.
LEMMA RcuCallbacksKept ==
  ASSUME RcuIInv, UNCHANGED <<gp_seq, callbacks, ready, awaited, gpAwaited, calls>>,
         \A d \in CPUs : rcuPc'[d] \in {"clear", "process"} =>
            rcuPc[d] \in {"clear", "process"} /\ current_gp'[d] = current_gp[d],
         \A d \in CPUs : rcuPc'[d] = "execute" => rcuPc[d] = "execute"
  PROVE  RcuCallbacksOK' /\ RcuExecuted'
<1> USE DEF RcuIInv
<1>1. \A cb \in Callback : RcuCallbackOK(cb) => RcuCallbackOK(cb)'
  <2>1. calls' \in Nat /\ calls <= calls' /\ RcuTypeOK
    BY DEF RcuTypeOK
  <2> SUFFICES ASSUME NEW cb \in Callback, RcuCallbackOK(cb) PROVE RcuCallbackOK(cb)'
    OBVIOUS
  <2>2. QED
    BY <2>1, RcuCallbackKept
<1>2. /\ \A i \in DOMAIN callbacks : callbacks[i] \in Callback
      /\ \A d \in CPUs : \A i \in DOMAIN ready[d] : ready[d][i] \in Callback
  BY ElementOfSeq, LenProperties DEF RcuTypeOK
<1>3. \A i \in DOMAIN callbacks' : RcuCallbackOK(callbacks[i])'
  BY <1>1, <1>2 DEF RcuCallbacksOK
<1>4. \A d \in CPUs : \A i \in DOMAIN ready'[d] : RcuCallbackOK(ready[d][i])'
  BY <1>1, <1>2 DEF RcuCallbacksOK
<1>5. \A d \in CPUs : rcuPc'[d] \in {"clear", "process"} => current_gp'[d] <= gp_seq'
  BY DEF RcuCallbacksOK
<1>6. RcuExecuted'
  BY DEF RcuExecuted
<1>7. QED
  BY <1>3, <1>4, <1>5, <1>6 DEF RcuCallbacksOK

-----------------------------------------------------------------------------
\* rcu_read_lock() adds a reader that no call made so far waits for.
LEMMA RcuReadLock ==
  ASSUME RcuIInv, RcuTypeOK', NEW c \in CPUs, R!rcu_read_lock(c)
  PROVE  RcuIInv'
<1>1. /\ rcuPc[c] = "run" /\ nesting' = [nesting EXCEPT ![c] = @ + 1]
      /\ UNCHANGED <<gp_seq, gp_completed, gp_waiting, gp_in_progress, callbacks, last_gp,
                     rcuPc, op, current_gp, ready, calls, awaited, gpAwaited>>
  BY DEF R!rcu_read_lock, R!State, R!Locals, R!History
<1>2. RcuQuiet'
  BY <1>1 DEF RcuIInv, RcuTypeOK, RcuQuiet
<1>3. RcuGpCounts'
  BY <1>1 DEF RcuIInv, RcuGpCounts, RcuOwing, RcuGpWork
<1>4. RcuAwaitsReaders'
  BY <1>1 DEF RcuIInv, RcuTypeOK, RcuAwaitsReaders
<1>5. RcuCallbacksOK' /\ RcuExecuted'
  BY <1>1, RcuCallbacksKept
<1>6. QED
  BY <1>2, <1>3, <1>4, <1>5 DEF RcuIInv

\* The end of a section takes its CPU from every set that is waited for.
LEMMA RcuReadUnlock ==
  ASSUME RcuIInv, RcuTypeOK', NEW c \in CPUs, R!rcu_read_unlock(c)
  PROVE  RcuIInv'
<1>1. /\ rcuPc[c] = "run" /\ nesting' = [nesting EXCEPT ![c] = @ - 1] /\ nesting[c] > 0
      /\ UNCHANGED <<gp_seq, gp_completed, gp_waiting, gp_in_progress, callbacks, last_gp,
                     rcuPc, op, current_gp, ready, calls>>
      /\ \/ /\ nesting[c] = 1 /\ gpAwaited' = gpAwaited \ {c}
            /\ \A i \in 1 .. MaxRcuCalls : awaited'[i] = awaited[i] \ {c}
         \/ nesting[c] # 1 /\ awaited' = awaited /\ gpAwaited' = gpAwaited
  BY DEF R!rcu_read_unlock, R!State, R!Locals
<1>2. /\ nesting' = [nesting EXCEPT ![c] = nesting[c] - 1] /\ nesting \in [CPUs -> Nat]
      /\ gpAwaited \in SUBSET CPUs /\ awaited \in [1 .. MaxRcuCalls -> SUBSET CPUs]
  BY <1>1 DEF RcuIInv, RcuTypeOK
<1>3. RcuQuiet'
  BY <1>1, <1>2 DEF RcuIInv, RcuTypeOK, RcuQuiet
<1>4. RcuGpCounts'
  BY <1>1 DEF RcuIInv, RcuGpCounts, RcuOwing, RcuGpWork
<1>5. RcuAwaitsReaders'
  <2>1. CASE nesting[c] = 1
    <3>1. \A d \in CPUs \ {c} : nesting'[d] = nesting[d]
      BY <1>2
    <3>2. gpAwaited' = gpAwaited \ {c} /\ \A i \in 1 .. MaxRcuCalls : awaited'[i] = awaited[i] \ {c}
      BY <1>1, <2>1
    <3>3. QED
      BY <3>1, <3>2, <1>1, <1>2 DEF RcuIInv, RcuAwaitsReaders
  <2>2. CASE nesting[c] # 1
    <3>1. \A d \in CPUs : nesting[d] > 0 => nesting'[d] > 0
      BY <1>1, <1>2, <2>2
    <3>2. QED
      BY <3>1, <2>2, <1>1, <1>2 DEF RcuIInv, RcuAwaitsReaders
  <2>3. QED
    BY <2>1, <2>2
<1>6. \A cb \in Callback : RcuCallbackOK(cb) => RcuCallbackOK(cb)'
  <2> SUFFICES ASSUME NEW cb \in Callback, RcuCallbackOK(cb) PROVE RcuCallbackOK(cb)'
    OBVIOUS
  <2>1. cb.call \in 1 .. MaxRcuCalls
    BY DEF Callback
  <2>2. \/ awaited'[cb.call] = awaited[cb.call] /\ gpAwaited' = gpAwaited
        \/ awaited'[cb.call] = awaited[cb.call] \ {c} /\ gpAwaited' = gpAwaited \ {c}
    BY <1>1, <2>1
  <2>3. cb.gp_registered < gp_seq => awaited'[cb.call] \subseteq gpAwaited'
    BY <2>2 DEF RcuCallbackOK
  <2>4. awaited[cb.call] = {} => awaited'[cb.call] = {}
    BY <2>2
  <2>5. QED
    BY <1>1, <2>3, <2>4 DEF RcuCallbackOK
<1>7. /\ \A i \in DOMAIN callbacks : callbacks[i] \in Callback
      /\ \A d \in CPUs : \A i \in DOMAIN ready[d] : ready[d][i] \in Callback
  BY ElementOfSeq, LenProperties DEF RcuIInv, RcuTypeOK
<1>8. RcuCallbacksOK'
  <2>1. \A i \in DOMAIN callbacks' : RcuCallbackOK(callbacks[i])'
    BY <1>1, <1>6, <1>7 DEF RcuIInv, RcuCallbacksOK
  <2>2. \A d \in CPUs : \A i \in DOMAIN ready'[d] : RcuCallbackOK(ready[d][i])'
    BY <1>1, <1>6, <1>7 DEF RcuIInv, RcuCallbacksOK
  <2>3. \A d \in CPUs : rcuPc'[d] \in {"clear", "process"} => current_gp'[d] <= gp_seq'
    BY <1>1 DEF RcuIInv, RcuCallbacksOK
  <2>4. QED
    BY <2>1, <2>2, <2>3 DEF RcuCallbacksOK
<1>9. RcuExecuted'
  <2> SUFFICES ASSUME NEW d \in CPUs, rcuPc[d] = "execute", NEW i \in 1 .. Len(ready[d])
               PROVE  awaited'[ready[d][i].call] = {}
    BY <1>1 DEF RcuExecuted
  <2>1. awaited[ready[d][i].call] = {}
    BY DEF RcuIInv, RcuExecuted
  <2>2. ready[d][i].call \in 1 .. MaxRcuCalls
    BY <1>7, LenProperties DEF Callback, RcuIInv, RcuTypeOK
  <2>3. QED
    BY <1>1, <2>1, <2>2
<1>10. QED
  BY <1>3, <1>4, <1>5, <1>8, <1>9 DEF RcuIInv

\* Steps in which a CPU only goes on: it reports, or returns from its wait.
LEMMA RcuGoesOn ==
  ASSUME RcuIInv, RcuTypeOK', NEW c \in CPUs,
         R!rcu_note_context_switch(c) \/ R!Wait(c) \/ R!WaitLoad(c) \/ R!Return(c)
  PROVE  RcuIInv'
<1>1. /\ UNCHANGED <<gp_seq, gp_completed, gp_waiting, gp_in_progress, callbacks, last_gp,
                     nesting, ready, calls, awaited, gpAwaited>>
      /\ rcuPc[c] \in {"run", "wait", "wait_gp"}
      /\ \/ rcuPc' = [rcuPc EXCEPT ![c] = "report"] /\ op' = op
            /\ (nesting[c] = 0 \/ rcuPc[c] = "wait")
         \/ rcuPc' = [rcuPc EXCEPT ![c] = "wait"] /\ op' = op /\ rcuPc[c] = "wait_gp"
         \/ rcuPc' = [rcuPc EXCEPT ![c] = "run"] /\ op' = [op EXCEPT ![c] = 0]
      /\ \A d \in CPUs \ {c} : current_gp'[d] = current_gp[d]
  BY DEF R!rcu_note_context_switch, R!Wait, R!WaitLoad, R!Return, R!Goto, R!State, R!PerCpu,
         R!Locals, R!History, RcuIInv, RcuTypeOK
<1>2. RcuQuiet'
  BY <1>1 DEF RcuIInv, RcuTypeOK, RcuQuiet
<1>3. RcuGpCounts'
  BY <1>1, RcuGpKept
<1>4. RcuAwaitsReaders'
  BY <1>1 DEF RcuIInv, RcuTypeOK, RcuAwaitsReaders
<1>5. RcuCallbacksOK' /\ RcuExecuted'
  <2>1. \A d \in CPUs : rcuPc'[d] \in {"clear", "process"} =>
            rcuPc[d] \in {"clear", "process"} /\ current_gp'[d] = current_gp[d]
    BY <1>1 DEF RcuIInv, RcuTypeOK
  <2>2. \A d \in CPUs : rcuPc'[d] = "execute" => rcuPc[d] = "execute"
    BY <1>1 DEF RcuIInv, RcuTypeOK
  <2>3. QED
    BY <1>1, <2>1, <2>2, RcuCallbacksKept
<1>6. QED
  BY <1>2, <1>3, <1>4, <1>5 DEF RcuIInv

-----------------------------------------------------------------------------
\* A report keeps the CPU among those that owe one, until it has counted down.
LEMMA RcuReports ==
  ASSUME RcuIInv, RcuTypeOK', NEW c \in CPUs, R!Report(c)
  PROVE  RcuIInv'
<1>1. /\ UNCHANGED <<gp_seq, gp_completed, gp_waiting, gp_in_progress, callbacks,
                     nesting, op, current_gp, ready, calls, awaited, gpAwaited>>
      /\ rcuPc[c] = "report" /\ last_gp' = [last_gp EXCEPT ![c] = gp_seq]
      /\ \/ last_gp[c] < gp_seq /\ rcuPc' = [rcuPc EXCEPT ![c] = "decrement"]
         \/ ~(last_gp[c] < gp_seq) /\ op[c] # 0 /\ rcuPc' = [rcuPc EXCEPT ![c] = "wait"]
         \/ ~(last_gp[c] < gp_seq) /\ op[c] = 0 /\ rcuPc' = [rcuPc EXCEPT ![c] = "run"]
  BY DEF R!Report, R!Goto, R!Back, R!State, R!Locals, R!History
<1>2. RcuQuiet'
  BY <1>1 DEF RcuIInv, RcuTypeOK, RcuQuiet
<1>3. nesting[c] = 0
  BY <1>1 DEF RcuIInv, RcuQuiet
<1>4. RcuOwing' = RcuOwing
  BY <1>1 DEF RcuIInv, RcuTypeOK, RcuOwing
<1>5. RcuGpCounts'
  <2>1. \A d \in CPUs : RcuGpWork(d)' <=> RcuGpWork(d)
    BY <1>1 DEF RcuIInv, RcuTypeOK, RcuGpWork
  <2>2. \A d \in CPUs :
          /\ rcuPc'[d] = "advance" <=> rcuPc[d] = "advance"
          /\ rcuPc'[d] \in {"complete", "clear"} <=> rcuPc[d] \in {"complete", "clear"}
    BY <1>1 DEF RcuIInv, RcuTypeOK
  <2>3. \A d \in CPUs : /\ last_gp'[d] <= gp_seq
                        /\ rcuPc'[d] = "decrement" =>
                             \/ last_gp'[d] = gp_seq
                             \/ last_gp'[d] = 1 /\ gp_seq = 2 /\ gp_completed < 2
    BY <1>1 DEF RcuIInv, RcuTypeOK, RcuGpCounts
  <2>4. QED
    BY <1>1, <1>4, <2>1, <2>2, <2>3 DEF RcuIInv, RcuGpCounts
<1>6. RcuAwaitsReaders'
  BY <1>1, <1>3 DEF RcuIInv, RcuTypeOK, RcuAwaitsReaders
<1>7. RcuCallbacksOK' /\ RcuExecuted'
  <2>1. \A d \in CPUs : rcuPc'[d] \in {"clear", "process"} => rcuPc[d] \in {"clear", "process"}
    BY <1>1 DEF RcuIInv, RcuTypeOK
  <2>2. \A d \in CPUs : rcuPc'[d] = "execute" => rcuPc[d] = "execute"
    BY <1>1 DEF RcuIInv, RcuTypeOK
  <2>3. QED
    BY <1>1, <2>1, <2>2, RcuCallbacksKept
<1>8. QED
  BY <1>2, <1>5, <1>6, <1>7 DEF RcuIInv

\* A report that does not go astray: the CPU that takes the count from 1 was the
\* last that owed anything.
LEMMA RcuCountsDown ==
  ASSUME RcuIInv, RcuTypeOK', NEW c \in CPUs, R!Decrement(c), ~R!Strays(c)
  PROVE  RcuIInv'
<1>1. /\ UNCHANGED <<gp_seq, gp_completed, gp_in_progress, callbacks, last_gp,
                     nesting, op, current_gp, ready, calls, awaited, gpAwaited>>
      /\ rcuPc[c] = "decrement" /\ gp_waiting' = gp_waiting - 1
      /\ \/ gp_waiting = 1 /\ rcuPc' = [rcuPc EXCEPT ![c] = "complete"]
         \/ gp_waiting # 1 /\ op[c] # 0 /\ rcuPc' = [rcuPc EXCEPT ![c] = "wait"]
         \/ gp_waiting # 1 /\ op[c] = 0 /\ rcuPc' = [rcuPc EXCEPT ![c] = "run"]
  BY DEF R!Decrement, R!CountDown, R!Goto, R!Back, R!PerCpu, R!Locals
<1>2. RcuQuiet'
  BY <1>1 DEF RcuIInv, RcuTypeOK, RcuQuiet
<1>3. /\ c \in RcuOwing /\ gp_waiting \in Int /\ IsFiniteSet(RcuOwing)
      /\ RcuOwing' \in SUBSET RcuOwing
  <2>1. RcuOwing \subseteq CPUs
    BY DEF RcuOwing
  <2>2. RcuOwing' \subseteq RcuOwing
    BY <1>1 DEF RcuOwing, RcuIInv, RcuTypeOK
  <2>3. QED
    BY <1>1, <2>1, <2>2, RcuAssumption, FS_Subset DEF RcuOwing, RcuIInv, RcuTypeOK
<1>4. (\A d \in CPUs : ~RcuGpWork(d)) => last_gp[c] = gp_seq
  BY <1>1 DEF R!Strays, RcuGpWork, RcuIInv, RcuTypeOK, RcuGpCounts
<1>5. /\ last_gp[c] = gp_seq => RcuOwing' = RcuOwing \ {c}
      /\ Cardinality(RcuOwing \ {c}) = Cardinality(RcuOwing) - 1 /\ Cardinality(RcuOwing) \in Nat
  <2>1. last_gp[c] = gp_seq => RcuOwing' = RcuOwing \ {c}
    BY <1>1 DEF RcuOwing, RcuIInv, RcuTypeOK
  <2>2. QED
    BY <1>3, <2>1, FS_RemoveElement, FS_CardinalityType
<1>6. /\ gp_seq' >= 1 /\ gp_completed' <= gp_seq'
      /\ \A d \in CPUs : last_gp'[d] <= gp_seq'
      /\ \A d \in CPUs : rcuPc'[d] = "decrement" =>
           \/ last_gp'[d] = gp_seq'
           \/ last_gp'[d] = 1 /\ gp_seq' = 2 /\ gp_completed' < 2
  BY <1>1 DEF RcuIInv, RcuTypeOK, RcuGpCounts
<1>7. RcuGpCounts'
  <2>1. CASE gp_waiting = 1
    <3>1. gp_in_progress /\ \A d \in CPUs : ~RcuGpWork(d)
      BY <2>1 DEF RcuIInv, RcuGpCounts
    <3>2. Cardinality(RcuOwing) <= 1
      BY <2>1, <3>1, <1>3 DEF RcuIInv, RcuGpCounts
    <3>3. RcuOwing \ {c} = {}
      <4>1. Cardinality(RcuOwing \ {c}) = 0 /\ IsFiniteSet(RcuOwing \ {c})
        BY <3>2, <1>3, <1>5, FS_RemoveElement, FS_CardinalityType
      <4>2. QED
        BY <4>1, FS_EmptySet
    <3>4. RcuOwing' = {}
      BY <3>1, <3>3, <1>4, <1>5
    <3>5. \A d \in CPUs : RcuGpWork(d)' <=> d = c
      BY <1>1, <2>1, <3>1 DEF RcuIInv, RcuTypeOK, RcuGpWork
    <3>6. gp_waiting' = 0 /\ gp_in_progress'
      BY <1>1, <2>1, <3>1
    <3>7. QED
      BY <1>6, <3>4, <3>5, <3>6 DEF RcuGpCounts
  <2>2. CASE gp_waiting # 1
    <3>1. \A d \in CPUs : /\ RcuGpWork(d)' <=> RcuGpWork(d)
                          /\ rcuPc'[d] = "advance" <=> rcuPc[d] = "advance"
                          /\ rcuPc'[d] \in {"complete", "clear"} <=> rcuPc[d] \in {"complete", "clear"}
      BY <1>1, <2>2 DEF RcuIInv, RcuTypeOK, RcuGpWork
    <3>2. RcuOwing = {} => RcuOwing' = {}
      BY <1>3
    <3>3. \A d \in CPUs : /\ RcuGpWork(d)' => gp_in_progress' /\ gp_waiting' <= 0
                          /\ rcuPc'[d] = "advance" => gp_seq' = 1 \/ RcuOwing' = {}
                          /\ rcuPc'[d] \in {"complete", "clear"} => RcuOwing' = {}
      BY <1>1, <1>3, <3>1, <3>2 DEF RcuIInv, RcuGpCounts
    <3>4. gp_in_progress' /\ (\A d \in CPUs : ~RcuGpWork(d)') =>
             gp_waiting' >= 1 /\ gp_waiting' >= Cardinality(RcuOwing')
      <4>1. (\A d \in CPUs : ~RcuGpWork(d)) => Cardinality(RcuOwing') = Cardinality(RcuOwing) - 1
        BY <1>4, <1>5
      <4>2. gp_in_progress /\ (\A d \in CPUs : ~RcuGpWork(d)) =>
               gp_waiting >= 1 /\ gp_waiting >= Cardinality(RcuOwing)
        BY DEF RcuIInv, RcuGpCounts
      <4>3. QED
        BY <1>1, <1>3, <1>5, <2>2, <3>1, <4>1, <4>2
    <3>5. \A d, e \in CPUs : RcuGpWork(d)' /\ RcuGpWork(e)' => d = e
      BY <3>1 DEF RcuIInv, RcuGpCounts
    <3>6. ~gp_in_progress' => (gp_seq' = 1 \/ RcuOwing' = {}) /\ gp_waiting' <= 0
      BY <1>1, <1>3, <3>2 DEF RcuIInv, RcuGpCounts
    <3>7. QED
      BY <1>6, <3>3, <3>4, <3>5, <3>6 DEF RcuGpCounts
  <2>3. QED
    BY <2>1, <2>2
<1>8. RcuAwaitsReaders'
  BY <1>1 DEF RcuIInv, RcuTypeOK, RcuAwaitsReaders
<1>9. RcuCallbacksOK' /\ RcuExecuted'
  <2>1. \A d \in CPUs : rcuPc'[d] \in {"clear", "process"} => rcuPc[d] \in {"clear", "process"}
    BY <1>1 DEF RcuIInv, RcuTypeOK
  <2>2. \A d \in CPUs : rcuPc'[d] = "execute" => rcuPc[d] = "execute"
    BY <1>1 DEF RcuIInv, RcuTypeOK
  <2>3. QED
    BY <1>1, <2>1, <2>2, RcuCallbacksKept
<1>10. QED
  BY <1>2, <1>7, <1>8, <1>9 DEF RcuIInv

\* Nobody owes a report when a grace period is completed: it waits for nobody.
LEMMA RcuNobodyAwaited ==
  ASSUME RcuIInv, NEW c \in CPUs, rcuPc[c] = "complete"
  PROVE  gpAwaited = {} /\ RcuOwing = {}
<1>1. RcuOwing = {}
  BY DEF RcuIInv, RcuGpCounts, RcuGpWork
<1>2. \A d \in gpAwaited : d \in CPUs /\ last_gp[d] < gp_seq
  BY DEF RcuIInv, RcuTypeOK, RcuAwaitsReaders
<1>3. QED
  BY <1>1, <1>2 DEF RcuOwing

\* complete_gp(): nobody owes a report, so no reader is awaited any more.
LEMMA RcuCompletes ==
  ASSUME RcuIInv, RcuTypeOK', NEW c \in CPUs, R!Complete(c)
  PROVE  RcuIInv'
<1>1. /\ UNCHANGED <<gp_seq, gp_waiting, gp_in_progress, callbacks, last_gp,
                     nesting, op, ready, calls, awaited, gpAwaited>>
      /\ rcuPc[c] = "complete" /\ rcuPc' = [rcuPc EXCEPT ![c] = "clear"]
      /\ current_gp' = [current_gp EXCEPT ![c] = gp_seq]
  BY DEF R!Complete, R!Goto, R!PerCpu, R!History
<1>2. RcuQuiet'
  BY <1>1 DEF RcuIInv, RcuTypeOK, RcuQuiet
<1>3. RcuOwing' = RcuOwing
  BY <1>1 DEF RcuIInv, RcuTypeOK, RcuOwing
<1>4. RcuGpCounts'
  <2>1. \A d \in CPUs : /\ RcuGpWork(d)' <=> RcuGpWork(d)
                        /\ rcuPc'[d] = "advance" <=> rcuPc[d] = "advance"
                        /\ rcuPc'[d] = "decrement" <=> rcuPc[d] = "decrement"
    BY <1>1 DEF RcuIInv, RcuTypeOK, RcuGpWork
  <2>2. RcuOwing = {} /\ gp_completed' = gp_seq /\ gp_seq \in Nat
    BY <1>1, RcuNobodyAwaited DEF R!Complete, RcuIInv, RcuTypeOK
  <2>3. \A d \in CPUs : rcuPc'[d] # "decrement"
    BY <2>1, <2>2 DEF RcuOwing
  <2>4. gp_seq' >= 1 /\ gp_completed' <= gp_seq'
    BY <1>1, <2>2 DEF RcuIInv, RcuGpCounts
  <2>5. QED
    BY <1>1, <1>3, <2>1, <2>2, <2>3, <2>4 DEF RcuIInv, RcuGpCounts
<1>5. RcuAwaitsReaders'
  BY <1>1 DEF RcuIInv, RcuTypeOK, RcuAwaitsReaders
<1>6. ASSUME NEW cb \in Callback, RcuCallbackOK(cb) PROVE RcuCallbackOK(cb)'
  <2>1. gpAwaited = {}
    BY <1>1, RcuNobodyAwaited
  <2>2. cb.gp_registered < gp_seq => awaited[cb.call] = {}
    BY <2>1, <1>6 DEF RcuCallbackOK
  <2>3. \A d \in CPUs : rcuPc'[d] \in {"clear", "process"} =>
           \/ d = c /\ current_gp'[d] = gp_seq
           \/ rcuPc[d] \in {"clear", "process"} /\ current_gp'[d] = current_gp[d]
    BY <1>1 DEF RcuIInv, RcuTypeOK
  <2>4. QED
    BY <1>1, <1>6, <2>2, <2>3 DEF RcuCallbackOK
<1>7. /\ \A i \in DOMAIN callbacks : callbacks[i] \in Callback
      /\ \A d \in CPUs : \A i \in DOMAIN ready[d] : ready[d][i] \in Callback
  BY ElementOfSeq, LenProperties DEF RcuIInv, RcuTypeOK
<1>8. RcuCallbacksOK'
  <2>1. \A i \in DOMAIN callbacks' : RcuCallbackOK(callbacks[i])'
    BY <1>1, <1>6, <1>7 DEF RcuIInv, RcuCallbacksOK
  <2>2. \A d \in CPUs : \A i \in DOMAIN ready'[d] : RcuCallbackOK(ready[d][i])'
    BY <1>1, <1>6, <1>7 DEF RcuIInv, RcuCallbacksOK
  <2>3. \A d \in CPUs : rcuPc'[d] \in {"clear", "process"} => current_gp'[d] <= gp_seq'
    BY <1>1 DEF RcuIInv, RcuTypeOK, RcuCallbacksOK
  <2>4. QED
    BY <2>1, <2>2, <2>3 DEF RcuCallbacksOK
<1>9. RcuExecuted'
  <2>1. \A d \in CPUs : rcuPc'[d] = "execute" => rcuPc[d] = "execute"
    BY <1>1 DEF RcuIInv, RcuTypeOK
  <2>2. QED
    BY <1>1, <2>1 DEF RcuIInv, RcuExecuted
<1>10. QED
  BY <1>2, <1>4, <1>5, <1>8, <1>9 DEF RcuIInv

\* complete_gp(): after the store of gp_in_progress another CPU may start a grace period.
LEMMA RcuClears ==
  ASSUME RcuIInv, RcuTypeOK', NEW c \in CPUs, R!Clear(c)
  PROVE  RcuIInv'
<1>1. /\ UNCHANGED <<gp_seq, gp_completed, gp_waiting, callbacks, last_gp,
                     nesting, op, current_gp, ready, calls, awaited, gpAwaited>>
      /\ rcuPc[c] = "clear" /\ rcuPc' = [rcuPc EXCEPT ![c] = "process"]
      /\ gp_in_progress' = FALSE
  BY DEF R!Clear, R!Goto, R!PerCpu, R!Locals, R!History
<1>2. RcuQuiet'
  BY <1>1 DEF RcuIInv, RcuTypeOK, RcuQuiet
<1>3. RcuOwing = {} /\ gp_waiting <= 0
  BY <1>1 DEF RcuIInv, RcuGpCounts, RcuGpWork
<1>4. RcuOwing' = RcuOwing
  BY <1>1 DEF RcuIInv, RcuTypeOK, RcuOwing
<1>5. RcuGpCounts'
  <2>1. \A d \in CPUs : ~RcuGpWork(d)'
    BY <1>1 DEF RcuIInv, RcuTypeOK, RcuGpWork, RcuGpCounts
  <2>2. \A d \in CPUs : /\ last_gp'[d] <= gp_seq'
                        /\ ~RcuGpWork(d)' /\ rcuPc'[d] # "advance"
                        /\ rcuPc'[d] \notin {"complete", "clear"}
                        /\ rcuPc'[d] = "decrement" =>
                             \/ last_gp'[d] = gp_seq'
                             \/ last_gp'[d] = 1 /\ gp_seq' = 2 /\ gp_completed' < 2
    BY <1>1, <2>1 DEF RcuIInv, RcuTypeOK, RcuGpCounts, RcuGpWork
  <2>3. gp_seq' >= 1 /\ gp_completed' <= gp_seq'
    BY <1>1 DEF RcuIInv, RcuGpCounts
  <2>4. QED
    BY <1>1, <1>3, <1>4, <2>1, <2>2, <2>3 DEF RcuGpCounts
<1>6. RcuAwaitsReaders'
  BY <1>1 DEF RcuIInv, RcuTypeOK, RcuAwaitsReaders
<1>7. RcuCallbacksOK' /\ RcuExecuted'
  <2>1. \A d \in CPUs : rcuPc'[d] \in {"clear", "process"} => rcuPc[d] \in {"clear", "process"}
    BY <1>1 DEF RcuIInv, RcuTypeOK
  <2>2. \A d \in CPUs : rcuPc'[d] = "execute" => rcuPc[d] = "execute"
    BY <1>1 DEF RcuIInv, RcuTypeOK
  <2>3. QED
    BY <1>1, <2>1, <2>2, RcuCallbacksKept
<1>8. QED
  BY <1>2, <1>5, <1>6, <1>7 DEF RcuIInv

-----------------------------------------------------------------------------
\* The queue of callbacks and the callbacks taken from it.
LEMMA RcuElements ==
  ASSUME RcuIInv
  PROVE  /\ Len(callbacks) \in Nat /\ DOMAIN callbacks = 1 .. Len(callbacks)
         /\ \A i \in 1 .. Len(callbacks) : callbacks[i] \in Callback /\ RcuCallbackOK(callbacks[i])
         /\ \A d \in CPUs : /\ Len(ready[d]) \in Nat /\ DOMAIN ready[d] = 1 .. Len(ready[d])
                             /\ \A i \in 1 .. Len(ready[d]) :
                                  ready[d][i] \in Callback /\ RcuCallbackOK(ready[d][i])
<1>1. callbacks \in Seq(Callback) /\ \A d \in CPUs : ready[d] \in Seq(Callback)
  BY DEF RcuIInv, RcuTypeOK
<1>2. Len(callbacks) \in Nat /\ DOMAIN callbacks = 1 .. Len(callbacks)
  BY <1>1, LenProperties
<1>3. \A d \in CPUs : Len(ready[d]) \in Nat /\ DOMAIN ready[d] = 1 .. Len(ready[d])
  BY <1>1, LenProperties
<1>4. \A i \in 1 .. Len(callbacks) : callbacks[i] \in Callback
  BY <1>1, ElementOfSeq
<1>5. \A d \in CPUs : \A i \in 1 .. Len(ready[d]) : ready[d][i] \in Callback
  BY <1>1, ElementOfSeq
<1>6. QED
  BY <1>2, <1>3, <1>4, <1>5 DEF RcuIInv, RcuCallbacksOK

\* Of callbacks that were there already, all stay safe.
LEMMA RcuCallbacksMoved ==
  ASSUME RcuIInv, RcuTypeOK', UNCHANGED <<gp_seq, awaited, gpAwaited, calls, current_gp>>,
         \A d \in CPUs : rcuPc'[d] \in {"clear", "process"} => rcuPc[d] \in {"clear", "process"},
         \A i \in 1 .. Len(callbacks') :
           RcuCallbackOK(callbacks'[i]) /\ callbacks'[i] \in Callback,
         \A d \in CPUs : \A i \in 1 .. Len(ready'[d]) :
           RcuCallbackOK(ready'[d][i]) /\ ready'[d][i] \in Callback
  PROVE  RcuCallbacksOK'
<1>1. DOMAIN callbacks' = 1 .. Len(callbacks')
  BY LenProperties DEF RcuTypeOK
<1>2. \A d \in CPUs : DOMAIN ready'[d] = 1 .. Len(ready'[d])
  BY LenProperties DEF RcuTypeOK
<1>3. ASSUME NEW cb \in Callback, RcuCallbackOK(cb) PROVE RcuCallbackOK(cb)'
  BY <1>3 DEF RcuCallbackOK
<1>4. \A i \in DOMAIN callbacks' : RcuCallbackOK(callbacks[i])'
  BY <1>1, <1>3 DEF RcuCallbackOK
<1>5. \A d \in CPUs : \A i \in DOMAIN ready'[d] : RcuCallbackOK(ready[d][i])'
  BY <1>2, <1>3 DEF RcuCallbackOK
<1>6. \A d \in CPUs : rcuPc'[d] \in {"clear", "process"} => current_gp'[d] <= gp_seq'
  BY DEF RcuIInv, RcuCallbacksOK
<1>7. QED
  BY <1>4, <1>5, <1>6 DEF RcuCallbacksOK

\* What is taken from the queue was registered before the completed grace period
\* began.
LEMMA RcuProcesses ==
  ASSUME RcuIInv, RcuTypeOK', NEW c \in CPUs, R!Process(c)
  PROVE  RcuIInv'
<1>1. /\ UNCHANGED <<gp_seq, gp_completed, gp_waiting, gp_in_progress, last_gp,
                     nesting, op, current_gp, calls, awaited, gpAwaited>>
      /\ rcuPc[c] = "process" /\ rcuPc' = [rcuPc EXCEPT ![c] = "execute"]
  BY DEF R!Process, R!Goto, R!PerCpu, R!History
<1>2. PICK n \in 0 .. Len(callbacks) :
        /\ \A i \in 1 .. n : callbacks[i].gp_registered < current_gp[c]
        /\ ready' = [ready EXCEPT ![c] = SubSeq(callbacks, 1, n)]
        /\ callbacks' = SubSeq(callbacks, n + 1, Len(callbacks))
  BY DEF R!Process, R!IsSafe
<1>3. RcuQuiet'
  BY <1>1 DEF RcuIInv, RcuTypeOK, RcuQuiet
<1>4. RcuGpCounts'
  BY <1>1, RcuGpKept
<1>5. RcuAwaitsReaders'
  BY <1>1 DEF RcuIInv, RcuTypeOK, RcuAwaitsReaders
<1> DEFINE first == SubSeq(callbacks, 1, n)
<1>6. /\ Len(first) = n
      /\ \A i \in 1 .. n : first[i] = callbacks[i]
  <2>1. \A i \in 1 .. n : callbacks[i] \in Callback
    BY RcuElements
  <2>2. n \in Nat /\ n \in Int /\ 1 \in Int
    BY RcuElements
  <2>3. /\ Len(first) = IF 1 <= n THEN n - 1 + 1 ELSE 0
        /\ \A i \in 1 .. n - 1 + 1 : first[i] = callbacks[1 + i - 1]
    BY <2>1, <2>2, SubSeqProperties
  <2> HIDE DEF first
  <2>4. QED
    BY <2>2, <2>3
<1>7. \A i \in 1 .. Len(callbacks') : \E j \in 1 .. Len(callbacks) : callbacks'[i] = callbacks[j]
  <2>1. \A i \in n + 1 .. Len(callbacks) : callbacks[i] \in Callback
    BY RcuElements
  <2>2. n + 1 \in Int /\ Len(callbacks) \in Nat /\ n \in Nat
    BY RcuElements
  <2>3. /\ Len(callbacks') = IF n + 1 <= Len(callbacks) THEN Len(callbacks) - (n + 1) + 1 ELSE 0
        /\ \A i \in 1 .. Len(callbacks) - (n + 1) + 1 : callbacks'[i] = callbacks[(n + 1) + i - 1]
    BY <1>2, <2>1, <2>2, SubSeqProperties
  <2>4. SUFFICES ASSUME NEW i \in 1 .. Len(callbacks')
                 PROVE  \E j \in 1 .. Len(callbacks) : callbacks'[i] = callbacks[j]
    OBVIOUS
  <2>5. callbacks'[i] = callbacks[n + i] /\ n + i \in 1 .. Len(callbacks)
    BY <2>2, <2>3
  <2>6. QED
    BY <2>5
<1>8. /\ ready'[c] = first
      /\ \A d \in CPUs \ {c} : ready'[d] = ready[d]
  BY <1>2 DEF RcuIInv, RcuTypeOK
<1>9. RcuCallbacksOK'
  <2> HIDE DEF first
  <2>1. \A i \in 1 .. Len(callbacks') :
          RcuCallbackOK(callbacks'[i]) /\ callbacks'[i] \in Callback
    BY <1>7, RcuElements
  <2>2. \A d \in CPUs : \A i \in 1 .. Len(ready'[d]) :
          RcuCallbackOK(ready'[d][i]) /\ ready'[d][i] \in Callback
    BY <1>6, <1>8, RcuElements
  <2>3. \A d \in CPUs : rcuPc'[d] \in {"clear", "process"} => rcuPc[d] \in {"clear", "process"}
    BY <1>1 DEF RcuIInv, RcuTypeOK
  <2>4. QED
    BY <1>1, <2>1, <2>2, <2>3, RcuCallbacksMoved
<1>10. RcuExecuted'
  <2> HIDE DEF first
  <2>1. \A i \in 1 .. n : awaited[first[i].call] = {}
    <3>1. \A i \in 1 .. n : RcuCallbackOK(callbacks[i])
      BY RcuElements
    <3>2. QED
      BY <1>1, <1>2, <1>6, <3>1 DEF RcuCallbackOK
  <2>2. \A d \in CPUs \ {c} : rcuPc'[d] = rcuPc[d]
    BY <1>1 DEF RcuIInv, RcuTypeOK
  <2>3. QED
    BY <1>1, <1>6, <1>8, <2>1, <2>2 DEF RcuIInv, RcuExecuted
<1>11. QED
  BY <1>3, <1>4, <1>5, <1>9, <1>10 DEF RcuIInv

\* A ready callback is called: those it waits for have gone.
LEMMA RcuExecutes ==
  ASSUME RcuIInv, RcuTypeOK', NEW c \in CPUs, R!Execute(c)
  PROVE  RcuIInv'
<1>1. /\ UNCHANGED <<gp_seq, gp_completed, gp_waiting, gp_in_progress, callbacks, last_gp,
                     nesting, op, current_gp, calls, awaited, gpAwaited>>
      /\ rcuPc[c] = "execute"
      /\ \/ ready[c] # <<>> /\ ready' = [ready EXCEPT ![c] = Tail(ready[c])] /\ rcuPc' = rcuPc
         \/ ready' = ready /\ op[c] # 0 /\ rcuPc' = [rcuPc EXCEPT ![c] = "wait"]
         \/ ready' = ready /\ op[c] = 0 /\ rcuPc' = [rcuPc EXCEPT ![c] = "run"]
  BY DEF R!Execute, R!Goto, R!Back, R!State, R!PerCpu, R!History
<1>2. RcuQuiet'
  BY <1>1 DEF RcuIInv, RcuTypeOK, RcuQuiet
<1>3. PICK p \in {"execute", "wait", "run"} : rcuPc' = [rcuPc EXCEPT ![c] = p]
  <2>1. rcuPc = [rcuPc EXCEPT ![c] = "execute"]
    BY <1>1 DEF RcuIInv, RcuTypeOK
  <2>2. QED
    BY <1>1, <2>1
<1>4. RcuGpCounts'
  BY <1>1, <1>3, RcuGpKept
<1>5. RcuAwaitsReaders'
  BY <1>1 DEF RcuIInv, RcuTypeOK, RcuAwaitsReaders
<1>6. \A d \in CPUs : \A i \in 1 .. Len(ready'[d]) :
        \E j \in 1 .. Len(ready[d]) : ready'[d][i] = ready[d][j]
  <2>1. \A d \in CPUs : ready'[d] = ready[d] \/ (d = c /\ ready[c] # <<>> /\ ready'[d] = Tail(ready[c]))
    BY <1>1 DEF RcuIInv, RcuTypeOK
  <2>2. ASSUME ready[c] # <<>>, NEW i \in 1 .. Len(Tail(ready[c]))
        PROVE  i + 1 \in 1 .. Len(ready[c]) /\ Tail(ready[c])[i] = ready[c][i + 1]
    <3>1. ready[c] \in Seq(Callback)
      BY DEF RcuIInv, RcuTypeOK
    <3>2. /\ Len(Tail(ready[c])) = Len(ready[c]) - 1
          /\ \A k \in 1 .. Len(Tail(ready[c])) : Tail(ready[c])[k] = ready[c][k + 1]
      BY <2>2, <3>1, HeadTailProperties
    <3>3. QED
      BY <2>2, <3>2, RcuElements
  <2>3. QED
    BY <2>1, <2>2
<1>7. RcuCallbacksOK'
  <2>1. \A i \in 1 .. Len(callbacks') :
          RcuCallbackOK(callbacks'[i]) /\ callbacks'[i] \in Callback
    BY <1>1, RcuElements
  <2>2. \A d \in CPUs : \A i \in 1 .. Len(ready'[d]) :
          RcuCallbackOK(ready'[d][i]) /\ ready'[d][i] \in Callback
    BY <1>6, RcuElements
  <2>3. \A d \in CPUs : rcuPc'[d] \in {"clear", "process"} => rcuPc[d] \in {"clear", "process"}
    BY <1>1 DEF RcuIInv, RcuTypeOK
  <2>4. QED
    BY <1>1, <2>1, <2>2, <2>3, RcuCallbacksMoved
<1>8. RcuExecuted'
  <2>1. \A d \in CPUs : rcuPc'[d] = "execute" => rcuPc[d] = "execute"
    BY <1>1 DEF RcuIInv, RcuTypeOK
  <2>2. ASSUME NEW d \in CPUs, rcuPc'[d] = "execute", NEW i \in 1 .. Len(ready'[d])
        PROVE  awaited'[ready'[d][i].call] = {}
    <3>1. rcuPc[d] = "execute"
      BY <2>1, <2>2
    <3>2. PICK j \in 1 .. Len(ready[d]) : ready'[d][i] = ready[d][j]
      BY <1>6, <2>1, <2>2
    <3>3. awaited[ready[d][j].call] = {}
      BY <3>1 DEF RcuIInv, RcuExecuted
    <3>4. QED
      BY <1>1, <3>2, <3>3
  <2>3. QED
    BY <2>2 DEF RcuExecuted
<1>9. QED
  BY <1>2, <1>4, <1>5, <1>7, <1>8 DEF RcuIInv

\* Push: the callback that was under way joins the queue.
LEMMA RcuPushes ==
  ASSUME RcuIInv, RcuTypeOK', NEW c \in CPUs, R!Push(c)
  PROVE  RcuIInv'
<1>1. /\ UNCHANGED <<gp_seq, gp_completed, gp_waiting, gp_in_progress, last_gp,
                     nesting, op, current_gp, calls, awaited, gpAwaited>>
      /\ rcuPc[c] = "push"
      /\ \/ rcuPc' = [rcuPc EXCEPT ![c] = "run"]
         \/ rcuPc' = [rcuPc EXCEPT ![c] = "start"]
      /\ callbacks' = callbacks \o ready[c] /\ ready' = [ready EXCEPT ![c] = <<>>]
  BY DEF R!Push, R!Goto, R!PerCpu, R!History
<1>2. RcuQuiet'
  BY <1>1 DEF RcuIInv, RcuTypeOK, RcuQuiet
<1>3. RcuGpCounts'
  BY <1>1, RcuGpKept
<1>4. RcuAwaitsReaders'
  BY <1>1 DEF RcuIInv, RcuTypeOK, RcuAwaitsReaders
<1>5. \A i \in 1 .. Len(callbacks') :
        \/ \E j \in 1 .. Len(callbacks) : callbacks'[i] = callbacks[j]
        \/ \E j \in 1 .. Len(ready[c]) : callbacks'[i] = ready[c][j]
  <2>1. callbacks \in Seq(Callback) /\ ready[c] \in Seq(Callback)
    BY DEF RcuIInv, RcuTypeOK
  <2>2. /\ Len(callbacks') = Len(callbacks) + Len(ready[c])
        /\ \A i \in 1 .. Len(callbacks) + Len(ready[c]) :
             callbacks'[i] = IF i <= Len(callbacks) THEN callbacks[i] ELSE ready[c][i - Len(callbacks)]
    BY <1>1, <2>1, ConcatProperties
  <2>3. Len(callbacks) \in Nat /\ Len(ready[c]) \in Nat
    BY RcuElements
  <2>4. SUFFICES ASSUME NEW i \in 1 .. Len(callbacks')
                 PROVE  \/ \E j \in 1 .. Len(callbacks) : callbacks'[i] = callbacks[j]
                        \/ \E j \in 1 .. Len(ready[c]) : callbacks'[i] = ready[c][j]
    OBVIOUS
  <2>5. CASE i <= Len(callbacks)
    BY <2>2, <2>3, <2>5
  <2>6. CASE ~(i <= Len(callbacks))
    <3>1. i - Len(callbacks) \in 1 .. Len(ready[c])
      BY <2>2, <2>3, <2>6
    <3>2. QED
      BY <3>1, <2>2, <2>3, <2>6
  <2>7. QED
    BY <2>5, <2>6
<1>6. \A d \in CPUs : ready'[d] = IF d = c THEN <<>> ELSE ready[d]
  BY <1>1 DEF RcuIInv, RcuTypeOK
<1>7. Len(<<>>) = 0
  BY EmptySeq
<1>8. RcuCallbacksOK'
  <2>1. \A i \in 1 .. Len(callbacks') :
          RcuCallbackOK(callbacks'[i]) /\ callbacks'[i] \in Callback
    BY <1>5, RcuElements
  <2>2. \A d \in CPUs : \A i \in 1 .. Len(ready'[d]) :
          RcuCallbackOK(ready'[d][i]) /\ ready'[d][i] \in Callback
    BY <1>6, <1>7, RcuElements
  <2>3. \A d \in CPUs : rcuPc'[d] \in {"clear", "process"} => rcuPc[d] \in {"clear", "process"}
    BY <1>1 DEF RcuIInv, RcuTypeOK
  <2>4. QED
    BY <1>1, <2>1, <2>2, <2>3, RcuCallbacksMoved
<1>9. RcuExecuted'
  <2>1. \A d \in CPUs : rcuPc'[d] = "execute" => rcuPc[d] = "execute" /\ d # c
    BY <1>1 DEF RcuIInv, RcuTypeOK
  <2>2. ASSUME NEW d \in CPUs, rcuPc'[d] = "execute", NEW i \in 1 .. Len(ready'[d])
        PROVE  awaited'[ready'[d][i].call] = {}
    <3>1. rcuPc[d] = "execute"
      BY <2>1, <2>2
    <3>2. PICK j \in 1 .. Len(ready[d]) : ready'[d][i] = ready[d][j]
      BY <1>6, <2>1, <2>2
    <3>3. awaited[ready[d][j].call] = {}
      BY <3>1 DEF RcuIInv, RcuExecuted
    <3>4. QED
      BY <1>1, <3>2, <3>3
  <2>3. QED
    BY <2>2 DEF RcuExecuted
<1>10. QED
  BY <1>2, <1>3, <1>4, <1>8, <1>9 DEF RcuIInv

-----------------------------------------------------------------------------
\* A call begins: the readers of the moment are noted under its number.
LEMMA RcuCalls ==
  ASSUME RcuIInv, NEW c \in CPUs, R!Call
  PROVE  /\ calls' = calls + 1 /\ calls + 1 \in 1 .. MaxRcuCalls /\ gpAwaited' = gpAwaited
         /\ \A i \in 1 .. MaxRcuCalls : i # calls + 1 => awaited'[i] = awaited[i]
         /\ \A d \in awaited'[calls + 1] : nesting[d] > 0
         /\ \A i \in 1 .. MaxRcuCalls : \A d \in awaited'[i] : nesting[d] > 0
<1>1. /\ calls < MaxRcuCalls /\ calls \in 0 .. MaxRcuCalls /\ MaxRcuCalls \in Nat
      /\ awaited' = [awaited EXCEPT ![calls + 1] = R!ActiveReaders]
      /\ awaited \in [1 .. MaxRcuCalls -> SUBSET CPUs]
      /\ calls' = calls + 1 /\ gpAwaited' = gpAwaited
  BY RcuAssumption DEF R!Call, RcuIInv, RcuTypeOK
<1>2. calls + 1 \in 1 .. MaxRcuCalls
  BY <1>1
<1>3. awaited'[calls + 1] = R!ActiveReaders
  BY <1>1, <1>2
<1>4. \A i \in 1 .. MaxRcuCalls : i # calls + 1 => awaited'[i] = awaited[i]
  BY <1>1, <1>2
<1>5. \A d \in awaited'[calls + 1] : nesting[d] > 0
  BY <1>3 DEF R!ActiveReaders
<1>6. \A i \in 1 .. MaxRcuCalls : \A d \in awaited'[i] : nesting[d] > 0
  BY <1>4, <1>5 DEF RcuIInv, RcuAwaitsReaders
<1>7. QED
  BY <1>1, <1>2, <1>4, <1>5, <1>6

\* The callbacks of earlier calls are not touched by a new one.
LEMMA RcuCallsKeep ==
  ASSUME RcuIInv, RcuTypeOK', NEW c \in CPUs, R!Call, NEW p \in {"start", "push"},
         rcuPc[c] = "run", rcuPc' = [rcuPc EXCEPT ![c] = p],
         UNCHANGED <<gp_seq, callbacks, current_gp>>,
         \A d \in CPUs \ {c} : ready'[d] = ready[d],
         \A i \in 1 .. Len(ready'[c]) :
           \/ \E j \in 1 .. Len(ready[c]) : ready'[c][i] = ready[c][j]
           \/ ready'[c][i].call = calls + 1 /\ ready'[c][i].gp_registered = gp_seq
  PROVE  RcuCallbacksOK' /\ RcuExecuted'
<1>1. /\ calls' = calls + 1 /\ calls \in Nat /\ gpAwaited' = gpAwaited
      /\ \A i \in 1 .. calls : awaited'[i] = awaited[i]
  <2>1. /\ calls' = calls + 1 /\ gpAwaited' = gpAwaited /\ calls + 1 \in 1 .. MaxRcuCalls
        /\ \A i \in 1 .. MaxRcuCalls : i # calls + 1 => awaited'[i] = awaited[i]
    BY RcuCalls
  <2>2. calls \in Nat /\ MaxRcuCalls \in Nat
    BY RcuAssumption DEF RcuIInv, RcuTypeOK
  <2>3. \A i \in 1 .. calls : i \in 1 .. MaxRcuCalls /\ i # calls + 1
    BY <2>1, <2>2
  <2>4. QED
    BY <2>1, <2>2, <2>3
<1>2. \A d \in CPUs : rcuPc'[d] \in {"clear", "process", "execute"} => rcuPc'[d] = rcuPc[d] /\ d # c
  BY DEF RcuIInv, RcuTypeOK
<1>3. ASSUME NEW cb \in Callback, RcuCallbackOK(cb) PROVE RcuCallbackOK(cb)'
  <2>1. calls' \in Nat /\ calls <= calls' /\ RcuTypeOK
    BY <1>1 DEF RcuIInv
  <2>2. QED
    BY <1>1, <1>2, <1>3, <2>1, RcuCallbackKept
<1>4. ASSUME NEW cb, cb.call = calls + 1, cb.gp_registered = gp_seq
      PROVE  RcuCallbackOK(cb)'
  <2>1. \A d \in CPUs : rcuPc'[d] \in {"clear", "process"} => current_gp'[d] <= gp_seq
    BY <1>2 DEF RcuIInv, RcuCallbacksOK
  <2>2. gp_seq \in Nat /\ current_gp' \in [CPUs -> Nat]
    BY DEF RcuIInv, RcuTypeOK
  <2>3. QED
    BY <1>1, <1>4, <2>1, <2>2 DEF RcuCallbackOK
<1>5. DOMAIN callbacks' = 1 .. Len(callbacks') /\ \A d \in CPUs : DOMAIN ready'[d] = 1 .. Len(ready'[d])
  BY LenProperties DEF RcuTypeOK
<1>6. RcuCallbacksOK'
  <2>1. \A i \in DOMAIN callbacks' : RcuCallbackOK(callbacks[i])'
    BY <1>3, RcuElements
  <2>2. \A d \in CPUs : \A i \in DOMAIN ready'[d] : RcuCallbackOK(ready[d][i])'
    <3>1. ASSUME NEW d \in CPUs, NEW i \in DOMAIN ready'[d] PROVE RcuCallbackOK(ready[d][i])'
      <4>1. CASE \E j \in 1 .. Len(ready[d]) : ready'[d][i] = ready[d][j]
        BY <4>1, <1>3, RcuElements DEF RcuCallbackOK
      <4>2. CASE ready'[d][i].call = calls + 1 /\ ready'[d][i].gp_registered = gp_seq
        BY <4>2, <1>4 DEF RcuCallbackOK
      <4>3. QED
        BY <4>1, <4>2, <1>5, <3>1
    <3>2. QED
      BY <3>1
  <2>3. \A d \in CPUs : rcuPc'[d] \in {"clear", "process"} => current_gp'[d] <= gp_seq'
    BY <1>2 DEF RcuIInv, RcuCallbacksOK
  <2>4. QED
    BY <2>1, <2>2, <2>3 DEF RcuCallbacksOK
<1>7. RcuExecuted'
  <2>1. ASSUME NEW d \in CPUs, rcuPc'[d] = "execute", NEW i \in 1 .. Len(ready'[d])
        PROVE  awaited'[ready'[d][i].call] = {}
    <3>1. rcuPc[d] = "execute" /\ ready'[d] = ready[d]
      BY <1>2, <2>1
    <3>2. awaited[ready[d][i].call] = {}
      BY <2>1, <3>1 DEF RcuIInv, RcuExecuted
    <3>3. ready[d][i].call \in 1 .. calls
      BY <2>1, <3>1, <1>1, RcuElements DEF RcuCallbackOK, Callback
    <3>4. QED
      BY <1>1, <3>1, <3>2, <3>3
  <2>2. QED
    BY <2>1 DEF RcuExecuted
<1>8. QED
  BY <1>6, <1>7

\* synchronize() and call_rcu() note the readers of the moment.
LEMMA RcuSynchronizes ==
  ASSUME RcuIInv, RcuTypeOK', NEW c \in CPUs, R!synchronize(c) \/ R!call_rcu(c)
  PROVE  RcuIInv'
<1>1. /\ UNCHANGED <<gp_seq, gp_completed, gp_waiting, gp_in_progress, callbacks, last_gp,
                     nesting, current_gp>>
      /\ R!Call /\ rcuPc[c] = "run"
  BY DEF R!synchronize, R!call_rcu, R!Goto, R!State, R!PerCpu
<1>2. /\ calls' = calls + 1 /\ calls + 1 \in 1 .. MaxRcuCalls /\ gpAwaited' = gpAwaited
      /\ \A i \in 1 .. MaxRcuCalls : \A d \in awaited'[i] : nesting[d] > 0
  BY <1>1, RcuCalls
<1>3. RcuAwaitsReaders'
  BY <1>1, <1>2 DEF RcuIInv, RcuAwaitsReaders
<1>4. CASE R!synchronize(c)
  <2>1. /\ nesting[c] = 0 /\ rcuPc' = [rcuPc EXCEPT ![c] = "start"]
        /\ op' = [op EXCEPT ![c] = calls + 1] /\ ready' = ready
    BY <1>4 DEF R!synchronize, R!Goto
  <2>2. RcuQuiet'
    BY <1>1, <1>2, <2>1 DEF RcuIInv, RcuTypeOK, RcuQuiet
  <2>3. RcuGpCounts'
    BY <1>1, <2>1, RcuGpKept
  <2>4. RcuCallbacksOK' /\ RcuExecuted'
    BY <1>1, <2>1, RcuCallsKeep
  <2>5. QED
    BY <1>3, <2>2, <2>3, <2>4 DEF RcuIInv
<1>5. CASE R!call_rcu(c)
  <2> DEFINE new == [call |-> calls + 1, gp_registered |-> gp_seq]
  <2>1. /\ rcuPc' = [rcuPc EXCEPT ![c] = "push"] /\ op' = op
        /\ ready' = [ready EXCEPT ![c] = <<new>>]
    BY <1>5 DEF R!call_rcu, R!Goto
  <2>2. RcuQuiet'
    BY <1>1, <1>2, <2>1 DEF RcuIInv, RcuTypeOK, RcuQuiet
  <2>3. RcuGpCounts'
    BY <1>1, <2>1, RcuGpKept
  <2>4. /\ \A d \in CPUs \ {c} : ready'[d] = ready[d]
        /\ ready'[c] = <<new>>
    BY <2>1 DEF RcuIInv, RcuTypeOK
  <2>5. Len(ready'[c]) = 1 /\ ready'[c][1] = new
    BY <2>4
  <2>6. \A i \in 1 .. Len(ready'[c]) :
          ready'[c][i].call = calls + 1 /\ ready'[c][i].gp_registered = gp_seq
    BY <2>5
  <2>7. RcuCallbacksOK' /\ RcuExecuted'
    BY <1>1, <2>1, <2>4, <2>6, RcuCallsKeep
  <2>8. QED
    BY <1>3, <2>2, <2>3, <2>7 DEF RcuIInv
<1>6. QED
  BY <1>4, <1>5

-----------------------------------------------------------------------------
\* start_gp: one grace period at a time.
LEMMA RcuStarts ==
  ASSUME RcuIInv, RcuTypeOK', NEW c \in CPUs, R!Start(c)
  PROVE  RcuIInv'
<1>1. /\ UNCHANGED <<gp_seq, gp_completed, gp_waiting, callbacks, last_gp,
                     nesting, op, current_gp, ready, calls, awaited, gpAwaited>>
      /\ rcuPc[c] = "start" /\ gp_in_progress' = TRUE
      /\ \/ ~gp_in_progress /\ rcuPc' = [rcuPc EXCEPT ![c] = "advance"]
         \/ gp_in_progress /\ op[c] # 0 /\ rcuPc' = [rcuPc EXCEPT ![c] = "wait_gp"]
         \/ gp_in_progress /\ op[c] = 0 /\ rcuPc' = [rcuPc EXCEPT ![c] = "run"]
  BY DEF R!Start, R!Goto, R!Started, R!PerCpu, R!Locals, R!History
<1>2. RcuQuiet'
  BY <1>1 DEF RcuIInv, RcuTypeOK, RcuQuiet
<1>3. RcuGpCounts'
  <2>1. CASE gp_in_progress
    <3>1. gp_in_progress' <=> gp_in_progress
      BY <1>1, <2>1
    <3>2. PICK p \in {"wait_gp", "run"} : rcuPc' = [rcuPc EXCEPT ![c] = p]
      BY <1>1, <2>1
    <3>3. gp_in_progress' = gp_in_progress
      BY <3>1, Zenon DEF RcuIInv, RcuTypeOK
    <3>4. QED
      BY <1>1, <3>2, <3>3, RcuGpKept
  <2>2. CASE ~gp_in_progress
    <3>1. /\ \A d \in CPUs : ~RcuGpWork(d)
          /\ gp_seq = 1 \/ RcuOwing = {}
          /\ gp_waiting <= 0
      BY <2>2 DEF RcuIInv, RcuGpCounts
    <3>2. rcuPc' = [rcuPc EXCEPT ![c] = "advance"]
      BY <1>1, <2>2
    <3>3. RcuOwing' = RcuOwing
      BY <1>1, <3>2 DEF RcuOwing, RcuIInv, RcuTypeOK
    <3>4. \A d \in CPUs : /\ RcuGpWork(d)' <=> d = c
                          /\ rcuPc'[d] \notin {"complete", "clear"}
      BY <3>1, <3>2 DEF RcuGpWork, RcuIInv, RcuTypeOK
    <3>5. \A d \in CPUs : /\ last_gp'[d] <= gp_seq'
                          /\ rcuPc'[d] = "decrement" =>
                               \/ last_gp'[d] = gp_seq'
                               \/ last_gp'[d] = 1 /\ gp_seq' = 2 /\ gp_completed' < 2
      BY <1>1, <3>2 DEF RcuIInv, RcuTypeOK, RcuGpCounts
    <3>6. gp_seq' >= 1 /\ gp_completed' <= gp_seq'
      BY <1>1 DEF RcuIInv, RcuGpCounts
    <3>7. QED
      BY <1>1, <3>1, <3>3, <3>4, <3>5, <3>6 DEF RcuGpCounts
  <2>3. QED
    BY <2>1, <2>2
<1>4. RcuAwaitsReaders'
  BY <1>1 DEF RcuIInv, RcuTypeOK, RcuAwaitsReaders
<1>5. RcuCallbacksOK' /\ RcuExecuted'
  <2>1. \A d \in CPUs : rcuPc'[d] \in {"clear", "process"} => rcuPc[d] \in {"clear", "process"}
    BY <1>1 DEF RcuIInv, RcuTypeOK
  <2>2. \A d \in CPUs : rcuPc'[d] = "execute" => rcuPc[d] = "execute"
    BY <1>1 DEF RcuIInv, RcuTypeOK
  <2>3. QED
    BY <1>1, <2>1, <2>2, RcuCallbacksKept
<1>6. QED
  BY <1>2, <1>3, <1>4, <1>5 DEF RcuIInv

\* The new number makes every CPU owe a report, and the grace period waits for the
\* readers of this moment, among whom are all that an earlier call waits for.
LEMMA RcuAdvances ==
  ASSUME RcuIInv, RcuTypeOK', NEW c \in CPUs, R!Advance(c)
  PROVE  RcuIInv'
<1>1. /\ UNCHANGED <<gp_completed, gp_waiting, gp_in_progress, callbacks, last_gp,
                     nesting, op, current_gp, ready, calls, awaited>>
      /\ rcuPc[c] = "advance" /\ rcuPc' = [rcuPc EXCEPT ![c] = "count"]
      /\ gp_seq' = gp_seq + 1 /\ gpAwaited' = {d \in CPUs : nesting[d] > 0}
  BY DEF R!Advance, R!Goto, R!PerCpu, R!Locals, R!ActiveReaders
<1>2. RcuQuiet'
  BY <1>1 DEF RcuIInv, RcuTypeOK, RcuQuiet
<1>3. gp_seq \in Nat /\ \A d \in CPUs : last_gp[d] \in Nat /\ last_gp[d] <= gp_seq
  BY DEF RcuIInv, RcuTypeOK, RcuGpCounts
<1>4. RcuGpCounts'
  <2>1. /\ gp_in_progress /\ gp_waiting <= 0
        /\ gp_seq = 1 \/ RcuOwing = {}
        /\ \A d \in CPUs : RcuGpWork(d) <=> d = c
    BY <1>1 DEF RcuIInv, RcuGpCounts, RcuGpWork
  <2>2. gp_seq >= 1 /\ gp_completed <= gp_seq /\ gp_completed \in Nat
    BY DEF RcuIInv, RcuTypeOK, RcuGpCounts
  <2>3. \A d \in CPUs : RcuGpWork(d)' <=> d = c
    BY <1>1, <2>1 DEF RcuGpWork, RcuIInv, RcuTypeOK
  <2>4. /\ rcuPc'[c] = "count"
        /\ \A d \in CPUs : rcuPc'[d] \notin {"advance", "complete", "clear"}
    BY <1>1, <2>1 DEF RcuGpWork, RcuIInv, RcuTypeOK
  <2>5. \A d \in CPUs : last_gp'[d] <= gp_seq'
    BY <1>1, <1>3
  <2>6. \A d \in CPUs : rcuPc'[d] = "decrement" =>
           last_gp'[d] = 1 /\ gp_seq' = 2 /\ gp_completed' < 2
    <3> SUFFICES ASSUME NEW d \in CPUs, rcuPc'[d] = "decrement"
                 PROVE  last_gp'[d] = 1 /\ gp_seq' = 2 /\ gp_completed' < 2
      OBVIOUS
    <3>1. rcuPc[d] = "decrement"
      BY <1>1 DEF RcuIInv, RcuTypeOK
    <3>2. gp_seq = 1
      BY <2>1, <3>1 DEF RcuOwing
    <3>3. last_gp[d] = 1
      BY <3>1, <3>2 DEF RcuIInv, RcuGpCounts
    <3>4. QED
      BY <1>1, <2>2, <3>2, <3>3
  <2>7. gp_seq' >= 1 /\ gp_completed' <= gp_seq' /\ gp_in_progress' /\ gp_waiting' <= 0
    BY <1>1, <1>3, <2>1, <2>2
  <2>8. QED
    BY <2>3, <2>4, <2>5, <2>6, <2>7 DEF RcuGpCounts
<1>5. RcuAwaitsReaders'
  <2>1. \A d \in gpAwaited' : nesting'[d] > 0 /\ last_gp'[d] < gp_seq'
    BY <1>1, <1>3
  <2>2. QED
    BY <1>1, <2>1 DEF RcuIInv, RcuAwaitsReaders
<1>6. ASSUME NEW cb \in Callback, RcuCallbackOK(cb) PROVE RcuCallbackOK(cb)'
  <2>1. cb.call \in 1 .. MaxRcuCalls /\ cb.gp_registered \in Nat
    BY DEF Callback
  <2>2. awaited[cb.call] \subseteq CPUs /\ \A d \in awaited[cb.call] : nesting[d] > 0
    BY <2>1 DEF RcuIInv, RcuTypeOK, RcuAwaitsReaders
  <2>3. awaited'[cb.call] \subseteq gpAwaited'
    BY <1>1, <2>2
  <2>4. \A d \in CPUs : rcuPc'[d] \in {"clear", "process"} => rcuPc[d] \in {"clear", "process"}
    BY <1>1 DEF RcuIInv, RcuTypeOK
  <2>5. cb.gp_registered <= gp_seq' /\ cb.call <= calls'
    BY <1>1, <1>3, <1>6, <2>1 DEF RcuCallbackOK
  <2>6. QED
    BY <1>1, <1>6, <2>3, <2>4, <2>5 DEF RcuCallbackOK
<1>7. RcuCallbacksOK'
  <2>1. \A i \in DOMAIN callbacks' : RcuCallbackOK(callbacks[i])'
    BY <1>1, <1>6, RcuElements
  <2>2. \A d \in CPUs : \A i \in DOMAIN ready'[d] : RcuCallbackOK(ready[d][i])'
    BY <1>1, <1>6, RcuElements
  <2>3. \A d \in CPUs : rcuPc'[d] \in {"clear", "process"} => current_gp'[d] <= gp_seq'
    BY <1>1, <1>3 DEF RcuIInv, RcuTypeOK, RcuCallbacksOK
  <2>4. QED
    BY <2>1, <2>2, <2>3 DEF RcuCallbacksOK
<1>8. RcuExecuted'
  <2>1. \A d \in CPUs : rcuPc'[d] = "execute" => rcuPc[d] = "execute"
    BY <1>1 DEF RcuIInv, RcuTypeOK
  <2>2. QED
    BY <1>1, <2>1 DEF RcuIInv, RcuExecuted
<1>9. QED
  BY <1>2, <1>4, <1>5, <1>7, <1>8 DEF RcuIInv

\* The store of gp_waiting, which may forget reports, but counts no CPU too few.
LEMMA RcuCounts ==
  ASSUME RcuIInv, RcuTypeOK', NEW c \in CPUs, R!Count(c)
  PROVE  RcuIInv'
<1>1. /\ UNCHANGED <<gp_seq, gp_completed, gp_in_progress, callbacks, last_gp,
                     nesting, op, current_gp, ready, calls, awaited, gpAwaited>>
      /\ rcuPc[c] = "count" /\ gp_waiting' = Cardinality(CPUs)
      /\ \/ op[c] # 0 /\ rcuPc' = [rcuPc EXCEPT ![c] = "wait_gp"]
         \/ op[c] = 0 /\ rcuPc' = [rcuPc EXCEPT ![c] = "run"]
  BY RcuCardinality DEF R!Count, R!Goto, R!Started, R!PerCpu, R!Locals, R!History
<1>2. RcuQuiet'
  BY <1>1 DEF RcuIInv, RcuTypeOK, RcuQuiet
<1>3. RcuGpCounts'
  <2>1. gp_in_progress /\ \A d \in CPUs : RcuGpWork(d) <=> d = c
    BY <1>1 DEF RcuIInv, RcuGpCounts, RcuGpWork
  <2>2. \A d \in CPUs : ~RcuGpWork(d)'
    BY <1>1, <2>1 DEF RcuGpWork, RcuIInv, RcuTypeOK
  <2>3. \A d \in CPUs : /\ last_gp'[d] <= gp_seq'
                        /\ rcuPc'[d] \notin {"advance", "complete", "clear"}
                        /\ rcuPc'[d] = "decrement" =>
                             \/ last_gp'[d] = gp_seq'
                             \/ last_gp'[d] = 1 /\ gp_seq' = 2 /\ gp_completed' < 2
    BY <1>1, <2>2 DEF RcuIInv, RcuTypeOK, RcuGpCounts, RcuGpWork
  <2>4. RcuOwing' \subseteq CPUs
    BY DEF RcuOwing
  <2>5. gp_waiting' >= 1 /\ gp_waiting' >= Cardinality(RcuOwing')
    <3>1. Cardinality(RcuOwing') <= Cardinality(CPUs) /\ Cardinality(RcuOwing') \in Nat
      BY <2>4, RcuAssumption, FS_Subset, FS_CardinalityType
    <3>2. QED
      BY <1>1, <3>1, RcuCardinality
  <2>6. gp_in_progress' /\ gp_seq' >= 1 /\ gp_completed' <= gp_seq'
    BY <1>1, <2>1 DEF RcuIInv, RcuGpCounts
  <2>7. QED
    BY <2>2, <2>3, <2>5, <2>6 DEF RcuGpCounts
<1>4. RcuAwaitsReaders'
  BY <1>1 DEF RcuIInv, RcuTypeOK, RcuAwaitsReaders
<1>5. RcuCallbacksOK' /\ RcuExecuted'
  <2>1. \A d \in CPUs : rcuPc'[d] \in {"clear", "process"} => rcuPc[d] \in {"clear", "process"}
    BY <1>1 DEF RcuIInv, RcuTypeOK
  <2>2. \A d \in CPUs : rcuPc'[d] = "execute" => rcuPc[d] = "execute"
    BY <1>1 DEF RcuIInv, RcuTypeOK
  <2>3. QED
    BY <1>1, <2>1, <2>2, RcuCallbacksKept
<1>6. QED
  BY <1>2, <1>3, <1>4, <1>5 DEF RcuIInv

-----------------------------------------------------------------------------
\* One step per operation.
LEMMA RcuStepKeeps == RcuSafe /\ [R!Next]_(R!vars) => RcuSafe'
<1> SUFFICES ASSUME RcuSafe, [R!Next]_(R!vars) PROVE RcuSafe'
  OBVIOUS
<1>1. CASE R!Next
  <2>1. PICK c \in CPUs :
          \/ R!rcu_read_lock(c) \/ R!rcu_read_unlock(c) \/ R!rcu_note_context_switch(c)
          \/ R!Report(c) \/ R!Decrement(c) \/ R!Complete(c) \/ R!Clear(c)
          \/ R!Process(c) \/ R!Execute(c)
          \/ R!synchronize(c) \/ R!call_rcu(c) \/ R!Push(c)
          \/ R!Start(c) \/ R!Advance(c) \/ R!Count(c) \/ R!WaitLoad(c) \/ R!Wait(c) \/ R!Return(c)
    BY <1>1 DEF R!Next
  <2>2. RcuTypeOK'
    BY <2>1, RcuTypeKept DEF RcuSafe
  <2>3. stray \/ (R!Decrement(c) /\ R!Strays(c)) => stray'
    <3>1. CASE R!Decrement(c)
      BY <3>1, Zenon DEF R!Decrement, R!CountDown
    <3>2. CASE ~R!Decrement(c)
      <4>1. stray' = stray
        BY <2>1, <3>2 DEF R!rcu_read_lock, R!rcu_read_unlock, R!rcu_note_context_switch, R!Report,
           R!Complete, R!Clear, R!Process, R!Execute, R!synchronize, R!call_rcu, R!Call, R!Push,
           R!Start, R!Advance, R!Count, R!WaitLoad, R!Wait, R!Return, R!History
      <4>2. QED
        BY <3>2, <4>1, Zenon
    <3>3. QED
      BY <3>1, <3>2
  <2>4. ASSUME ~stray' PROVE RcuIInv'
    <3>1. RcuIInv /\ ~(R!Decrement(c) /\ R!Strays(c))
      BY <2>3, <2>4, Zenon DEF RcuSafe
    <3>2. QED
      BY <2>1, <2>2, <3>1, RcuReadLock, RcuReadUnlock, RcuGoesOn, RcuReports, RcuCountsDown,
         RcuCompletes, RcuClears, RcuProcesses, RcuExecutes, RcuSynchronizes, RcuPushes,
         RcuStarts, RcuAdvances, RcuCounts
  <2>5. QED
    BY <2>2, <2>4, Zenon DEF RcuSafe
<1>2. CASE UNCHANGED R!vars
  <2>1. UNCHANGED <<gp_seq, gp_completed, gp_waiting, gp_in_progress, callbacks, last_gp, nesting,
                    rcuPc, op, current_gp, ready, calls, awaited, gpAwaited, stray>>
    BY <1>2 DEF R!vars
  <2>2. RcuTypeOK'
    BY <2>1 DEF RcuSafe, RcuTypeOK
  <2>3. ASSUME ~stray' PROVE RcuIInv'
    <3>1. stray' = stray
      BY <2>1
    <3>2. RcuIInv
      BY <2>3, <3>1, Zenon DEF RcuSafe
    <3>3. RcuQuiet' /\ RcuAwaitsReaders'
      BY <2>1, <3>2 DEF RcuIInv, RcuQuiet, RcuAwaitsReaders
    <3>4. RcuGpCounts'
      BY <2>1, <3>2 DEF RcuIInv, RcuGpCounts, RcuOwing, RcuGpWork
    <3>5. RcuCallbacksOK' /\ RcuExecuted'
      BY <2>1, <3>2, RcuCallbacksKept
    <3>6. QED
      BY <2>2, <3>3, <3>4, <3>5 DEF RcuIInv
  <2>4. QED
    BY <2>2, <2>3, Zenon DEF RcuSafe
<1>3. QED
  BY <1>1, <1>2

\* rcu_report_qs: while no report was taken from the count of a later grace period, a
\* grace period is completed only when every section that was open when it got its
\* number has ended.
THEOREM RcuGracePeriodsOutlastReaders == R!Spec => []RcuGracePeriodOutlastsReaders
<1>1. RcuSafe => RcuGracePeriodOutlastsReaders
  <2>1. RcuIInv => \A c \in CPUs : rcuPc[c] = "complete" => gpAwaited = {}
    BY RcuNobodyAwaited
  <2>2. QED
    BY <2>1, Zenon DEF RcuSafe, RcuGracePeriodOutlastsReaders, R!GracePeriodOutlastsReaders
<1>2. QED
  BY <1>1, RcuInitHolds, RcuStepKeeps, PTL DEF R!Spec

\* call_rcu and process_callbacks: a callback is called after the sections that were
\* open at its call_rcu, whatever grace periods begin and end in between, while no
\* report was taken from the count of a later grace period.
THEOREM RcuCallbacksAlwaysAwaitReaders == R!Spec => []RcuCallbacksAwaitReaders
<1>1. RcuSafe => RcuCallbacksAwaitReaders
  BY Zenon DEF RcuSafe, RcuIInv, RcuExecuted, RcuCallbacksAwaitReaders, R!CallbacksAwaitReaders
<1>2. QED
  BY <1>1, RcuInitHolds, RcuStepKeeps, PTL DEF R!Spec

\* rcu_report_qs and start_gp: once the first grace period is completed with its
\* count right, no report can be taken from the count of a later one.
THEOREM RcuOnlyFirstReportsStray == R!Spec => []RcuLaterCountsAreRight
<1>1. RcuSafe => RcuLaterCountsAreRight
  <2>1. RcuIInv => \A c \in CPUs : rcuPc[c] = "decrement" /\ gp_completed >= 2 => last_gp[c] = gp_seq
    BY DEF RcuIInv, RcuTypeOK, RcuGpCounts
  <2>2. QED
    BY <2>1, Zenon DEF RcuSafe, RcuLaterCountsAreRight, R!LaterCountsAreRight
<1>2. QED
  BY <1>1, RcuInitHolds, RcuStepKeeps, PTL DEF R!Spec

-----------------------------------------------------------------------------
\* The thin pool.

ThinTypeOK ==
  /\ thin_devices \in SUBSET Devices
  /\ mappings \in [Devices -> [VBlocks -> Thin!Blocks \cup {NoBlock}]]
  /\ ref_counts \in [Thin!Blocks -> Nat]
  /\ thinPc \in [Callers -> {"idle", "alloc", "insert"}]
  /\ block \in [Callers -> Thin!Blocks \cup {NoBlock}]
  /\ DOMAIN thinCall = Callers
  /\ \A c \in Callers :
       /\ thinPc[c] = "insert" <=> block[c] # NoBlock
       /\ thinPc[c] # "idle" => thinCall[c][2] \in Devices /\ thinCall[c][3] \in VBlocks

ThinFree == {b \in Thin!Blocks : ref_counts[b] = 0}

\* BlocksAreCounted ...
ThinCounts ==
  /\ \A b \in Thin!Blocks :
       ref_counts[b] >= Cardinality(Thin!Mappings(b)) + Cardinality(Thin!Holders(b))
  /\ nr_free = Cardinality(ThinFree)
  /\ used_data_blocks = NrBlocks - nr_free

\* ... and SharersAreSnapshots, in the words of this module.
ThinShares ==
  \A b \in Thin!Blocks :
    /\ \A m, n \in Thin!Mappings(b) : m[2] = n[2]
    /\ \A c \in Thin!Holders(b) : Thin!Mappings(b) = {} /\ Thin!Holders(b) = {c}

ThinIInv == ThinTypeOK /\ ThinCounts /\ ThinShares

\* The virtual blocks at which d maps b, as Uses counts them.
ThinAt(d, b) == {v \in VBlocks : mappings[d][v] = b}

\* Cardinality means the same inside the instance.
LEMMA ThinCardinality == \A S : Thin!Cardinality(S) = Cardinality(S)
<1> SUFFICES ASSUME NEW S PROVE Thin!Cardinality(S) = Cardinality(S)
  OBVIOUS
<1>1. QED
  BY Zenon DEF Thin!Cardinality, Cardinality

\* Pairing with one value keeps the number of elements.
LEMMA CardinalityOfSlice ==
  ASSUME NEW a, NEW S, IsFiniteSet(S)
  PROVE  IsFiniteSet({a} \X S) /\ Cardinality({a} \X S) = Cardinality(S)
<1>1. IsFiniteSet({a}) /\ Cardinality({a}) = 1
  BY FS_Singleton
<1>2. IsFiniteSet({a} \X S) /\ Cardinality({a} \X S) = Cardinality({a}) * Cardinality(S)
  BY <1>1, FS_Product
<1>3. \A n \in Nat : 1 * n = n
  OBVIOUS
<1>4. QED
  BY <1>1, <1>2, <1>3, FS_CardinalityType

\* The sizes of disjoint finite sets add up.
LEMMA CardinalityOfUnion ==
  ASSUME NEW S, IsFiniteSet(S), NEW T, IsFiniteSet(T), S \cap T = {}
  PROVE  Cardinality(S \cup T) = Cardinality(S) + Cardinality(T)
<1>1. Cardinality(S \cup T) = Cardinality(S) + Cardinality(T) - Cardinality(S \cap T)
  BY FS_Union
<1>2. Cardinality(S \cap T) = 0
  BY FS_EmptySet
<1>3. Cardinality(S) \in Nat /\ Cardinality(T) \in Nat
  BY FS_CardinalityType
<1>4. QED
  BY <1>1, <1>2, <1>3

\* Everything that is counted is finite.
LEMMA ThinFinite ==
  ASSUME ThinTypeOK
  PROVE  /\ NrBlocks \in Nat /\ NoBlock \notin Thin!Blocks
         /\ IsFiniteSet(Thin!Blocks) /\ IsFiniteSet(ThinFree)
         /\ \A b : /\ IsFiniteSet(Thin!Mappings(b)) /\ Cardinality(Thin!Mappings(b)) \in Nat
                   /\ IsFiniteSet(Thin!Holders(b)) /\ Cardinality(Thin!Holders(b)) \in Nat
         /\ \A d, b : IsFiniteSet(ThinAt(d, b)) /\ Cardinality(ThinAt(d, b)) \in Nat
<1> USE ThinAssumption
<1>1. IsFiniteSet(Thin!Blocks) /\ NoBlock \notin Thin!Blocks /\ NrBlocks \in Nat
  BY FS_Interval DEF Thin!Blocks
<1>2. IsFiniteSet(ThinFree)
  BY <1>1, FS_Subset DEF ThinFree
<1>3. ASSUME NEW b PROVE IsFiniteSet(Thin!Mappings(b)) /\ Cardinality(Thin!Mappings(b)) \in Nat
  <2>1. IsFiniteSet(Devices \X VBlocks)
    BY FS_Product
  <2>2. Thin!Mappings(b) \subseteq Devices \X VBlocks
    BY DEF Thin!Mappings, ThinTypeOK
  <2>3. QED
    BY <2>1, <2>2, FS_Subset, FS_CardinalityType
<1>4. ASSUME NEW b PROVE IsFiniteSet(Thin!Holders(b)) /\ Cardinality(Thin!Holders(b)) \in Nat
  <2>1. Thin!Holders(b) \subseteq Callers
    BY DEF Thin!Holders
  <2>2. QED
    BY <2>1, FS_Subset, FS_CardinalityType
<1>5. ASSUME NEW d, NEW b PROVE IsFiniteSet(ThinAt(d, b)) /\ Cardinality(ThinAt(d, b)) \in Nat
  <2>1. ThinAt(d, b) \subseteq VBlocks
    BY DEF ThinAt
  <2>2. QED
    BY <2>1, FS_Subset, FS_CardinalityType
<1>6. QED
  BY <1>1, <1>2, <1>3, <1>4, <1>5

\* Uses counts the virtual blocks of a device that are mapped to a block.
LEMMA ThinUses == \A d, b : Thin!Uses(d, b) = Cardinality(ThinAt(d, b))
BY ThinCardinality DEF Thin!Uses, ThinAt

\* What a device maps is part of what is mapped.
LEMMA ThinSlice ==
  ASSUME ThinTypeOK, NEW d \in thin_devices, NEW b
  PROVE  /\ {d} \X ThinAt(d, b) \subseteq Thin!Mappings(b)
         /\ IsFiniteSet({d} \X ThinAt(d, b))
         /\ Cardinality({d} \X ThinAt(d, b)) = Thin!Uses(d, b)
         /\ Thin!Uses(d, b) \in Nat
         /\ Thin!Uses(d, b) <= Cardinality(Thin!Mappings(b))
<1>1. {d} \X ThinAt(d, b) \subseteq Thin!Mappings(b)
  BY DEF ThinAt, Thin!Mappings
<1>2. /\ IsFiniteSet({d} \X ThinAt(d, b))
      /\ Cardinality({d} \X ThinAt(d, b)) = Thin!Uses(d, b) /\ Thin!Uses(d, b) \in Nat
  BY ThinFinite, ThinUses, CardinalityOfSlice
<1>3. Thin!Uses(d, b) <= Cardinality(Thin!Mappings(b))
  BY <1>1, <1>2, ThinFinite, FS_Subset
<1>4. QED
  BY <1>1, <1>2, <1>3

\* In a new pool every block is free and nothing is mapped.
LEMMA ThinInitHolds == Thin!Init => ThinIInv
<1> SUFFICES ASSUME Thin!Init PROVE ThinIInv
  OBVIOUS
<1>1. ThinTypeOK
  BY DEF Thin!Init, Thin!Unmapped, ThinTypeOK
<1>2. \A b : Thin!Mappings(b) = {}
  BY DEF Thin!Init, Thin!Mappings
<1>3. \A b \in Thin!Blocks : Thin!Holders(b) = {}
  BY <1>1, ThinFinite DEF Thin!Init, Thin!Holders
<1>4. ThinCounts
  <2>1. ThinFree = 0 .. NrBlocks - 1 /\ \A b \in Thin!Blocks : ref_counts[b] = 0
    BY DEF Thin!Init, ThinFree, Thin!Blocks
  <2>2. Cardinality(ThinFree) = NrBlocks
    BY <2>1, FS_Interval, ThinAssumption
  <2>3. nr_free = NrBlocks /\ used_data_blocks = 0
    BY DEF Thin!Init
  <2>4. QED
    <3>1. Cardinality({}) = 0
      BY FS_EmptySet
    <3>2. \A b \in Thin!Blocks :
            ref_counts[b] >= Cardinality(Thin!Mappings(b)) + Cardinality(Thin!Holders(b))
      <4> SUFFICES ASSUME NEW b \in Thin!Blocks
                   PROVE  ref_counts[b] >= Cardinality(Thin!Mappings(b)) + Cardinality(Thin!Holders(b))
        OBVIOUS
      <4>1. ref_counts[b] = 0
        BY <2>1
      <4>2. Cardinality(Thin!Mappings(b)) = 0 /\ Cardinality(Thin!Holders(b)) = 0
        BY <1>2, <1>3, <3>1, Zenon
      <4>3. QED
        BY <4>1, <4>2
    <3>3. nr_free = Cardinality(ThinFree) /\ used_data_blocks = NrBlocks - nr_free
      BY <2>2, <2>3, ThinAssumption
    <3>4. QED
      BY <3>2, <3>3 DEF ThinCounts
<1>5. ThinShares
  BY <1>2, <1>3 DEF ThinShares
<1>6. QED
  BY <1>1, <1>4, <1>5 DEF ThinIInv

-----------------------------------------------------------------------------
\* What the steps that count nothing leave alone.
LEMMA ThinCountsKept ==
  ASSUME ThinIInv, UNCHANGED <<ref_counts, nr_free, used_data_blocks, block>>,
         \A b \in Thin!Blocks : Thin!Mappings(b)' = Thin!Mappings(b)
  PROVE  ThinCounts' /\ ThinShares'
<1>1. \A b : Thin!Holders(b)' = Thin!Holders(b)
  BY DEF Thin!Holders
<1>2. ThinFree' = ThinFree
  BY DEF ThinFree, Thin!Blocks
<1>3. QED
  BY <1>1, <1>2 DEF ThinIInv, ThinCounts, ThinShares, Thin!Blocks

\* create_thin() makes a device that maps nothing.
LEMMA ThinCreates ==
  ASSUME ThinIInv, NEW d \in Devices, Thin!create_thin(d)
  PROVE  ThinIInv'
<1>1. /\ d \notin thin_devices /\ thin_devices' = thin_devices \cup {d}
      /\ mappings' = [mappings EXCEPT ![d] = Thin!Unmapped]
      /\ UNCHANGED <<ref_counts, nr_free, search_start, used_data_blocks, thinPc, thinCall, block>>
  BY DEF Thin!create_thin, Thin!Space, Thin!Locals
<1>2. ThinTypeOK'
  BY <1>1 DEF ThinIInv, ThinTypeOK, Thin!Unmapped, Thin!Blocks
<1>3. ASSUME NEW b \in Thin!Blocks PROVE Thin!Mappings(b)' = Thin!Mappings(b)
  <2>1. \A v \in VBlocks : mappings'[d][v] # b
    BY <1>1, ThinFinite DEF ThinIInv, ThinTypeOK, Thin!Unmapped
  <2>2. \A e \in thin_devices : e # d /\ mappings'[e] = mappings[e]
    BY <1>1 DEF ThinIInv, ThinTypeOK
  <2>3. QED
    BY <1>1, <2>1, <2>2 DEF Thin!Mappings
<1>4. QED
  BY <1>1, <1>2, <1>3, ThinCountsKept DEF ThinIInv

\* A snapshot maps what its origin maps, and counts it once more.
LEMMA ThinSnapshots ==
  ASSUME ThinIInv, NEW o \in Devices, NEW s \in Devices, Thin!create_snapshot(o, s)
  PROVE  ThinIInv'
<1>1. /\ o \in thin_devices /\ s \notin thin_devices
      /\ thin_devices' = thin_devices \cup {s}
      /\ mappings' = [mappings EXCEPT ![s] = mappings[o]]
      /\ ref_counts' = [b \in Thin!Blocks |-> ref_counts[b] + Thin!Uses(o, b)]
      /\ nr_free' = nr_free - Cardinality({b \in Thin!MappedBy(o) : ref_counts[b] = 0})
      /\ UNCHANGED <<search_start, used_data_blocks, thinPc, thinCall, block>>
  BY ThinCardinality DEF Thin!create_snapshot, Thin!inc_refs, Thin!Locals
<1>2. ThinTypeOK
  BY DEF ThinIInv
<1>3. \A b : Thin!Uses(o, b) \in Nat /\ Thin!Uses(o, b) <= Cardinality(Thin!Mappings(b))
  BY <1>1, <1>2, ThinSlice
<1>4. \A b \in Thin!Blocks : ref_counts'[b] = ref_counts[b] + Thin!Uses(o, b) /\ ref_counts[b] \in Nat
  BY <1>1, <1>2 DEF ThinTypeOK
<1>5. ThinTypeOK'
  <2>1. ref_counts' \in [Thin!Blocks -> Nat]
    BY <1>1, <1>3, <1>4
  <2>2. mappings' \in [Devices -> [VBlocks -> Thin!Blocks \cup {NoBlock}]]
    BY <1>1, <1>2 DEF ThinTypeOK
  <2>3. QED
    BY <1>1, <1>2, <2>1, <2>2 DEF ThinTypeOK, Thin!Blocks
<1>6. ASSUME NEW b \in Thin!Blocks
      PROVE  /\ Thin!Mappings(b)' = Thin!Mappings(b) \cup ({s} \X ThinAt(o, b))
             /\ Thin!Mappings(b) \cap ({s} \X ThinAt(o, b)) = {}
             /\ Cardinality(Thin!Mappings(b)') = Cardinality(Thin!Mappings(b)) + Thin!Uses(o, b)
  <2>1. mappings'[s] = mappings[o] /\ \A e \in thin_devices : e # s /\ mappings'[e] = mappings[e]
    BY <1>1, <1>2 DEF ThinTypeOK
  <2>2. Thin!Mappings(b)' = Thin!Mappings(b) \cup ({s} \X ThinAt(o, b))
    BY <1>1, <2>1 DEF Thin!Mappings, ThinAt
  <2>3. Thin!Mappings(b) \cap ({s} \X ThinAt(o, b)) = {}
    BY <1>1 DEF Thin!Mappings
  <2>4. /\ IsFiniteSet({s} \X ThinAt(o, b))
        /\ Cardinality({s} \X ThinAt(o, b)) = Thin!Uses(o, b)
    BY <1>2, ThinFinite, ThinUses, CardinalityOfSlice
  <2>5. IsFiniteSet(Thin!Mappings(b))
    BY <1>2, ThinFinite
  <2>6. Cardinality(Thin!Mappings(b)') = Cardinality(Thin!Mappings(b)) + Thin!Uses(o, b)
    BY <2>2, <2>3, <2>4, <2>5, CardinalityOfUnion
  <2>7. QED
    BY <2>2, <2>3, <2>6
<1>7. \A b : Thin!Holders(b)' = Thin!Holders(b)
  BY <1>1 DEF Thin!Holders
<1>8. \A b \in Thin!Blocks : ref_counts[b] = 0 => Thin!Uses(o, b) = 0 /\ b \notin Thin!MappedBy(o)
  <2> SUFFICES ASSUME NEW b \in Thin!Blocks, ref_counts[b] = 0
               PROVE  Thin!Uses(o, b) = 0 /\ b \notin Thin!MappedBy(o)
    OBVIOUS
  <2>1. Cardinality(Thin!Mappings(b)) = 0
    <3>1. /\ ref_counts[b] >= Cardinality(Thin!Mappings(b)) + Cardinality(Thin!Holders(b))
          /\ Cardinality(Thin!Mappings(b)) \in Nat /\ Cardinality(Thin!Holders(b)) \in Nat
      BY <1>2, ThinFinite DEF ThinIInv, ThinCounts
    <3>2. QED
      BY <3>1
  <2>2. Thin!Uses(o, b) = 0
    BY <1>3, <2>1
  <2>3. ThinAt(o, b) = {}
    BY <1>2, <2>2, ThinUses, ThinFinite, FS_EmptySet
  <2>4. QED
    BY <2>2, <2>3 DEF ThinAt, Thin!MappedBy
<1>9. ThinCounts'
  <2>1. \A b \in Thin!Blocks :
          ref_counts'[b] >= Cardinality(Thin!Mappings(b)') + Cardinality(Thin!Holders(b)')
    <3> SUFFICES ASSUME NEW b \in Thin!Blocks
                 PROVE  ref_counts'[b] >= Cardinality(Thin!Mappings(b)') + Cardinality(Thin!Holders(b)')
      OBVIOUS
    <3>1. /\ ref_counts[b] >= Cardinality(Thin!Mappings(b)) + Cardinality(Thin!Holders(b))
          /\ Cardinality(Thin!Mappings(b)) \in Nat /\ Cardinality(Thin!Holders(b)) \in Nat
      BY <1>2, ThinFinite DEF ThinIInv, ThinCounts
    <3>2. QED
      BY <3>1, <1>3, <1>4, <1>6, <1>7
  <2>2. {b \in Thin!MappedBy(o) : ref_counts[b] = 0} = {}
    <3>1. Thin!MappedBy(o) \subseteq Thin!Blocks
      BY <1>1, <1>2 DEF Thin!MappedBy, ThinTypeOK
    <3>2. QED
      BY <3>1, <1>8
  <2>3. ThinFree' = ThinFree
    BY <1>3, <1>4, <1>8 DEF ThinFree, Thin!Blocks
  <2>4. nr_free' = nr_free
    <3>1. IsFiniteSet(ThinFree) /\ nr_free = Cardinality(ThinFree)
      BY <1>2, ThinFinite DEF ThinIInv, ThinCounts
    <3>2. nr_free \in Nat
      BY <3>1, FS_CardinalityType
    <3>3. Cardinality({b \in Thin!MappedBy(o) : ref_counts[b] = 0}) = 0
      BY <2>2, FS_EmptySet, Zenon
    <3>4. QED
      BY <1>1, <3>2, <3>3
  <2>5. QED
    BY <1>1, <2>1, <2>3, <2>4 DEF ThinIInv, ThinCounts, Thin!Blocks
<1>10. ThinShares'
  <2> SUFFICES ASSUME NEW b \in Thin!Blocks
               PROVE  /\ \A m, n \in Thin!Mappings(b)' : m[2] = n[2]
                      /\ \A c \in Thin!Holders(b)' : /\ Thin!Mappings(b)' = {}
                                                     /\ Thin!Holders(b)' = {c}
    BY DEF ThinShares, Thin!Blocks
  <2>1. /\ \A m, n \in Thin!Mappings(b) : m[2] = n[2]
        /\ \A c \in Thin!Holders(b) : Thin!Mappings(b) = {} /\ Thin!Holders(b) = {c}
    BY DEF ThinIInv, ThinShares
  <2>2. {o} \X ThinAt(o, b) \subseteq Thin!Mappings(b)
    BY <1>1, <1>2, ThinSlice
  <2>3. \A m \in Thin!Mappings(b)' : \E n \in Thin!Mappings(b) : m[2] = n[2]
    <3>1. ASSUME NEW m \in {s} \X ThinAt(o, b) PROVE \E n \in Thin!Mappings(b) : m[2] = n[2]
      <4>1. <<o, m[2]>> \in {o} \X ThinAt(o, b) /\ <<o, m[2]>>[2] = m[2]
        OBVIOUS
      <4>2. QED
        BY <4>1, <2>2
    <3>2. QED
      BY <1>6, <3>1
  <2>4. QED
    BY <1>7, <2>1, <2>3
<1>11. QED
  BY <1>5, <1>9, <1>10 DEF ThinIInv

-----------------------------------------------------------------------------
\* A deletion takes back what the device counts, and every block that only the
\* device counts becomes free.
LEMMA ThinDeletes ==
  ASSUME ThinIInv, NEW d \in Devices, Thin!delete_thin(d)
  PROVE  ThinIInv'
<1>1. /\ d \in thin_devices /\ thin_devices' = thin_devices \ {d}
      /\ mappings' = [mappings EXCEPT ![d] = Thin!Unmapped]
      /\ ref_counts' = [b \in Thin!Blocks |-> Thin!Less(d, b)]
      /\ nr_free' = nr_free + Cardinality(Thin!Freed(d))
      /\ used_data_blocks' = used_data_blocks - Cardinality(Thin!Freed(d))
      /\ UNCHANGED <<search_start, thinPc, thinCall, block>>
  BY ThinCardinality DEF Thin!delete_thin, Thin!Locals
<1>2. ThinTypeOK
  BY DEF ThinIInv
<1>3. ASSUME NEW b \in Thin!Blocks
      PROVE  /\ ref_counts[b] \in Nat /\ Thin!Uses(d, b) \in Nat
             /\ Thin!Uses(d, b) <= Cardinality(Thin!Mappings(b))
             /\ Cardinality(Thin!Mappings(b)) \in Nat /\ Cardinality(Thin!Holders(b)) \in Nat
             /\ ref_counts[b] >= Cardinality(Thin!Mappings(b)) + Cardinality(Thin!Holders(b))
             /\ ref_counts'[b] = ref_counts[b] - Thin!Uses(d, b)
  <2>1. /\ ref_counts[b] \in Nat /\ Thin!Uses(d, b) \in Nat
        /\ Thin!Uses(d, b) <= Cardinality(Thin!Mappings(b))
        /\ Cardinality(Thin!Mappings(b)) \in Nat /\ Cardinality(Thin!Holders(b)) \in Nat
        /\ ref_counts[b] >= Cardinality(Thin!Mappings(b)) + Cardinality(Thin!Holders(b))
    BY <1>1, <1>2, ThinSlice, ThinFinite DEF ThinIInv, ThinCounts, ThinTypeOK
  <2>2. ref_counts'[b] = Thin!Less(d, b)
    BY <1>1
  <2>3. Thin!Less(d, b) = ref_counts[b] - Thin!Uses(d, b)
    BY <2>1 DEF Thin!Less
  <2>4. QED
    BY <2>1, <2>2, <2>3
<1>4. ThinTypeOK'
  <2>1. ref_counts' \in [Thin!Blocks -> Nat]
    BY <1>1, <1>3
  <2>2. mappings' \in [Devices -> [VBlocks -> Thin!Blocks \cup {NoBlock}]]
    BY <1>1, <1>2 DEF ThinTypeOK, Thin!Unmapped
  <2>3. QED
    BY <1>1, <1>2, <2>1, <2>2 DEF ThinTypeOK, Thin!Blocks
<1>5. ASSUME NEW b \in Thin!Blocks
      PROVE  /\ Thin!Mappings(b)' = Thin!Mappings(b) \ ({d} \X ThinAt(d, b))
             /\ Cardinality(Thin!Mappings(b)') = Cardinality(Thin!Mappings(b)) - Thin!Uses(d, b)
  <2>1. \A e \in thin_devices \ {d} : mappings'[e] = mappings[e]
    BY <1>1, <1>2 DEF ThinTypeOK
  <2>2. Thin!Mappings(b)' = Thin!Mappings(b) \ ({d} \X ThinAt(d, b))
    BY <1>1, <2>1 DEF Thin!Mappings, ThinAt
  <2>3. /\ IsFiniteSet({d} \X ThinAt(d, b)) /\ IsFiniteSet(Thin!Mappings(b)')
        /\ Cardinality({d} \X ThinAt(d, b)) = Thin!Uses(d, b)
        /\ {d} \X ThinAt(d, b) \subseteq Thin!Mappings(b)
        /\ Cardinality(Thin!Mappings(b)') \in Nat /\ Thin!Uses(d, b) \in Nat
    <3>1. IsFiniteSet(Thin!Mappings(b)')
      BY <1>2, <2>2, ThinFinite, FS_Subset
    <3>2. QED
      BY <1>1, <1>2, <3>1, ThinSlice, FS_CardinalityType
  <2>4. Cardinality(Thin!Mappings(b)' \cup ({d} \X ThinAt(d, b)))
          = Cardinality(Thin!Mappings(b)') + Thin!Uses(d, b)
    BY <2>2, <2>3, CardinalityOfUnion
  <2>5. Thin!Mappings(b)' \cup ({d} \X ThinAt(d, b)) = Thin!Mappings(b)
    BY <2>2, <2>3
  <2>6. Cardinality(Thin!Mappings(b)) = Cardinality(Thin!Mappings(b)') + Thin!Uses(d, b)
    BY <2>4, <2>5, Zenon
  <2>7. Cardinality(Thin!Mappings(b)') = Cardinality(Thin!Mappings(b)) - Thin!Uses(d, b)
    <3>1. \A x, y, z \in Nat : x = y + z => y = x - z
      OBVIOUS
    <3>2. Cardinality(Thin!Mappings(b)) \in Nat
      BY <1>3
    <3>3. QED
      BY <3>1, <3>2, <2>3, <2>6, Zenon
  <2>8. QED
    BY <2>2, <2>7, Zenon
<1>6. \A b : Thin!Holders(b)' = Thin!Holders(b)
  BY <1>1 DEF Thin!Holders
<1> DEFINE Gone == {b \in Thin!Blocks : ref_counts[b] = Thin!Uses(d, b) /\ ref_counts[b] # 0}
<1>7. ThinFree' = ThinFree \cup Gone /\ ThinFree \cap Gone = {}
  <2>1. \A b \in Thin!Blocks : ref_counts'[b] = 0 <=> ref_counts[b] = Thin!Uses(d, b)
    BY <1>3
  <2>2. \A b \in Thin!Blocks : ref_counts[b] = 0 => ref_counts[b] = Thin!Uses(d, b)
    BY <1>3
  <2>3. QED
    BY <2>1, <2>2 DEF ThinFree, Thin!Blocks
<1>8. Cardinality(Thin!Freed(d)) = Cardinality(Gone) /\ IsFiniteSet(Gone)
  <2>1. IsFiniteSet(Gone)
    BY <1>2, ThinFinite, FS_Subset
  <2> DEFINE f == [b \in Gone |-> <<b, ref_counts[b]>>]
  <2>2. Cardinality(VBlocks) \in Nat
    BY ThinAssumption, FS_CardinalityType
  <2>3. \A b \in Thin!Blocks : Thin!Uses(d, b) <= Cardinality(VBlocks)
    <3>1. \A b : ThinAt(d, b) \subseteq VBlocks
      BY DEF ThinAt
    <3>2. QED
      BY <3>1, ThinAssumption, ThinUses, FS_Subset
  <2>4. ASSUME NEW b \in Gone PROVE <<b, ref_counts[b]>> \in Thin!Freed(d)
    <3>1. /\ b \in Thin!Blocks /\ ref_counts[b] \in 1 .. Cardinality(VBlocks)
          /\ ref_counts[b] <= Thin!Uses(d, b)
      BY <1>3, <2>2, <2>3
    <3>2. QED
      BY <3>1, <1>3, ThinCardinality DEF Thin!Freed
  <2>5. ASSUME NEW x \in Thin!Freed(d) PROVE \E b \in Gone : x = <<b, ref_counts[b]>>
    <3>1. /\ x = <<x[1], x[2]>> /\ x[1] \in Thin!Blocks /\ x[2] \in 1 .. Cardinality(VBlocks)
          /\ x[2] <= Thin!Uses(d, x[1]) /\ x[2] >= ref_counts[x[1]]
      BY ThinCardinality DEF Thin!Freed
    <3>2. x[2] = ref_counts[x[1]] /\ x[1] \in Gone
      BY <1>3, <2>2, <3>1
    <3>3. QED
      BY <3>1, <3>2
  <2>6. f \in Bijection(Gone, Thin!Freed(d))
    <3> HIDE DEF Gone
    <3>1. f \in [Gone -> Thin!Freed(d)]
      BY <2>4
    <3>2. \A a, b \in Gone : f[a] = f[b] => a = b
      OBVIOUS
    <3>3. \A x \in Thin!Freed(d) : \E b \in Gone : f[b] = x
      BY <2>5
    <3> HIDE DEF f
    <3>4. QED
      BY <3>1, <3>2, <3>3 DEF Bijection, Injection, Surjection, IsInjective
  <2>7. QED
    BY <2>1, <2>6, FS_Bijection DEF ExistsBijection
<1>9. /\ nr_free = Cardinality(ThinFree) /\ nr_free \in Nat
      /\ nr_free' = Cardinality(ThinFree')
      /\ used_data_blocks' = NrBlocks - nr_free'
  <2> HIDE DEF Gone
  <2>1. nr_free = Cardinality(ThinFree) /\ IsFiniteSet(ThinFree) /\ used_data_blocks = NrBlocks - nr_free
    BY <1>2, ThinFinite DEF ThinIInv, ThinCounts
  <2>2. nr_free \in Nat /\ Cardinality(Gone) \in Nat
    BY <2>1, <1>8, FS_CardinalityType
  <2>3. Cardinality(ThinFree') = nr_free + Cardinality(Gone)
    BY <1>7, <1>8, <2>1, CardinalityOfUnion
  <2>4. QED
    BY <1>1, <1>8, <2>1, <2>2, <2>3, ThinAssumption
<1>10. ThinCounts'
  <2>1. \A b \in Thin!Blocks :
          ref_counts'[b] >= Cardinality(Thin!Mappings(b)') + Cardinality(Thin!Holders(b)')
    BY <1>3, <1>5, <1>6
  <2>2. QED
    BY <1>9, <2>1 DEF ThinCounts, Thin!Blocks
<1>11. ThinShares'
  BY <1>5, <1>6 DEF ThinIInv, ThinShares, Thin!Blocks
<1>12. QED
  BY <1>4, <1>10, <1>11 DEF ThinIInv

\* The look at the mappings with which provision_block() and break_sharing() begin.
LEMMA ThinLooksUp ==
  ASSUME ThinIInv, NEW c \in Callers, NEW d \in Devices, NEW v \in VBlocks,
         Thin!provision_block(c, d, v) \/ Thin!break_sharing(c, d, v)
  PROVE  ThinIInv'
<1>1. /\ thinPc[c] = "idle" /\ thinPc' = [thinPc EXCEPT ![c] = "alloc"]
      /\ \/ thinCall' = [thinCall EXCEPT ![c] = <<"provision", d, v>>]
         \/ thinCall' = [thinCall EXCEPT ![c] = <<"share", d, v>>]
      /\ UNCHANGED <<thin_devices, mappings, ref_counts, nr_free, search_start, used_data_blocks,
                     block>>
  BY DEF Thin!provision_block, Thin!break_sharing, Thin!Goto, Thin!Pool, Thin!Space
<1>2. ThinTypeOK'
  BY <1>1 DEF ThinIInv, ThinTypeOK, Thin!Blocks
<1>3. \A b \in Thin!Blocks : Thin!Mappings(b)' = Thin!Mappings(b)
  BY <1>1 DEF Thin!Mappings
<1>4. QED
  BY <1>1, <1>2, <1>3, ThinCountsKept DEF ThinIInv

\* An allocated block is one that nobody maps or holds.
LEMMA ThinAllocates ==
  ASSUME ThinIInv, NEW c \in Callers, Thin!alloc_block(c)
  PROVE  ThinIInv'
<1>1. PICK x \in Thin!Blocks :
        /\ Thin!IsFirstFree(x)
        /\ ref_counts' = [ref_counts EXCEPT ![x] = 1]
        /\ nr_free' = nr_free - 1
        /\ used_data_blocks' = used_data_blocks + 1
        /\ thinPc[c] = "alloc" /\ thinPc' = [thinPc EXCEPT ![c] = "insert"]
        /\ block' = [block EXCEPT ![c] = x]
        /\ UNCHANGED <<thin_devices, mappings, thinCall>>
  BY DEF Thin!alloc_block, Thin!Goto, Thin!Pool
<1>2. ThinTypeOK
  BY DEF ThinIInv
<1>3. ref_counts[x] = 0
  BY <1>1 DEF Thin!IsFirstFree
<1>4. ThinTypeOK'
  <2>1. x # NoBlock
    BY <1>2, ThinFinite
  <2>2. QED
    BY <1>1, <1>2, <2>1 DEF ThinTypeOK, Thin!Blocks
<1>5. Thin!Mappings(x) = {} /\ Thin!Holders(x) = {}
  <2>1. /\ ref_counts[x] >= Cardinality(Thin!Mappings(x)) + Cardinality(Thin!Holders(x))
        /\ Cardinality(Thin!Mappings(x)) \in Nat /\ Cardinality(Thin!Holders(x)) \in Nat
    BY <1>2, ThinFinite DEF ThinIInv, ThinCounts
  <2>2. Cardinality(Thin!Mappings(x)) = 0 /\ Cardinality(Thin!Holders(x)) = 0
    BY <1>3, <2>1
  <2>3. QED
    BY <1>2, <2>2, ThinFinite, FS_EmptySet
<1>6. block[c] = NoBlock
  BY <1>1, <1>2 DEF ThinTypeOK
<1>7. /\ Thin!Holders(x)' = {c}
      /\ \A b \in Thin!Blocks \ {x} : Thin!Holders(b)' = Thin!Holders(b)
      /\ \A b \in Thin!Blocks : Thin!Mappings(b)' = Thin!Mappings(b)
  <2>1. block'[c] = x /\ \A e \in Callers \ {c} : block'[e] = block[e]
    BY <1>1, <1>2 DEF ThinTypeOK
  <2>2. Thin!Holders(x)' = {c}
    BY <1>5, <2>1 DEF Thin!Holders
  <2>3. \A b \in Thin!Blocks \ {x} : Thin!Holders(b)' = Thin!Holders(b)
    BY <1>2, <1>6, <2>1, ThinFinite DEF Thin!Holders
  <2>4. \A b \in Thin!Blocks : Thin!Mappings(b)' = Thin!Mappings(b)
    BY <1>1 DEF Thin!Mappings
  <2>5. QED
    BY <2>2, <2>3, <2>4
<1>8. /\ ref_counts'[x] = 1
      /\ \A b \in Thin!Blocks \ {x} : ref_counts'[b] = ref_counts[b]
  BY <1>1, <1>2 DEF ThinTypeOK
<1>9. ThinCounts'
  <2>1. \A b \in Thin!Blocks :
          ref_counts'[b] >= Cardinality(Thin!Mappings(b)') + Cardinality(Thin!Holders(b)')
    <3>1. Cardinality({c}) = 1 /\ Cardinality({}) = 0
      BY FS_Singleton, FS_EmptySet
    <3>2. ref_counts'[x] >= Cardinality(Thin!Mappings(x)') + Cardinality(Thin!Holders(x)')
      BY <1>5, <1>7, <1>8, <3>1
    <3>3. \A b \in Thin!Blocks \ {x} :
            ref_counts'[b] >= Cardinality(Thin!Mappings(b)') + Cardinality(Thin!Holders(b)')
      BY <1>7, <1>8 DEF ThinIInv, ThinCounts
    <3>4. QED
      BY <3>2, <3>3
  <2>2. ThinFree' = ThinFree \ {x} /\ x \in ThinFree
    BY <1>3, <1>8 DEF ThinFree, Thin!Blocks
  <2>3. /\ nr_free = Cardinality(ThinFree) /\ IsFiniteSet(ThinFree)
        /\ used_data_blocks = NrBlocks - nr_free
    BY <1>2, ThinFinite DEF ThinIInv, ThinCounts
  <2>4. nr_free \in Nat
    BY <2>3, FS_CardinalityType
  <2>5. Cardinality(ThinFree') = nr_free - 1
    BY <2>2, <2>3, FS_RemoveElement
  <2>6. used_data_blocks' = NrBlocks - nr_free'
    BY <1>1, <2>3, <2>4, ThinAssumption
  <2>7. QED
    BY <1>1, <2>1, <2>5, <2>6 DEF ThinCounts, Thin!Blocks
<1>10. ThinShares'
  <2> SUFFICES ASSUME NEW b \in Thin!Blocks
               PROVE  /\ \A m, n \in Thin!Mappings(b)' : m[2] = n[2]
                      /\ \A e \in Thin!Holders(b)' : /\ Thin!Mappings(b)' = {}
                                                     /\ Thin!Holders(b)' = {e}
    BY DEF ThinShares, Thin!Blocks
  <2>1. CASE b = x
    BY <2>1, <1>5, <1>7
  <2>2. CASE b # x
    BY <2>2, <1>7 DEF ThinIInv, ThinShares
  <2>3. QED
    BY <2>1, <2>2
<1>11. QED
  BY <1>4, <1>9, <1>10 DEF ThinIInv

\* alloc() without a free block changes nothing of the pool.
LEMMA ThinGivesUp ==
  ASSUME ThinIInv, NEW c \in Callers, Thin!alloc_fails(c)
  PROVE  ThinIInv'
<1>1. /\ thinPc[c] = "alloc" /\ thinPc' = [thinPc EXCEPT ![c] = "idle"]
      /\ thinCall' = [thinCall EXCEPT ![c] = <<>>]
      /\ block' = [block EXCEPT ![c] = NoBlock]
      /\ UNCHANGED <<thin_devices, mappings, ref_counts, nr_free, search_start, used_data_blocks>>
  BY DEF Thin!alloc_fails, Thin!Return, Thin!Goto, Thin!Pool, Thin!Space
<1>2. block[c] = NoBlock
  BY <1>1 DEF ThinIInv, ThinTypeOK
<1>3. block' = block
  BY <1>1, <1>2 DEF ThinIInv, ThinTypeOK
<1>4. ThinTypeOK'
  BY <1>1, <1>2, <1>3 DEF ThinIInv, ThinTypeOK, Thin!Blocks
<1>5. \A b \in Thin!Blocks : Thin!Mappings(b)' = Thin!Mappings(b)
  BY <1>1 DEF Thin!Mappings
<1>6. QED
  BY <1>1, <1>3, <1>4, <1>5, ThinCountsKept DEF ThinIInv

\* The block a caller holds goes to one mapping of one device, if it is there.
LEMMA ThinInserts ==
  ASSUME ThinIInv, NEW c \in Callers, Thin!insert_mapping(c)
  PROVE  ThinIInv'
<1>1. /\ thinPc[c] = "insert" /\ thinPc' = [thinPc EXCEPT ![c] = "idle"]
      /\ thinCall' = [thinCall EXCEPT ![c] = <<>>]
      /\ block' = [block EXCEPT ![c] = NoBlock]
      /\ mappings' = IF thinCall[c][2] \in thin_devices
                      THEN [mappings EXCEPT ![thinCall[c][2]][thinCall[c][3]] = block[c]]
                      ELSE mappings
      /\ UNCHANGED <<thin_devices, ref_counts, nr_free, search_start, used_data_blocks>>
  BY DEF Thin!insert_mapping, Thin!Return, Thin!Goto, Thin!Space
<1>2. ThinTypeOK
  BY DEF ThinIInv
<1>3. PICK d \in Devices, v \in VBlocks, x \in Thin!Blocks :
        /\ x = block[c] /\ x # NoBlock
        /\ mappings' = IF d \in thin_devices THEN [mappings EXCEPT ![d][v] = x] ELSE mappings
  <2>1. /\ thinCall[c][2] \in Devices /\ thinCall[c][3] \in VBlocks
        /\ block[c] \in Thin!Blocks /\ block[c] # NoBlock
    BY <1>1, <1>2 DEF ThinTypeOK
  <2>2. QED
    BY <1>1, <2>1
<1>4. ThinTypeOK'
  <2>1. mappings' \in [Devices -> [VBlocks -> Thin!Blocks \cup {NoBlock}]]
    BY <1>1, <1>2, <1>3 DEF ThinTypeOK
  <2>2. /\ thinPc' \in [Callers -> {"idle", "alloc", "insert"}]
        /\ block' \in [Callers -> Thin!Blocks \cup {NoBlock}]
        /\ DOMAIN thinCall' = Callers
    BY <1>1, <1>2 DEF ThinTypeOK
  <2>3. \A e \in Callers :
          /\ thinPc'[e] = "insert" <=> block'[e] # NoBlock
          /\ thinPc'[e] # "idle" => thinCall'[e][2] \in Devices /\ thinCall'[e][3] \in VBlocks
    BY <1>1, <1>2 DEF ThinTypeOK
  <2>4. QED
    BY <1>1, <1>2, <2>1, <2>2, <2>3 DEF ThinTypeOK, Thin!Blocks
<1>5. Thin!Mappings(x) = {} /\ Thin!Holders(x) = {c}
  BY <1>3 DEF ThinIInv, ThinShares, Thin!Holders
<1>6. ASSUME NEW b \in Thin!Blocks \ {x}
      PROVE  Thin!Holders(b)' = Thin!Holders(b) /\ Thin!Mappings(b)' \subseteq Thin!Mappings(b)
  <2>1. Thin!Holders(b)' = Thin!Holders(b)
    <3>1. b # NoBlock /\ block[c] # b
      BY <1>2, <1>3, ThinFinite
    <3>2. \A e \in Callers : block'[e] = b <=> block[e] = b
      BY <1>1, <1>2, <3>1 DEF ThinTypeOK
    <3>3. QED
      BY <3>2 DEF Thin!Holders
  <2>2. \A e \in thin_devices, w \in VBlocks :
          mappings'[e][w] = mappings[e][w] \/ mappings'[e][w] = x
    BY <1>1, <1>2, <1>3 DEF ThinTypeOK
  <2>3. Thin!Mappings(b)' \subseteq Thin!Mappings(b)
    BY <1>1, <2>2 DEF Thin!Mappings
  <2>4. QED
    BY <2>1, <2>3
<1>7. Thin!Holders(x)' = {} /\ Thin!Mappings(x)' \subseteq {<<d, v>>}
  <2>1. Thin!Holders(x)' = {}
    BY <1>1, <1>2, <1>3, <1>5 DEF Thin!Holders, ThinTypeOK
  <2>2. \A e \in thin_devices, w \in VBlocks : mappings[e][w] # x
    <3> SUFFICES ASSUME NEW e \in thin_devices, NEW w \in VBlocks, mappings[e][w] = x
                 PROVE  <<e, w>> \in Thin!Mappings(x)
      BY <1>5
    <3>1. <<e, w>> \in thin_devices \X VBlocks /\ <<e, w>>[1] = e /\ <<e, w>>[2] = w
      OBVIOUS
    <3>2. QED
      BY <3>1 DEF Thin!Mappings
  <2>3. \A e \in thin_devices, w \in VBlocks : mappings'[e][w] = x => e = d /\ w = v
    BY <1>1, <1>2, <1>3, <2>2 DEF ThinTypeOK
  <2>4. Thin!Mappings(x)' \subseteq {<<d, v>>}
    BY <1>1, <2>3 DEF Thin!Mappings
  <2>5. QED
    BY <2>1, <2>4
<1>8. ThinCounts'
  <2>1. ASSUME NEW b \in Thin!Blocks
        PROVE  ref_counts'[b] >= Cardinality(Thin!Mappings(b)') + Cardinality(Thin!Holders(b)')
    <3>1. /\ ref_counts[b] >= Cardinality(Thin!Mappings(b)) + Cardinality(Thin!Holders(b))
          /\ Cardinality(Thin!Mappings(b)) \in Nat /\ Cardinality(Thin!Holders(b)) \in Nat
          /\ IsFiniteSet(Thin!Mappings(b)) /\ ref_counts[b] \in Nat /\ ref_counts'[b] = ref_counts[b]
      BY <1>1, <1>2, ThinFinite DEF ThinIInv, ThinCounts, ThinTypeOK
    <3>2. CASE b = x
      <4>1. /\ Cardinality({c}) = 1 /\ Cardinality({}) = 0
            /\ IsFiniteSet({<<d, v>>}) /\ Cardinality({<<d, v>>}) = 1
        BY FS_Singleton, FS_EmptySet
      <4>2. Cardinality(Thin!Mappings(x)') <= 1 /\ Cardinality(Thin!Mappings(x)') \in Nat
        BY <1>7, <4>1, FS_Subset, FS_CardinalityType
      <4>3. ref_counts[b] >= 1
        BY <1>5, <3>1, <3>2, <4>1
      <4>4. Cardinality(Thin!Holders(x)') = 0
        BY <1>7, <4>1
      <4>5. QED
        BY <3>1, <3>2, <4>2, <4>3, <4>4
    <3>3. CASE b # x
      <4>1. /\ Cardinality(Thin!Mappings(b)') <= Cardinality(Thin!Mappings(b))
            /\ Cardinality(Thin!Mappings(b)') \in Nat
        BY <1>6, <3>1, <3>3, FS_Subset, FS_CardinalityType
      <4>2. Cardinality(Thin!Holders(b)') = Cardinality(Thin!Holders(b))
        BY <1>6, <3>3
      <4>3. QED
        BY <3>1, <4>1, <4>2
    <3>4. QED
      BY <3>2, <3>3
  <2>2. ThinFree' = ThinFree
    BY <1>1 DEF ThinFree, Thin!Blocks
  <2>3. QED
    BY <1>1, <2>1, <2>2 DEF ThinIInv, ThinCounts, Thin!Blocks
<1>9. ThinShares'
  <2> SUFFICES ASSUME NEW b \in Thin!Blocks
               PROVE  /\ \A m, n \in Thin!Mappings(b)' : m[2] = n[2]
                      /\ \A e \in Thin!Holders(b)' : /\ Thin!Mappings(b)' = {}
                                                     /\ Thin!Holders(b)' = {e}
    BY DEF ThinShares, Thin!Blocks
  <2>1. CASE b = x
    BY <2>1, <1>7
  <2>2. CASE b # x
    BY <2>2, <1>6 DEF ThinIInv, ThinShares
  <2>3. QED
    BY <2>1, <2>2
<1>10. QED
  BY <1>4, <1>8, <1>9 DEF ThinIInv

-----------------------------------------------------------------------------
\* One step per operation.
LEMMA ThinStepKeeps == ThinIInv /\ [Thin!Next]_(Thin!vars) => ThinIInv'
<1> SUFFICES ASSUME ThinIInv, [Thin!Next]_(Thin!vars) PROVE ThinIInv'
  OBVIOUS
<1>1. CASE Thin!Next
  BY <1>1, ThinCreates, ThinDeletes, ThinSnapshots, ThinLooksUp, ThinAllocates, ThinGivesUp,
     ThinInserts DEF Thin!Next
<1>2. CASE UNCHANGED Thin!vars
  <2>1. UNCHANGED <<thin_devices, mappings, ref_counts, nr_free, search_start, used_data_blocks,
                    thinPc, thinCall, block>>
    BY <1>2 DEF Thin!vars
  <2>2. ThinTypeOK'
    BY <2>1 DEF ThinIInv, ThinTypeOK, Thin!Blocks
  <2>3. \A b \in Thin!Blocks : Thin!Mappings(b)' = Thin!Mappings(b)
    BY <2>1 DEF Thin!Mappings
  <2>4. QED
    BY <2>1, <2>2, <2>3, ThinCountsKept DEF ThinIInv
<1>3. QED
  BY <1>1, <1>2

\* SpaceMap: a block that a device maps or a caller is about to map is never free,
\* and the figures for the free and the used blocks are exact, whatever devices,
\* snapshots and allocations come and go.
THEOREM ThinBlocksAlwaysCounted == Thin!Spec => []ThinBlocksAreCounted
<1>1. ThinIInv => ThinBlocksAreCounted
  <2> SUFFICES ASSUME ThinIInv PROVE Thin!BlocksAreCounted
    BY DEF ThinBlocksAreCounted
  <2>1. \A b \in Thin!Blocks :
          ref_counts[b] >= Thin!Cardinality(Thin!Mappings(b)) + Thin!Cardinality(Thin!Holders(b))
    BY ThinCardinality DEF ThinIInv, ThinCounts
  <2>2. /\ nr_free = Thin!Cardinality({b \in Thin!Blocks : ref_counts[b] = 0})
        /\ used_data_blocks = NrBlocks - nr_free
    BY ThinCardinality DEF ThinIInv, ThinCounts, ThinFree
  <2>3. QED
    BY <2>1, <2>2 DEF Thin!BlocksAreCounted
<1>2. QED
  BY <1>1, ThinInitHolds, ThinStepKeeps, PTL DEF Thin!Spec

\* create_snapshot, delete_thin and insert_mapping: two devices map the same block
\* only as snapshots of one another, at the same virtual block, and never one that
\* an allocation has just handed out.
THEOREM ThinSharersAlwaysSnapshots == Thin!Spec => []ThinSharersAreSnapshots
<1>1. ThinIInv => ThinSharersAreSnapshots
  <2> SUFFICES ASSUME ThinIInv, NEW b \in Thin!Blocks
               PROVE  /\ \A m, n \in Thin!Mappings(b) : m[2] = n[2]
                      /\ Thin!Holders(b) # {} => /\ Thin!Mappings(b) = {}
                                                 /\ Thin!Cardinality(Thin!Holders(b)) = 1
    BY DEF ThinSharersAreSnapshots, Thin!SharersAreSnapshots
  <2>1. /\ \A m, n \in Thin!Mappings(b) : m[2] = n[2]
        /\ \A c \in Thin!Holders(b) : Thin!Mappings(b) = {} /\ Thin!Holders(b) = {c}
    BY DEF ThinIInv, ThinShares
  <2>2. ASSUME NEW c \in Thin!Holders(b)
        PROVE  Thin!Mappings(b) = {} /\ Thin!Cardinality(Thin!Holders(b)) = 1
    <3>1. Cardinality({c}) = 1
      BY FS_Singleton
    <3>2. QED
      BY <2>1, <3>1, ThinCardinality
  <2>3. QED
    BY <2>1, <2>2
<1>2. QED
  BY <1>1, ThinInitHolds, ThinStepKeeps, PTL DEF Thin!Spec

-----------------------------------------------------------------------------
\* The composition that the run checks: each structure of it obeys its own
\* specification, so that the theorems above, and those about the ring buffer,
\* hold of the run too.
THEOREM MCSpecImplementsAll == MCSpec => Spec /\ RingSpec /\ R!Spec /\ Thin!Spec
<1>1. MCInit => Init /\ RingInit /\ R!Init /\ Thin!Init
  BY DEF MCInit
<1>2. [MCNext]_<<kind, vars, ringVars, rcuVars, thinVars>> =>
        [Next]_vars /\ [RingNext]_ringVars /\ [R!Next]_(R!vars) /\ [Thin!Next]_(Thin!vars)
  BY DEF MCNext, vars, ringVars, rcuVars, thinVars, R!vars, Thin!vars
<1>3. QED
  BY <1>1, <1>2, PTL DEF MCSpec, Spec, RingSpec, R!Spec, Thin!Spec
===============================================================================
