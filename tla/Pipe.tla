---------------------------------- MODULE Pipe --------------------------------
(***************************************************************************)
(* The pipe of ipc/pipe.rs: a bounded buffer behind a spin mutex, four     *)
(* flags outside it, and read and write loops that poll until they can get *)
(* on.  One hold of the mutex is one step, and so is each load of a flag   *)
(* outside it.  The two ends are a PipeRead and a PipeWrite whose threads  *)
(* share a reference: dropping an end closes it, once no call is using it. *)
(***************************************************************************)
EXTENDS Integers, Sequences

CONSTANTS
  Writers, Readers,
  PIPE_BUF,          \* the largest write that is atomic
  Capacities,        \* what set_capacity is called with; the first size is one of them
  WriteLengths,      \* len() of the slices passed to write and to read
  ReadLengths,
  MaxCalls           \* bound: how many write calls a writer makes

ASSUME PipeAssumption ==
  /\ PIPE_BUF \in Nat \ {0}
  /\ Capacities \subseteq Nat /\ Capacities # {}
  /\ WriteLengths \subseteq Nat \ {0} /\ ReadLengths \subseteq Nat \ {0}
  /\ MaxCalls \in Nat
  /\ Writers \cap Readers = {}

VARIABLES
  data,              \* PipeBuffer.data
  max_size,
  read_closed, write_closed,
  nonblock_read, nonblock_write,
  pc,                \* where each thread is: "idle" between calls
  call,              \* writers: how many calls it has begun
  len,               \* the length of the slice of the current or last call
  total,             \* writers: total_written of that call
  result,            \* writers: what that call returned, see Result
  stream,            \* history: every byte put into data, in order
  eof                \* history: a reader got Ok(0)

flags == <<read_closed, write_closed, nonblock_read, nonblock_write>>
vars == <<data, max_size, flags, pc, call, len, total, result, stream, eof>>

Threads == Writers \cup Readers

\* Ok(n) or an error; nonblock is history, the flag at the time of the return.
Result == [kind : {"none", "ok", "would_block", "broken"}, n : Nat, nonblock : BOOLEAN]
None == [kind |-> "none", n |-> 0, nonblock |-> FALSE]

\* Byte i of the n-th write of w.
Byte(w, n, i) == <<w, n, i>>
Bytes == Writers \X Nat \X Nat

Init ==
  /\ data = << >> /\ max_size \in Capacities
  /\ read_closed = FALSE /\ write_closed = FALSE
  /\ nonblock_read \in BOOLEAN /\ nonblock_write = nonblock_read
  /\ pc = [t \in Threads |-> "idle"]
  /\ call = [w \in Writers |-> 0]
  /\ len = [t \in Threads |-> 0]
  /\ total = [w \in Writers |-> 0]
  /\ result = [w \in Writers |-> None]
  /\ stream = << >> /\ eof = FALSE

Goto(t, from, to) == pc[t] = from /\ pc' = [pc EXCEPT ![t] = to]
Space == IF max_size > Len(data) THEN max_size - Len(data) ELSE 0
Least(a, b) == IF a < b THEN a ELSE b

-------------------------------------------------------------------------------
(* Pipe::write *)

Return(w, kind, n) ==
  result' = [result EXCEPT ![w] = [kind |-> kind, n |-> n, nonblock |-> nonblock_write]]

\* Out of a loop that does not block: Ok(total_written), or an error when that is 0.
GiveUp(w) ==
  IF total[w] > 0 THEN Return(w, "ok", total[w]) ELSE Return(w, "would_block", 0)

WriteBegin(w, n) ==
  /\ ~write_closed                      \* the caller still has the write end
  /\ call[w] < MaxCalls
  /\ Goto(w, "idle", "entry")
  /\ call' = [call EXCEPT ![w] = @ + 1]
  /\ len' = [len EXCEPT ![w] = n]
  /\ total' = [total EXCEPT ![w] = 0]
  /\ result' = [result EXCEPT ![w] = None]
  /\ UNCHANGED <<data, max_size, flags, stream, eof>>

\* "Check if read end closed"
WriteEntry(w) ==
  /\ Goto(w, "entry", IF read_closed THEN "idle" ELSE "try")
  /\ IF read_closed THEN Return(w, "broken", 0) ELSE UNCHANGED result
  /\ UNCHANGED <<data, max_size, flags, call, len, total, stream, eof>>

\* Mutated form of MustWait: a write that does not fit is cut.
MustWaitForOne(w) == len[w] <= PIPE_BUF /\ Space = 0

\* Mutated form of MustWait: one free byte is kept.
MustWaitForMore(w) == len[w] <= PIPE_BUF /\ Space <= len[w]

\* "Must write all at once", and cannot.
MustWait(w) == len[w] <= PIPE_BUF /\ Space < len[w]

\* The locked section of the loop puts n bytes into the buffer, from `total' on.
Fill(w, n) ==
  LET piece == [i \in 1 .. n |-> Byte(w, call[w], total[w] + i)] IN
  /\ data' = data \o piece
  /\ stream' = stream \o piece
  /\ total' = [total EXCEPT ![w] = @ + n]

\* The loop's locked section when there is room: as much as fits.
WriteFits(w) ==
  LET n == Least(len[w] - total[w], Space) IN
  /\ ~MustWait(w) /\ Space > 0
  /\ Fill(w, n)
  /\ IF total[w] + n >= len[w] THEN Goto(w, "try", "idle") /\ Return(w, "ok", total[w] + n)
                               ELSE Goto(w, "try", "closed?") /\ UNCHANGED result
  /\ UNCHANGED <<max_size, flags, call, len, eof>>

\* The same when there is none, or not enough for an atomic write.
WriteFull(w) ==
  /\ MustWait(w) \/ Space = 0
  /\ IF MustWait(w) /\ nonblock_write
     THEN Goto(w, "try", "idle") /\ GiveUp(w)
     ELSE Goto(w, "try", "closed?") /\ UNCHANGED result
  /\ UNCHANGED <<data, max_size, flags, call, len, total, stream, eof>>

\* "Check read end again": an error, also after part of the slice was written.
WriteLooksAtReadEnd(w) ==
  /\ Goto(w, "closed?", IF read_closed THEN "idle" ELSE "nonblock?")
  /\ IF read_closed THEN Return(w, "broken", 0) ELSE UNCHANGED result
  /\ UNCHANGED <<data, max_size, flags, call, len, total, stream, eof>>

\* Mutated form of WriteMayGiveUp: the bytes already written are not reported.
WriteMayGiveUpSilently(w) ==
  /\ Goto(w, "nonblock?", IF nonblock_write THEN "idle" ELSE "try")
  /\ IF nonblock_write THEN Return(w, "would_block", 0) ELSE UNCHANGED result
  /\ UNCHANGED <<data, max_size, flags, call, len, total, stream, eof>>

WriteMayGiveUp(w) ==
  /\ Goto(w, "nonblock?", IF nonblock_write THEN "idle" ELSE "try")
  /\ IF nonblock_write THEN GiveUp(w) ELSE UNCHANGED result
  /\ UNCHANGED <<data, max_size, flags, call, len, total, stream, eof>>

-------------------------------------------------------------------------------
(* Pipe::read *)

writing == <<call, total, result, stream>>

ReadBegin(r, n) ==
  /\ ~read_closed
  /\ Goto(r, "idle", "try")
  /\ len' = [len EXCEPT ![r] = n]
  /\ UNCHANGED <<data, max_size, flags, writing, eof>>

\* The locked section: data first ...
ReadData(r) ==
  /\ data # << >>
  /\ Goto(r, "try", "idle")
  /\ data' = SubSeq(data, Least(len[r], Len(data)) + 1, Len(data))
  /\ UNCHANGED <<max_size, flags, len, writing, eof>>

\* Mutated form of ReadEnd: end of file as soon as the write end is closed.
ReadEndEarly(r) ==
  /\ write_closed
  /\ Goto(r, "try", "idle")
  /\ eof' = TRUE
  /\ UNCHANGED <<data, max_size, flags, len, writing>>

\* ... and end of file only when there is none.
ReadEnd(r) ==
  /\ data = << >> /\ write_closed
  /\ Goto(r, "try", "idle")
  /\ eof' = TRUE
  /\ UNCHANGED <<data, max_size, flags, len, writing>>

ReadEmpty(r) ==
  /\ data = << >> /\ ~write_closed
  /\ Goto(r, "try", "nonblock?")
  /\ UNCHANGED <<data, max_size, flags, len, writing, eof>>

ReadMayGiveUp(r) ==
  /\ Goto(r, "nonblock?", IF nonblock_read THEN "idle" ELSE "try")
  /\ UNCHANGED <<data, max_size, flags, len, writing, eof>>

-------------------------------------------------------------------------------
(* The ends *)

Unmoved == UNCHANGED <<data, pc, call, len, total, result, stream, eof>>

\* Drop of PipeRead, of PipeWrite: no thread is inside a call on that end.
close_read ==
  /\ ~read_closed /\ \A r \in Readers : pc[r] = "idle"
  /\ read_closed' = TRUE
  /\ UNCHANGED <<max_size, write_closed, nonblock_read, nonblock_write>> /\ Unmoved

close_write ==
  /\ ~write_closed /\ \A w \in Writers : pc[w] = "idle"
  /\ write_closed' = TRUE
  /\ UNCHANGED <<max_size, read_closed, nonblock_read, nonblock_write>> /\ Unmoved

set_nonblock_read ==
  /\ ~read_closed /\ nonblock_read' = ~nonblock_read
  /\ UNCHANGED <<max_size, read_closed, write_closed, nonblock_write>> /\ Unmoved

set_nonblock_write ==
  /\ ~write_closed /\ nonblock_write' = ~nonblock_write
  /\ UNCHANGED <<max_size, read_closed, write_closed, nonblock_read>> /\ Unmoved

set_capacity(size) ==
  /\ size # max_size /\ size >= Len(data)
  /\ max_size' = size
  /\ UNCHANGED flags /\ Unmoved

WriteStep(w) ==
  \/ WriteEntry(w)
  \/ WriteFits(w)
  \/ WriteFull(w)
  \/ WriteLooksAtReadEnd(w)
  \/ WriteMayGiveUp(w)

ReadStep(r) ==
  \/ ReadData(r)
  \/ ReadEnd(r)
  \/ ReadEmpty(r)
  \/ ReadMayGiveUp(r)

Next ==
  \/ \E w \in Writers : WriteStep(w) \/ \E n \in WriteLengths : WriteBegin(w, n)
  \/ \E r \in Readers : ReadStep(r) \/ \E n \in ReadLengths : ReadBegin(r, n)
  \/ close_read
  \/ close_write
  \/ set_nonblock_read
  \/ set_nonblock_write
  \/ \E size \in Capacities : set_capacity(size)

Spec == Init /\ [][Next]_vars

\* A thread inside a call keeps running; somebody who holds the read end keeps
\* reading from it.  Nobody has to write, close an end or change a flag.
FairSpec ==
  /\ Spec
  /\ \A w \in Writers : WF_vars(WriteStep(w))
  /\ \A r \in Readers : WF_vars(ReadStep(r)) /\ WF_vars(\E n \in ReadLengths : ReadBegin(r, n))

-------------------------------------------------------------------------------
(* Properties *)

TypeOK ==
  /\ data \in Seq(Bytes)
  /\ max_size \in Capacities
  /\ read_closed \in BOOLEAN /\ write_closed \in BOOLEAN
  /\ nonblock_read \in BOOLEAN /\ nonblock_write \in BOOLEAN
  /\ pc \in [Threads -> {"idle", "entry", "try", "closed?", "nonblock?"}]
  /\ call \in [Writers -> 0 .. MaxCalls]
  /\ len \in [Threads -> Nat]
  /\ total \in [Writers -> Nat]
  /\ result \in [Writers -> Result]
  /\ eof \in BOOLEAN

Positions(w, n) == {i \in DOMAIN stream : stream[i][1] = w /\ stream[i][2] = n}

\* "Atomic write guarantee for <= PIPE_BUF" (pipe.rs:211): the bytes of a write
\* that short are in the pipe all or not at all, and side by side, whatever other
\* writers, the capacity and the readers do.
AtomicWritesStayWhole ==
  \A w \in Writers :
    len[w] \in 1 .. PIPE_BUF =>
      LET P == Positions(w, call[w]) IN
      \/ P = {}
      \/ \E first \in P : P = first .. first + len[w] - 1

\* What write() tells its caller (pipe.rs:217, 228, 239).  Ok(n): the first n
\* bytes of its slice went in, in order, and no others; n is less than the slice
\* only where the write end did not block.  WouldBlock: it did not, and no byte
\* went in.  BrokenPipe: the read end was dropped; what went in before is lost.
ResultCountsBytes ==
  \A w \in Writers :
    LET P == Positions(w, call[w])
        r == result[w]
    IN
    /\ r.kind = "ok" =>
         /\ {stream[i][3] : i \in P} = 1 .. r.n
         /\ \A i, j \in P : i < j => stream[i][3] < stream[j][3]
         /\ r.n = len[w] \/ (r.n \in 1 .. len[w] /\ r.nonblock)
    /\ r.kind = "would_block" => P = {} /\ r.nonblock
    /\ r.kind = "broken" => read_closed

\* The pipe is a byte stream: every byte comes out once and in order, and end of
\* file (pipe.rs:181-184) is reported only when all came out and the last writer
\* is gone.
Stream == INSTANCE ByteStream WITH inside <- data, ended <- eof
ImplementsByteStream == Stream!StreamSpec

\* What an atomic write waits for will not come: the capacity was set below it.
TooSmall(w) == len[w] <= PIPE_BUF /\ len[w] > max_size

\* A write call returns (pipe.rs:206-246) when the read end is read from or
\* dropped: no flag, reader or change of capacity keeps it in its loop for ever,
\* nor do the calls that other writers make, MaxCalls each; unless it is an atomic
\* write and the capacity is set below its length again and again, or left there
\* (274-287).  A writer that never ceases may starve it: nothing here excludes that.
WriteReturns == \A w \in Writers : <>[](pc[w] # "idle") => []<>TooSmall(w)

===============================================================================
