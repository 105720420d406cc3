-------------------------------- MODULE SeqLock -------------------------------
(***************************************************************************)
(* SeqLockGuarded of sync/seqlock.rs, and read() and try_read() of the     *)
(* SeqLock inside it.  The data is copied word by word, in any order, by   *)
(* readers and by the holder of the write guard, which may store several   *)
(* values before it is dropped.  Values are numbered in the order of their *)
(* stores.  One atomic operation, or the access to one word, is one step;  *)
(* on the x86-64 target loads are not reordered with loads, nor stores     *)
(* with stores.  The names carry the prefix Seq to be composed with other  *)
(* modules by EXTENDS.                                                     *)
(***************************************************************************)
EXTENDS Integers

CONSTANTS
  SeqThreads,
  Words,         \* the words of the data
  MaxValue,      \* bound: how many values are stored
  MaxSeq         \* bound: no write begins at or above this sequence number

ASSUME SeqAssumption == MaxValue \in Nat /\ MaxSeq \in Nat

VARIABLES
  seq,           \* SeqLock.seq
  words,         \* SeqLock.data: the value each word belongs to
  writeLock,     \* SeqLockGuarded.write_lock
  seqPc,         \* the operation each thread does next
  start,         \* the local seq1 of a reader
  copy,          \* the local value of a reader
  todo,          \* the words a copy, in or out, has still to move
  latest,        \* the number of the value stored last
  published      \* history: the latest value when t's read() began

seqVars == <<seq, words, writeLock, seqPc, start, copy, todo, latest, published>>

IsOdd(n) == n % 2 = 1

SeqInit ==
  /\ seq = 0
  /\ words = [w \in Words |-> 0]
  /\ writeLock = FALSE
  /\ seqPc = [t \in SeqThreads |-> "idle"]
  /\ start = [t \in SeqThreads |-> 0]
  /\ copy = [t \in SeqThreads |-> [w \in Words |-> 0]]
  /\ todo = [t \in SeqThreads |-> {}]
  /\ latest = 0
  /\ published = [t \in SeqThreads |-> 0]

SeqGoto(t, from, to) == seqPc[t] \in from /\ seqPc' = [seqPc EXCEPT ![t] = to]

\* read() and try_read(): an odd sequence number means a writer; read() tries
\* again, try_read() returns None.
SeqBegin(t) ==
  /\ ~IsOdd(seq)
  /\ SeqGoto(t, {"idle"}, "copy")
  /\ start' = [start EXCEPT ![t] = seq]
  /\ todo' = [todo EXCEPT ![t] = Words]
  /\ published' = [published EXCEPT ![t] = latest]
  /\ UNCHANGED <<seq, words, writeLock, copy, latest>>

SeqCopy(t, w) ==
  /\ w \in todo[t]
  /\ SeqGoto(t, {"copy"}, "copy")
  /\ copy' = [copy EXCEPT ![t] = [@ EXCEPT ![w] = words[w]]]
  /\ todo' = [todo EXCEPT ![t] = @ \ {w}]
  /\ UNCHANGED <<seq, words, writeLock, start, latest, published>>

\* The locals of read() go out of scope.
SeqForget(t) ==
  /\ start' = [start EXCEPT ![t] = 0]
  /\ copy' = [copy EXCEPT ![t] = [w \in Words |-> 0]]
  /\ published' = [published EXCEPT ![t] = 0]

\* Mutated form of SeqEnd: an even number is enough, it need not be the same.
SeqEndEven(t) ==
  /\ todo[t] = {} /\ ~IsOdd(seq)
  /\ SeqGoto(t, {"copy"}, "returned")
  /\ UNCHANGED <<seq, words, writeLock, start, copy, todo, latest, published>>

\* The second load of seq finds the first one's number: the copy is returned.
SeqEnd(t) ==
  /\ todo[t] = {} /\ seq = start[t]
  /\ SeqGoto(t, {"copy"}, "returned")
  /\ UNCHANGED <<seq, words, writeLock, start, copy, todo, latest, published>>

\* Otherwise it is thrown away; read() starts over, try_read() returns None.
SeqRetry(t) ==
  /\ todo[t] = {} /\ seq # start[t]
  /\ SeqGoto(t, {"copy"}, "idle")
  /\ SeqForget(t)
  /\ UNCHANGED <<seq, words, writeLock, todo, latest>>

\* The caller has used the value.
SeqReturn(t) ==
  /\ SeqGoto(t, {"returned"}, "idle")
  /\ SeqForget(t)
  /\ UNCHANGED <<seq, words, writeLock, todo, latest>>

\* SeqLockGuarded::write: the write lock, ...
SeqLockWrite(t) ==
  /\ ~writeLock /\ seq < MaxSeq
  /\ SeqGoto(t, {"idle"}, "locked")
  /\ writeLock' = TRUE
  /\ UNCHANGED <<seq, words, start, copy, todo, latest, published>>

\* ... and the sequence number becomes odd.
SeqStart(t) ==
  /\ SeqGoto(t, {"locked"}, "guard")
  /\ seq' = seq + 1
  /\ UNCHANGED <<words, writeLock, start, copy, todo, latest, published>>

\* SeqLockWriteGuard::write begins to store the next value.
SeqStore(t) ==
  /\ todo[t] = {} /\ latest < MaxValue
  /\ SeqGoto(t, {"guard"}, "guard")
  /\ latest' = latest + 1
  /\ todo' = [todo EXCEPT ![t] = Words]
  /\ UNCHANGED <<seq, words, writeLock, start, copy, published>>

SeqStoreWord(t, w) ==
  /\ w \in todo[t]
  /\ SeqGoto(t, {"guard"}, "guard")
  /\ words' = [words EXCEPT ![w] = latest]
  /\ todo' = [todo EXCEPT ![t] = @ \ {w}]
  /\ UNCHANGED <<seq, writeLock, start, copy, latest, published>>

\* SeqLockWriteGuard::drop: the number is even again, ...
SeqDrop(t) ==
  /\ todo[t] = {}
  /\ SeqGoto(t, {"guard"}, "unlock")
  /\ seq' = seq + 1
  /\ UNCHANGED <<words, writeLock, start, copy, todo, latest, published>>

\* ... then the guard's field _lock is dropped.
SeqUnlock(t) ==
  /\ SeqGoto(t, {"unlock"}, "idle")
  /\ writeLock' = FALSE
  /\ UNCHANGED <<seq, words, start, copy, todo, latest, published>>

SeqRead(t) ==
  \/ SeqBegin(t) \/ SeqEnd(t) \/ SeqRetry(t) \/ SeqReturn(t)
  \/ \E w \in Words : SeqCopy(t, w)

SeqWrite(t) ==
  \/ SeqLockWrite(t) \/ SeqStart(t) \/ SeqStore(t) \/ SeqDrop(t) \/ SeqUnlock(t)
  \/ \E w \in Words : SeqStoreWord(t, w)

SeqNext == \E t \in SeqThreads : SeqRead(t) \/ SeqWrite(t)

SeqSpec == SeqInit /\ [][SeqNext]_seqVars

-----------------------------------------------------------------------------
\* The write lock has one holder, the guard is one of its states.
Writer(t) == seqPc[t] \in {"locked", "guard", "unlock"}

SeqTypeOK ==
  /\ seq \in Nat /\ latest \in 0 .. MaxValue
  /\ words \in [Words -> 0 .. MaxValue]
  /\ writeLock \in BOOLEAN
  /\ seqPc \in [SeqThreads -> {"idle", "copy", "returned", "locked", "guard", "unlock"}]
  /\ start \in [SeqThreads -> Nat]
  /\ copy \in [SeqThreads -> [Words -> 0 .. MaxValue]]
  /\ todo \in [SeqThreads -> SUBSET Words]
  /\ published \in [SeqThreads -> 0 .. MaxValue]

\* One writer at a time; the number is odd just while it stores, and without a
\* writer all words belong to the value stored last.
WritersAlternate ==
  /\ \A t, u \in SeqThreads : Writer(t) /\ Writer(u) => t = u
  /\ \A t \in SeqThreads : Writer(t) => writeLock
  /\ IsOdd(seq) <=> \E t \in SeqThreads : seqPc[t] = "guard"
  /\ ~IsOdd(seq) => \A w \in Words : words[w] = latest
  /\ \A t \in SeqThreads : seqPc[t] = "guard" =>
       \A w \in Words \ todo[t] : words[w] = latest

\* A copy is good as long as the number has not moved.
CopiesAreGood ==
  \A t \in SeqThreads : seqPc[t] = "copy" =>
    /\ ~IsOdd(start[t]) /\ start[t] <= seq
    /\ published[t] <= latest
    /\ start[t] = seq =>
         /\ published[t] = latest
         /\ \A w \in Words \ todo[t] : copy[t][w] = latest

(***************************************************************************)
(* A returned copy is one stored value, not a mixture of several, and it   *)
(* is not older than the value that was current when the read began.       *)
(***************************************************************************)
ReadsAreWhole ==
  \A t \in SeqThreads : seqPc[t] = "returned" =>
    \E v \in published[t] .. latest : \A w \in Words : copy[t][w] = v
===============================================================================
