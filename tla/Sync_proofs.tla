------------------------------ MODULE Sync_proofs ------------------------------
(***************************************************************************)
(* What the sequence lock, the counting barriers, the once cells and the   *)
(* tree barrier promise, for any number of threads: a read of the lock     *)
(* returns one stored value and no older one than was current when it      *)
(* began, nobody passes a barrier early, and a cell is initialised once,   *)
(* before anybody returns from it.                                         *)
(***************************************************************************)
EXTENDS MCSync, FiniteSetTheorems, WellFoundedInduction, TLAPS

\* The sequence lock.
SeqInv == SeqTypeOK /\ WritersAlternate /\ CopiesAreGood /\ ReadsAreWhole

\* Odd and even numbers alternate.
LEMMA Parity ==
  \A n \in Nat : IsOdd(n + 1) <=> ~IsOdd(n)
BY DEF IsOdd

\* Copies are functions on the words, also with one word changed.
LEMMA NoCopy ==
  /\ [w \in Words |-> 0] \in [Words -> 0 .. MaxValue]
  /\ \A f \in [Words -> 0 .. MaxValue], v \in Words, x \in 0 .. MaxValue :
       [f EXCEPT ![v] = x] \in [Words -> 0 .. MaxValue]
<1>1. 0 \in 0 .. MaxValue
  BY SeqAssumption
<1>2. QED
  BY <1>1

\* The invariant holds when the lock is made.
LEMMA SeqInitInv == SeqInit => SeqInv
<1> SUFFICES ASSUME SeqInit PROVE SeqInv
  OBVIOUS
<1>1. SeqTypeOK
  <2>1. copy \in [SeqThreads -> [Words -> 0 .. MaxValue]]
    BY NoCopy DEF SeqInit
  <2>2. words \in [Words -> 0 .. MaxValue]
    BY NoCopy DEF SeqInit
  <2>3. /\ seq = 0 /\ latest = 0 /\ writeLock = FALSE
        /\ start = [t \in SeqThreads |-> 0] /\ published = [t \in SeqThreads |-> 0]
    BY DEF SeqInit
  <2>4. writeLock \in BOOLEAN
    BY <2>3, Zenon
  <2>5. /\ seq \in Nat /\ latest \in 0 .. MaxValue
        /\ start \in [SeqThreads -> Nat] /\ published \in [SeqThreads -> 0 .. MaxValue]
    BY <2>3, SeqAssumption
  <2>6. todo \in [SeqThreads -> SUBSET Words]
    BY DEF SeqInit
  <2>7. seqPc \in [SeqThreads -> {"idle", "copy", "returned", "locked", "guard", "unlock"}]
    BY DEF SeqInit
  <2>8. QED
    BY <2>1, <2>2, <2>4, <2>5, <2>6, <2>7 DEF SeqTypeOK
<1>2. ~IsOdd(seq)
  BY DEF SeqInit, IsOdd
<1>3. WritersAlternate
  BY <1>2 DEF SeqInit, WritersAlternate, Writer
<1>4. CopiesAreGood /\ ReadsAreWhole
  BY DEF SeqInit, CopiesAreGood, ReadsAreWhole
<1>5. QED
  BY <1>1, <1>3, <1>4 DEF SeqInv

-----------------------------------------------------------------------------
\* The steps of a reader change nothing but its own locals.
WriterState == <<seq, words, writeLock, latest>>

\* What a thread that is no writer before and after its step keeps.
LEMMA ReaderKeepsWriters ==
  ASSUME SeqInv, NEW t \in SeqThreads, UNCHANGED WriterState,
         NEW p \in {"idle", "copy", "returned"}, seqPc' = [seqPc EXCEPT ![t] = p],
         seqPc[t] \in {"idle", "copy", "returned"},
         \A u \in SeqThreads \ {t} : todo'[u] = todo[u]
  PROVE  WritersAlternate'
<1>1. \A u \in SeqThreads : Writer(u)' <=> Writer(u)
  BY DEF SeqInv, SeqTypeOK, Writer
<1>2. \A u \in SeqThreads : seqPc'[u] = "guard" <=> seqPc[u] = "guard"
  BY DEF SeqInv, SeqTypeOK
<1>3. \A u \in SeqThreads : seqPc[u] = "guard" => todo'[u] = todo[u]
  OBVIOUS
<1>4. seq' = seq /\ words' = words /\ writeLock' = writeLock /\ latest' = latest
  BY DEF WriterState
<1>5. IsOdd(seq)' <=> IsOdd(seq)
  BY <1>4 DEF IsOdd
<1>6. QED
  BY <1>1, <1>2, <1>3, <1>4, <1>5 DEF SeqInv, WritersAlternate

\* read(): an even number is loaded.
LEMMA BeginKeeps ==
  ASSUME SeqInv, NEW t \in SeqThreads, SeqBegin(t)
  PROVE  SeqInv'
<1> USE DEF SeqBegin, SeqGoto
<1>1. SeqTypeOK'
  BY DEF SeqInv, SeqTypeOK
<1>2. WritersAlternate'
  BY ReaderKeepsWriters DEF SeqInv, SeqTypeOK, WriterState
<1>3. CopiesAreGood'
  <2> SUFFICES ASSUME NEW u \in SeqThreads, seqPc'[u] = "copy"
               PROVE  /\ ~IsOdd(start'[u]) /\ start'[u] <= seq'
                      /\ published'[u] <= latest'
                      /\ start'[u] = seq' =>
                           /\ published'[u] = latest'
                           /\ \A v \in Words \ todo'[u] : copy'[u][v] = latest'
    BY DEF CopiesAreGood, IsOdd
  <2>1. CASE u = t
    BY <2>1 DEF SeqInv, SeqTypeOK
  <2>2. CASE u # t
    BY <2>2 DEF SeqInv, SeqTypeOK, CopiesAreGood
  <2>3. QED
    BY <2>1, <2>2
<1>4. ReadsAreWhole'
  BY DEF SeqInv, SeqTypeOK, ReadsAreWhole
<1>5. QED
  BY <1>1, <1>2, <1>3, <1>4 DEF SeqInv

\* read(): one word is copied.
LEMMA CopyKeeps ==
  ASSUME SeqInv, NEW t \in SeqThreads, NEW w \in Words, SeqCopy(t, w)
  PROVE  SeqInv'
<1>1. /\ seqPc[t] = "copy" /\ seqPc' = seqPc
      /\ w \in todo[t] /\ todo' = [todo EXCEPT ![t] = @ \ {w}]
      /\ UNCHANGED <<seq, words, writeLock, start, latest, published>>
  BY DEF SeqCopy, SeqGoto, SeqInv, SeqTypeOK
<1>2. /\ copy' = [copy EXCEPT ![t] = [copy[t] EXCEPT ![w] = words[w]]]
      /\ copy[t] \in [Words -> 0 .. MaxValue] /\ words[w] \in 0 .. MaxValue
  BY DEF SeqCopy, SeqInv, SeqTypeOK
<1>3. [copy[t] EXCEPT ![w] = words[w]] \in [Words -> 0 .. MaxValue]
  BY <1>2, NoCopy
<1>4. copy' \in [SeqThreads -> [Words -> 0 .. MaxValue]]
  BY <1>2, <1>3 DEF SeqInv, SeqTypeOK
<1>5. SeqTypeOK'
  BY <1>1, <1>4 DEF SeqInv, SeqTypeOK
<1>6. WritersAlternate'
  BY <1>1, ReaderKeepsWriters DEF SeqInv, SeqTypeOK, WriterState
<1>7. copy'[t][w] = words[w] /\ \A v \in Words \ {w} : copy'[t][v] = copy[t][v]
  <2>1. copy'[t] = [copy[t] EXCEPT ![w] = words[w]]
    BY <1>2 DEF SeqInv, SeqTypeOK
  <2>2. QED
    BY <2>1, <1>2
<1>8. \A u \in SeqThreads \ {t} : copy'[u] = copy[u] /\ todo'[u] = todo[u]
  BY <1>1, <1>2 DEF SeqInv, SeqTypeOK
<1>9. CopiesAreGood'
  <2> SUFFICES ASSUME NEW u \in SeqThreads, seqPc'[u] = "copy", start'[u] = seq',
                      NEW v \in Words \ todo'[u]
               PROVE  copy'[u][v] = latest'
    BY <1>1 DEF SeqInv, CopiesAreGood, IsOdd
  <2>1. CASE u # t
    BY <2>1, <1>1, <1>8 DEF SeqInv, CopiesAreGood
  <2>2. CASE u = t /\ v = w
    <3>1. ~IsOdd(seq)
      BY <2>2, <1>1 DEF SeqInv, CopiesAreGood
    <3>2. words[w] = latest
      BY <3>1 DEF SeqInv, WritersAlternate
    <3>3. QED
      BY <3>2, <2>2, <1>1, <1>7
  <2>3. CASE u = t /\ v # w
    <3>1. v \notin todo[t]
      BY <2>3, <1>1 DEF SeqInv, SeqTypeOK
    <3>2. copy[t][v] = latest
      BY <3>1, <2>3, <1>1 DEF SeqInv, CopiesAreGood
    <3>3. QED
      BY <3>2, <2>3, <1>1, <1>7
  <2>4. QED
    BY <2>1, <2>2, <2>3
<1>10. ReadsAreWhole'
  BY <1>1, <1>8 DEF SeqInv, ReadsAreWhole
<1>11. QED
  BY <1>5, <1>6, <1>9, <1>10 DEF SeqInv

\* The number has not moved: the copy is the value stored last.
LEMMA EndKeeps ==
  ASSUME SeqInv, NEW t \in SeqThreads, SeqEnd(t)
  PROVE  SeqInv'
<1>1. /\ seqPc[t] = "copy" /\ seqPc' = [seqPc EXCEPT ![t] = "returned"]
      /\ todo[t] = {} /\ seq = start[t]
      /\ UNCHANGED <<seq, words, writeLock, start, copy, todo, latest, published>>
  BY DEF SeqEnd, SeqGoto, SeqInv, SeqTypeOK
<1>2. SeqTypeOK'
  BY <1>1 DEF SeqInv, SeqTypeOK
<1>3. WritersAlternate'
  BY <1>1, ReaderKeepsWriters DEF SeqInv, SeqTypeOK, WriterState
<1>4. CopiesAreGood'
  BY <1>1 DEF SeqInv, SeqTypeOK, CopiesAreGood, IsOdd
<1>5. published[t] = latest /\ \A w \in Words : copy[t][w] = latest
  BY <1>1 DEF SeqInv, CopiesAreGood
<1>6. ReadsAreWhole'
  BY <1>1, <1>5 DEF SeqInv, SeqTypeOK, ReadsAreWhole
<1>7. QED
  BY <1>2, <1>3, <1>4, <1>6 DEF SeqInv

\* The thread forgets its copy, on a failed try or after use.
LEMMA ForgetKeeps ==
  ASSUME SeqInv, NEW t \in SeqThreads, SeqRetry(t) \/ SeqReturn(t)
  PROVE  SeqInv'
<1>1. /\ seqPc[t] \in {"copy", "returned"} /\ seqPc' = [seqPc EXCEPT ![t] = "idle"]
      /\ UNCHANGED <<seq, words, writeLock, todo, latest>>
  BY DEF SeqRetry, SeqReturn, SeqGoto
<1>2. /\ start' = [start EXCEPT ![t] = 0] /\ published' = [published EXCEPT ![t] = 0]
      /\ copy' = [copy EXCEPT ![t] = [w \in Words |-> 0]]
  BY DEF SeqRetry, SeqReturn, SeqForget
<1>3. copy' \in [SeqThreads -> [Words -> 0 .. MaxValue]]
  BY <1>2, NoCopy DEF SeqInv, SeqTypeOK
<1>4. SeqTypeOK'
  BY <1>1, <1>2, <1>3, SeqAssumption DEF SeqInv, SeqTypeOK
<1>5. WritersAlternate'
  BY <1>1, ReaderKeepsWriters DEF SeqInv, SeqTypeOK, WriterState
<1>6. \A u \in SeqThreads : seqPc'[u] \in {"copy", "returned"} =>
        /\ u # t /\ seqPc'[u] = seqPc[u]
        /\ start'[u] = start[u] /\ published'[u] = published[u] /\ copy'[u] = copy[u]
  BY <1>1, <1>2 DEF SeqInv, SeqTypeOK
<1>7. CopiesAreGood' /\ ReadsAreWhole'
  BY <1>1, <1>6 DEF SeqInv, CopiesAreGood, ReadsAreWhole, IsOdd
<1>8. QED
  BY <1>4, <1>5, <1>7 DEF SeqInv

-----------------------------------------------------------------------------
\* The steps of a writer leave the locals of the readers alone.
LEMMA WriterKeepsReads ==
  ASSUME SeqInv, NEW t \in SeqThreads, NEW p, p \notin {"copy", "returned"},
         seqPc' = [seqPc EXCEPT ![t] = p],
         UNCHANGED <<start, copy, published>>, latest' \in Nat, latest <= latest'
  PROVE  ReadsAreWhole'
<1> SUFFICES ASSUME NEW u \in SeqThreads, seqPc'[u] = "returned"
             PROVE  \E v \in published'[u] .. latest' : \A w \in Words : copy'[u][w] = v
  BY DEF ReadsAreWhole
<1>1. seqPc[u] = "returned"
  BY DEF SeqInv, SeqTypeOK
<1>2. PICK v \in published[u] .. latest : \A w \in Words : copy[u][w] = v
  BY <1>1 DEF SeqInv, ReadsAreWhole
<1>3. v \in published'[u] .. latest'
  BY <1>2 DEF SeqInv, SeqTypeOK
<1>4. QED
  BY <1>2, <1>3

\* Copies under way stay good when the number does not move, provided that it is
\* odd or the latest value stays, and when it moves on from an even number.
LEMMA WriterKeepsCopies ==
  ASSUME SeqInv, NEW t \in SeqThreads, NEW p, p \notin {"copy", "returned"},
         seqPc' = [seqPc EXCEPT ![t] = p],
         UNCHANGED <<start, copy, published>>,
         \A u \in SeqThreads \ {t} : todo'[u] = todo[u],
         latest' \in Nat, latest <= latest',
         \/ seq' = seq /\ (IsOdd(seq) \/ latest' = latest)
         \/ seq' = seq + 1
  PROVE  CopiesAreGood'
<1> SUFFICES ASSUME NEW u \in SeqThreads, seqPc'[u] = "copy"
             PROVE  /\ ~IsOdd(start[u]) /\ start[u] <= seq'
                    /\ published[u] <= latest'
                    /\ start[u] = seq' =>
                         /\ published[u] = latest'
                         /\ \A v \in Words \ todo'[u] : copy[u][v] = latest'
  BY DEF CopiesAreGood, IsOdd
<1>1. u # t /\ seqPc[u] = "copy" /\ todo'[u] = todo[u]
  BY DEF SeqInv, SeqTypeOK
<1>2. /\ ~IsOdd(start[u]) /\ start[u] <= seq /\ published[u] <= latest
      /\ start[u] = seq => /\ published[u] = latest
                           /\ \A v \in Words \ todo[u] : copy[u][v] = latest
  BY <1>1 DEF SeqInv, CopiesAreGood
<1>3. seq \in Nat /\ start[u] \in Nat /\ published[u] \in Nat /\ latest \in Nat
  BY DEF SeqInv, SeqTypeOK
<1>4. start[u] <= seq' /\ published[u] <= latest'
  BY <1>2, <1>3
<1>5. start[u] = seq' => seq' = seq /\ latest' = latest
  BY <1>2, <1>3
<1>6. QED
  BY <1>1, <1>2, <1>4, <1>5

\* SeqLockGuarded::write: the lock is taken.
LEMMA LockWriteKeeps ==
  ASSUME SeqInv, NEW t \in SeqThreads, SeqLockWrite(t)
  PROVE  SeqInv'
<1>1. /\ seqPc[t] = "idle" /\ seqPc' = [seqPc EXCEPT ![t] = "locked"]
      /\ ~writeLock /\ writeLock' = TRUE
      /\ UNCHANGED <<seq, words, start, copy, todo, latest, published>>
  BY DEF SeqLockWrite, SeqGoto
<1>2. SeqTypeOK'
  BY <1>1 DEF SeqInv, SeqTypeOK
<1>3. WritersAlternate'
  BY <1>1 DEF SeqInv, SeqTypeOK, WritersAlternate, Writer, IsOdd
<1>4. latest' = latest /\ latest' \in Nat /\ latest <= latest'
  BY <1>1 DEF SeqInv, SeqTypeOK
<1>5. CopiesAreGood' /\ ReadsAreWhole'
  BY <1>1, <1>4, WriterKeepsCopies, WriterKeepsReads
<1>6. QED
  BY <1>2, <1>3, <1>5 DEF SeqInv

\* The number becomes odd.
LEMMA StartKeeps ==
  ASSUME SeqInv, NEW t \in SeqThreads, SeqStart(t)
  PROVE  SeqInv'
<1>1. /\ seqPc[t] = "locked" /\ seqPc' = [seqPc EXCEPT ![t] = "guard"]
      /\ seq' = seq + 1
      /\ UNCHANGED <<words, writeLock, start, copy, todo, latest, published>>
  BY DEF SeqStart, SeqGoto
<1>2. SeqTypeOK'
  BY <1>1 DEF SeqInv, SeqTypeOK
<1>3. ~IsOdd(seq) /\ IsOdd(seq')
  <2>1. \A u \in SeqThreads : seqPc[u] # "guard"
    BY <1>1 DEF SeqInv, WritersAlternate, Writer
  <2>2. QED
    BY <2>1, <1>1, Parity DEF SeqInv, WritersAlternate, SeqTypeOK
<1>4. WritersAlternate'
  <2>1. \A u \in SeqThreads : Writer(u)' <=> Writer(u)
    BY <1>1 DEF SeqInv, SeqTypeOK, Writer
  <2>2. \A w \in Words : words[w] = latest
    BY <1>3 DEF SeqInv, WritersAlternate
  <2>3. IsOdd(seq)' /\ seqPc'[t] = "guard"
    BY <1>1, <1>3 DEF SeqInv, SeqTypeOK, IsOdd
  <2>4. QED
    BY <2>1, <2>2, <2>3, <1>1 DEF SeqInv, WritersAlternate
<1>5. latest' = latest /\ latest' \in Nat /\ latest <= latest'
  BY <1>1 DEF SeqInv, SeqTypeOK
<1>6. CopiesAreGood' /\ ReadsAreWhole'
  BY <1>1, <1>5, WriterKeepsCopies, WriterKeepsReads
<1>7. QED
  BY <1>2, <1>4, <1>6 DEF SeqInv

\* Only the holder of the guard stores, and the number is odd meanwhile.
LEMMA GuardIsOdd ==
  ASSUME SeqInv, NEW t \in SeqThreads, seqPc[t] = "guard"
  PROVE  /\ IsOdd(seq)
         /\ \A u \in SeqThreads : seqPc[u] = "guard" => u = t
BY DEF SeqInv, WritersAlternate, Writer

\* SeqLockWriteGuard::write begins to store the next value.
LEMMA StoreKeeps ==
  ASSUME SeqInv, NEW t \in SeqThreads, SeqStore(t)
  PROVE  SeqInv'
<1>1. /\ seqPc[t] = "guard" /\ seqPc' = [seqPc EXCEPT ![t] = "guard"]
      /\ latest < MaxValue /\ latest' = latest + 1
      /\ todo' = [todo EXCEPT ![t] = Words]
      /\ UNCHANGED <<seq, words, writeLock, start, copy, published>>
  BY DEF SeqStore, SeqGoto
<1>2. SeqTypeOK'
  BY <1>1, SeqAssumption DEF SeqInv, SeqTypeOK
<1>3. seqPc' = seqPc
  BY <1>1 DEF SeqInv, SeqTypeOK
<1>4. WritersAlternate'
  <2>1. \A u \in SeqThreads : seqPc'[u] = "guard" => todo'[u] = Words
    BY <1>1, <1>3, GuardIsOdd DEF SeqInv, SeqTypeOK
  <2>2. IsOdd(seq)'
    BY <1>1, GuardIsOdd DEF IsOdd
  <2>3. QED
    BY <2>1, <2>2, <1>1, <1>3 DEF SeqInv, WritersAlternate, Writer
<1>5. latest' \in Nat /\ latest <= latest'
  BY <1>1 DEF SeqInv, SeqTypeOK
<1>6. \A u \in SeqThreads \ {t} : todo'[u] = todo[u]
  BY <1>1 DEF SeqInv, SeqTypeOK
<1>7. CopiesAreGood' /\ ReadsAreWhole'
  BY <1>1, <1>5, <1>6, GuardIsOdd, WriterKeepsCopies, WriterKeepsReads
<1>8. QED
  BY <1>2, <1>4, <1>7 DEF SeqInv

\* One word of it is stored.
LEMMA StoreWordKeeps ==
  ASSUME SeqInv, NEW t \in SeqThreads, NEW w \in Words, SeqStoreWord(t, w)
  PROVE  SeqInv'
<1>1. /\ seqPc[t] = "guard" /\ seqPc' = [seqPc EXCEPT ![t] = "guard"]
      /\ words' = [words EXCEPT ![w] = latest]
      /\ todo' = [todo EXCEPT ![t] = todo[t] \ {w}]
      /\ UNCHANGED <<seq, writeLock, start, copy, latest, published>>
  BY DEF SeqStoreWord, SeqGoto
<1>2. SeqTypeOK'
  <2>1. words' \in [Words -> 0 .. MaxValue]
    BY <1>1, NoCopy DEF SeqInv, SeqTypeOK
  <2>2. todo' \in [SeqThreads -> SUBSET Words]
    BY <1>1 DEF SeqInv, SeqTypeOK
  <2>3. QED
    BY <2>1, <2>2, <1>1 DEF SeqInv, SeqTypeOK
<1>3. seqPc' = seqPc
  BY <1>1 DEF SeqInv, SeqTypeOK
<1>4. WritersAlternate'
  <2>1. IsOdd(seq)'
    BY <1>1, GuardIsOdd DEF IsOdd
  <2>2. \A v \in Words \ todo'[t] : words'[v] = latest
    BY <1>1 DEF SeqInv, SeqTypeOK, WritersAlternate
  <2>3. \A u \in SeqThreads : seqPc'[u] = "guard" => u = t
    BY <1>1, <1>3, GuardIsOdd
  <2>4. QED
    BY <2>1, <2>2, <2>3, <1>1, <1>3 DEF SeqInv, WritersAlternate, Writer
<1>5. latest' = latest /\ latest' \in Nat /\ latest <= latest'
  BY <1>1 DEF SeqInv, SeqTypeOK
<1>6. \A u \in SeqThreads \ {t} : todo'[u] = todo[u]
  BY <1>1 DEF SeqInv, SeqTypeOK
<1>7. CopiesAreGood' /\ ReadsAreWhole'
  BY <1>1, <1>5, <1>6, WriterKeepsCopies, WriterKeepsReads
<1>8. QED
  BY <1>2, <1>4, <1>7 DEF SeqInv

\* Every word has been stored when the number becomes even.
LEMMA DropKeeps ==
  ASSUME SeqInv, NEW t \in SeqThreads, SeqDrop(t)
  PROVE  SeqInv'
<1>1. /\ seqPc[t] = "guard" /\ seqPc' = [seqPc EXCEPT ![t] = "unlock"]
      /\ todo[t] = {} /\ seq' = seq + 1
      /\ UNCHANGED <<words, writeLock, start, copy, todo, latest, published>>
  BY DEF SeqDrop, SeqGoto
<1>2. SeqTypeOK'
  BY <1>1 DEF SeqInv, SeqTypeOK
<1>3. ~IsOdd(seq)'
  BY <1>1, GuardIsOdd, Parity DEF SeqInv, SeqTypeOK, IsOdd
<1>4. WritersAlternate'
  <2>1. \A u \in SeqThreads : Writer(u)' <=> Writer(u)
    BY <1>1 DEF SeqInv, SeqTypeOK, Writer
  <2>2. \A w \in Words : words[w] = latest
    BY <1>1 DEF SeqInv, WritersAlternate
  <2>3. \A u \in SeqThreads : seqPc'[u] # "guard"
    BY <1>1, GuardIsOdd DEF SeqInv, SeqTypeOK
  <2>4. QED
    BY <2>1, <2>2, <2>3, <1>1, <1>3 DEF SeqInv, WritersAlternate
<1>5. latest' = latest /\ latest' \in Nat /\ latest <= latest'
  BY <1>1 DEF SeqInv, SeqTypeOK
<1>6. CopiesAreGood' /\ ReadsAreWhole'
  BY <1>1, <1>5, WriterKeepsCopies, WriterKeepsReads
<1>7. QED
  BY <1>2, <1>4, <1>6 DEF SeqInv

\* The lock is released.
LEMMA UnlockKeeps ==
  ASSUME SeqInv, NEW t \in SeqThreads, SeqUnlock(t)
  PROVE  SeqInv'
<1>1. /\ seqPc[t] = "unlock" /\ seqPc' = [seqPc EXCEPT ![t] = "idle"]
      /\ writeLock' = FALSE
      /\ UNCHANGED <<seq, words, start, copy, todo, latest, published>>
  BY DEF SeqUnlock, SeqGoto
<1>2. SeqTypeOK'
  BY <1>1 DEF SeqInv, SeqTypeOK
<1>3. WritersAlternate'
  <2>1. \A u \in SeqThreads : ~Writer(u)' /\ seqPc[u] # "guard" /\ seqPc'[u] # "guard"
    BY <1>1 DEF SeqInv, SeqTypeOK, WritersAlternate, Writer
  <2>2. QED
    BY <2>1, <1>1 DEF SeqInv, WritersAlternate, IsOdd
<1>4. latest' = latest /\ latest' \in Nat /\ latest <= latest'
  BY <1>1 DEF SeqInv, SeqTypeOK
<1>5. CopiesAreGood' /\ ReadsAreWhole'
  BY <1>1, <1>4, WriterKeepsCopies, WriterKeepsReads
<1>6. QED
  BY <1>2, <1>3, <1>5 DEF SeqInv

-----------------------------------------------------------------------------
\* One step per operation.
LEMMA SeqNextInv == SeqInv /\ [SeqNext]_seqVars => SeqInv'
<1> SUFFICES ASSUME SeqInv, [SeqNext]_seqVars PROVE SeqInv'
  OBVIOUS
<1>1. CASE UNCHANGED seqVars
  BY <1>1 DEF seqVars, SeqInv, SeqTypeOK, WritersAlternate, CopiesAreGood, ReadsAreWhole,
              Writer, IsOdd
<1>2. CASE SeqNext
  <2>1. PICK t \in SeqThreads : SeqRead(t) \/ SeqWrite(t)
    BY <1>2 DEF SeqNext
  <2>2. CASE SeqRead(t)
    BY <2>2, BeginKeeps, CopyKeeps, EndKeeps, ForgetKeeps DEF SeqRead
  <2>3. CASE SeqWrite(t)
    BY <2>3, LockWriteKeeps, StartKeeps, StoreKeeps, StoreWordKeeps, DropKeeps, UnlockKeeps DEF SeqWrite
  <2>4. QED
    BY <2>1, <2>2, <2>3
<1>3. QED
  BY <1>1, <1>2

\* The sequence number, the words and the copies stay in range.
THEOREM SeqTypeCorrect == SeqSpec => []SeqTypeOK
<1>1. SeqInv => SeqTypeOK
  BY DEF SeqInv
<1>2. QED
  BY <1>1, SeqInitInv, SeqNextInv, PTL DEF SeqSpec

\* One writer at a time, and the number is odd exactly while one may store.
THEOREM WritersAlwaysAlternate == SeqSpec => []WritersAlternate
<1>1. SeqInv => WritersAlternate
  BY DEF SeqInv
<1>2. QED
  BY <1>1, SeqInitInv, SeqNextInv, PTL DEF SeqSpec

\* No read returns a mixture of values, or one older than its call.
THEOREM ReadsAlwaysWhole == SeqSpec => []ReadsAreWhole
<1>1. SeqInv => ReadsAreWhole
  BY DEF SeqInv
<1>2. QED
  BY <1>1, SeqInitInv, SeqNextInv, PTL DEF SeqSpec

-----------------------------------------------------------------------------
\* The counting barriers.
BarIInv == BarTypeOK /\ BarPlaces /\ BarCountsArrivals

\* A new barrier has counted nobody.
LEMMA BarInitHolds == BarInit => BarIInv
<1> SUFFICES ASSUME BarInit PROVE BarIInv
  OBVIOUS
<1>1. BarArrived = {}
  BY DEF BarInit, BarArrived
<1>2. Cardinality(Crew) \in Nat /\ Cardinality({}) = 0
  BY CrewAssumption, FS_CardinalityType, FS_EmptySet
<1>3. BarTypeOK
  BY <1>2, CrewAssumption DEF BarInit, BarTypeOK, BarThreshold, Flags
<1>4. BarPlaces
  BY DEF BarInit, BarPlaces, BarLeader
<1>5. BarCountsArrivals
  BY <1>1, <1>2 DEF BarInit, BarCountsArrivals, BarLeader
<1>6. QED
  BY <1>3, <1>4, <1>5 DEF BarIInv

-----------------------------------------------------------------------------
\* A step of t from one place to another that leaves the history and the words
\* of the barrier alone, and is no leader's, keeps the count right.
LEMMA BarCountKept ==
  ASSUME BarIInv, NEW t \in Crew, UNCHANGED <<count, waits, leads>>,
         NEW p \in {"out", "add", "spin"}, ~BarLeader(t),
         barPc' = [barPc EXCEPT ![t] = p]
  PROVE  BarCountsArrivals'
<1>1. BarArrived' = BarArrived
  BY DEF BarArrived
<1>2. \A u \in Crew : /\ BarLeader(u)' <=> BarLeader(u)
                      /\ barPc'[u] = "open" <=> barPc[u] = "open"
  BY DEF BarIInv, BarTypeOK, BarLeader
<1>3. QED
  BY <1>1, <1>2 DEF BarIInv, BarCountsArrivals

\* wait() is called.
LEMMA BarEnterKeeps ==
  ASSUME BarIInv, NEW t \in Crew, BarEnter(t)
  PROVE  BarIInv'
<1>1. /\ barPc[t] = "out" /\ barPc' = [barPc EXCEPT ![t] = "add"]
      /\ mine' = [mine EXCEPT ![t] = IF sensing THEN 1 - mine[t] ELSE flag]
      /\ UNCHANGED <<sensing, count, flag, waits, returns, leads>>
  BY DEF BarEnter, BarGoto
<1>2. BarTypeOK'
  BY <1>1 DEF BarIInv, BarTypeOK, Flags, BarThreshold
<1>3. BarPlaces'
  BY <1>1 DEF BarIInv, BarTypeOK, BarPlaces, BarLeader, BarIsOpen, Flags
<1>4. BarCountsArrivals'
  BY <1>1, BarCountKept DEF BarLeader
<1>5. QED
  BY <1>2, <1>3, <1>4 DEF BarIInv

\* A waiter sees that its round is over.
LEMMA BarSeeOpenKeeps ==
  ASSUME BarIInv, NEW t \in Crew, BarSeeOpen(t)
  PROVE  BarIInv'
<1>1. /\ barPc[t] = "spin" /\ barPc' = [barPc EXCEPT ![t] = "out"]
      /\ returns' = [returns EXCEPT ![t] = returns[t] + 1] /\ BarIsOpen(t)
      /\ UNCHANGED <<sensing, count, flag, mine, waits, leads>>
  BY DEF BarSeeOpen, BarGoto
<1>2. BarTypeOK'
  BY <1>1 DEF BarIInv, BarTypeOK, Flags, BarThreshold
<1>3. BarPlaces'
  BY <1>1 DEF BarIInv, BarTypeOK, BarPlaces, BarLeader, BarIsOpen, Flags
<1>4. BarCountsArrivals'
  BY <1>1, BarCountKept DEF BarLeader
<1>5. QED
  BY <1>2, <1>3, <1>4 DEF BarIInv

\* The arrival that completes the crew, and no other, makes its thread leader.
LEMMA BarAddKeeps ==
  ASSUME BarIInv, NEW t \in Crew, BarAdd(t)
  PROVE  BarIInv'
<1> DEFINE p == IF count + 1 = BarThreshold THEN "reset" ELSE "spin"
<1>1. /\ barPc[t] = "add" /\ barPc' = [barPc EXCEPT ![t] = p]
      /\ count' = count + 1 /\ waits' = [waits EXCEPT ![t] = waits[t] + 1]
      /\ UNCHANGED <<sensing, flag, mine, returns, leads>>
  BY DEF BarAdd, BarGoto
<1>2. waits[t] = leads /\ returns[t] = leads /\ leads \in Nat
  BY <1>1 DEF BarIInv, BarPlaces, BarTypeOK
<1>3. t \notin BarArrived /\ BarArrived' = BarArrived \cup {t}
  BY <1>1, <1>2 DEF BarIInv, BarTypeOK, BarArrived
<1>4. \A u \in Crew : ~BarLeader(u)
  BY <1>3 DEF BarIInv, BarCountsArrivals
<1>5. /\ IsFiniteSet(BarArrived) /\ BarArrived' \subseteq Crew
      /\ count = Cardinality(BarArrived)
  <2>1. BarArrived \subseteq Crew
    BY DEF BarArrived
  <2>2. \A u \in Crew : barPc[u] # "open"
    BY <1>4 DEF BarLeader
  <2>3. QED
    BY <1>3, <2>1, <2>2, CrewAssumption, FS_Subset DEF BarIInv, BarCountsArrivals
<1>6. count' = Cardinality(BarArrived') /\ IsFiniteSet(BarArrived')
  BY <1>1, <1>3, <1>5, FS_AddElement
<1>7. count' <= Cardinality(Crew) /\ (BarArrived' = Crew <=> count' = Cardinality(Crew))
  BY <1>5, <1>6, CrewAssumption, FS_Subset
<1>8. BarTypeOK'
  <2>1. count' \in 0 .. BarThreshold
    BY <1>1, <1>7, FS_CardinalityType, CrewAssumption DEF BarIInv, BarTypeOK, BarThreshold
  <2>2. QED
    BY <1>1, <2>1 DEF BarIInv, BarTypeOK, Flags, BarThreshold
<1>9. BarPlaces'
  BY <1>1, <1>2 DEF BarIInv, BarTypeOK, BarPlaces, BarLeader, BarIsOpen, Flags
<1>10. \A u \in Crew : BarLeader(u)' <=> u = t /\ count' = Cardinality(Crew)
  BY <1>1, <1>4 DEF BarIInv, BarTypeOK, BarLeader, BarThreshold
<1>11. \A u \in Crew : barPc'[u] # "open"
  BY <1>1, <1>4 DEF BarIInv, BarTypeOK, BarLeader
<1>12. BarCountsArrivals'
  BY <1>6, <1>7, <1>10, <1>11 DEF BarCountsArrivals
<1>13. QED
  BY <1>8, <1>9, <1>12 DEF BarIInv

\* The leader resets the count.
LEMMA BarResetKeeps ==
  ASSUME BarIInv, NEW t \in Crew, BarReset(t)
  PROVE  BarIInv'
<1>1. /\ barPc[t] = "reset" /\ barPc' = [barPc EXCEPT ![t] = "open"]
      /\ count' = 0
      /\ UNCHANGED <<sensing, flag, mine, waits, returns, leads>>
  BY DEF BarReset, BarGoto
<1>2. BarTypeOK'
  BY <1>1, FS_CardinalityType, CrewAssumption DEF BarIInv, BarTypeOK, Flags, BarThreshold
<1>3. BarPlaces'
  BY <1>1 DEF BarIInv, BarTypeOK, BarPlaces, BarLeader, BarIsOpen, Flags
<1>4. \A u \in Crew : BarLeader(u)' <=> BarLeader(u)
  BY <1>1 DEF BarIInv, BarTypeOK, BarLeader
<1>5. barPc'[t] = "open" /\ BarArrived' = BarArrived
  BY <1>1 DEF BarIInv, BarTypeOK, BarArrived
<1>6. BarCountsArrivals'
  BY <1>1, <1>4, <1>5 DEF BarIInv, BarCountsArrivals
<1>7. QED
  BY <1>2, <1>3, <1>6 DEF BarIInv

\* Everybody has arrived, the leader's word lets everybody out.
LEMMA BarOpenKeeps ==
  ASSUME BarIInv, NEW t \in Crew, BarOpen(t)
  PROVE  /\ BarIInv'
         /\ \A u \in Crew : waits[u] = leads + 1
         /\ returns[t] = leads
<1>1. /\ barPc[t] = "open" /\ barPc' = [barPc EXCEPT ![t] = "out"]
      /\ flag' = IF sensing THEN mine[t] ELSE NextGeneration
      /\ leads' = leads + 1 /\ returns' = [returns EXCEPT ![t] = returns[t] + 1]
      /\ UNCHANGED <<sensing, count, mine, waits>>
  BY DEF BarOpen, BarGoto
<1>2. BarLeader(t) /\ BarArrived = Crew
  BY <1>1 DEF BarIInv, BarCountsArrivals, BarLeader
<1>3. \A u \in Crew : waits[u] = leads + 1
  BY <1>2 DEF BarArrived
<1>4. \A u \in Crew \ {t} : barPc[u] = "spin" /\ ~BarIsOpen(u) /\ returns[u] = leads
  BY <1>2, <1>3 DEF BarIInv, BarPlaces, BarCountsArrivals, BarTypeOK, BarLeader
<1>5. flag' \in Flags /\ flag' # flag
  BY <1>1, <1>2, CrewAssumption DEF BarIInv, BarPlaces, BarTypeOK, Flags, NextGeneration
<1>6. BarTypeOK'
  BY <1>1, <1>5 DEF BarIInv, BarTypeOK, Flags, BarThreshold
<1>7. \A u \in Crew \ {t} : BarIsOpen(u)'
  BY <1>1, <1>4, <1>5 DEF BarIInv, BarTypeOK, BarIsOpen, Flags
<1>8. returns[t] = leads
  BY <1>2 DEF BarIInv, BarPlaces
<1>9. BarPlaces'
  <2> SUFFICES ASSUME NEW u \in Crew
               PROVE  /\ barPc'[u] = "out"  => waits'[u] = leads' /\ returns'[u] = leads'
                      /\ barPc'[u] = "add"  => waits'[u] = leads' /\ returns'[u] = leads'
                      /\ barPc'[u] = "spin" =>
                           /\ waits'[u] \in {leads', leads' + 1} /\ returns'[u] = waits'[u] - 1
                           /\ BarIsOpen(u)' <=> waits'[u] = leads'
                      /\ BarLeader(u)' => waits'[u] = leads' + 1 /\ returns'[u] = leads'
                      /\ barPc'[u] = "out" /\ sensing' => mine'[u] = flag'
                      /\ barPc'[u] = "add" => (mine'[u] = flag' <=> ~sensing')
                      /\ BarLeader(u)' /\ sensing' => mine'[u] # flag'
    BY DEF BarPlaces
  <2>1. CASE u = t
    BY <2>1, <1>1, <1>3, <1>8 DEF BarIInv, BarTypeOK, BarLeader
  <2>2. CASE u # t
    BY <2>2, <1>1, <1>3, <1>4, <1>7 DEF BarIInv, BarTypeOK, BarLeader
  <2>3. QED
    BY <2>1, <2>2
<1>10. \A u \in Crew : ~BarLeader(u)' /\ barPc'[u] # "open"
  BY <1>1, <1>4 DEF BarIInv, BarTypeOK, BarLeader
<1>11. BarArrived' = {}
  BY <1>1, <1>3 DEF BarIInv, BarTypeOK, BarArrived
<1>12. count' = 0
  BY <1>1 DEF BarIInv, BarCountsArrivals
<1>13. BarCountsArrivals'
  BY <1>10, <1>11, <1>12, FS_EmptySet DEF BarCountsArrivals
<1>14. QED
  BY <1>3, <1>6, <1>8, <1>9, <1>13 DEF BarIInv

-----------------------------------------------------------------------------
\* One step per operation.
LEMMA BarNextHolds == BarIInv /\ [BarNext]_barVars => BarIInv'
<1> SUFFICES ASSUME BarIInv, [BarNext]_barVars PROVE BarIInv'
  OBVIOUS
<1>1. CASE UNCHANGED barVars
  BY <1>1 DEF barVars, BarIInv, BarTypeOK, BarPlaces, BarCountsArrivals, BarLeader,
              BarArrived, BarIsOpen, Flags, BarThreshold
<1>2. CASE BarNext
  BY <1>2, BarEnterKeeps, BarAddKeeps, BarResetKeeps, BarOpenKeeps, BarSeeOpenKeeps DEF BarNext, BarStep
<1>3. QED
  BY <1>1, <1>2

\* The words of the barrier and the threads' own stay in range.
THEOREM BarTypeCorrect == BarSpec => []BarTypeOK
<1>1. BarIInv => BarTypeOK
  BY DEF BarIInv
<1>2. QED
  BY <1>1, BarInitHolds, BarNextHolds, PTL DEF BarSpec

\* Leaders of one round are one: the count reaches the number of threads once.
LEMMA PlacesOrder == BarIInv => OneLeaderPerRound
BY DEF BarIInv, BarTypeOK, BarPlaces, BarLeader, OneLeaderPerRound

\* No round has two leaders, no round is opened before everybody has arrived,
\* and nobody leaves a round that was not opened.
THEOREM RoundsHaveOneLeader == BarSpec => []OneLeaderPerRound
BY BarInitHolds, BarNextHolds, PlacesOrder, PTL DEF BarSpec

-----------------------------------------------------------------------------
\* A new barrier is a new meeting.
LEMMA BarInitMeets == BarInit => Meet!Init
BY DEF BarInit, Meet!Init

\* A leader, and a waiter that sees the barrier open, leaves a meeting to which
\* everybody has come.
LEMMA BarLeaveMeets ==
  ASSUME BarIInv, NEW t \in Crew, BarOpen(t) \/ BarSeeOpen(t)
  PROVE  Meet!Leave(t)
<1>1. waits' = waits /\ returns' = [returns EXCEPT ![t] = @ + 1]
  BY DEF BarOpen, BarSeeOpen
<1>2. CASE BarOpen(t)
  <2>1. (\A u \in Crew : waits[u] = leads + 1) /\ returns[t] = leads /\ leads \in Nat
    BY <1>2, BarOpenKeeps DEF BarIInv, BarTypeOK
  <2>2. QED
    BY <1>1, <2>1 DEF Meet!Leave
<1>3. CASE BarSeeOpen(t)
  <2>1. waits[t] = leads /\ returns[t] = waits[t] - 1 /\ leads \in Nat
    BY <1>3 DEF BarSeeOpen, BarGoto, BarIInv, BarTypeOK, BarPlaces
  <2>2. \A u \in Crew : leads <= waits[u]
    BY PlacesOrder DEF OneLeaderPerRound
  <2>3. QED
    BY <1>1, <2>1, <2>2 DEF Meet!Leave
<1>4. QED
  BY <1>2, <1>3

\* A step of the barrier is one of the meeting, or none.
LEMMA BarNextMeets ==
  ASSUME BarIInv, [BarNext]_barVars
  PROVE  [Meet!Next]_(Meet!vars)
<1>1. CASE UNCHANGED <<waits, returns>>
  BY <1>1 DEF Meet!vars
<1>2. ASSUME NEW t \in Crew, BarAdd(t) PROVE Meet!Arrive(t)
  <2>1. waits[t] = returns[t]
    BY <1>2 DEF BarAdd, BarGoto, BarIInv, BarPlaces
  <2>2. QED
    BY <1>2, <2>1 DEF BarAdd, Meet!Arrive
<1>3. ASSUME NEW t \in Crew, BarEnter(t) \/ BarReset(t) PROVE UNCHANGED <<waits, returns>>
  BY <1>3 DEF BarEnter, BarReset
<1>4. QED
  BY <1>1, <1>2, <1>3, BarLeaveMeets DEF BarNext, BarStep, barVars, Meet!Next

\* The barriers implement Rendezvous: nobody passes early.
THEOREM BarrierImplementsRendezvous == BarSpec => NobodyPassesEarly
<1>1. QED
  BY BarInitHolds, BarNextHolds, BarInitMeets, BarNextMeets, PTL DEF BarSpec, NobodyPassesEarly, Meet!Spec

-----------------------------------------------------------------------------
\* The once cells.
OnceLabels ==
  {"idle", "cas", "wait", "recheck", "run", "publish", "return", "panicked",
   "try_get", "force", "load", "force_cas", "force_wait", "force_recheck"}

OnceStates == {"INCOMPLETE", "RUNNING", "COMPLETE", "POISONED"}

OnceTypeOK ==
  /\ unwinds \in Builds
  /\ calls \subseteq Once!AllCalls
  /\ onceState \in OnceStates
  /\ value \in OnceThreads \cup {NoValue}
  /\ oncePc \in [OnceThreads -> OnceLabels]
  /\ op \in [OnceThreads -> calls]
  /\ failed \in [OnceThreads -> BOOLEAN]
  /\ result \in [OnceThreads -> {"none", "stored", "ok", "err"}]
  /\ runs \in 0 .. 2

OncePcs == {"idle", "cas", "wait", "recheck", "run", "publish", "return", "panicked"}

\* The thread whose initialiser runs or has just stored its value.
OnceRunner(t) == oncePc[t] \in {"run", "publish"}

(***************************************************************************)
(* A Once used through call_once alone: RUNNING is the claim of the one    *)
(* runner, or of one that panicked; the cell holds a value from the store  *)
(* of the runner on; and nobody is past the wait before COMPLETE.          *)
(***************************************************************************)
OnceClaimed ==
  /\ oncePc \in [OnceThreads -> OncePcs]
  /\ \A t \in OnceThreads : ~failed[t]
  /\ \A t, u \in OnceThreads : OnceRunner(t) /\ OnceRunner(u) => t = u
  /\ \A t \in OnceThreads : OnceRunner(t) => onceState = "RUNNING"
  /\ onceState = "COMPLETE" => value # NoValue
  /\ value # NoValue => onceState = "COMPLETE" \/ oncePc[value] = "publish"
  /\ \A t \in OnceThreads : oncePc[t] = "publish" => value = t
  /\ runs = IF value = NoValue THEN 0 ELSE 1
  /\ \A t \in OnceThreads : oncePc[t] = "return" => onceState = "COMPLETE"

\* What the callers are told, in the same uses.
OnceAnswered ==
  \A t \in OnceThreads :
    /\ result[t] # "none" => onceState = "COMPLETE"
    /\ result[t] = "stored" => value = t
    /\ result[t] = "ok" /\ op[t] = "set" => value = t

OnceIInv == OnceTypeOK /\ (Once!CallOnceOnly => OnceClaimed /\ OnceAnswered)

\* A new cell is incomplete and empty.
LEMMA OnceInitHolds == Once!Init => OnceIInv
<1> SUFFICES ASSUME Once!Init PROVE OnceIInv
  OBVIOUS
<1>1. calls \subseteq Once!AllCalls /\ (CHOOSE c \in calls : TRUE) \in calls
  BY OnceAssumption DEF Once!Init, Once!AllCalls
<1>2. OnceTypeOK
  BY <1>1 DEF Once!Init, OnceTypeOK, OnceLabels, OnceStates
<1>3. OnceClaimed /\ OnceAnswered
  BY DEF Once!Init, OnceClaimed, OnceAnswered, OncePcs, OnceRunner
<1>4. QED
  BY <1>2, <1>3 DEF OnceIInv

\* Types are kept by every step, also those of call_once_force.
LEMMA OnceTypeKept == OnceTypeOK /\ [Once!Next]_(Once!vars) => OnceTypeOK'
<1> SUFFICES ASSUME OnceTypeOK, [Once!Next]_(Once!vars) PROVE OnceTypeOK'
  OBVIOUS
<1> USE DEF OnceTypeOK, OnceLabels, OnceStates, Once!Goto, Once!Cell, Once!Locals
<1>1. ASSUME NEW t \in OnceThreads, NEW c \in calls, Once!Call(t, c)  PROVE OnceTypeOK'
  BY <1>1 DEF Once!Call
<1>2. ASSUME NEW t \in OnceThreads, Once!Cas(t)  PROVE OnceTypeOK'
  BY <1>2 DEF Once!Cas
<1>3. ASSUME NEW t \in OnceThreads, Once!Wait(t) \/ Once!Recheck(t)  PROVE OnceTypeOK'
  BY <1>3 DEF Once!Wait, Once!Recheck
<1>4. ASSUME NEW t \in OnceThreads,
             \/ Once!TryGet(t) \/ Once!Force(t) \/ Once!ForceLoad(t)
             \/ Once!ForceWait(t) \/ Once!ForceRecheck(t)
      PROVE  OnceTypeOK'
  BY <1>4 DEF Once!TryGet, Once!Force, Once!ForceLoad, Once!ForceWait, Once!ForceRecheck
<1>5. ASSUME NEW t \in OnceThreads, Once!ForceCas(t)  PROVE OnceTypeOK'
  BY <1>5 DEF Once!ForceCas
<1>6. ASSUME NEW t \in OnceThreads, Once!RunOk(t)  PROVE OnceTypeOK'
  BY <1>6 DEF Once!RunOk
<1>7. ASSUME NEW t \in OnceThreads, Once!RunErr(t) \/ Once!RunPanic(t) \/ Once!Publish(t)
      PROVE  OnceTypeOK'
  BY <1>7 DEF Once!RunErr, Once!RunPanic, Once!Publish
<1>8. ASSUME NEW t \in OnceThreads, Once!Return(t)  PROVE OnceTypeOK'
  BY <1>8 DEF Once!Return, Once!Stored
<1>9. CASE UNCHANGED Once!vars
  BY <1>9 DEF Once!vars
<1>10. QED
  BY <1>1, <1>2, <1>3, <1>4, <1>5, <1>6, <1>7, <1>8, <1>9 DEF Once!Next, Once!Step

\* The steps of a use through call_once alone.
LEMMA OnceStepClaims ==
  ASSUME OnceTypeOK, Once!CallOnceOnly, OnceClaimed, OnceAnswered, [Once!Next]_(Once!vars)
  PROVE  OnceClaimed' /\ OnceAnswered'
<1> USE OnceAssumption
    DEF OnceTypeOK, OnceLabels, OnceStates, OnceClaimed, OnceAnswered, OncePcs, OnceRunner, Once!AllCalls,
        Once!CallOnceOnly, Once!Goto, Once!Cell, Once!Locals, Once!is_completed
<1>1. ASSUME NEW t \in OnceThreads, NEW c \in calls, Once!Call(t, c)
      PROVE  OnceClaimed' /\ OnceAnswered'
  <2>1. c # "get_or_try_init"
    OBVIOUS
  <2>2. /\ oncePc[t] = "idle"
        /\ IF onceState = "COMPLETE" THEN oncePc' = [oncePc EXCEPT ![t] = "return"]
                                     ELSE oncePc' = [oncePc EXCEPT ![t] = "cas"]
        /\ failed' = [failed EXCEPT ![t] = FALSE]
        /\ result' = [result EXCEPT ![t] = "none"]
        /\ op' = [op EXCEPT ![t] = c]
        /\ UNCHANGED <<calls, onceState, value, runs>>
    BY <1>1, <2>1 DEF Once!Call
  <2>3. OnceClaimed'
    BY <2>2
  <2>4. OnceAnswered'
    BY <2>2
  <2>5. QED
    BY <2>3, <2>4
<1>2. ASSUME NEW t \in OnceThreads, Once!Cas(t)
      PROVE  OnceClaimed' /\ OnceAnswered'
  <2>1. /\ oncePc[t] = "cas"
        /\ UNCHANGED <<calls, value, runs, op, failed, result>>
    BY <1>2 DEF Once!Cas
  <2>2. CASE onceState = "INCOMPLETE"
    <3>1. oncePc' = [oncePc EXCEPT ![t] = "run"] /\ onceState' = "RUNNING"
      BY <1>2, <2>2 DEF Once!Cas
    <3>2. QED
      BY <2>1, <2>2, <3>1
  <2>3. CASE onceState # "INCOMPLETE"
    <3>1. /\ onceState' = onceState
          /\ \/ oncePc' = [oncePc EXCEPT ![t] = "wait"]
             \/ oncePc' = [oncePc EXCEPT ![t] = "return"] /\ onceState = "COMPLETE"
             \/ oncePc' = [oncePc EXCEPT ![t] = "panicked"]
      BY <1>2, <2>3 DEF Once!Cas
    <3>2. QED
      BY <2>1, <2>3, <3>1
  <2>4. QED
    BY <2>2, <2>3
<1>3. ASSUME NEW t \in OnceThreads, Once!Wait(t) \/ Once!Recheck(t)
      PROVE  OnceClaimed' /\ OnceAnswered'
  BY <1>3 DEF Once!Wait, Once!Recheck
<1>4. ASSUME NEW t \in OnceThreads,
             \/ Once!TryGet(t) \/ Once!Force(t) \/ Once!ForceLoad(t) \/ Once!ForceCas(t)
             \/ Once!ForceWait(t) \/ Once!ForceRecheck(t) \/ Once!RunErr(t)
      PROVE  FALSE
  BY <1>4 DEF Once!TryGet, Once!Force, Once!ForceLoad, Once!ForceCas, Once!ForceWait,
              Once!ForceRecheck, Once!RunErr
<1>5. ASSUME NEW t \in OnceThreads, Once!RunOk(t)
      PROVE  OnceClaimed' /\ OnceAnswered'
  BY <1>5 DEF Once!RunOk
<1>6. ASSUME NEW t \in OnceThreads, Once!RunPanic(t)
      PROVE  OnceClaimed' /\ OnceAnswered'
  BY <1>6 DEF Once!RunPanic
<1>7. ASSUME NEW t \in OnceThreads, Once!Publish(t)
      PROVE  OnceClaimed' /\ OnceAnswered'
  BY <1>7 DEF Once!Publish
<1>8. ASSUME NEW t \in OnceThreads, Once!Return(t)
      PROVE  OnceClaimed' /\ OnceAnswered'
  BY <1>8 DEF Once!Return, Once!Stored
<1>9. CASE UNCHANGED Once!vars
  BY <1>9 DEF Once!vars
<1>10. QED
  BY <1>1, <1>2, <1>3, <1>4, <1>5, <1>6, <1>7, <1>8, <1>9 DEF Once!Next, Once!Step

\* One step per operation.
LEMMA OnceStepKeeps == OnceIInv /\ [Once!Next]_(Once!vars) => OnceIInv'
<1> SUFFICES ASSUME OnceIInv, [Once!Next]_(Once!vars) PROVE OnceIInv'
  OBVIOUS
<1>1. calls' = calls
  BY DEF Once!Next, Once!Step, Once!Call, Once!Cas, Once!Wait, Once!Recheck, Once!TryGet,
         Once!Force, Once!ForceLoad, Once!ForceCas, Once!ForceWait, Once!ForceRecheck,
         Once!RunOk, Once!RunErr, Once!RunPanic, Once!Publish, Once!Return, Once!Cell,
         Once!vars
<1>2. QED
  BY <1>1, OnceTypeKept, OnceStepClaims DEF OnceIInv, Once!CallOnceOnly

\* Once::call_once: in every race of the compare_exchange, the wait loop and a
\* panic, at most one initialiser runs and stores.
THEOREM CallOnceAlwaysOnce == Once!Spec => []CallOnceInitializesOnce
<1>1. OnceIInv => CallOnceInitializesOnce
  BY DEF OnceIInv, OnceClaimed, OnceRunner, CallOnceInitializesOnce,
         Once!CallOnceInitializesOnce, Once!InitializesOnce
<1>2. QED
  BY <1>1, OnceInitHolds, OnceStepKeeps, PTL DEF Once!Spec

\* OnceCell::set and get_or_init: "ok" is only said of the value in the cell.
THEOREM SuccessAlwaysStored == Once!Spec => []SuccessMeansStored
<1>1. OnceIInv => SuccessMeansStored
  BY DEF OnceIInv, OnceClaimed, OnceAnswered, SuccessMeansStored,
         Once!SuccessMeansStored, Once!is_completed
<1>2. QED
  BY <1>1, OnceInitHolds, OnceStepKeeps, PTL DEF Once!Spec

\* Nobody returns from them before the cell is initialised.
THEOREM AlwaysReturnsInitialized == Once!Spec => []ReturnsInitialized
<1>1. OnceIInv => ReturnsInitialized
  BY DEF OnceIInv, OnceClaimed, OnceAnswered, ReturnsInitialized,
         Once!ReturnsInitialized, Once!is_completed
<1>2. QED
  BY <1>1, OnceInitHolds, OnceStepKeeps, PTL DEF Once!Spec

-----------------------------------------------------------------------------
\* The tree barrier.
TreeTypeOK ==
  /\ arrived \in [Tree!Ids -> Nat]
  /\ sense \in 0 .. 1
  /\ treePc \in [Tree!Ids -> {"out", "children", "reset", "report", "spin"}]
  /\ local_sense \in [Tree!Ids -> 0 .. 1]
  /\ treeWaits \in [Tree!Ids -> Nat]
  /\ treeReturns \in [Tree!Ids -> Nat]

\* The rounds that the root has broadcast.
TreeRounds == treeReturns[0]

ChildrenOf(i) == {j \in Tree!Ids : ~Tree!IsRoot(j) /\ Tree!Parent(j) = i}

\* The thread has reported for the round that is not broadcast yet.
TreeReported(i) == treePc[i] = "spin" /\ treeWaits[i] = TreeRounds + 1

\* The thread has taken the reports of its children for that round.
TreeCollected(i) == treePc[i] = "report" \/ TreeReported(i)

\* Where a thread is in its call says which rounds it has come to and left.
TreePlaces ==
  \A i \in Tree!Ids :
    /\ treePc[i] = "out" =>
         treeWaits[i] = TreeRounds /\ treeReturns[i] = TreeRounds
    /\ treePc[i] \in {"children", "reset", "report"} =>
         treeWaits[i] = TreeRounds + 1 /\ treeReturns[i] = TreeRounds
    /\ treePc[i] = "spin" =>
         /\ i # 0
         /\ treeWaits[i] \in {TreeRounds, TreeRounds + 1}
         /\ treeReturns[i] = treeWaits[i] - 1

\* A node counts the reports of its children until it takes them, and takes
\* them when all are there.
TreeCounts ==
  \A i \in Tree!Ids :
    /\ TreeCollected(i) => arrived[i] = 0
    /\ ~TreeCollected(i) => arrived[i] = Cardinality({j \in ChildrenOf(i) : TreeReported(j)})
    /\ TreeCollected(i) \/ treePc[i] = "reset" => \A j \in ChildrenOf(i) : TreeReported(j)

\* The senses are the parities of the rounds.
TreeSenses ==
  /\ sense = TreeRounds % 2
  /\ \A i \in Tree!Ids : local_sense[i] = treeWaits[i] % 2

TreeIInv == TreeTypeOK /\ TreePlaces /\ TreeCounts /\ TreeSenses

\* A nonempty set of numbers below a bound has a least one (the sets 0 .. k are
\* well-founded by strict inclusion): what the induction over the tree uses.
LEMMA LeastOfSet ==
  ASSUME NEW n \in Nat, NEW U \in SUBSET (0 .. n), U # {}
  PROVE  \E k \in U : \A m \in U : k <= m
<1> DEFINE S == 0 .. n
           T == {0 .. k : k \in U}
           R == StrictSubsetOrdering(S)
<1>1. IsFiniteSet(S)
  BY FS_Interval
<1>2. IsWellFoundedOn(R, FiniteSubsetsOf(S))
  BY <1>1, FS_StrictSubsetOrderingWellFounded
<1>3. \A k \in U : 0 .. k \in SUBSET S /\ IsFiniteSet(0 .. k)
  BY FS_Interval
<1>4. T \subseteq FiniteSubsetsOf(S) /\ T # {}
  BY <1>3 DEF FiniteSubsetsOf
<1>5. PICK x \in T : \A y \in T : <<y, x>> \notin R
  <2> HIDE DEF T, R
  <2>1. QED
    BY <1>2, <1>4, WFMin
<1>6. PICK k \in U : x = 0 .. k
  OBVIOUS
<1>7. ASSUME NEW m \in U, ~(k <= m)  PROVE FALSE
  <2>1. 0 .. m \in T /\ 0 .. m \subseteq 0 .. k /\ 0 .. m # 0 .. k
    BY <1>7
  <2>2. <<0 .. m, 0 .. k>> \in R
    BY <1>3, <2>1 DEF StrictSubsetOrdering
  <2>3. QED
    BY <1>5, <1>6, <2>1, <2>2
<1>8. QED
  BY <1>7

\* The sense after a round is the other one.
LEMMA ParityTurns == \A n \in Nat : /\ n % 2 \in 0 .. 1
                                    /\ (n + 1) % 2 = 1 - (n % 2)
  OBVIOUS

\* The parent of a node has a smaller number.
LEMMA TreeParent ==
  ASSUME NEW i \in Tree!Ids, i # 0
  PROVE  Tree!Parent(i) \in Tree!Ids /\ Tree!Parent(i) < i
<1>1. i - 1 \in Nat /\ Radix \in Nat \ {0} /\ N \in Nat
  BY TreeAssumption DEF Tree!Ids
<1>2. \A a, q \in Nat, r \in Nat \ {0} : q = a \div r => q \in Nat /\ q <= a
  OBVIOUS
<1>3. QED
  BY <1>1, <1>2 DEF Tree!Parent, Tree!Ids

\* The children that a node counts are those that have it as their parent.
LEMMA TreeChildren ==
  ASSUME NEW i \in Tree!Ids
  PROVE  /\ IsFiniteSet(ChildrenOf(i)) /\ Tree!Children(i) = Cardinality(ChildrenOf(i))
         /\ i \notin ChildrenOf(i)
         /\ \A j \in ChildrenOf(i) : j \in Tree!Ids /\ j # 0
<1>1. IsFiniteSet(Tree!Ids)
  BY FS_Interval, TreeAssumption DEF Tree!Ids
<1>2. ChildrenOf(i) \subseteq Tree!Ids
  BY DEF ChildrenOf
<1>3. IsFiniteSet(ChildrenOf(i))
  BY <1>1, <1>2, FS_Subset
<1>4. i \notin ChildrenOf(i)
  BY TreeParent DEF ChildrenOf, Tree!IsRoot, Tree!Ids
<1>5. Tree!Children(i) = Cardinality(ChildrenOf(i))
  BY Zenon DEF ChildrenOf, Tree!Children, Tree!Cardinality, Cardinality
<1>6. \A j \in ChildrenOf(i) : j \in Tree!Ids /\ j # 0
  BY DEF ChildrenOf, Tree!IsRoot
<1>7. QED
  BY <1>3, <1>4, <1>5, <1>6, Zenon

\* Once the root has the reports of its children everybody has reported: the
\* least thread that has not would have a parent without its report.
LEMMA TreeAllReported ==
  ASSUME TreeIInv, TreeCollected(0), NEW j \in Tree!Ids, j # 0
  PROVE  TreeReported(j)
<1> DEFINE U == {i \in Tree!Ids : i # 0 /\ ~TreeReported(i)}
<1> SUFFICES ASSUME U # {} PROVE FALSE
  OBVIOUS
<1>1. N - 1 \in Nat /\ U \in SUBSET (0 .. N - 1)
  BY TreeAssumption DEF Tree!Ids
<1>2. PICK k \in U : \A m \in U : k <= m
  <2> HIDE DEF U
  <2>1. QED
    BY <1>1, LeastOfSet
<1> DEFINE p == Tree!Parent(k)
<1>3. p \in Tree!Ids /\ p < k /\ k \in Tree!Ids
  BY <1>2, TreeParent
<1>4. p \notin U
  BY <1>2, <1>3 DEF Tree!Ids
<1>5. TreeCollected(p)
  BY <1>3, <1>4 DEF TreeCollected
<1>6. k \in ChildrenOf(p)
  BY <1>2, <1>3 DEF ChildrenOf, Tree!IsRoot
<1>7. QED
  BY <1>2, <1>3, <1>5, <1>6 DEF TreeIInv, TreeCounts

\* A new tree has no reports.
LEMMA TreeInitHolds == Tree!Init => TreeIInv
<1> SUFFICES ASSUME Tree!Init PROVE TreeIInv
  OBVIOUS
<1>1. 0 \in Tree!Ids
  BY TreeAssumption DEF Tree!Ids
<1>2. TreeTypeOK /\ TreePlaces /\ TreeSenses
  BY <1>1 DEF Tree!Init, TreeTypeOK, TreePlaces, TreeSenses, TreeRounds
<1>3. \A i \in Tree!Ids : ~TreeReported(i) /\ ~TreeCollected(i)
  BY DEF Tree!Init, TreeReported, TreeCollected
<1>4. \A i \in Tree!Ids : {j \in ChildrenOf(i) : TreeReported(j)} = {}
  BY <1>3, TreeChildren
<1>5. TreeCounts
  BY <1>3, <1>4, FS_EmptySet DEF TreeCounts, Tree!Init
<1>6. QED
  BY <1>2, <1>5 DEF TreeIInv

\* A step after which the same threads have reported and collected, and which
\* changes no count of a thread that has not, keeps the counts.
LEMMA TreeCountsKept ==
  ASSUME TreeCounts,
         \A i \in Tree!Ids : TreeReported(i)' = TreeReported(i),
         \A i \in Tree!Ids : TreeCollected(i)' = TreeCollected(i),
         \A i \in Tree!Ids : treePc'[i] = "reset" =>
            treePc[i] = "reset" \/ \A j \in ChildrenOf(i) : TreeReported(j),
         arrived' = arrived
  PROVE  TreeCounts'
<1>1. \A i \in Tree!Ids : \A j \in ChildrenOf(i) : j \in Tree!Ids
  BY TreeChildren
<1>2. \A i \in Tree!Ids : {j \in ChildrenOf(i) : TreeReported(j)}' = {j \in ChildrenOf(i) : TreeReported(j)}
  BY <1>1 DEF ChildrenOf
<1>3. \A i \in Tree!Ids : ChildrenOf(i)' = ChildrenOf(i)
  BY DEF ChildrenOf
<1>4. QED
  BY <1>1, <1>2, <1>3 DEF TreeCounts

\* wait() is called.
LEMMA TreeEnter ==
  ASSUME TreeIInv, NEW i \in Tree!Ids, Tree!Enter(i)
  PROVE  TreeIInv' /\ Tree!Meet!Arrive(i)
<1> USE DEF TreeIInv
<1>1. /\ treePc[i] = "out" /\ treePc' = [treePc EXCEPT ![i] = "children"]
      /\ local_sense' = [local_sense EXCEPT ![i] = 1 - local_sense[i]]
      /\ treeWaits' = [treeWaits EXCEPT ![i] = treeWaits[i] + 1]
      /\ UNCHANGED <<arrived, sense, treeReturns>>
  BY DEF Tree!Enter, Tree!Goto
<1>2. TreeTypeOK' /\ TreeRounds' = TreeRounds
  BY <1>1 DEF TreeTypeOK, TreeRounds
<1>3. treeWaits[i] = TreeRounds /\ treeReturns[i] = TreeRounds
  BY <1>1 DEF TreePlaces
<1>4. TreePlaces'
  BY <1>1, <1>2, <1>3 DEF TreePlaces, TreeTypeOK
<1>5. TreeSenses'
  BY <1>1, <1>2, ParityTurns DEF TreeSenses, TreeTypeOK
<1>6. \A k \in Tree!Ids : /\ TreeReported(k)' = TreeReported(k)
                          /\ TreeCollected(k)' = TreeCollected(k)
  BY <1>1, <1>2 DEF TreeReported, TreeCollected, TreeTypeOK
<1>7. TreeCounts'
  BY <1>1, <1>6, TreeCountsKept DEF TreeTypeOK
<1>8. Tree!Meet!Arrive(i)
  BY <1>1, <1>3 DEF Tree!Meet!Arrive
<1>9. QED
  BY <1>2, <1>4, <1>5, <1>7, <1>8

\* All children have reported.
LEMMA TreeSeeChildren ==
  ASSUME TreeIInv, NEW i \in Tree!Ids, Tree!SeeChildren(i)
  PROVE  TreeIInv' /\ UNCHANGED <<treeWaits, treeReturns>>
<1> USE DEF TreeIInv
<1>1. /\ treePc[i] = "children" /\ treePc' = [treePc EXCEPT ![i] = "reset"]
      /\ arrived[i] = Tree!Children(i)
      /\ UNCHANGED <<arrived, sense, local_sense, treeWaits, treeReturns>>
  BY DEF Tree!SeeChildren, Tree!Goto
<1>2. TreeTypeOK' /\ TreeRounds' = TreeRounds
  BY <1>1 DEF TreeTypeOK, TreeRounds
<1>3. TreePlaces' /\ TreeSenses'
  BY <1>1, <1>2 DEF TreePlaces, TreeSenses, TreeTypeOK
<1>4. \A j \in ChildrenOf(i) : TreeReported(j)
  <2> DEFINE D == {j \in ChildrenOf(i) : TreeReported(j)}
  <2>1. Cardinality(D) = Cardinality(ChildrenOf(i))
    BY <1>1, TreeChildren DEF TreeCounts, TreeCollected, TreeReported
  <2>2. D = ChildrenOf(i)
    BY <2>1, TreeChildren, FS_Subset
  <2>3. QED
    BY <2>2
<1>5. \A k \in Tree!Ids : /\ TreeReported(k)' = TreeReported(k)
                          /\ TreeCollected(k)' = TreeCollected(k)
  BY <1>1, <1>2 DEF TreeReported, TreeCollected, TreeTypeOK
<1>6. TreeCounts'
  BY <1>1, <1>4, <1>5, TreeCountsKept DEF TreeTypeOK
<1>7. QED
  BY <1>1, <1>2, <1>3, <1>6

\* A node takes the reports of its children.
LEMMA TreeReset ==
  ASSUME TreeIInv, NEW i \in Tree!Ids, Tree!Reset(i)
  PROVE  TreeIInv' /\ UNCHANGED <<treeWaits, treeReturns>>
<1> USE DEF TreeIInv
<1>1. /\ treePc[i] = "reset" /\ treePc' = [treePc EXCEPT ![i] = "report"]
      /\ arrived' = [arrived EXCEPT ![i] = 0]
      /\ UNCHANGED <<sense, local_sense, treeWaits, treeReturns>>
  BY DEF Tree!Reset, Tree!Goto
<1>2. TreeTypeOK' /\ TreeRounds' = TreeRounds
  BY <1>1 DEF TreeTypeOK, TreeRounds
<1>3. TreePlaces' /\ TreeSenses'
  BY <1>1, <1>2 DEF TreePlaces, TreeSenses, TreeTypeOK
<1>4. \A k \in Tree!Ids : /\ TreeReported(k)' = TreeReported(k)
                          /\ k # i => TreeCollected(k)' = TreeCollected(k)
                          /\ k = i => TreeCollected(k)' /\ ~TreeCollected(k)
  BY <1>1, <1>2 DEF TreeReported, TreeCollected, TreeTypeOK
<1>5. \A k \in Tree!Ids : /\ ChildrenOf(k)' = ChildrenOf(k)
                          /\ {j \in ChildrenOf(k) : TreeReported(j)}' = {j \in ChildrenOf(k) : TreeReported(j)}
  BY <1>4 DEF ChildrenOf
<1>6. TreeCounts'
  BY <1>1, <1>4, <1>5, TreeChildren DEF TreeCounts, TreeTypeOK
<1>7. QED
  BY <1>1, <1>2, <1>3, <1>6

\* A node reports to its parent.
LEMMA TreeSignalParent ==
  ASSUME TreeIInv, NEW i \in Tree!Ids, Tree!SignalParent(i)
  PROVE  TreeIInv' /\ UNCHANGED <<treeWaits, treeReturns>>
<1> USE DEF TreeIInv
<1> DEFINE p == Tree!Parent(i)
           D(k) == {j \in ChildrenOf(k) : TreeReported(j)}
<1>1. /\ i # 0
      /\ treePc[i] = "report" /\ treePc' = [treePc EXCEPT ![i] = "spin"]
      /\ arrived' = [arrived EXCEPT ![p] = arrived[p] + 1]
      /\ UNCHANGED <<sense, local_sense, treeWaits, treeReturns>>
  BY DEF Tree!SignalParent, Tree!Goto, Tree!IsRoot
<1>2. p \in Tree!Ids /\ p < i
  BY <1>1, TreeParent
<1>3. TreeTypeOK' /\ TreeRounds' = TreeRounds
  BY <1>1, <1>2 DEF TreeTypeOK, TreeRounds
<1>4. treeWaits[i] = TreeRounds + 1 /\ treeReturns[i] = TreeRounds /\ TreeRounds \in Nat
  BY <1>1, TreeAssumption DEF TreePlaces, TreeTypeOK, TreeRounds, Tree!Ids
<1>5. TreePlaces' /\ TreeSenses'
  BY <1>1, <1>3, <1>4 DEF TreePlaces, TreeSenses, TreeTypeOK
<1>6. \A k \in Tree!Ids : /\ k # i => TreeReported(k)' = TreeReported(k)
                          /\ k = i => TreeReported(k)' /\ ~TreeReported(k)
                          /\ TreeCollected(k)' = TreeCollected(k)
  BY <1>1, <1>3, <1>4 DEF TreeReported, TreeCollected, TreeTypeOK
<1>7. i \in ChildrenOf(p) /\ \A k \in Tree!Ids : k # p => i \notin ChildrenOf(k)
  BY <1>1 DEF ChildrenOf, Tree!IsRoot
<1>8. ~TreeCollected(p) /\ treePc[p] # "reset"
  BY <1>2, <1>6, <1>7 DEF TreeCounts
<1>9. \A k \in Tree!Ids : ChildrenOf(k)' = ChildrenOf(k)
  BY DEF ChildrenOf
<1>10. \A k \in Tree!Ids : k # p => D(k)' = D(k)
  BY <1>6, <1>7, TreeChildren DEF ChildrenOf
<1>11. D(p)' = D(p) \cup {i} /\ i \notin D(p)
  BY <1>2, <1>6, <1>7, TreeChildren DEF ChildrenOf
<1>12. IsFiniteSet(D(p))
  BY <1>2, TreeChildren, FS_Subset
<1>13. Cardinality(D(p)') = Cardinality(D(p)) + 1
  BY <1>11, <1>12, FS_AddElement
<1>14. arrived[p] = Cardinality(D(p))
  BY <1>2, <1>8 DEF TreeCounts
<1>15. ASSUME NEW k \in Tree!Ids
       PROVE  /\ TreeCollected(k)' => arrived'[k] = 0
              /\ ~TreeCollected(k)' => arrived'[k] = Cardinality(D(k)')
              /\ TreeCollected(k)' \/ treePc'[k] = "reset" =>
                   \A j \in ChildrenOf(k) : TreeReported(j)'
  <2>1. CASE k = p
    BY <2>1, <1>1, <1>2, <1>6, <1>8, <1>13, <1>14 DEF TreeTypeOK
  <2>2. CASE k # p
    <3>1. arrived'[k] = arrived[k] /\ (treePc'[k] = "reset" => treePc[k] = "reset")
      BY <2>2, <1>1, <1>2 DEF TreeTypeOK
    <3>2. QED
      BY <3>1, <2>2, <1>6, <1>10, TreeChildren DEF TreeCounts
  <2>3. QED
    BY <2>1, <2>2
<1>16. TreeCounts'
  BY <1>9, <1>15 DEF TreeCounts
<1>17. QED
  BY <1>1, <1>3, <1>5, <1>16

\* The root lets everybody go: everybody has come.
LEMMA TreeBroadcast ==
  ASSUME TreeIInv, NEW i \in Tree!Ids, Tree!Broadcast(i)
  PROVE  TreeIInv' /\ Tree!Meet!Leave(i)
<1> USE DEF TreeIInv
<1>1. /\ i = 0
      /\ treePc[0] = "report" /\ treePc' = [treePc EXCEPT ![0] = "out"]
      /\ sense' = local_sense[0]
      /\ treeReturns' = [treeReturns EXCEPT ![0] = treeReturns[0] + 1]
      /\ UNCHANGED <<arrived, local_sense, treeWaits>>
  BY DEF Tree!Broadcast, Tree!Goto, Tree!IsRoot
<1>2. \A k \in Tree!Ids \ {0} : TreeReported(k)
  BY <1>1, TreeAllReported DEF TreeCollected
<1>3. 0 \in Tree!Ids /\ TreeRounds \in Nat /\ TreeRounds' = TreeRounds + 1
  BY <1>1 DEF TreeTypeOK, TreeRounds
<1>4. treeWaits[0] = TreeRounds + 1 /\ treeReturns[0] = TreeRounds
  BY <1>1, <1>3 DEF TreePlaces
<1>5. \A k \in Tree!Ids \ {0} : /\ treePc[k] = "spin" /\ treePc'[k] = "spin"
                                /\ treeWaits[k] = TreeRounds + 1
                                /\ treeReturns[k] = TreeRounds /\ treeReturns'[k] = TreeRounds
  BY <1>1, <1>2 DEF TreeReported, TreePlaces, TreeTypeOK
<1>6. TreeTypeOK'
  BY <1>1, <1>3 DEF TreeTypeOK
<1>7. treePc'[0] = "out" /\ treeReturns'[0] = TreeRounds + 1
  BY <1>1, <1>3, <1>4 DEF TreeTypeOK
<1>8. TreePlaces'
  BY <1>1, <1>3, <1>4, <1>5, <1>7 DEF TreePlaces
<1>9. TreeSenses'
  BY <1>1, <1>3, <1>4 DEF TreeSenses
<1>10. \A k \in Tree!Ids : TreeCollected(k)
  BY <1>1, <1>2 DEF TreeCollected
<1>11. \A k \in Tree!Ids : ~TreeReported(k)' /\ ~TreeCollected(k)' /\ treePc'[k] # "reset"
  BY <1>1, <1>3, <1>5, <1>7 DEF TreeReported, TreeCollected
<1>12. \A k \in Tree!Ids : {j \in ChildrenOf(k) : TreeReported(j)}' = {}
  BY <1>11, TreeChildren DEF ChildrenOf
<1>13. \A k \in Tree!Ids : arrived'[k] = 0
  BY <1>1, <1>10 DEF TreeCounts
<1>14. TreeCounts'
  BY <1>11, <1>12, <1>13, FS_EmptySet DEF TreeCounts
<1>15. Tree!Meet!Leave(i)
  BY <1>1, <1>3, <1>4, <1>5 DEF Tree!Meet!Leave
<1>16. QED
  BY <1>6, <1>8, <1>9, <1>14, <1>15

\* A thread sees the sense of its round only after the root has turned it.
LEMMA TreeSeeBroadcast ==
  ASSUME TreeIInv, NEW i \in Tree!Ids, Tree!SeeBroadcast(i)
  PROVE  TreeIInv' /\ Tree!Meet!Leave(i)
<1> USE DEF TreeIInv
<1>1. /\ treePc[i] = "spin" /\ treePc' = [treePc EXCEPT ![i] = "out"]
      /\ sense = local_sense[i]
      /\ treeReturns' = [treeReturns EXCEPT ![i] = treeReturns[i] + 1]
      /\ UNCHANGED <<arrived, sense, local_sense, treeWaits>>
  BY DEF Tree!SeeBroadcast, Tree!Goto
<1>2. i # 0 /\ 0 \in Tree!Ids /\ TreeRounds \in Nat
  BY <1>1, TreeAssumption DEF TreePlaces, TreeTypeOK, TreeRounds, Tree!Ids
<1>3. treeWaits[i] = TreeRounds /\ treeReturns[i] = TreeRounds - 1
  BY <1>1, <1>2, ParityTurns DEF TreePlaces, TreeSenses
<1>4. TreeTypeOK' /\ TreeRounds' = TreeRounds
  BY <1>1, <1>2 DEF TreeTypeOK, TreeRounds
<1>5. TreePlaces' /\ TreeSenses'
  BY <1>1, <1>2, <1>3, <1>4 DEF TreePlaces, TreeSenses, TreeTypeOK
<1>6. \A k \in Tree!Ids : /\ TreeReported(k)' = TreeReported(k)
                          /\ TreeCollected(k)' = TreeCollected(k)
  BY <1>1, <1>2, <1>3, <1>4 DEF TreeReported, TreeCollected, TreeTypeOK
<1>7. TreeCounts'
  BY <1>1, <1>6, TreeCountsKept DEF TreeTypeOK
<1>8. \A k \in Tree!Ids : treeWaits[k] >= TreeRounds
  BY <1>2 DEF TreePlaces, TreeTypeOK
<1>9. Tree!Meet!Leave(i)
  BY <1>1, <1>2, <1>3, <1>8 DEF Tree!Meet!Leave
<1>10. QED
  BY <1>4, <1>5, <1>7, <1>9

\* A step of the tree barrier is one of the meeting, or none.
LEMMA TreeStepMeets ==
  TreeIInv /\ [Tree!Next]_(Tree!vars) => TreeIInv' /\ [Tree!Meet!Next]_(Tree!Meet!vars)
<1> SUFFICES ASSUME TreeIInv, [Tree!Next]_(Tree!vars)
             PROVE  TreeIInv' /\ [Tree!Meet!Next]_(Tree!Meet!vars)
  OBVIOUS
<1>1. CASE UNCHANGED Tree!vars
  <2>1. UNCHANGED <<arrived, sense, treePc, local_sense, treeWaits, treeReturns>>
    BY <1>1 DEF Tree!vars
  <2>2. \A i \in Tree!Ids : TreeReported(i)' = TreeReported(i)
                         /\ TreeCollected(i)' = TreeCollected(i)
    BY <2>1 DEF TreeReported, TreeCollected, TreeRounds
  <2>3. TreeCounts'
    BY <2>1, <2>2, TreeCountsKept DEF TreeIInv
  <2>4. QED
    BY <2>1, <2>3
    DEF TreeIInv, TreeTypeOK, TreePlaces, TreeSenses, TreeRounds, Tree!Meet!vars
<1>2. ASSUME NEW i \in Tree!Ids, Tree!Enter(i) \/ Tree!Step(i)
      PROVE  TreeIInv' /\ (\/ UNCHANGED <<treeWaits, treeReturns>>
                           \/ Tree!Meet!Arrive(i) \/ Tree!Meet!Leave(i))
  BY <1>2, TreeEnter, TreeSeeChildren, TreeReset, TreeSignalParent, TreeBroadcast,
     TreeSeeBroadcast
  DEF Tree!Step
<1>3. QED
  BY <1>1, <1>2 DEF Tree!Next, Tree!Meet!Next, Tree!Meet!vars

\* TreeBarrier implements Rendezvous: each thread waits for the reports of its own
\* children only, and yet nobody passes before everybody has come.
THEOREM TreeImplementsRendezvous == Tree!Spec => TreeNobodyPassesEarly
<1>1. Tree!Init => Tree!Meet!Init
  BY DEF Tree!Init, Tree!Meet!Init
<1>2. TreeIInv /\ [Tree!Next]_(Tree!vars) => TreeIInv'
  BY TreeStepMeets
<1>3. TreeIInv /\ [Tree!Next]_(Tree!vars) => [Tree!Meet!Next]_(Tree!Meet!vars)
  BY TreeStepMeets
<1>4. QED
  BY <1>1, <1>2, <1>3, TreeInitHolds, PTL
  DEF Tree!Spec, TreeNobodyPassesEarly, Tree!NobodyPassesEarly, Tree!Meet!Spec

-----------------------------------------------------------------------------
\* The composition that the run checks: each of its parts obeys its own
\* specification, so that the theorems about it hold of the run too.
THEOREM MCSpecImplementsAll ==
  MCSpec => Spec /\ SeqSpec /\ BarSpec /\ Wp!Spec /\ Once!Spec /\ Tree!Spec
<1>1. MCInit => Init /\ SeqInit /\ BarInit /\ Wp!Init /\ Once!Init /\ Tree!Init
  BY DEF MCInit
<1>2. [MCNext]_<<kind, vars, seqVars, barVars, wpVars, onceVars, treeVars>> =>
        /\ [Next]_vars /\ [SeqNext]_seqVars /\ [BarNext]_barVars
        /\ [Wp!Next]_(Wp!vars) /\ [Once!Next]_(Once!vars) /\ [Tree!Next]_(Tree!vars)
  <2> SUFFICES ASSUME [MCNext]_<<kind, vars, seqVars, barVars, wpVars, onceVars, treeVars>>
               PROVE  /\ [Next]_vars /\ [SeqNext]_seqVars /\ [BarNext]_barVars
                      /\ [Wp!Next]_(Wp!vars) /\ [Once!Next]_(Once!vars) /\ [Tree!Next]_(Tree!vars)
    OBVIOUS
  <2>1. /\ Next \/ UNCHANGED vars
        /\ SeqNext \/ UNCHANGED seqVars
        /\ BarNext \/ UNCHANGED barVars
        /\ Wp!Next \/ UNCHANGED wpVars
        /\ Once!Next \/ UNCHANGED onceVars
        /\ Tree!Next \/ UNCHANGED treeVars
    BY DEF MCNext, UsesOnly
  <2>2. QED
    BY <2>1 DEF wpVars, onceVars, treeVars, Wp!vars, Once!vars, Tree!vars
<1>3. QED
  BY <1>1, <1>2, PTL DEF MCSpec, Spec, SeqSpec, BarSpec, Wp!Spec, Once!Spec, Tree!Spec
================================================================================
