---------------------------- MODULE RwLocks_proofs ----------------------------
(***************************************************************************)
(* Theorems about RwLock and WriterPreferRwLock, for any set of threads,   *)
(* finite or not, and any place of the writer bit: the words count what    *)
(* they should, both locks implement SharedLock, and the second one lets   *)
(* no reader overtake a writer.  The names of WriterPreferRwLock have the  *)
(* prefix Wp of its instance in MCSync.                                    *)
(***************************************************************************)
EXTENDS MCSync, FiniteSetTheorems, TLAPS

\* WordCountsGuards with what its counting needs: the readers are finitely many.
IInv ==
  /\ TypeOK
  /\ IsFiniteSet(Readers)
  /\ \A t, u \in Writers : t = u
  /\ Writers # {} => state = WRITER /\ Readers = {}
  /\ Writers = {} => state = Cardinality(Readers) /\ state < WRITER

\* A new lock has no guards.
LEMMA InitHolds == Init => IInv
<1> SUFFICES ASSUME Init PROVE IInv
  OBVIOUS
<1>1. Readers = {} /\ Writers = {}
  BY DEF Init, Readers, Writers
<1>2. TypeOK
  BY WriterAssumption DEF Init, TypeOK, MAX_READERS
<1>3. QED
  BY <1>1, <1>2, FS_EmptySet, WriterAssumption DEF Init, IInv

\* compare_exchange of the count with the next: the thread is one more reader,
\* and no writer is inside, since a count that was admitted is not the writer bit.
LEMMA CasReadAdds ==
  ASSUME IInv, NEW t \in Threads, CasRead(t)
  PROVE  /\ IInv'
         /\ Writers = {} /\ Writers' = {}
         /\ t \notin Readers /\ Readers' = Readers \cup {t}
<1>1. /\ pc[t] \in {"read_cas", "try_cas"}
      /\ state = seen[t] /\ state' = state + 1
      /\ pc' = [pc EXCEPT ![t] = "reading"] /\ seen' = seen
  BY DEF CasRead
<1>2. seen[t] \in 0 .. WRITER - 2 /\ WRITER \in Nat
  BY WriterAssumption DEF IInv, TypeOK, MAX_READERS
<1>3. Writers = {} /\ state = Cardinality(Readers)
  BY <1>1, <1>2 DEF IInv
<1>4. t \notin Readers /\ Readers' = Readers \cup {t} /\ Writers' = Writers
  BY <1>1 DEF Readers, Writers, IInv, TypeOK
<1>5. IsFiniteSet(Readers') /\ Cardinality(Readers') = Cardinality(Readers) + 1
  BY <1>4, FS_AddElement DEF IInv
<1>6. TypeOK'
  BY <1>1, <1>2 DEF IInv, TypeOK, MAX_READERS
<1>7. state' = Cardinality(Readers') /\ state' < WRITER
  BY <1>1, <1>2, <1>3, <1>5
<1>8. QED
  BY <1>3, <1>4, <1>5, <1>6, <1>7 DEF IInv

\* compare_exchange(0, WRITER): nobody is inside.
LEMMA CasWriteEnters ==
  ASSUME IInv, NEW t \in Threads, CasWrite(t)
  PROVE  /\ IInv'
         /\ Readers = {} /\ Readers' = {}
         /\ Writers = {} /\ Writers' = {t}
<1>1. /\ state = 0 /\ state' = WRITER /\ pc[t] = "idle"
      /\ pc' = [pc EXCEPT ![t] = "writing"] /\ seen' = seen
  BY DEF CasWrite, Goto
<1>2. Writers = {} /\ Cardinality(Readers) = 0
  BY <1>1, WriterAssumption DEF IInv
<1>3. Readers = {}
  BY <1>2, FS_EmptySet DEF IInv
<1>4. Readers' = {} /\ Writers' = {t}
  BY <1>1, <1>2, <1>3 DEF Readers, Writers, IInv, TypeOK
<1>5. TypeOK'
  BY <1>1, WriterAssumption DEF IInv, TypeOK
<1>6. QED
  BY <1>1, <1>2, <1>3, <1>4, <1>5, FS_EmptySet DEF IInv

\* RwLockReadGuard's drop takes one reader off the word.
LEMMA ReadUnlockLeaves ==
  ASSUME IInv, NEW t \in Threads, read_unlock(t)
  PROVE  /\ IInv'
         /\ t \in Readers /\ Readers' = Readers \ {t}
         /\ Writers' = Writers
<1>1. /\ pc[t] = "reading" /\ state' = state - 1
      /\ pc' = [pc EXCEPT ![t] = "idle"] /\ seen' = seen
  BY DEF read_unlock, Goto
<1>2. t \in Readers /\ Readers' = Readers \ {t} /\ Writers' = Writers
  BY <1>1 DEF Readers, Writers, IInv, TypeOK
<1>3. Writers = {} /\ state = Cardinality(Readers) /\ state < WRITER
  BY <1>2 DEF IInv
<1>4. IsFiniteSet(Readers') /\ Cardinality(Readers') = Cardinality(Readers) - 1
  BY <1>2, FS_RemoveElement DEF IInv
<1>5. Cardinality(Readers') \in Nat
  BY <1>4, FS_CardinalityType
<1>6. state' = Cardinality(Readers') /\ state' < WRITER /\ state' \in 0 .. WRITER
  BY <1>1, <1>3, <1>4, <1>5, WriterAssumption DEF IInv, TypeOK
<1>7. TypeOK'
  BY <1>1, <1>6 DEF IInv, TypeOK
<1>8. QED
  BY <1>2, <1>3, <1>4, <1>6, <1>7 DEF IInv

\* RwLockWriteGuard's drop clears the word.
LEMMA WriteUnlockLeaves ==
  ASSUME IInv, NEW t \in Threads, write_unlock(t)
  PROVE  /\ IInv'
         /\ t \in Writers /\ Writers' = Writers \ {t}
         /\ Readers' = Readers
<1>1. /\ pc[t] = "writing" /\ state' = 0
      /\ pc' = [pc EXCEPT ![t] = "idle"] /\ seen' = seen
  BY DEF write_unlock, Goto
<1>2. t \in Writers /\ Writers' = Writers \ {t} /\ Readers' = Readers
  BY <1>1 DEF Readers, Writers, IInv, TypeOK
<1>3. Readers = {} /\ Writers' = {}
  BY <1>2 DEF IInv
<1>4. TypeOK'
  BY <1>1, WriterAssumption DEF IInv, TypeOK
<1>5. QED
  BY <1>1, <1>2, <1>3, <1>4, FS_EmptySet, WriterAssumption DEF IInv

\* Loads and failed exchanges change nothing that a caller can see.
LEMMA SilentSteps ==
  ASSUME IInv, NEW t \in Threads,
         \/ LoadForRead(t) \/ LoadForTryRead(t)
         \/ CasReadFails(t) \/ CasTryReadFails(t)
  PROVE  IInv' /\ Readers' = Readers /\ Writers' = Writers
<1>1. \A n \in 0 .. WRITER : HasRoom(n) => n \in 0 .. MAX_READERS - 1
  BY WriterAssumption DEF HasRoom, MAX_READERS
<1>2. /\ state' = state
      /\ \E to \in {"idle", "read_cas", "try_cas"} :
           pc[t] \in {"idle", "read_cas", "try_cas"} /\ pc' = [pc EXCEPT ![t] = to]
  BY DEF LoadForRead, LoadForTryRead, CasReadFails, CasTryReadFails, Goto
<1>3. seen' \in [Threads -> 0 .. MAX_READERS - 1]
  <2>1. CASE seen' = seen
    BY <2>1 DEF IInv, TypeOK
  <2>2. CASE seen' = [seen EXCEPT ![t] = state] /\ HasRoom(state)
    BY <1>1, <2>2 DEF IInv, TypeOK
  <2>3. QED
    BY <2>1, <2>2 DEF LoadForRead, LoadForTryRead, CasReadFails, CasTryReadFails
<1>4. TypeOK'
  BY <1>2, <1>3 DEF IInv, TypeOK
<1>5. Readers' = Readers /\ Writers' = Writers
  BY <1>2 DEF Readers, Writers, IInv, TypeOK
<1>6. QED
  BY <1>2, <1>4, <1>5 DEF IInv

\* Each step keeps the invariant and is a step of SharedLock, or none.
LEMMA StepShares == IInv /\ [Next]_vars => IInv' /\ [Shared!Next]_(Shared!vars)
<1> SUFFICES ASSUME IInv, [Next]_vars PROVE IInv' /\ [Shared!Next]_(Shared!vars)
  OBVIOUS
<1>1. ASSUME NEW t \in Threads, CasRead(t)  PROVE IInv' /\ Shared!BeginRead(t)
  BY <1>1, CasReadAdds DEF Shared!BeginRead
<1>2. ASSUME NEW t \in Threads, CasWrite(t)  PROVE IInv' /\ Shared!BeginWrite(t)
  BY <1>2, CasWriteEnters DEF Shared!BeginWrite
<1>3. ASSUME NEW t \in Threads, read_unlock(t)  PROVE IInv' /\ Shared!EndRead(t)
  BY <1>3, ReadUnlockLeaves DEF Shared!EndRead
<1>4. ASSUME NEW t \in Threads, write_unlock(t)  PROVE IInv' /\ Shared!EndWrite(t)
  BY <1>4, WriteUnlockLeaves DEF Shared!EndWrite
<1>5. ASSUME NEW t \in Threads,
             \/ LoadForRead(t) \/ LoadForTryRead(t)
             \/ CasReadFails(t) \/ CasTryReadFails(t)
      PROVE  IInv' /\ UNCHANGED Shared!vars
  BY <1>5, SilentSteps DEF Shared!vars
<1>6. CASE UNCHANGED vars
  <2>1. Readers' = Readers /\ Writers' = Writers /\ TypeOK' /\ state' = state
    BY <1>6 DEF vars, Readers, Writers, IInv, TypeOK
  <2>2. QED
    BY <2>1 DEF IInv, Shared!vars
<1>7. CASE Next
  BY <1>1, <1>2, <1>3, <1>4, <1>5, <1>7 DEF Next, Shared!Next
<1>8. QED
  BY <1>6, <1>7

\* The invariant of RwLock holds in every state.
LEMMA IInvHolds == Spec => []IInv
<1>1. IInv /\ [Next]_vars => IInv'
  BY StepShares
<1>2. QED
  BY <1>1, InitHolds, PTL DEF Spec

-------------------------------------------------------------------------------
(* Theorems *)

\* The lock word never leaves its width, and read() and try_read() never carry
\* a count that they could not add one to.
THEOREM TypeCorrect == Spec => []TypeOK
<1>1. IInv => TypeOK
  BY DEF IInv
<1>2. QED
  BY <1>1, IInvHolds, PTL

\* The word says who is inside (rwlock.rs:53-66, 131-148): the writer bit exactly
\* while a writer is, and otherwise the number of readers.
THEOREM WordAlwaysCounts == Spec => []WordCountsGuards
<1>1. IInv => WordCountsGuards
  <2> SUFFICES ASSUME IInv PROVE WordCountsGuards
    OBVIOUS
  <2>1. ASSUME NEW t \in Writers  PROVE Cardinality(Writers) = 1
    <3>1. Writers = {t}
      BY DEF IInv
    <3>2. QED
      BY <3>1, FS_Singleton
  <2>2. QED
    BY <2>1 DEF IInv, WordCountsGuards
<1>2. QED
  BY <1>1, IInvHolds, PTL

\* Readers share and writers exclude: RwLock implements SharedLock.
THEOREM RwLockIsShared == Spec => ReadersShareWritersExclude
<1>1. Init => Shared!Init
  BY DEF Init, Shared!Init, Readers, Writers
<1>2. IInv /\ [Next]_vars => [Shared!Next]_(Shared!vars)
  BY StepShares
<1>3. QED
  BY <1>1, <1>2, IInvHolds, PTL DEF Spec, ReadersShareWritersExclude, Shared!Spec
-------------------------------------------------------------------------------
(* WriterPreferRwLock *)

WpPcs ==
  {"idle", "r_waiting", "r_locked", "r_add", "r_check", "reading", "r_undo",
   "w_readers", "w_cas", "w_check", "w_leave", "w_undo", "writing"}

WpTypeOK ==
  /\ write_locked \in {0, 1}
  /\ wpPc \in [Threads -> WpPcs]
  /\ older \in [Threads -> SUBSET Threads]

\* The writer whose exchange set write_locked, from the exchange to the store
\* that clears it.
WpLocking == Wp!At({"w_check", "w_leave", "w_undo", "writing"})

\* The readers that have passed the test of writer_waiting.
WpPassed == Wp!At({"r_locked", "r_add", "r_check", "reading", "r_undo"})

(***************************************************************************)
(* What the three counters count; that a writer past its double check has  *)
(* no reader beside it; and that only who was in read() already is past    *)
(* the test of writer_waiting while a writer waits.                        *)
(***************************************************************************)
WpIInv ==
  /\ WpTypeOK
  /\ IsFiniteSet(Wp!Announced) /\ readers = Cardinality(Wp!Announced)
  /\ IsFiniteSet(Wp!Waiting) /\ writer_waiting = Cardinality(Wp!Waiting)
  /\ \A t, u \in WpLocking : t = u
  /\ write_locked = 0 <=> WpLocking = {}
  /\ Wp!At({"w_leave", "writing"}) # {} => Wp!Reading = {}
  /\ \A w \in Wp!Waiting : WpPassed \subseteq older[w]

\* A new lock has nobody inside or waiting.
LEMMA WpInitHolds == Wp!Init => WpIInv
<1> SUFFICES ASSUME Wp!Init PROVE WpIInv
  OBVIOUS
<1>1. /\ Wp!Announced = {} /\ Wp!Waiting = {} /\ WpLocking = {} /\ Wp!Reading = {}
      /\ WpPassed = {}
  BY DEF Wp!Init, Wp!Announced, Wp!Waiting, WpLocking, Wp!Reading, WpPassed, Wp!At
<1>2. WpTypeOK
  BY DEF Wp!Init, WpTypeOK, WpPcs
<1>3. QED
  BY <1>1, <1>2, FS_EmptySet DEF Wp!Init, WpIInv

\* The loads of read() and write() and the steps that only branch on them.
LEMMA WpLoads ==
  ASSUME WpIInv, NEW t \in Threads,
         \/ Wp!StartRead(t) \/ Wp!ReadSeesNoWaiter(t) \/ Wp!ReadSeesUnlocked(t)
         \/ Wp!WriteSeesNoReaders(t) \/ Wp!WriteCheck(t)
         \/ Wp!ReadCheck(t) /\ write_locked # 0
  PROVE  WpIInv' /\ Wp!Reading' = Wp!Reading /\ Wp!Writing' = Wp!Writing
<1> USE DEF Wp!Goto, Wp!Branch, Wp!Counters
<1>1. UNCHANGED <<readers, writer_waiting, write_locked, older>>
  BY DEF Wp!StartRead, Wp!ReadSeesNoWaiter, Wp!ReadSeesUnlocked, Wp!WriteSeesNoReaders,
         Wp!WriteCheck, Wp!ReadCheck
<1>2. WpTypeOK'
  BY <1>1
  DEF WpIInv, WpTypeOK, WpPcs, Wp!StartRead, Wp!ReadSeesNoWaiter, Wp!ReadSeesUnlocked,
      Wp!WriteSeesNoReaders, Wp!WriteCheck, Wp!ReadCheck
<1>3. /\ Wp!Announced' = Wp!Announced /\ Wp!Waiting' = Wp!Waiting
      /\ WpLocking' = WpLocking
      /\ Wp!Reading' = Wp!Reading /\ Wp!Writing' = Wp!Writing
  BY DEF WpIInv, WpTypeOK, Wp!StartRead, Wp!ReadSeesNoWaiter, Wp!ReadSeesUnlocked,
         Wp!WriteSeesNoReaders, Wp!WriteCheck, Wp!ReadCheck,
         Wp!At, Wp!Announced, Wp!Waiting, WpLocking, Wp!Reading, Wp!Writing
<1>4. WpPassed' \subseteq WpPassed \/ Wp!Waiting = {}
  <2>1. CASE Wp!ReadSeesNoWaiter(t)
    BY <2>1, FS_EmptySet DEF Wp!ReadSeesNoWaiter, WpIInv
  <2>2. CASE ~Wp!ReadSeesNoWaiter(t)
    BY <2>2
    DEF WpIInv, WpTypeOK, Wp!StartRead, Wp!ReadSeesUnlocked, Wp!WriteSeesNoReaders,
        Wp!WriteCheck, Wp!ReadCheck, WpPassed, Wp!At
  <2>3. QED
    BY <2>1, <2>2
<1>5. Wp!At({"w_leave", "writing"})' # {} => Wp!Reading = {}
  <2>1. CASE Wp!WriteCheck(t) /\ readers = 0
    <3>1. Wp!Announced = {}
      BY <2>1, FS_EmptySet DEF WpIInv
    <3>2. QED
      BY <3>1 DEF Wp!Announced, Wp!Reading, Wp!At
  <2>2. CASE ~(Wp!WriteCheck(t) /\ readers = 0)
    <3>1. Wp!At({"w_leave", "writing"})' = Wp!At({"w_leave", "writing"})
      BY <2>2
      DEF WpIInv, WpTypeOK, Wp!StartRead, Wp!ReadSeesNoWaiter, Wp!ReadSeesUnlocked,
          Wp!WriteSeesNoReaders, Wp!WriteCheck, Wp!ReadCheck, Wp!At
    <3>2. QED
      BY <3>1 DEF WpIInv
  <2>3. QED
    BY <2>1, <2>2
<1>6. QED
  BY <1>1, <1>2, <1>3, <1>4, <1>5 DEF WpIInv

\* read(): the announcement is counted.
LEMMA WpReadAnnounces ==
  ASSUME WpIInv, NEW t \in Threads, Wp!ReadAnnounce(t)
  PROVE  WpIInv' /\ Wp!Reading' = Wp!Reading /\ Wp!Writing' = Wp!Writing
<1>1. /\ wpPc[t] = "r_add" /\ wpPc' = [wpPc EXCEPT ![t] = "r_check"]
      /\ readers' = readers + 1
      /\ UNCHANGED <<writer_waiting, write_locked, older>>
  BY DEF Wp!ReadAnnounce, Wp!Goto
<1>2. /\ t \notin Wp!Announced /\ Wp!Announced' = Wp!Announced \cup {t}
      /\ Wp!Waiting' = Wp!Waiting /\ WpLocking' = WpLocking /\ WpPassed' = WpPassed
      /\ Wp!Reading' = Wp!Reading /\ Wp!Writing' = Wp!Writing
      /\ Wp!At({"w_leave", "writing"})' = Wp!At({"w_leave", "writing"})
  BY <1>1
  DEF WpIInv, WpTypeOK, Wp!At, Wp!Announced, Wp!Waiting, WpLocking, WpPassed,
      Wp!Reading, Wp!Writing
<1>3. IsFiniteSet(Wp!Announced') /\ readers' = Cardinality(Wp!Announced')
  BY <1>1, <1>2, FS_AddElement DEF WpIInv
<1>4. WpTypeOK'
  BY <1>1 DEF WpIInv, WpTypeOK, WpPcs
<1>5. QED
  BY <1>1, <1>2, <1>3, <1>4 DEF WpIInv

\* read(): the double check passes; no writer has set the word.
LEMMA WpReadEnters ==
  ASSUME WpIInv, NEW t \in Threads, Wp!ReadCheck(t), write_locked = 0
  PROVE  /\ WpIInv'
         /\ t \notin Wp!Reading /\ Wp!Reading' = Wp!Reading \cup {t}
         /\ Wp!Writing = {} /\ Wp!Writing' = {}
<1>1. /\ wpPc[t] = "r_check" /\ wpPc' = [wpPc EXCEPT ![t] = "reading"]
      /\ UNCHANGED <<readers, writer_waiting, write_locked, older>>
  BY DEF Wp!ReadCheck, Wp!Branch, Wp!Goto, Wp!Counters
<1>2. /\ Wp!Announced' = Wp!Announced
      /\ Wp!Waiting' = Wp!Waiting /\ WpLocking' = WpLocking /\ WpPassed' = WpPassed
      /\ t \notin Wp!Reading /\ Wp!Reading' = Wp!Reading \cup {t}
  BY <1>1
  DEF WpIInv, WpTypeOK, Wp!At, Wp!Announced, Wp!Waiting, WpLocking, WpPassed, Wp!Reading
<1>3. WpLocking = {}
  BY DEF WpIInv
<1>4. Wp!Writing = {} /\ Wp!Writing' = {} /\ Wp!At({"w_leave", "writing"})' = {}
  BY <1>2, <1>3 DEF WpLocking, Wp!Writing, Wp!At
<1>5. WpTypeOK'
  BY <1>1 DEF WpIInv, WpTypeOK, WpPcs
<1>6. QED
  BY <1>1, <1>2, <1>4, <1>5 DEF WpIInv

\* read() backs out, or the guard is dropped: one announcement less.
LEMMA WpReadLeaves ==
  ASSUME WpIInv, NEW t \in Threads, Wp!ReadUndo(t) \/ Wp!DropRead(t)
  PROVE  /\ WpIInv'
         /\ Wp!Reading' = Wp!Reading \ {t} /\ Wp!Writing' = Wp!Writing
         /\ Wp!DropRead(t) => t \in Wp!Reading
         /\ ~Wp!DropRead(t) => t \notin Wp!Reading
<1>1. /\ wpPc[t] \in {"r_undo", "reading"}
      /\ wpPc' \in {[wpPc EXCEPT ![t] = "r_waiting"], [wpPc EXCEPT ![t] = "idle"]}
      /\ readers' = readers - 1
      /\ older' = older \/ older' = [w \in Threads |-> older[w] \ {t}]
      /\ UNCHANGED <<writer_waiting, write_locked>>
  BY DEF Wp!ReadUndo, Wp!DropRead, Wp!Goto
<1>2. /\ t \in Wp!Announced /\ Wp!Announced' = Wp!Announced \ {t}
      /\ Wp!Waiting' = Wp!Waiting /\ WpLocking' = WpLocking
      /\ WpPassed' = WpPassed \ {t}
      /\ Wp!Reading' = Wp!Reading \ {t} /\ Wp!Writing' = Wp!Writing
      /\ Wp!At({"w_leave", "writing"})' = Wp!At({"w_leave", "writing"})
  BY <1>1
  DEF WpIInv, WpTypeOK, Wp!At, Wp!Announced, Wp!Waiting, WpLocking, WpPassed,
      Wp!Reading, Wp!Writing
<1>3. IsFiniteSet(Wp!Announced') /\ readers' = Cardinality(Wp!Announced')
  BY <1>1, <1>2, FS_RemoveElement DEF WpIInv
<1>4. WpTypeOK'
  BY <1>1 DEF WpIInv, WpTypeOK, WpPcs
<1>5. \A w \in Wp!Waiting' : WpPassed' \subseteq older'[w]
  BY <1>1, <1>2 DEF WpIInv, Wp!Waiting, Wp!At
<1>6. /\ Wp!DropRead(t) => t \in Wp!Reading
      /\ ~Wp!DropRead(t) => t \notin Wp!Reading
  BY DEF Wp!ReadUndo, Wp!DropRead, Wp!Goto, Wp!Reading, Wp!At
<1>7. QED
  BY <1>1, <1>2, <1>3, <1>4, <1>5, <1>6 DEF WpIInv

\* write(): one more writer waits; whoever is past the test of writer_waiting
\* came before it.
LEMMA WpWriteAnnounces ==
  ASSUME WpIInv, NEW t \in Threads, Wp!WriteAnnounce(t)
  PROVE  WpIInv' /\ Wp!Reading' = Wp!Reading /\ Wp!Writing' = Wp!Writing
<1>1. /\ wpPc[t] = "idle" /\ wpPc' = [wpPc EXCEPT ![t] = "w_readers"]
      /\ writer_waiting' = writer_waiting + 1
      /\ older' = [older EXCEPT ![t] = Wp!InRead]
      /\ UNCHANGED <<readers, write_locked>>
  BY DEF Wp!WriteAnnounce, Wp!Goto
<1>2. /\ t \notin Wp!Waiting /\ Wp!Waiting' = Wp!Waiting \cup {t}
      /\ Wp!Announced' = Wp!Announced /\ WpLocking' = WpLocking /\ WpPassed' = WpPassed
      /\ Wp!Reading' = Wp!Reading /\ Wp!Writing' = Wp!Writing
      /\ Wp!At({"w_leave", "writing"})' = Wp!At({"w_leave", "writing"})
  BY <1>1
  DEF WpIInv, WpTypeOK, Wp!At, Wp!Announced, Wp!Waiting, WpLocking, WpPassed,
      Wp!Reading, Wp!Writing
<1>3. IsFiniteSet(Wp!Waiting') /\ writer_waiting' = Cardinality(Wp!Waiting')
  BY <1>1, <1>2, FS_AddElement DEF WpIInv
<1>4. WpPassed \subseteq Wp!InRead /\ Wp!InRead \subseteq Threads
  BY DEF WpPassed, Wp!InRead, Wp!Announced, Wp!At
<1>5. WpTypeOK'
  BY <1>1, <1>4 DEF WpIInv, WpTypeOK, WpPcs
<1>6. \A w \in Wp!Waiting' : WpPassed' \subseteq older'[w]
  BY <1>1, <1>2, <1>4 DEF WpIInv, WpTypeOK, Wp!Waiting, Wp!At
<1>7. QED
  BY <1>1, <1>2, <1>3, <1>5, <1>6 DEF WpIInv

\* write(): the exchange finds the word free and claims it, or goes round.
LEMMA WpWriteClaims ==
  ASSUME WpIInv, NEW t \in Threads, Wp!WriteCas(t)
  PROVE  WpIInv' /\ Wp!Reading' = Wp!Reading /\ Wp!Writing' = Wp!Writing
<1>1. /\ wpPc[t] = "w_cas"
      /\ wpPc' = [wpPc EXCEPT ![t] = IF write_locked = 0 THEN "w_check" ELSE "w_readers"]
      /\ write_locked' = 1
      /\ UNCHANGED <<readers, writer_waiting, older>>
  BY DEF Wp!WriteCas, Wp!Branch, Wp!Goto
<1>2. /\ Wp!Waiting' = Wp!Waiting /\ Wp!Announced' = Wp!Announced
      /\ WpLocking' = IF write_locked = 0 THEN WpLocking \cup {t} ELSE WpLocking
      /\ WpPassed' = WpPassed
      /\ Wp!Reading' = Wp!Reading /\ Wp!Writing' = Wp!Writing
      /\ Wp!At({"w_leave", "writing"})' = Wp!At({"w_leave", "writing"})
  BY <1>1
  DEF WpIInv, WpTypeOK, Wp!At, Wp!Announced, Wp!Waiting, WpLocking, WpPassed,
      Wp!Reading, Wp!Writing
<1>3. WpTypeOK'
  BY <1>1 DEF WpIInv, WpTypeOK, WpPcs
<1>4. QED
  BY <1>1, <1>2, <1>3 DEF WpIInv

\* write(): past the double check the writer no longer counts as waiting.
LEMMA WpWriteEnters ==
  ASSUME WpIInv, NEW t \in Threads, Wp!WriteEnter(t)
  PROVE  /\ WpIInv'
         /\ Wp!Reading = {} /\ Wp!Reading' = {}
         /\ Wp!Writing = {} /\ Wp!Writing' = {t}
<1>1. /\ wpPc[t] = "w_leave" /\ wpPc' = [wpPc EXCEPT ![t] = "writing"]
      /\ writer_waiting' = writer_waiting - 1
      /\ older' = [older EXCEPT ![t] = {}]
      /\ UNCHANGED <<readers, write_locked>>
  BY DEF Wp!WriteEnter, Wp!Goto
<1>2. /\ t \in Wp!Waiting /\ Wp!Waiting' = Wp!Waiting \ {t}
      /\ Wp!Announced' = Wp!Announced
      /\ t \in WpLocking /\ WpLocking' = WpLocking
      /\ WpPassed' = WpPassed
      /\ Wp!Reading' = Wp!Reading /\ Wp!Writing' = Wp!Writing \cup {t}
      /\ t \notin Wp!Writing /\ Wp!Writing \subseteq WpLocking
      /\ t \in Wp!At({"w_leave", "writing"})
  BY <1>1
  DEF WpIInv, WpTypeOK, Wp!At, Wp!Announced, Wp!Waiting, WpLocking, WpPassed,
      Wp!Reading, Wp!Writing
<1>3. Wp!Reading = {} /\ Wp!Writing = {}
  BY <1>2 DEF WpIInv
<1>4. IsFiniteSet(Wp!Waiting') /\ writer_waiting' = Cardinality(Wp!Waiting')
  BY <1>1, <1>2, FS_RemoveElement DEF WpIInv
<1>5. WpTypeOK'
  BY <1>1 DEF WpIInv, WpTypeOK, WpPcs
<1>6. \A w \in Wp!Waiting' : WpPassed' \subseteq older'[w]
  BY <1>1, <1>2 DEF WpIInv, WpTypeOK
<1>7. QED
  BY <1>1, <1>2, <1>3, <1>4, <1>5, <1>6 DEF WpIInv

\* write() backs out, or the guard is dropped: the word is free again.
LEMMA WpWriteLeaves ==
  ASSUME WpIInv, NEW t \in Threads, Wp!WriteUndo(t) \/ Wp!DropWrite(t)
  PROVE  /\ WpIInv'
         /\ Wp!Reading' = Wp!Reading /\ Wp!Writing' = Wp!Writing \ {t}
         /\ Wp!DropWrite(t) => t \in Wp!Writing
         /\ ~Wp!DropWrite(t) => t \notin Wp!Writing
<1>1. /\ \/ wpPc[t] = "w_undo" /\ wpPc' = [wpPc EXCEPT ![t] = "w_readers"]
         \/ wpPc[t] = "writing" /\ wpPc' = [wpPc EXCEPT ![t] = "idle"]
      /\ write_locked' = 0
      /\ UNCHANGED <<readers, writer_waiting, older>>
  BY DEF Wp!WriteUndo, Wp!DropWrite, Wp!Goto
<1>2. /\ Wp!Waiting' = Wp!Waiting /\ Wp!Announced' = Wp!Announced
      /\ t \in WpLocking /\ WpLocking' = WpLocking \ {t}
      /\ WpPassed' = WpPassed
      /\ Wp!Reading' = Wp!Reading /\ Wp!Writing' = Wp!Writing \ {t}
      /\ Wp!At({"w_leave", "writing"})' \subseteq Wp!At({"w_leave", "writing"})
  BY <1>1
  DEF WpIInv, WpTypeOK, Wp!At, Wp!Announced, Wp!Waiting, WpLocking, WpPassed,
      Wp!Reading, Wp!Writing
<1>3. WpTypeOK'
  BY <1>1 DEF WpIInv, WpTypeOK, WpPcs
<1>4. /\ Wp!DropWrite(t) => t \in Wp!Writing
      /\ ~Wp!DropWrite(t) => t \notin Wp!Writing
  BY DEF Wp!WriteUndo, Wp!DropWrite, Wp!Goto, Wp!Writing, Wp!At
<1>5. QED
  BY <1>1, <1>2, <1>3, <1>4 DEF WpIInv

\* Each step keeps the invariant and is a step of SharedLock, or none.
LEMMA WpStepShares ==
  WpIInv /\ [Wp!Next]_(Wp!vars) => WpIInv' /\ [Wp!Shared!Next]_(Wp!Shared!vars)
<1> SUFFICES ASSUME WpIInv, [Wp!Next]_(Wp!vars)
             PROVE  WpIInv' /\ [Wp!Shared!Next]_(Wp!Shared!vars)
  OBVIOUS
<1>1. ASSUME NEW t \in Threads,
             \/ Wp!StartRead(t) \/ Wp!ReadSeesNoWaiter(t) \/ Wp!ReadSeesUnlocked(t)
             \/ Wp!ReadAnnounce(t)
             \/ Wp!ReadCheck(t) /\ write_locked # 0
             \/ Wp!WriteAnnounce(t) \/ Wp!WriteSeesNoReaders(t) \/ Wp!WriteCas(t)
             \/ Wp!WriteCheck(t)
      PROVE  WpIInv' /\ UNCHANGED Wp!Shared!vars
  BY <1>1, WpLoads, WpReadAnnounces, WpWriteAnnounces, WpWriteClaims DEF Wp!Shared!vars
<1>2. ASSUME NEW t \in Threads, Wp!ReadCheck(t), write_locked = 0
      PROVE  WpIInv' /\ Wp!Shared!BeginRead(t)
  BY <1>2, WpReadEnters DEF Wp!Shared!BeginRead
<1>3. ASSUME NEW t \in Threads, Wp!ReadUndo(t) \/ Wp!DropRead(t)
      PROVE  WpIInv' /\ (Wp!Shared!EndRead(t) \/ UNCHANGED Wp!Shared!vars)
  BY <1>3, WpReadLeaves DEF Wp!Shared!EndRead, Wp!Shared!vars
<1>4. ASSUME NEW t \in Threads, Wp!WriteEnter(t)
      PROVE  WpIInv' /\ Wp!Shared!BeginWrite(t)
  BY <1>4, WpWriteEnters DEF Wp!Shared!BeginWrite
<1>5. ASSUME NEW t \in Threads, Wp!WriteUndo(t) \/ Wp!DropWrite(t)
      PROVE  WpIInv' /\ (Wp!Shared!EndWrite(t) \/ UNCHANGED Wp!Shared!vars)
  BY <1>5, WpWriteLeaves DEF Wp!Shared!EndWrite, Wp!Shared!vars
<1>6. CASE UNCHANGED Wp!vars
  <2>1. UNCHANGED <<readers, writer_waiting, write_locked, wpPc, older>>
    BY <1>6 DEF Wp!vars
  <2>2. \A labels : Wp!At(labels)' = Wp!At(labels)
    BY <2>1 DEF Wp!At
  <2>3. /\ UNCHANGED <<Wp!Announced, Wp!Waiting, WpLocking, WpPassed>>
        /\ UNCHANGED <<Wp!Reading, Wp!Writing, Wp!At({"w_leave", "writing"})>>
    BY <2>2 DEF Wp!Announced, Wp!Waiting, WpLocking, WpPassed, Wp!Reading, Wp!Writing
  <2>4. QED
    BY <2>1, <2>3 DEF WpIInv, WpTypeOK, Wp!Shared!vars
<1>7. CASE Wp!Next
  <2>1. PICK t \in Threads : \/ Wp!StartRead(t) \/ Wp!WriteAnnounce(t)
                            \/ Wp!ReadStep(t) \/ Wp!WriteStep(t)
    BY <1>7 DEF Wp!Next
  <2>2. \/ WpIInv' /\ UNCHANGED Wp!Shared!vars
        \/ WpIInv' /\ Wp!Shared!BeginRead(t)
        \/ WpIInv' /\ Wp!Shared!EndRead(t)
        \/ WpIInv' /\ Wp!Shared!BeginWrite(t)
        \/ WpIInv' /\ Wp!Shared!EndWrite(t)
    <3>1. CASE Wp!ReadStep(t)
      BY <3>1, <1>1, <1>2, <1>3 DEF Wp!ReadStep
    <3>2. CASE Wp!WriteStep(t)
      BY <3>2, <1>1, <1>4, <1>5 DEF Wp!WriteStep
    <3>3. QED
      BY <2>1, <3>1, <3>2, <1>1
  <2>3. QED
    BY <2>2 DEF Wp!Shared!Next
<1>8. QED
  BY <1>6, <1>7

\* WriterPreferRwLock::read and write: no reader overtakes a writer that has
\* announced itself, since it would have to find writer_waiting at zero.
THEOREM WpAlwaysPreferred == Wp!Spec => []WpWritersArePreferred
<1>1. WpIInv => WpWritersArePreferred
  <2>1. Wp!Reading \subseteq WpPassed
    BY DEF Wp!Reading, WpPassed, Wp!At
  <2>2. QED
    BY <2>1 DEF WpIInv, WpWritersArePreferred, Wp!WritersArePreferred
<1>2. WpIInv /\ [Wp!Next]_(Wp!vars) => WpIInv'
  BY WpStepShares
<1>3. QED
  BY <1>1, <1>2, WpInitHolds, PTL DEF Wp!Spec

\* WriterPreferRwLock implements SharedLock: readers share and writers exclude
\* through every race of the two double checks.
THEOREM WpIsShared == Wp!Spec => WpReadersShareWritersExclude
<1>1. Wp!Init => Wp!Shared!Init
  BY DEF Wp!Init, Wp!Shared!Init, Wp!Reading, Wp!Writing, Wp!At
<1>2. WpIInv /\ [Wp!Next]_(Wp!vars) => WpIInv'
  BY WpStepShares
<1>3. WpIInv /\ [Wp!Next]_(Wp!vars) => [Wp!Shared!Next]_(Wp!Shared!vars)
  BY WpStepShares
<1>4. QED
  BY <1>1, <1>2, <1>3, WpInitHolds, PTL
  DEF Wp!Spec, WpReadersShareWritersExclude, Wp!ReadersShareWritersExclude, Wp!Shared!Spec
===============================================================================
