---------------------------- MODULE RWLockProofs ----------------------------
(***************************************************************************)
(* Proofs about RWLock: its invariant, and mutual exclusion of readers and *)
(* writers, for any finite set of threads and any number of calls.         *)
(***************************************************************************)
EXTENDS RWLock, FiniteSetTheorems, TLAPS

Inv == TypeOK /\ LockInv

(* The threads that are counted are finitely many and no more than there   *)
(* are threads.                                                            *)
LEMMA CountedFinite == IsFiniteSet(Counted) /\ Cardinality(Counted) \in 0..Cardinality(Thread)
<1>1. Counted \in SUBSET Thread
  BY DEF Counted
<1>2. IsFiniteSet(Thread)
  BY RWLockAssumption
<1>3. IsFiniteSet(Counted) /\ Cardinality(Counted) <= Cardinality(Thread)
  BY <1>1, <1>2, FS_Subset
<1> QED
  BY <1>2, <1>3, FS_CardinalityType

(* A step that moves one thread in or out of the counted section moves     *)
(* their number by one.                                                    *)
LEMMA CountSteps ==
  ASSUME TypeOK, NEW t \in Thread
  PROVE  /\ Cardinality(Counted \cup {t}) =
              IF t \in Counted THEN Cardinality(Counted) ELSE Cardinality(Counted) + 1
         /\ Cardinality(Counted \ {t}) =
              IF t \in Counted THEN Cardinality(Counted) - 1 ELSE Cardinality(Counted)
         /\ Cardinality(Counted) = 0 <=> Counted = {}
         /\ Cardinality(Counted) = 1 /\ t \in Counted => Counted = {t}
<1>1. IsFiniteSet(Counted)
  BY CountedFinite
<1>2. Cardinality(Counted) = 1 /\ t \in Counted => Counted = {t}
  BY <1>1, FS_Singleton
<1> QED
  BY <1>1, <1>2, FS_AddElement, FS_RemoveElement, FS_EmptySet

(* The initial state satisfies the invariant.                              *)
LEMMA InitInv == Init => Inv
<1> SUFFICES ASSUME Init PROVE Inv
  OBVIOUS
<1>1. Counted = {} /\ Entered = {} /\ Writers = {}
  BY DEF Init, Counted, Entered, Writers
<1>2. TypeOK
  BY RWLockAssumption, FS_CardinalityType DEF Init, TypeOK, Phase
<1>3. LockInv
  BY <1>1, RWLockAssumption, FS_EmptySet DEF Init, LockInv
<1> QED
  BY <1>2, <1>3 DEF Inv

(* Every step keeps the invariant.                                         *)
LEMMA NextInv == Inv /\ [Next]_vars => Inv'
<1> SUFFICES ASSUME Inv, [Next]_vars PROVE Inv'
  OBVIOUS
<1> USE RWLockAssumption
<1>1. TypeOK /\ LockInv
  BY DEF Inv
<1>c. IsFiniteSet(Counted') /\ Cardinality(Counted') \in 0..Cardinality(Thread)
  <2>1. Counted' \in SUBSET Thread
    BY DEF Counted
  <2>2. IsFiniteSet(Counted') /\ Cardinality(Counted') <= Cardinality(Thread)
    BY <2>1, FS_Subset
  <2> QED
    BY <2>2, FS_CardinalityType
<1>2. ASSUME NEW t \in Thread, NEW want \in {"wantRead", "wantWrite"}, Call(t, want)
      PROVE  Inv'
  <2>1. Counted' = Counted /\ Entered' = Entered /\ Writers' = Writers
    BY <1>1, <1>2 DEF Call, TypeOK, Counted, Entered, Writers
  <2>2. TypeOK'
    BY <1>1, <1>2 DEF Call, TypeOK, Phase
  <2>3. LockInv'
    BY <1>1, <1>2, <2>1 DEF Call, TypeOK, LockInv
  <2> QED
    BY <2>2, <2>3 DEF Inv
<1>3. ASSUME NEW t \in Thread, ReadLockEnter(t)
      PROVE  Inv'
  <2>1. Counted' = Counted \cup {t} /\ t \notin Counted
    BY <1>1, <1>3 DEF ReadLockEnter, TypeOK, Counted
  <2>2. readCnt' = Cardinality(Counted') /\ (readCnt' = 1 <=> Counted = {})
    BY <1>1, <1>3, <2>1, CountSteps, CountedFinite DEF ReadLockEnter, LockInv
  <2>3. TypeOK'
    BY <1>1, <1>3, <2>2, <1>c DEF ReadLockEnter, TypeOK, Phase
  <2>4. CASE Counted = {}
    <3>1. pc' = [pc EXCEPT ![t] = "first"]
      BY <1>3, <2>2, <2>4 DEF ReadLockEnter, FirstReaderIn
    <3>2. Entered' = Entered /\ Writers' = Writers
      BY <1>1, <1>3, <3>1 DEF ReadLockEnter, TypeOK, Entered, Writers
    <3>3. LockInv'
      BY <1>1, <1>3, <2>1, <2>2, <2>4, <3>1, <3>2 DEF ReadLockEnter, TypeOK, LockInv
    <3> QED
      BY <2>3, <3>3 DEF Inv
  <2>5. CASE Counted # {}
    <3>1. pc' = [pc EXCEPT ![t] = "entered"]
      BY <1>3, <2>2, <2>5 DEF ReadLockEnter, FirstReaderIn
    <3>2. Entered' = Entered \cup {t} /\ Writers' = Writers
      BY <1>1, <1>3, <3>1 DEF ReadLockEnter, TypeOK, Entered, Writers
    <3>3. Counted = Entered
      BY <1>1, <1>3 DEF ReadLockEnter, LockInv, Counted, Entered, TypeOK
    <3>4. LockInv'
      BY <1>1, <1>3, <2>1, <2>2, <2>5, <3>1, <3>2, <3>3
         DEF ReadLockEnter, TypeOK, LockInv, Counted
    <3> QED
      BY <2>3, <3>4 DEF Inv
  <2> QED
    BY <2>4, <2>5
<1>4. ASSUME NEW t \in Thread, FirstReaderLocksWriteMtx(t)
      PROVE  Inv'
  <2>1. Counted' = Counted /\ Entered' = Entered \cup {t} /\ Writers' = Writers
    BY <1>1, <1>4 DEF FirstReaderLocksWriteMtx, TypeOK, Counted, Entered, Writers
  <2>2. TypeOK'
    BY <1>1, <1>4 DEF FirstReaderLocksWriteMtx, TypeOK, Phase
  <2>3. LockInv'
    BY <1>1, <1>4, <2>1 DEF FirstReaderLocksWriteMtx, TypeOK, LockInv
  <2> QED
    BY <2>2, <2>3 DEF Inv
<1>5. ASSUME NEW t \in Thread, ReadLockReturn(t)
      PROVE  Inv'
  <2>1. Counted' = Counted /\ Entered' = Entered /\ Writers' = Writers
    BY <1>1, <1>5 DEF ReadLockReturn, TypeOK, Counted, Entered, Writers
  <2>2. TypeOK'
    BY <1>1, <1>5 DEF ReadLockReturn, TypeOK, Phase
  <2>3. LockInv'
    BY <1>1, <1>5, <2>1 DEF ReadLockReturn, TypeOK, LockInv
  <2> QED
    BY <2>2, <2>3 DEF Inv
<1>6. ASSUME NEW t \in Thread, ReadUnlockEnter(t)
      PROVE  Inv'
  <2>1. Counted' = Counted \ {t} /\ t \in Counted /\ Entered' = Entered \ {t} /\ Writers' = Writers
    BY <1>1, <1>6 DEF ReadUnlockEnter, TypeOK, Counted, Entered, Writers
  <2>2. Counted = Entered
    BY <1>1, <1>6 DEF ReadUnlockEnter, LockInv, Counted, Entered, TypeOK
  <2>3. readCnt' = Cardinality(Counted')
    BY <1>1, <1>6, <2>1, CountSteps, CountedFinite DEF ReadUnlockEnter, LockInv
  <2>4. readCnt' = 0 <=> Counted' = {}
    BY <2>3, <1>c, FS_EmptySet
  <2>5. TypeOK'
    BY <1>1, <1>6, <2>3, <1>c DEF ReadUnlockEnter, TypeOK, Phase
  <2>6. Entered # {} /\ Writers = {} /\ writeMtx # NoThread
    BY <1>1, <2>1, <2>2 DEF LockInv
  <2>7. writeMtx' = IF Entered' = {} THEN NoThread ELSE writeMtx
    BY <1>6, <2>1, <2>2, <2>4 DEF ReadUnlockEnter, LastReaderOut
  <2>8. LockInv'
    BY <1>1, <1>6, <2>1, <2>2, <2>3, <2>6, <2>7
       DEF ReadUnlockEnter, TypeOK, LockInv, Counted
  <2> QED
    BY <2>5, <2>8 DEF Inv
<1>7. ASSUME NEW t \in Thread, ReadUnlockReturn(t)
      PROVE  Inv'
  <2>1. Counted' = Counted /\ Entered' = Entered /\ Writers' = Writers
    BY <1>1, <1>7 DEF ReadUnlockReturn, TypeOK, Counted, Entered, Writers
  <2>2. TypeOK'
    BY <1>1, <1>7 DEF ReadUnlockReturn, TypeOK, Phase
  <2>3. LockInv'
    BY <1>1, <1>7, <2>1 DEF ReadUnlockReturn, TypeOK, LockInv
  <2> QED
    BY <2>2, <2>3 DEF Inv
<1>8. ASSUME NEW t \in Thread, WriteLock(t)
      PROVE  Inv'
  <2>1. Counted' = Counted /\ Entered' = Entered /\ Writers' = Writers \cup {t}
    BY <1>1, <1>8 DEF WriteLock, TypeOK, Counted, Entered, Writers
  <2>2. TypeOK'
    BY <1>1, <1>8 DEF WriteLock, TypeOK, Phase
  <2>3. LockInv'
    BY <1>1, <1>8, <2>1 DEF WriteLock, TypeOK, LockInv
  <2> QED
    BY <2>2, <2>3 DEF Inv
<1>9. ASSUME NEW t \in Thread, WriteUnlock(t)
      PROVE  Inv'
  <2>1. Counted' = Counted /\ Entered' = Entered /\ Writers' = Writers \ {t} /\ t \in Writers
    BY <1>1, <1>9 DEF WriteUnlock, TypeOK, Counted, Entered, Writers
  <2>2. TypeOK'
    BY <1>1, <1>9 DEF WriteUnlock, TypeOK, Phase
  <2>3. LockInv'
    BY <1>1, <1>9, <2>1 DEF WriteUnlock, TypeOK, LockInv
  <2> QED
    BY <2>2, <2>3 DEF Inv
<1>10. CASE UNCHANGED vars
  BY <1>1, <1>10 DEF vars, Inv, TypeOK, LockInv, Counted, Entered, Writers
<1> QED
  BY <1>2, <1>3, <1>4, <1>5, <1>6, <1>7, <1>8, <1>9, <1>10 DEF Next, Proceed

(* The lock keeps its types and its invariant: the counter never leaves    *)
(* 0..number of threads, and both mutexes are held exactly as the methods  *)
(* expect.                                                                 *)
THEOREM LockInvariant == Spec => [](TypeOK /\ LockInv)
<1>1. Init => Inv
  BY InitInv
<1>2. Inv /\ [Next]_vars => Inv'
  BY NextInv
<1> QED
  BY <1>1, <1>2, PTL DEF Spec, Inv

(* What the invariant says of the threads inside their sections.           *)
LEMMA InvExcludes == LockInv => ReadersExcludeWriters
BY DEF LockInv, ReadersExcludeWriters, Readers, Writers, Entered

(* No thread reads the map or the log while another changes them.          *)
THEOREM MutualExclusion == Spec => []ReadersExcludeWriters
BY LockInvariant, InvExcludes, PTL
=============================================================================
