------------------------ MODULE ServerStorageProofs ------------------------
(***************************************************************************)
(* Proofs about ServerStorage: its types, the pointers an unlocked getIdx  *)
(* or get_log may see, and that place_order and read_record each happen    *)
(* in one moment, for any finite set of threads, any customers and         *)
(* numbers and any number of calls.                                        *)
(*                                                                         *)
(* The lock is not looked into again: every step of the storage is a step  *)
(* of RWLock or leaves it alone, so what RWLockProofs proves of the lock   *)
(* holds of the storage's lock.                                            *)
(***************************************************************************)
EXTENDS ServerStorage, SequenceTheorems, WellFoundedInduction, TLAPS

LockProofs == INSTANCE RWLockProofs

(* A call is inside place_order, and inside its section of the lock with   *)
(* the entry not only wanted but begun.                                    *)
Placing(t) == call[t].at \in {"push", "start", "finish", "record", "unlock"}
Changing(t) == call[t].at \in {"start", "finish", "record", "unlock"}

(* Where a thread is in a method of the storage says where it is in the    *)
(* methods of the lock, and which arguments its call has.                  *)
CallOK(t) ==
  LET c == call[t] IN
  /\ c.at = "none" => c = Idle /\ pc[t] = "out"
  /\ Placing(t) => c.op = "place" /\ c.cust \in Customer /\ c.num \in Number
  /\ c.at = "push" => pc[t] \in {"wantWrite", "writing"}
  /\ Changing(t) => pc[t] = "writing"
  /\ c.at \in {"count", "value", "leave"} => c.op = "read" /\ c.cust \in Customer
  /\ c.at = "count" => pc[t] \in {"wantRead", "first", "entered", "reading"} /\ c.num = -1
  /\ c.at = "value" => pc[t] = "reading" /\ c.num = -1 /\ c.cust \in DOMAIN customer_record
  /\ c.at = "leave" => pc[t] \in {"reading", "leaving"}
  /\ c.at \in {"pointers", "answer"} => t = Admin /\ pc[t] = "out" /\ c.op \in {"getIdx", "get_log"}

CallInv == \A t \in Thread : CallOK(t)

(* What read_record answers for customer c.                                *)
Recorded(c) == IF c \in DOMAIN customer_record THEN customer_record[c] ELSE -1

(* Between push_back and the change of the map, the last entry of the log  *)
(* is the one being placed, and its customer is the only one whose record  *)
(* may differ from the log.                                                *)
LastPlaced == \A t \in Thread : call[t].at = "record" => log # << >> /\ log[Len(log)] = Entry(t)
RecordsFollowLog ==
  \A c \in Customer :
    \/ \E t \in Thread : call[t].at = "record" /\ call[t].cust = c
    \/ Recorded(c) = Atomic!Latest(log, c)

(* The vector's pointers belong together except while push_back moves the  *)
(* entries, and then there is room for the new one.                        *)
VectorInv ==
  /\ finish.n = Len(log) /\ Len(log) <= capacity
  /\ ~Growing => start = newest /\ finish.blk = newest
  /\ Growing => Len(log) < capacity
  /\ (\E t \in Thread : call[t].at = "finish") => start = newest

(* What an unlocked call of the admin thread has loaded.                   *)
PeekInv ==
  LET c == call[Admin] IN
  /\ c.at = "pointers" =>
       /\ base <= Len(log)
       /\ ~grew => /\ ~Growing
                   /\ c.st # NoBlock => c.st = newest
                   /\ c.fin # NoBlock => c.fin = newest /\ c.size \in base..Len(log)
  /\ c.at = "answer" /\ ~grew =>
       (IF c.op = "getIdx" THEN c.num + 1 ELSE c.num) \in base..Len(log)

StorageInv == TypeOK /\ CallInv /\ LastPlaced /\ RecordsFollowLog /\ VectorInv /\ PeekInv

Step(t) == Acquire(t) \/ place_order(t) \/ read_record(t) \/ getIdx_get_log(t)
-----------------------------------------------------------------------------
(* The lock of the storage.                                                *)

(* The assumptions of RWLock are among those of the storage.               *)
LEMMA LockAssumption == Lock!RWLockAssumption
BY StorageAssumption DEF Lock!IsFiniteSet, IsFiniteSet

(* Whatever the storage does, its lock takes a step of RWLock or none.     *)
LEMMA StepIsLockStep == [Next]_vars => [Lock!Next]_lockVars
<1> SUFFICES ASSUME Next PROVE Lock!Next \/ UNCHANGED lockVars
  BY DEF vars
<1>1. PICK t \in Thread : Step(t)
  BY DEF Next, Step
<1>2. ASSUME Acquire(t) PROVE Lock!Next
  BY <1>2 DEF Acquire, Lock!Next, Lock!Proceed
<1>3. ASSUME place_order(t) PROVE Lock!Next \/ UNCHANGED lockVars
  BY <1>3 DEF place_order, PlaceOrder, PushBack, Grow, StoreStart, StoreFinish, StoreRecord,
              PlaceOrderReturn, Lock!Next, Lock!Proceed
<1>4. ASSUME read_record(t) PROVE Lock!Next \/ UNCHANGED lockVars
  BY <1>4 DEF read_record, ReadRecord, Count, Value, ReadUnlock, ReadRecordReturn,
              Lock!Next, Lock!Proceed
<1>5. ASSUME getIdx_get_log(t) PROVE UNCHANGED lockVars
  BY <1>5 DEF getIdx_get_log, Peek, LoadStart, LoadFinish, PeekReturns, PeekEnds
<1> QED
  BY <1>1, <1>2, <1>3, <1>4, <1>5 DEF Step

(* The storage uses its lock as RWLock's threads do, so everything proved  *)
(* of RWLock holds of it.                                                  *)
THEOREM StorageUsesLock == Spec => Lock!Spec
<1>1. Init => Lock!Init
  BY DEF Init
<1>2. [Next]_vars => [Lock!Next]_(Lock!vars)
  BY StepIsLockStep DEF Lock!vars, lockVars
<1> QED
  BY <1>1, <1>2, PTL DEF Spec, Lock!Spec

(* RWLock, seen through its proofs, is the same lock.                      *)
LEMMA SameLock ==
  /\ LockProofs!TypeOK <=> Lock!TypeOK
  /\ LockProofs!LockInv <=> Lock!LockInv
  /\ LockProofs!Init <=> Lock!Init
  /\ [LockProofs!Next]_(LockProofs!vars) <=> [Lock!Next]_(Lock!vars)
<1>1. LockProofs!TypeOK <=> Lock!TypeOK
  BY DEF LockProofs!TypeOK, Lock!TypeOK, LockProofs!Phase, Lock!Phase,
         LockProofs!Cardinality, Lock!Cardinality
<1>2. LockProofs!LockInv <=> Lock!LockInv
  BY DEF LockProofs!LockInv, Lock!LockInv, LockProofs!Counted, Lock!Counted,
         LockProofs!Entered, Lock!Entered, LockProofs!Writers, Lock!Writers,
         LockProofs!Cardinality, Lock!Cardinality
<1>3. LockProofs!Init <=> Lock!Init
  BY DEF LockProofs!Init, Lock!Init
<1>4. [LockProofs!Next]_(LockProofs!vars) <=> [Lock!Next]_(Lock!vars)
  BY Zenon DEF LockProofs!vars, Lock!vars, LockProofs!Next, Lock!Next, LockProofs!Proceed, Lock!Proceed,
         LockProofs!Call, Lock!Call, LockProofs!ReadLockEnter, Lock!ReadLockEnter,
         LockProofs!FirstReaderLocksWriteMtx, Lock!FirstReaderLocksWriteMtx,
         LockProofs!ReadLockReturn, Lock!ReadLockReturn, LockProofs!ReadUnlockEnter, Lock!ReadUnlockEnter,
         LockProofs!ReadUnlockReturn, Lock!ReadUnlockReturn, LockProofs!WriteLock, Lock!WriteLock,
         LockProofs!WriteUnlock, Lock!WriteUnlock, LockProofs!FirstReaderIn, Lock!FirstReaderIn,
         LockProofs!LastReaderOut, Lock!LastReaderOut
<1> QED
  BY <1>1, <1>2, <1>3, <1>4

(* The lock's invariant, in the storage.                                   *)
LEMMA LockHolds == Spec => [](Lock!TypeOK /\ Lock!LockInv)
<1>1. Lock!Init => LockProofs!Inv
  BY SameLock, LockProofs!InitInv, StorageAssumption DEF LockProofs!IsFiniteSet, IsFiniteSet
<1>2. LockProofs!Inv /\ [LockProofs!Next]_(LockProofs!vars) => LockProofs!Inv'
  BY LockProofs!NextInv, StorageAssumption DEF LockProofs!IsFiniteSet, IsFiniteSet
<1>3. LockProofs!Inv /\ [Lock!Next]_(Lock!vars) => LockProofs!Inv'
  BY <1>2, SameLock
<1>4. LockProofs!Inv => Lock!TypeOK /\ Lock!LockInv
  BY SameLock DEF LockProofs!Inv
<1> QED
  BY <1>1, <1>3, <1>4, StorageUsesLock, PTL DEF Lock!Spec
-----------------------------------------------------------------------------
(* The types.                                                              *)

(* The calls a step leaves have the type of calls.                         *)
LEMMA CallType ==
  /\ \A op \in {"none", "place", "read", "getIdx", "get_log"}, c \in Customer \cup {0}, n \in Int,
       at \in {"none", "push", "start", "finish", "record", "unlock", "count", "value", "leave",
               "pointers", "answer"} :
       Doing(op, c, n, at) \in Call /\ \A r \in Call : [r EXCEPT !.at = at] \in Call
  /\ Idle \in Call
BY DEF Call, Doing, Idle, NoBlock

(* A step of one thread does not touch the calls of the others, nor where  *)
(* they are in the lock.                                                   *)
LEMMA OthersUntouched ==
  ASSUME TypeOK, NEW t \in Thread, Step(t), NEW u \in Thread, u # t
  PROVE  call'[u] = call[u] /\ pc'[u] = pc[u]
<1>1. ASSUME Acquire(t) PROVE call'[u] = call[u] /\ pc'[u] = pc[u]
  BY <1>1 DEF Acquire, TypeOK, Lock!TypeOK, Lock!ReadLockEnter, Lock!FirstReaderLocksWriteMtx,
              Lock!ReadLockReturn, Lock!WriteLock
<1>2. ASSUME place_order(t) PROVE call'[u] = call[u] /\ pc'[u] = pc[u]
  BY <1>2 DEF place_order, TypeOK, Lock!TypeOK, PlaceOrder, Lock!Call, PushBack, Grow, StoreStart,
              StoreFinish, StoreRecord, PlaceOrderReturn, Lock!WriteUnlock, GoTo, lockVars
<1>3. ASSUME read_record(t) PROVE call'[u] = call[u] /\ pc'[u] = pc[u]
  BY <1>3 DEF read_record, TypeOK, Lock!TypeOK, ReadRecord, Lock!Call, Count, Value, ReadUnlock,
              ReadRecordReturn, Lock!ReadUnlockEnter, Lock!ReadUnlockReturn, GoTo, lockVars
<1>4. ASSUME getIdx_get_log(t) PROVE call'[u] = call[u] /\ pc'[u] = pc[u]
  BY <1>4 DEF getIdx_get_log, TypeOK, Lock!TypeOK, Peek, LoadStart, LoadFinish, PeekReturns,
              PeekEnds, lockVars
<1> QED
  BY <1>1, <1>2, <1>3, <1>4 DEF Step

(* The types are kept by a step that keeps those of the lock.              *)
LEMMA TypeStep ==
  ASSUME TypeOK, CallInv, NEW t \in Thread, Step(t), Lock!TypeOK'
  PROVE  TypeOK'
<1>a. call \in [Thread -> Call] /\ call[t] \in Call
  BY DEF TypeOK
<1>b. ASSUME NEW r \in Call, call' = [call EXCEPT ![t] = r] PROVE call' \in [Thread -> Call]
  BY <1>a, <1>b
<1>c. ASSUME NEW at \in {"none", "push", "start", "finish", "record", "unlock", "count", "value",
                         "leave", "pointers", "answer"}, GoTo(t, at)
      PROVE  call' \in [Thread -> Call]
  <2>1. [call[t] EXCEPT !.at = at] \in Call
    BY <1>a, CallType
  <2>2. call' = [call EXCEPT ![t] = [call[t] EXCEPT !.at = at]]
    BY <1>c DEF GoTo
  <2> HIDE DEF GoTo
  <2> QED
    BY <2>1, <2>2, <1>b
<1>1. CASE Acquire(t)
  BY <1>1 DEF Acquire, TypeOK, vectorVars, historyVars
<1>2. ASSUME NEW c \in Customer, NEW n \in Number, PlaceOrder(t, c, n) PROVE TypeOK'
  <2>1. Doing("place", c, n, "push") \in Call
    BY CallType, StorageAssumption
  <2>2. call' \in [Thread -> Call]
    BY <1>2, <1>b, <2>1 DEF PlaceOrder
  <2> QED
    BY <1>2, <2>2 DEF PlaceOrder, TypeOK, vectorVars, historyVars
<1>3. ASSUME NEW c \in Customer, ReadRecord(t, c) PROVE TypeOK'
  <2>1. Doing("read", c, -1, "count") \in Call
    BY CallType
  <2>2. call' \in [Thread -> Call]
    BY <1>3, <1>b, <2>1 DEF ReadRecord
  <2> QED
    BY <1>3, <2>2 DEF ReadRecord, TypeOK, vectorVars, historyVars
<1>4. CASE PushBack(t)
  <2>1. Entry(t) \in [cust : Customer, num : Number]
    BY <1>4 DEF PushBack, At, CallInv, CallOK, Placing, Entry
  <2>2. call' \in [Thread -> Call]
    BY <1>4, <1>c DEF PushBack
  <2>3. finish' \in [blk : Nat, n : Nat] /\ log' \in Seq([cust : Customer, num : Number])
    BY <1>4, <2>1 DEF PushBack, TypeOK
  <2> QED
    BY <1>4, <2>2, <2>3 DEF PushBack, TypeOK, historyVars
<1>5. CASE Grow(t)
  <2>1. call' \in [Thread -> Call]
    BY <1>5, <1>c DEF Grow
  <2>2. grew' \in BOOLEAN
    BY <1>5 DEF Grow, TypeOK
  <2>3. newest' \in Nat /\ capacity' \in Nat
    BY <1>5 DEF Grow, TypeOK
  <2> QED
    BY <1>5, <2>1, <2>2, <2>3 DEF Grow, TypeOK
<1>6. CASE StoreStart(t)
  <2>1. call' \in [Thread -> Call]
    BY <1>6, <1>c DEF StoreStart
  <2> QED
    BY <1>6, <2>1 DEF StoreStart, TypeOK, historyVars
<1>7. CASE StoreFinish(t)
  <2>1. Entry(t) \in [cust : Customer, num : Number]
    BY <1>7 DEF StoreFinish, At, CallInv, CallOK, Placing, Entry
  <2>2. call' \in [Thread -> Call]
    BY <1>7, <1>c DEF StoreFinish
  <2>3. finish' \in [blk : Nat, n : Nat] /\ log' \in Seq([cust : Customer, num : Number])
    BY <1>7, <2>1 DEF StoreFinish, TypeOK
  <2> QED
    BY <1>7, <2>2, <2>3 DEF StoreFinish, TypeOK, historyVars
<1>8. CASE StoreRecord(t)
  <2>1. call[t].cust \in Customer /\ call[t].num \in Number
    BY <1>8 DEF StoreRecord, At, CallInv, CallOK, Placing
  <2>2. call' \in [Thread -> Call]
    BY <1>8, <1>c DEF StoreRecord
  <2>3. DOMAIN customer_record' \subseteq Customer
        /\ \A c \in DOMAIN customer_record' : customer_record'[c] \in Number
    BY <1>8, <2>1 DEF StoreRecord, TypeOK
  <2> QED
    BY <1>8, <2>2, <2>3 DEF StoreRecord, TypeOK, vectorVars, historyVars
<1>10. CASE PlaceOrderReturn(t)
  BY <1>b, <1>10, CallType DEF PlaceOrderReturn, TypeOK, vectorVars, historyVars
<1>11. CASE Count(t)
  <2>1. call' \in [Thread -> Call]
    BY <1>11, <1>c DEF Count
  <2> QED
    BY <1>11, <2>1 DEF Count, TypeOK, vectorVars, historyVars
<1>12. CASE Value(t)
  <2>1. customer_record[call[t].cust] \in Int
    BY <1>12, StorageAssumption DEF Value, At, CallInv, CallOK, TypeOK
  <2>2. call' \in [Thread -> Call]
    BY <1>12, <1>a, <2>1 DEF Value, Call
  <2> QED
    BY <1>12, <2>2 DEF Value, TypeOK, vectorVars, historyVars
<1>13. CASE ReadUnlock(t)
  BY <1>13 DEF ReadUnlock, TypeOK, vectorVars, historyVars
<1>14. CASE ReadRecordReturn(t)
  BY <1>b, <1>14, CallType DEF ReadRecordReturn, TypeOK, vectorVars, historyVars
<1>15. ASSUME NEW op \in {"getIdx", "get_log"}, Peek(t, op) PROVE TypeOK'
  <2>1. Doing(op, 0, -1, "pointers") \in Call
    BY CallType
  <2>2. call' \in [Thread -> Call]
    BY <1>15, <1>b, <2>1 DEF Peek
  <2>3. grew' \in BOOLEAN /\ base' \in Nat
    BY <1>15 DEF Peek, Growing, TypeOK
  <2> QED
    BY <1>15, <2>2, <2>3 DEF Peek, TypeOK, vectorVars
<1>16. CASE LoadStart(t)
  <2>1. call' \in [Thread -> Call]
    BY <1>16, <1>a DEF LoadStart, TypeOK, Call
  <2> QED
    BY <1>16, <2>1 DEF LoadStart, TypeOK, vectorVars, historyVars
<1>17. CASE LoadFinish(t)
  <2>1. call' \in [Thread -> Call]
    BY <1>17, <1>a DEF LoadFinish, TypeOK, Call
  <2> QED
    BY <1>17, <2>1 DEF LoadFinish, TypeOK, vectorVars, historyVars
<1>18. CASE PeekReturns(t)
  <2> DEFINE answer == IF call[t].st # call[t].fin THEN Torn
                       ELSE IF call[t].op = "getIdx" THEN Index(call[t].size)
                       ELSE Copied(call[t].st, call[t].size)
  <2>1. call' = [call EXCEPT ![t] = Doing(call[t].op, 0, answer, "answer")]
    BY <1>18 DEF PeekReturns
  <2>2. call[t].size \in Int /\ call[t].op \in {"none", "place", "read", "getIdx", "get_log"}
    BY <1>a DEF Call
  <2>3. answer \in Int
    BY <2>2, StorageAssumption DEF Index, Copied
  <2> HIDE DEF answer
  <2>4. Doing(call[t].op, 0, answer, "answer") \in Call
    BY <2>2, <2>3, CallType
  <2>5. call' \in [Thread -> Call]
    BY <2>1, <2>4, <1>b
  <2> QED
    BY <1>18, <2>5 DEF PeekReturns, TypeOK, vectorVars, historyVars
<1>19. CASE PeekEnds(t)
  BY <1>b, <1>19, CallType DEF PeekEnds, TypeOK, vectorVars
<1> QED
  BY <1>1, <1>2, <1>3, <1>4, <1>5, <1>6, <1>7, <1>8, <1>10, <1>11, <1>12, <1>13, <1>14,
     <1>15, <1>16, <1>17, <1>18, <1>19 DEF Step, place_order, read_record, getIdx_get_log
-----------------------------------------------------------------------------
(* The calls.                                                              *)

(* A thread with the write lock excludes other writers and all readers.    *)
LEMMA Exclusion ==
  ASSUME Lock!LockInv, NEW t \in Thread, pc[t] = "writing", NEW u \in Thread, u # t
  PROVE  pc[u] \notin {"writing", "reading"}
BY DEF Lock!LockInv, Lock!Writers, Lock!Entered

(* Customers are never removed from the map.                               *)
LEMMA RecordsStay ==
  ASSUME NEW t \in Thread, Step(t)
  PROVE  DOMAIN customer_record \subseteq DOMAIN customer_record'
<1>1. ASSUME UNCHANGED customer_record PROVE DOMAIN customer_record \subseteq DOMAIN customer_record'
  BY <1>1
<1>2. CASE StoreRecord(t)
  BY <1>2 DEF StoreRecord
<1>3. CASE Acquire(t)
  BY <1>1, <1>3 DEF Acquire
<1>4. ASSUME place_order(t), ~StoreRecord(t) PROVE UNCHANGED customer_record
  BY <1>4 DEF place_order, PlaceOrder, PushBack, Grow, StoreStart, StoreFinish, PlaceOrderReturn
<1>5. ASSUME read_record(t) PROVE UNCHANGED customer_record
  BY <1>5 DEF read_record, ReadRecord, Count, Value, ReadUnlock, ReadRecordReturn
<1>6. ASSUME getIdx_get_log(t) PROVE UNCHANGED customer_record
  BY <1>6 DEF getIdx_get_log, Peek, LoadStart, LoadFinish, PeekReturns, PeekEnds
<1> QED
  BY <1>1, <1>2, <1>3, <1>4, <1>5, <1>6 DEF Step

(* Every step leaves each call where its thread is in the lock.            *)
LEMMA CallStep ==
  ASSUME TypeOK, CallInv, NEW t \in Thread, Step(t)
  PROVE  CallInv'
<1>a. /\ call \in [Thread -> Call] /\ call[t] \in Call /\ CallOK(t)
      /\ pc \in [Thread -> Lock!Phase]
  BY DEF TypeOK, CallInv, Lock!TypeOK
<1>b. ASSUME NEW u \in Thread, u # t PROVE CallOK(u)'
  <2>1. call'[u] = call[u] /\ pc'[u] = pc[u] /\ CallOK(u)
    BY <1>b, OthersUntouched DEF CallInv
  <2>2. DOMAIN customer_record \subseteq DOMAIN customer_record'
    BY RecordsStay
  <2> QED
    BY <2>1, <2>2 DEF CallOK, Placing, Changing
<1>c. SUFFICES CallOK(t)'
  BY <1>b DEF CallInv
<1>d. ASSUME NEW r, call' = [call EXCEPT ![t] = r] PROVE call'[t] = r
  BY <1>a, <1>d
<1>e. ASSUME NEW at, GoTo(t, at)
      PROVE  /\ call'[t].at = at /\ call'[t].op = call[t].op
             /\ call'[t].cust = call[t].cust /\ call'[t].num = call[t].num
  <2>1. call'[t] = [call[t] EXCEPT !.at = at]
    BY <1>a, <1>e DEF GoTo
  <2> QED
    BY <1>a, <2>1 DEF Call
<1>f. ASSUME NEW op, NEW c, NEW n, NEW at, call'[t] = Doing(op, c, n, at)
      PROVE  call'[t].op = op /\ call'[t].cust = c /\ call'[t].num = n /\ call'[t].at = at
  BY <1>f DEF Doing
<1>1. CASE Acquire(t)
  <2>1. call' = call /\ customer_record' = customer_record
    BY <1>1 DEF Acquire
  <2>2. \/ pc[t] = "wantRead" /\ pc'[t] \in {"first", "entered"}
        \/ pc[t] = "first" /\ pc'[t] = "entered"
        \/ pc[t] = "entered" /\ pc'[t] = "reading"
        \/ pc[t] = "wantWrite" /\ pc'[t] = "writing"
    BY <1>1, <1>a DEF Acquire, Lock!ReadLockEnter, Lock!FirstReaderLocksWriteMtx,
                      Lock!ReadLockReturn, Lock!WriteLock
  <2>3. call[t].at \in {"count", "push"}
    BY <1>a, <2>2 DEF CallOK, Changing, Call
  <2> QED
    BY <1>a, <2>1, <2>2, <2>3 DEF CallOK, Placing, Changing
<1>2. ASSUME NEW c \in Customer, NEW n \in Number, PlaceOrder(t, c, n) PROVE CallOK(t)'
  <2>1. pc'[t] = "wantWrite"
    BY <1>a, <1>2 DEF PlaceOrder, Lock!Call
  <2>2. call'[t] = Doing("place", c, n, "push")
    BY <1>2, <1>d DEF PlaceOrder
  <2>3. call'[t].op = "place" /\ call'[t].cust = c /\ call'[t].num = n /\ call'[t].at = "push"
    BY <2>2, <1>f
  <2> QED
    BY <2>1, <2>3 DEF CallOK, Placing, Changing
<1>3. ASSUME NEW c \in Customer, ReadRecord(t, c) PROVE CallOK(t)'
  <2>1. pc'[t] = "wantRead"
    BY <1>a, <1>3 DEF ReadRecord, Lock!Call
  <2>2. call'[t] = Doing("read", c, -1, "count")
    BY <1>3, <1>d DEF ReadRecord
  <2>3. call'[t].op = "read" /\ call'[t].cust = c /\ call'[t].num = -1 /\ call'[t].at = "count"
    BY <2>2, <1>f
  <2> QED
    BY <2>1, <2>3 DEF CallOK, Placing, Changing
<1>4. ASSUME PushBack(t) \/ Grow(t) \/ StoreStart(t) \/ StoreFinish(t) \/ StoreRecord(t)
      PROVE  CallOK(t)'
  <2>1. pc' = pc /\ pc[t] = "writing"
    BY <1>4 DEF PushBack, Grow, StoreStart, StoreFinish, StoreRecord, At, lockVars
  <2>2. Placing(t)
    BY <1>4 DEF PushBack, Grow, StoreStart, StoreFinish, StoreRecord, At, Placing
  <2>3. GoTo(t, "record") \/ GoTo(t, "start") \/ GoTo(t, "finish") \/ GoTo(t, "unlock")
    BY <1>4 DEF PushBack, Grow, StoreStart, StoreFinish, StoreRecord
  <2>4. /\ call'[t].at \in {"record", "start", "finish", "unlock"} /\ call'[t].op = call[t].op
        /\ call'[t].cust = call[t].cust /\ call'[t].num = call[t].num
    BY <2>3, <1>e
  <2> QED
    BY <1>a, <2>1, <2>2, <2>4 DEF CallOK, Placing, Changing
<1>5. ASSUME call' = [call EXCEPT ![t] = Idle], pc'[t] = "out" PROVE CallOK(t)'
  <2>1. call'[t] = Idle
    BY <1>5, <1>d
  <2>2. call'[t].at = "none"
    BY <2>1 DEF Idle, Doing
  <2> QED
    BY <1>5, <2>1, <2>2 DEF CallOK, Placing, Changing
<1>6. CASE PlaceOrderReturn(t)
  BY <1>a, <1>5, <1>6 DEF PlaceOrderReturn, Lock!WriteUnlock
<1>7. CASE Count(t)
  <2>1. pc' = pc /\ pc[t] = "reading" /\ call[t].at = "count" /\ customer_record' = customer_record
    BY <1>7 DEF Count, At, lockVars
  <2>2. \/ GoTo(t, "value") /\ call[t].cust \in DOMAIN customer_record
        \/ GoTo(t, "leave")
    BY <1>7 DEF Count
  <2>3. /\ call'[t].op = call[t].op /\ call'[t].cust = call[t].cust /\ call'[t].num = call[t].num
        /\ \/ call'[t].at = "value" /\ call[t].cust \in DOMAIN customer_record
           \/ call'[t].at = "leave"
    BY <2>2, <1>e
  <2> QED
    BY <1>a, <2>1, <2>3 DEF CallOK, Placing, Changing
<1>8. CASE Value(t)
  <2>1. pc' = pc /\ pc[t] = "reading" /\ call[t].at = "value"
    BY <1>8 DEF Value, At, lockVars
  <2>2. /\ call'[t].op = call[t].op /\ call'[t].cust = call[t].cust
        /\ call'[t].at = "leave"
    BY <1>a, <1>8 DEF Value, Call
  <2> QED
    BY <1>a, <2>1, <2>2 DEF CallOK, Placing, Changing
<1>9. CASE ReadUnlock(t)
  <2>1. call' = call /\ call[t].at = "leave" /\ pc'[t] = "leaving"
    BY <1>a, <1>9 DEF ReadUnlock, Lock!ReadUnlockEnter
  <2> QED
    BY <1>a, <2>1 DEF CallOK, Placing, Changing
<1>10. CASE ReadRecordReturn(t)
  BY <1>a, <1>5, <1>10 DEF ReadRecordReturn, Lock!ReadUnlockReturn
<1>11. ASSUME NEW op \in {"getIdx", "get_log"}, Peek(t, op) PROVE CallOK(t)'
  <2>1. pc'[t] = "out" /\ t = Admin
    BY <1>11 DEF Peek, lockVars
  <2>2. call'[t] = Doing(op, 0, -1, "pointers")
    BY <1>11, <1>d DEF Peek
  <2>3. call'[t].op = op /\ call'[t].at = "pointers"
    BY <2>2, <1>f
  <2> QED
    BY <2>1, <2>3 DEF CallOK, Placing, Changing
<1>12. ASSUME LoadStart(t) \/ LoadFinish(t) PROVE CallOK(t)'
  <2>1. pc' = pc /\ call[t].at = "pointers"
    BY <1>12 DEF LoadStart, LoadFinish, lockVars
  <2>2. call'[t].at = "pointers" /\ call'[t].op = call[t].op
    BY <1>a, <1>12 DEF LoadStart, LoadFinish, Call
  <2> QED
    BY <1>a, <2>1, <2>2 DEF CallOK, Placing, Changing
<1>13. CASE PeekReturns(t)
  <2>1. pc' = pc /\ call[t].at = "pointers"
    BY <1>13 DEF PeekReturns, lockVars
  <2>2. PICK answer : call' = [call EXCEPT ![t] = Doing(call[t].op, 0, answer, "answer")]
    BY <1>13 DEF PeekReturns
  <2>3. call'[t] = Doing(call[t].op, 0, answer, "answer")
    BY <2>2, <1>d
  <2>4. call'[t].op = call[t].op /\ call'[t].at = "answer"
    BY <2>3, <1>f
  <2> QED
    BY <1>a, <2>1, <2>4 DEF CallOK, Placing, Changing
<1>14. CASE PeekEnds(t)
  <2>1. pc'[t] = "out"
    BY <1>a, <1>14 DEF PeekEnds, CallOK, lockVars
  <2> QED
    BY <1>5, <1>14, <2>1 DEF PeekEnds
<1> QED
  BY <1>1, <1>2, <1>3, <1>4, <1>6, <1>7, <1>8, <1>9, <1>10, <1>11, <1>12, <1>13, <1>14
     DEF Step, place_order, read_record, getIdx_get_log
-----------------------------------------------------------------------------
(* The last entry of a customer.                                           *)

(* A set of natural numbers that is not empty has a least element.         *)
LEMMA LeastExists == \A T \in SUBSET Nat : T # {} => \E x \in T : \A y \in T : x <= y
<1> DEFINE R == OpToRel(<, Nat)
<1>1. IsWellFoundedOn(R, Nat)
  BY NatLessThanWellFounded
<1>2. \A x, y \in Nat : <<x, y>> \in R <=> x < y
  BY DEF OpToRel
<1> HIDE DEF R
<1>3. ASSUME NEW T \in SUBSET Nat, T # {} PROVE \E x \in T : \A y \in T : x <= y
  <2>1. PICK x \in T : \A y \in T : ~(<<y, x>> \in R)
    BY <1>1, <1>3, WFMin
  <2>2. ASSUME NEW y \in T PROVE x <= y
    <3>1. x \in Nat /\ y \in Nat /\ ~(<<y, x>> \in R)
      BY <1>3, <2>1, <2>2
    <3>2. ~(y < x)
      BY <3>1, <1>2
    <3> QED
      BY <3>1, <3>2
  <2> QED
    BY <2>2
<1> QED
  BY <1>3

(* So among some places of a list there is a last one.                     *)
LEMMA LastExists ==
  ASSUME NEW n \in Nat, NEW S \in SUBSET (1..n), S # {}
  PROVE  \E i \in S : \A j \in S : j <= i
<1> DEFINE T == {n - i : i \in S}
<1>1. \A i \in S : i \in 1..n /\ n - i \in Nat
  OBVIOUS
<1>2. T \in SUBSET Nat /\ T # {}
  BY <1>1
<1>3. PICK x \in T : \A y \in T : x <= y
  BY <1>2, LeastExists
<1>4. PICK i \in S : x = n - i
  BY <1>3
<1>5. \A j \in S : n - j \in T
  OBVIOUS
<1> HIDE DEF T
<1> QED
  BY <1>1, <1>3, <1>4, <1>5

(* Appending an entry changes the last entry of its own customer only.     *)
LEMMA LatestAppend ==
  ASSUME NEW l \in Seq([cust : Customer, num : Number]), NEW e \in [cust : Customer, num : Number], NEW c
  PROVE  Atomic!Latest(Append(l, e), c) = IF e.cust = c THEN e.num ELSE Atomic!Latest(l, c)
<1> DEFINE m == Append(l, e)
           old == Atomic!Entries(l, c)
           new == Atomic!Entries(m, c)
           Last(S) == CHOOSE i \in S : \A j \in S : j <= i
<1>1. /\ Len(l) \in Nat /\ Len(m) = Len(l) + 1 /\ m[Len(l) + 1] = e
      /\ \A i \in 1..Len(l) : m[i] = l[i]
  OBVIOUS
<1>2. old \in SUBSET (1..Len(l)) /\ \A i \in old : l[i].cust = c
  BY DEF Atomic!Entries
<1>3. new = IF e.cust = c THEN old \cup {Len(l) + 1} ELSE old
  BY <1>1 DEF Atomic!Entries
<1> HIDE DEF m, old, new
<1>4. /\ Atomic!Latest(m, c) = IF new = {} THEN -1 ELSE m[Last(new)].num
      /\ Atomic!Latest(l, c) = IF old = {} THEN -1 ELSE l[Last(old)].num
  BY DEF Atomic!Latest, new, old
<1>5. CASE e.cust = c
  <2>1. Len(l) + 1 \in new /\ \A j \in new : j <= Len(l) + 1
    BY <1>1, <1>2, <1>3, <1>5
  <2>2. Last(new) \in new /\ \A j \in new : j <= Last(new)
    BY <2>1
  <2> HIDE DEF Last
  <2>3. (\A j \in new : j \in Int) /\ Len(l) + 1 \in Int
    BY <1>1, <1>2, <1>3
  <2>4. Last(new) = Len(l) + 1
    BY <2>1, <2>2, <2>3
  <2> QED
    BY <1>1, <1>4, <1>5, <2>1, <2>4 DEF m
<1>6. CASE e.cust # c /\ old # {}
  <2>1. \E i \in old : \A j \in old : j <= i
    BY <1>1, <1>2, <1>6, LastExists
  <2>2. Last(old) \in old
    BY <2>1
  <2> HIDE DEF Last
  <2>3. m[Last(old)] = l[Last(old)]
    BY <1>1, <1>2, <2>2
  <2> QED
    BY <1>3, <1>4, <1>6, <2>3 DEF m
<1>7. CASE e.cust # c /\ old = {}
  BY <1>3, <1>4, <1>7 DEF m
<1> QED
  BY <1>5, <1>6, <1>7
-----------------------------------------------------------------------------
(* The vector and the calls that read it without the lock.                 *)

Growth == {"start", "finish"}
SameGrowth(t) == \A at \in Growth : call'[t].at = at <=> call[t].at = at

(* What a step changes of its own thread's call.                           *)
LEMMA Moved ==
  ASSUME TypeOK, NEW t \in Thread
  PROVE  /\ \A at : GoTo(t, at) =>
               /\ call'[t].at = at /\ call'[t].op = call[t].op
               /\ call'[t].cust = call[t].cust /\ call'[t].num = call[t].num
         /\ \A op, c, n, at : call' = [call EXCEPT ![t] = Doing(op, c, n, at)] =>
               /\ call'[t].at = at /\ call'[t].op = op /\ call'[t].cust = c /\ call'[t].num = n
               /\ call'[t].st = NoBlock /\ call'[t].fin = NoBlock
         /\ call' = [call EXCEPT ![t] = Idle] => call'[t].at = "none" /\ call'[t].op = "none"
<1>1. call \in [Thread -> Call] /\ call[t] \in Call
  BY DEF TypeOK
<1>2. ASSUME NEW at, GoTo(t, at)
      PROVE  /\ call'[t].at = at /\ call'[t].op = call[t].op
             /\ call'[t].cust = call[t].cust /\ call'[t].num = call[t].num
  <2>1. call'[t] = [call[t] EXCEPT !.at = at]
    BY <1>1, <1>2 DEF GoTo
  <2> QED
    BY <1>1, <2>1 DEF Call
<1>3. ASSUME NEW op, NEW c, NEW n, NEW at, call' = [call EXCEPT ![t] = Doing(op, c, n, at)]
      PROVE  /\ call'[t].at = at /\ call'[t].op = op /\ call'[t].cust = c /\ call'[t].num = n
             /\ call'[t].st = NoBlock /\ call'[t].fin = NoBlock
  <2>1. call'[t] = Doing(op, c, n, at)
    BY <1>1, <1>3
  <2> QED
    BY <2>1 DEF Doing
<1>4. ASSUME call' = [call EXCEPT ![t] = Idle] PROVE call'[t].at = "none" /\ call'[t].op = "none"
  BY <1>3, <1>4 DEF Idle
<1> QED
  BY <1>2, <1>3, <1>4

(* The steps that are none of push_back leave the vector alone, and no     *)
(* thread begins or ends moving its entries.                               *)
LEMMA Quiet ==
  ASSUME TypeOK, CallInv, NEW t \in Thread, Step(t),
         ~PushBack(t), ~Grow(t), ~StoreStart(t), ~StoreFinish(t)
  PROVE  UNCHANGED vectorVars /\ \A u \in Thread : SameGrowth(u)
<1>0. SUFFICES UNCHANGED vectorVars /\ SameGrowth(t)
  BY OthersUntouched DEF SameGrowth
<1> USE DEF Growth, SameGrowth
<1>1. CASE Acquire(t)
  BY <1>1 DEF Acquire
<1>2. ASSUME NEW c, NEW n, PlaceOrder(t, c, n)
      PROVE  UNCHANGED vectorVars /\ SameGrowth(t)
  BY <1>2, Moved DEF PlaceOrder, Idle, Doing
<1>3. CASE StoreRecord(t)
  BY <1>3, Moved DEF StoreRecord, At
<1>4. CASE PlaceOrderReturn(t)
  BY <1>4, Moved DEF PlaceOrderReturn
<1>5. ASSUME NEW c, ReadRecord(t, c)
      PROVE  UNCHANGED vectorVars /\ SameGrowth(t)
  BY <1>5, Moved DEF ReadRecord, Idle, Doing
<1>6. CASE Count(t)
  <2>1. GoTo(t, "value") \/ GoTo(t, "leave")
    BY <1>6 DEF Count
  <2>2. call'[t].at \in {"value", "leave"}
    BY <2>1, Moved
  <2> QED
    BY <1>6, <2>2 DEF Count, At
<1>7. CASE Value(t)
  <2>1. call'[t].at = "leave"
    BY <1>7 DEF Value, TypeOK, Call
  <2> QED
    BY <1>7, <2>1 DEF Value, At
<1>8. CASE ReadUnlock(t)
  BY <1>8 DEF ReadUnlock
<1>9. CASE ReadRecordReturn(t)
  <2>1. pc[t] = "leaving"
    BY <1>9 DEF ReadRecordReturn, Lock!ReadUnlockReturn
  <2>2. call[t].at \notin Growth
    BY <1>9, <2>1 DEF CallInv, CallOK, Changing
  <2> QED
    BY <1>9, <2>2, Moved DEF ReadRecordReturn
<1>10. ASSUME NEW op, Peek(t, op)
       PROVE  UNCHANGED vectorVars /\ SameGrowth(t)
  BY <1>10, Moved DEF Peek, Idle, Doing
<1>11. ASSUME LoadStart(t) \/ LoadFinish(t)
       PROVE  UNCHANGED vectorVars /\ SameGrowth(t)
  <2>1. call'[t].at = call[t].at
    BY <1>11 DEF LoadStart, LoadFinish, TypeOK, Call
  <2> QED
    BY <1>11, <2>1 DEF LoadStart, LoadFinish
<1>12. CASE PeekReturns(t)
  <2>1. PICK answer : call' = [call EXCEPT ![t] = Doing(call[t].op, 0, answer, "answer")]
    BY <1>12 DEF PeekReturns
  <2>2. call'[t].at = "answer"
    BY <2>1 DEF TypeOK, Doing
  <2> QED
    BY <1>12, <2>2 DEF PeekReturns
<1>13. CASE PeekEnds(t)
  BY <1>13, Moved DEF PeekEnds
<1> QED
  BY <1>1, <1>2, <1>3, <1>4, <1>5, <1>6, <1>7, <1>8, <1>9, <1>10, <1>11, <1>12, <1>13
     DEF Step, place_order, read_record, getIdx_get_log

(* A thread that appends is the only one inside a changing section.        *)
LEMMA OneChanger ==
  ASSUME CallInv, Lock!LockInv, NEW t \in Thread, pc[t] = "writing", NEW u \in Thread, u # t
  PROVE  ~Changing(u)
BY Exclusion DEF CallInv, CallOK

(* push_back keeps the pointers together, or leaves them apart only while  *)
(* its thread is at work.                                                  *)
LEMMA VectorStep ==
  ASSUME TypeOK, CallInv, Lock!LockInv, VectorInv, NEW t \in Thread, Step(t)
  PROVE  VectorInv'
<1>a. Len(log) \in Nat /\ finish \in [blk : Nat, n : Nat] /\ capacity \in Nat /\ newest \in Nat
  BY DEF TypeOK
<1>b. Growing <=> \E u \in Thread : call[u].at \in Growth
  BY DEF Growing, Growth
<1>c. Growing' <=> \E u \in Thread : call'[u].at \in Growth
  BY DEF Growing, Growth
<1>d. ASSUME pc[t] = "writing"
      PROVE  /\ Growing <=> call[t].at \in Growth
             /\ Growing' <=> call'[t].at \in Growth
  <2>1. \A u \in Thread : u # t => call[u].at \notin Growth /\ call'[u].at \notin Growth
    BY <1>d, OneChanger, OthersUntouched DEF Changing, Growth
  <2> QED
    BY <1>b, <1>c, <2>1
<1>e. ASSUME pc[t] = "writing", NEW u \in Thread, call'[u].at = "finish" PROVE u = t
  <2>1. SUFFICES ASSUME u # t PROVE FALSE
    OBVIOUS
  <2>2. call[u].at = "finish"
    BY <1>e, <2>1, OthersUntouched
  <2> QED
    BY <1>e, <2>1, <2>2, OneChanger DEF Changing
<1>1. CASE PushBack(t)
  <2>1. ~Growing /\ ~Growing'
    BY <1>1, <1>d, Moved DEF PushBack, At, Growth
  <2>2. Len(log') = Len(log) + 1
    BY <1>1 DEF PushBack, TypeOK
  <2>3. finish'.n = finish.n + 1 /\ finish'.blk = finish.blk
    BY <1>1, <1>a DEF PushBack
  <2> QED
    BY <1>1, <1>a, <1>e, <2>1, <2>2, <2>3, Moved DEF PushBack, At, VectorInv
<1>2. CASE Grow(t)
  <2>1. Growing'
    BY <1>2, <1>d, Moved DEF Grow, At, Growth
  <2>2. Len(log) < capacity'
    BY <1>2, <1>a DEF Grow
  <2> QED
    BY <1>2, <1>a, <1>e, <2>1, <2>2, Moved DEF Grow, At, VectorInv
<1>3. CASE StoreStart(t)
  <2>1. Growing /\ Growing'
    BY <1>3, <1>d, Moved DEF StoreStart, At, Growth
  <2> QED
    BY <1>3, <2>1 DEF StoreStart, VectorInv
<1>4. CASE StoreFinish(t)
  <2>1. Growing /\ ~Growing'
    BY <1>4, <1>d, Moved DEF StoreFinish, At, Growth
  <2>2. Len(log') = Len(log) + 1
    BY <1>4 DEF StoreFinish, TypeOK
  <2>3. start = newest
    BY <1>4 DEF StoreFinish, At, VectorInv
  <2> QED
    BY <1>4, <1>a, <2>1, <2>2, <2>3 DEF StoreFinish, VectorInv
<1>5. CASE ~PushBack(t) /\ ~Grow(t) /\ ~StoreStart(t) /\ ~StoreFinish(t)
  <2>1. UNCHANGED vectorVars /\ \A u \in Thread : SameGrowth(u)
    BY <1>5, Quiet
  <2>2. Growing' <=> Growing
    BY <1>b, <1>c, <2>1 DEF SameGrowth
  <2>3. \A u \in Thread : call'[u].at = "finish" <=> call[u].at = "finish"
    BY <2>1 DEF SameGrowth, Growth
  <2> QED
    BY <2>1, <2>2, <2>3 DEF vectorVars, VectorInv
<1> QED
  BY <1>1, <1>2, <1>3, <1>4, <1>5

(* What the admin thread has loaded without the lock belongs together      *)
(* unless push_back moved the entries meanwhile.                           *)
LEMMA PeekStep ==
  ASSUME TypeOK, CallInv, Lock!LockInv, VectorInv, PeekInv, TypeOK', NEW t \in Thread, Step(t)
  PROVE  PeekInv'
<1>a. /\ Admin \in Thread /\ Len(log) \in Nat /\ Len(log') \in Nat /\ base \in Nat
      /\ call \in [Thread -> Call] /\ call[Admin] \in Call /\ call'[Admin] \in Call
  BY StorageAssumption DEF TypeOK
<1>b. Growing <=> \E u \in Thread : call[u].at \in Growth
  BY DEF Growing, Growth
<1>c. Growing' <=> \E u \in Thread : call'[u].at \in Growth
  BY DEF Growing, Growth
<1>d. ASSUME call'[Admin].at \notin {"pointers", "answer"} PROVE PeekInv'
  BY <1>d DEF PeekInv
<1>1. ASSUME PushBack(t) \/ Grow(t) \/ StoreStart(t) \/ StoreFinish(t), t = Admin PROVE PeekInv'
  <2>1. GoTo(t, "record") \/ GoTo(t, "start") \/ GoTo(t, "finish")
    BY <1>1 DEF PushBack, Grow, StoreStart, StoreFinish
  <2>2. call'[t].at \in {"record", "start", "finish"}
    BY <2>1, Moved
  <2> QED
    BY <1>1, <1>d, <2>2
<1>2. ASSUME PushBack(t) \/ Grow(t) \/ StoreStart(t) \/ StoreFinish(t), t # Admin PROVE PeekInv'
  <2>1. call'[Admin] = call[Admin] /\ base' = base
    BY <1>a, <1>2, OthersUntouched DEF PushBack, Grow, StoreStart, StoreFinish, historyVars
  <2>2. CASE PushBack(t)
    <3>1. Len(log') = Len(log) + 1 /\ newest' = newest /\ grew' = grew
      BY <2>2 DEF PushBack, TypeOK, historyVars
    <3>2. Growing' => Growing
      <4>1. call'[t].at \notin Growth
        BY <2>2, Moved DEF PushBack, Growth
      <4>2. \A u \in Thread : u # t => call'[u].at = call[u].at
        BY OthersUntouched
      <4> QED
        BY <1>b, <1>c, <4>1, <4>2
    <3> QED
      BY <1>a, <2>1, <3>1, <3>2 DEF PeekInv, Call
  <2>3. CASE Grow(t)
    BY <1>a, <2>1, <2>3 DEF Grow, PeekInv
  <2>4. CASE StoreStart(t) \/ StoreFinish(t)
    <3>1. Growing /\ grew' = grew
      BY <2>4 DEF StoreStart, StoreFinish, At, Growing, historyVars
    <3>2. Len(log') = Len(log) \/ Len(log') = Len(log) + 1
      BY <2>4 DEF StoreStart, StoreFinish, TypeOK
    <3> QED
      BY <1>a, <2>1, <3>1, <3>2 DEF PeekInv, Call
  <2> QED
    BY <1>2, <2>2, <2>3, <2>4
<1>3. ASSUME ~PushBack(t), ~Grow(t), ~StoreStart(t), ~StoreFinish(t) PROVE PeekInv'
  <2>1. UNCHANGED vectorVars /\ \A u \in Thread : SameGrowth(u)
    BY <1>3, Quiet
  <2>2. Growing' <=> Growing
    BY <1>b, <1>c, <2>1 DEF SameGrowth
  <2>3. ASSUME call'[Admin] = call[Admin], UNCHANGED historyVars PROVE PeekInv'
    BY <2>1, <2>2, <2>3 DEF PeekInv, vectorVars, historyVars
  <2>4. ASSUME t # Admin PROVE PeekInv'
    <3>1. call'[Admin] = call[Admin]
      BY <1>a, <2>4, OthersUntouched
    <3>2. CASE Acquire(t)
      BY <2>3, <3>1, <3>2 DEF Acquire
    <3>3. CASE place_order(t)
      BY <1>3, <2>3, <3>1, <3>3 DEF place_order, PlaceOrder, StoreRecord, PlaceOrderReturn
    <3>4. CASE read_record(t)
      BY <2>3, <3>1, <3>4 DEF read_record, ReadRecord, Count, Value, ReadUnlock, ReadRecordReturn
    <3>5. CASE LoadStart(t) \/ LoadFinish(t) \/ PeekReturns(t)
      BY <2>3, <3>1, <3>5 DEF LoadStart, LoadFinish, PeekReturns
    <3>6. ~PeekEnds(t) /\ \A op : ~Peek(t, op)
      BY <2>4 DEF PeekEnds, Peek, CallInv, CallOK
    <3> QED
      BY <3>2, <3>3, <3>4, <3>5, <3>6 DEF Step, getIdx_get_log
  <2>5. ASSUME t = Admin PROVE PeekInv'
    <3>1. CASE Acquire(t)
      BY <2>3, <3>1 DEF Acquire
    <3>2. CASE place_order(t)
      <4>1. PICK c \in Customer, n \in Number : PlaceOrder(t, c, n) \/ StoreRecord(t) \/ PlaceOrderReturn(t)
        BY <1>3, <3>2 DEF place_order, StoreRecord, PlaceOrderReturn, At, CallInv, CallOK, Placing
      <4>2. call'[t].at \in {"push", "unlock", "none"}
        <5>1. PlaceOrder(t, c, n) => call'[t].at = "push"
          BY DEF PlaceOrder, TypeOK, Doing
        <5>2. StoreRecord(t) => call'[t].at = "unlock"
          BY Moved DEF StoreRecord
        <5>3. PlaceOrderReturn(t) => call'[t].at = "none"
          BY Moved DEF PlaceOrderReturn
        <5> QED
          BY <4>1, <5>1, <5>2, <5>3
      <4> QED
        BY <1>d, <2>5, <4>2
    <3>3. CASE read_record(t)
      <4>1. pc[t] # "out" /\ call[t].at \notin {"pointers", "answer"}
        BY <2>5, <3>3 DEF read_record, ReadRecord, Count, Value, ReadUnlock, ReadRecordReturn, At,
             Lock!ReadUnlockEnter, Lock!ReadUnlockReturn, CallInv, CallOK
      <4>2. CASE ReadUnlock(t)
        BY <2>3, <4>2 DEF ReadUnlock
      <4>3. CASE ReadRecordReturn(t)
        BY <1>d, <2>5, <4>3, Moved DEF ReadRecordReturn
      <4>4. CASE Count(t)
        <5>1. GoTo(t, "value") \/ GoTo(t, "leave")
          BY <4>4 DEF Count
        <5>2. call'[t].at \in {"value", "leave"}
          BY <5>1, Moved
        <5> QED
          BY <1>d, <2>5, <5>2
      <4>5. CASE Value(t)
        <5>1. call'[t].at = "leave"
          BY <4>5 DEF Value, TypeOK, Call
        <5> QED
          BY <1>d, <2>5, <5>1
      <4> QED
        BY <2>5, <3>3, <4>2, <4>3, <4>4, <4>5 DEF read_record, ReadRecord
    <3>4. ASSUME NEW op \in {"getIdx", "get_log"}, Peek(t, op) PROVE PeekInv'
      <4>1. call'[t].at = "pointers" /\ call'[t].st = NoBlock /\ call'[t].fin = NoBlock
        BY <3>4 DEF Peek, TypeOK, Doing
      <4>2. base' = Len(log') /\ (grew' <=> Growing)
        BY <2>1, <3>4 DEF Peek, vectorVars
      <4> QED
        BY <1>a, <2>2, <2>5, <4>1, <4>2 DEF PeekInv
    <3>5. CASE LoadStart(t)
      <4>1. /\ call[t].at = "pointers" /\ call'[t].at = "pointers" /\ call'[t].st = start
            /\ call'[t].fin = call[t].fin /\ call'[t].size = call[t].size
        BY <1>a, <2>5, <3>5 DEF LoadStart, Call
      <4>2. base' = base /\ grew' = grew /\ newest' = newest /\ log' = log
        BY <2>1, <3>5 DEF LoadStart, historyVars, vectorVars
      <4> QED
        BY <1>a, <2>2, <2>5, <4>1, <4>2 DEF PeekInv, VectorInv
    <3>6. CASE LoadFinish(t)
      <4>1. /\ call[t].at = "pointers" /\ call'[t].at = "pointers" /\ call'[t].st = call[t].st
            /\ call'[t].fin = finish.blk /\ call'[t].size = finish.n
        BY <1>a, <2>5, <3>6 DEF LoadFinish, Call
      <4>2. base' = base /\ grew' = grew /\ newest' = newest /\ log' = log
        BY <2>1, <3>6 DEF LoadFinish, historyVars, vectorVars
      <4> QED
        BY <1>a, <2>2, <2>5, <4>1, <4>2 DEF PeekInv, VectorInv
    <3>7. CASE PeekReturns(t)
      <4> DEFINE answer == IF call[t].st # call[t].fin THEN Torn
                           ELSE IF call[t].op = "getIdx" THEN Index(call[t].size)
                           ELSE Copied(call[t].st, call[t].size)
      <4>1. call' = [call EXCEPT ![t] = Doing(call[t].op, 0, answer, "answer")]
        BY <3>7 DEF PeekReturns
      <4>2. call'[t] = Doing(call[t].op, 0, answer, "answer")
        BY <1>a, <2>5, <4>1
      <4>3. call[t].at = "pointers" /\ call[t].st # NoBlock /\ call[t].fin # NoBlock
        BY <3>7 DEF PeekReturns
      <4>4. base' = base /\ grew' = grew /\ newest' = newest /\ log' = log
        BY <2>1, <3>7 DEF PeekReturns, historyVars, vectorVars
      <4>5. ~grew => call[t].st = newest /\ call[t].fin = newest /\ call[t].size \in base..Len(log)
        BY <2>5, <4>3 DEF PeekInv
      <4>6. ~grew => answer = IF call[t].op = "getIdx" THEN call[t].size - 1 ELSE call[t].size
        BY <4>5 DEF Index, Copied, TypeOK
      <4> HIDE DEF answer
      <4>7. call'[t].at = "answer" /\ call'[t].op = call[t].op /\ call'[t].num = answer
        BY <4>2 DEF Doing
      <4> QED
        BY <1>a, <2>5, <4>4, <4>5, <4>6, <4>7 DEF PeekInv
    <3>8. CASE PeekEnds(t)
      BY <1>d, <2>5, <3>8, Moved DEF PeekEnds
    <3> QED
      BY <3>1, <3>2, <3>3, <3>4, <3>5, <3>6, <3>7, <3>8 DEF Step, getIdx_get_log
  <2> QED
    BY <2>4, <2>5
<1> QED
  BY <1>1, <1>2, <1>3
-----------------------------------------------------------------------------
(* The record map.                                                         *)

(* A list that ends with an entry has it as its customer's last one.       *)
LEMMA LatestOfLast ==
  ASSUME NEW l \in Seq([cust : Customer, num : Number]), l # << >>
  PROVE  Atomic!Latest(l, l[Len(l)].cust) = l[Len(l)].num
<1> DEFINE E == [cust : Customer, num : Number]
<1> HIDE DEF E
<1>1. l \in Seq(E)
  BY DEF E
<1>2. PICK s \in Seq(E), e \in E : l = Append(s, e)
  BY <1>1, SequenceEmptyOrAppend
<1>3. l[Len(l)] = e
  BY <1>2
<1> QED
  BY <1>2, <1>3, LatestAppend DEF E

(* The steps that append no entry and store no record leave the log and    *)
(* the map alone, and the call of a thread between the two.                *)
LEMMA QuietRecords ==
  ASSUME TypeOK, CallInv, NEW t \in Thread, Step(t),
         ~PushBack(t), ~StoreFinish(t), ~StoreRecord(t)
  PROVE  /\ UNCHANGED <<log, customer_record>>
         /\ \A u \in Thread : call[u].at = "record" \/ call'[u].at = "record" => call'[u] = call[u]
<1>0. SUFFICES /\ UNCHANGED <<log, customer_record>>
               /\ call[t].at = "record" \/ call'[t].at = "record" => call'[t] = call[t]
  BY OthersUntouched
<1> DEFINE Same == /\ UNCHANGED <<log, customer_record>>
                   /\ call[t].at = "record" \/ call'[t].at = "record" => call'[t] = call[t]
<1>a. ASSUME UNCHANGED <<log, customer_record>>, call[t].at # "record", call'[t].at # "record" PROVE Same
  BY <1>a
<1>b. ASSUME UNCHANGED <<log, customer_record>>, call' = call PROVE Same
  BY <1>b
<1> SUFFICES Same
  BY DEF Same
<1> HIDE DEF Same
<1>1. CASE Acquire(t)
  BY <1>1, <1>b DEF Acquire, vectorVars
<1>2. ASSUME NEW c, NEW n, PlaceOrder(t, c, n) PROVE Same
  <2>1. call[t].at = "none" /\ call'[t].at = "push"
    BY <1>2 DEF PlaceOrder, TypeOK, Idle, Doing
  <2> QED
    BY <1>2, <1>a, <2>1 DEF PlaceOrder, vectorVars
<1>3. CASE Grow(t)
  BY <1>3, <1>a, Moved DEF Grow, At
<1>4. CASE StoreStart(t)
  BY <1>4, <1>a, Moved DEF StoreStart, At
<1>5. CASE PlaceOrderReturn(t)
  BY <1>5, <1>a, Moved DEF PlaceOrderReturn, vectorVars
<1>6. ASSUME NEW c, ReadRecord(t, c) PROVE Same
  <2>1. call[t].at = "none" /\ call'[t].at = "count"
    BY <1>6 DEF ReadRecord, TypeOK, Idle, Doing
  <2> QED
    BY <1>6, <1>a, <2>1 DEF ReadRecord, vectorVars
<1>7. CASE Count(t)
  <2>1. GoTo(t, "value") \/ GoTo(t, "leave")
    BY <1>7 DEF Count
  <2>2. call'[t].at \in {"value", "leave"}
    BY <2>1, Moved
  <2> QED
    BY <1>7, <1>a, <2>2 DEF Count, At, vectorVars
<1>8. CASE Value(t)
  <2>1. call'[t].at = "leave"
    BY <1>8 DEF Value, TypeOK, Call
  <2> QED
    BY <1>8, <1>a, <2>1 DEF Value, At, vectorVars
<1>9. CASE ReadUnlock(t)
  BY <1>9, <1>b DEF ReadUnlock, vectorVars
<1>10. CASE ReadRecordReturn(t)
  <2>1. pc[t] = "leaving"
    BY <1>10 DEF ReadRecordReturn, Lock!ReadUnlockReturn
  <2>2. call[t].at # "record"
    BY <2>1 DEF CallInv, CallOK, Changing
  <2> QED
    BY <1>10, <1>a, <2>2, Moved DEF ReadRecordReturn, vectorVars
<1>11. ASSUME NEW op, Peek(t, op) PROVE Same
  <2>1. call[t].at = "none" /\ call'[t].at = "pointers"
    BY <1>11 DEF Peek, TypeOK, Idle, Doing
  <2> QED
    BY <1>11, <1>a, <2>1 DEF Peek, vectorVars
<1>12. CASE LoadStart(t) \/ LoadFinish(t)
  <2>1. call[t].at = "pointers" /\ call'[t].at = "pointers"
    BY <1>12 DEF LoadStart, LoadFinish, TypeOK, Call
  <2> QED
    BY <1>12, <1>a, <2>1 DEF LoadStart, LoadFinish, vectorVars
<1>13. CASE PeekReturns(t)
  <2>1. PICK answer : call' = [call EXCEPT ![t] = Doing(call[t].op, 0, answer, "answer")]
    BY <1>13 DEF PeekReturns
  <2>2. call'[t].at = "answer"
    BY <2>1 DEF TypeOK, Doing
  <2> QED
    BY <1>13, <1>a, <2>2 DEF PeekReturns, vectorVars
<1>14. CASE PeekEnds(t)
  BY <1>14, <1>a, Moved DEF PeekEnds, vectorVars
<1> QED
  BY <1>1, <1>2, <1>3, <1>4, <1>5, <1>6, <1>7, <1>8, <1>9, <1>10, <1>11, <1>12, <1>13, <1>14
     DEF Step, place_order, read_record, getIdx_get_log

(* The last entry is that of the thread which is about to store its        *)
(* customer's record, and every other record agrees with the log.          *)
LEMMA RecordStep ==
  ASSUME TypeOK, CallInv, Lock!LockInv, LastPlaced, RecordsFollowLog, NEW t \in Thread, Step(t)
  PROVE  LastPlaced' /\ RecordsFollowLog'
<1>a. call \in [Thread -> Call] /\ log \in Seq([cust : Customer, num : Number])
  BY DEF TypeOK
<1>b. ASSUME pc[t] = "writing", NEW u \in Thread, u # t
      PROVE  call[u].at # "record" /\ call'[u].at # "record"
  BY <1>b, OneChanger, OthersUntouched DEF Changing
<1>1. ASSUME PushBack(t) \/ StoreFinish(t) PROVE LastPlaced' /\ RecordsFollowLog'
  <2>1. /\ pc[t] = "writing" /\ call[t].at # "record" /\ Placing(t)
        /\ log' = Append(log, Entry(t)) /\ GoTo(t, "record") /\ customer_record' = customer_record
    BY <1>1 DEF PushBack, StoreFinish, At, Placing
  <2>2. call'[t].at = "record" /\ Entry(t)' = Entry(t) /\ call'[t].cust = call[t].cust
    BY <2>1, Moved DEF Entry
  <2>3. Entry(t) \in [cust : Customer, num : Number] /\ Entry(t).cust = call[t].cust
    BY <2>1 DEF CallInv, CallOK, Entry
  <2>4. log' # << >> /\ log'[Len(log')] = Entry(t)
    BY <1>a, <2>1, <2>3
  <2>5. LastPlaced'
    BY <1>b, <2>1, <2>2, <2>4 DEF LastPlaced
  <2>6. ASSUME NEW c \in Customer, c # call[t].cust PROVE (Recorded(c) = Atomic!Latest(log, c))'
    <3>1. ~\E u \in Thread : call[u].at = "record" /\ call[u].cust = c
      BY <1>b, <2>1
    <3>2. Recorded(c) = Atomic!Latest(log, c)
      BY <3>1 DEF RecordsFollowLog
    <3>3. Atomic!Latest(log', c) = Atomic!Latest(log, c)
      BY <1>a, <2>1, <2>3, <2>6, LatestAppend
    <3>4. Recorded(c)' = Recorded(c)
      BY <2>1 DEF Recorded
    <3> QED
      BY <3>2, <3>3, <3>4
  <2>7. RecordsFollowLog'
    BY <2>2, <2>6 DEF RecordsFollowLog
  <2> QED
    BY <2>5, <2>7
<1>2. CASE StoreRecord(t)
  <2>1. /\ pc[t] = "writing" /\ call[t].at = "record" /\ log' = log /\ GoTo(t, "unlock")
        /\ customer_record' = [c \in DOMAIN customer_record \cup {call[t].cust} |->
                                 IF c = call[t].cust THEN call[t].num ELSE customer_record[c]]
    BY <1>2 DEF StoreRecord, At, vectorVars
  <2>2. call'[t].at = "unlock"
    BY <2>1, Moved
  <2>3. LastPlaced'
    BY <1>b, <2>1, <2>2 DEF LastPlaced
  <2>4. log # << >> /\ log[Len(log)] = Entry(t)
    BY <2>1 DEF LastPlaced
  <2>5. Atomic!Latest(log, call[t].cust) = call[t].num
    <3>1. Entry(t).cust = call[t].cust /\ Entry(t).num = call[t].num
      BY DEF Entry
    <3>2. Atomic!Latest(log, log[Len(log)].cust) = log[Len(log)].num
      BY <1>a, <2>4, LatestOfLast
    <3> QED
      BY <2>4, <3>1, <3>2
  <2>6. \A c : Recorded(c)' = IF c = call[t].cust THEN call[t].num ELSE Recorded(c)
    BY <2>1 DEF Recorded
  <2>7. ASSUME NEW c \in Customer, c # call[t].cust PROVE Recorded(c) = Atomic!Latest(log, c)
    BY <1>b, <2>1, <2>7 DEF RecordsFollowLog
  <2>8. ASSUME NEW c \in Customer PROVE Recorded(c)' = Atomic!Latest(log', c)
    BY <2>1, <2>5, <2>6, <2>7
  <2>9. RecordsFollowLog'
    BY <2>8 DEF RecordsFollowLog
  <2> QED
    BY <2>3, <2>9
<1>3. ASSUME ~PushBack(t), ~StoreFinish(t), ~StoreRecord(t) PROVE LastPlaced' /\ RecordsFollowLog'
  <2>1. /\ UNCHANGED <<log, customer_record>>
        /\ \A u \in Thread : call[u].at = "record" \/ call'[u].at = "record" => call'[u] = call[u]
    BY <1>3, QuietRecords
  <2>2. LastPlaced'
    BY <2>1 DEF LastPlaced, Entry
  <2>3. \A c : Recorded(c)' = Recorded(c)
    BY <2>1 DEF Recorded
  <2>4. ASSUME NEW c \in Customer
        PROVE  \/ \E u \in Thread : call'[u].at = "record" /\ call'[u].cust = c
               \/ Recorded(c)' = Atomic!Latest(log', c)
    BY <2>1, <2>3 DEF RecordsFollowLog
  <2>5. RecordsFollowLog'
    BY <2>4 DEF RecordsFollowLog
  <2> QED
    BY <2>2, <2>5
<1> QED
  BY <1>1, <1>2, <1>3
-----------------------------------------------------------------------------
(* The invariant of the storage.                                           *)

(* It holds at first.                                                      *)
LEMMA InitStorage == Init => StorageInv
<1> SUFFICES ASSUME Init PROVE StorageInv
  OBVIOUS
<1>1. Lock!TypeOK
  BY StorageAssumption, LockProofs!InitInv, SameLock
     DEF Init, LockProofs!IsFiniteSet, IsFiniteSet, LockProofs!Inv
<1>2. \A t \in Thread : call[t] = Idle /\ pc[t] = "out"
  BY DEF Init, Lock!Init
<1>3. Idle.at = "none" /\ Idle \in Call
  BY CallType DEF Idle, Doing
<1>4. TypeOK
  <2>1. call \in [Thread -> Call]
    BY <1>3 DEF Init
  <2>2. DOMAIN customer_record = {}
    BY DEF Init
  <2>3. log \in Seq([cust : Customer, num : Number]) /\ finish \in [blk : Nat, n : Nat]
    BY DEF Init
  <2> QED
    BY <1>1, <2>1, <2>2, <2>3 DEF Init, TypeOK
<1>5. CallInv
  BY <1>2, <1>3 DEF CallInv, CallOK, Placing, Changing
<1>6. \A c : Atomic!Latest(log, c) = -1 /\ Recorded(c) = -1
  BY DEF Init, Atomic!Latest, Atomic!Entries, Recorded
<1>7. LastPlaced /\ RecordsFollowLog
  BY <1>2, <1>3, <1>6 DEF LastPlaced, RecordsFollowLog
<1>8. VectorInv
  BY <1>2, <1>3 DEF Init, VectorInv, Growing
<1>9. PeekInv
  BY <1>2, <1>3, StorageAssumption DEF PeekInv
<1> QED
  BY <1>4, <1>5, <1>7, <1>8, <1>9 DEF StorageInv

(* Every step keeps it, given the lock's invariant.                        *)
LEMMA NextStorage ==
  StorageInv /\ Lock!LockInv /\ Lock!TypeOK' /\ [Next]_vars => StorageInv'
<1> SUFFICES ASSUME StorageInv, Lock!LockInv, Lock!TypeOK', [Next]_vars PROVE StorageInv'
  OBVIOUS
<1> USE DEF StorageInv
<1>1. ASSUME NEW t \in Thread, Step(t) PROVE StorageInv'
  <2>1. TypeOK'
    BY <1>1, TypeStep
  <2> QED
    BY <1>1, <2>1, CallStep, VectorStep, PeekStep, RecordStep
<1>2. CASE UNCHANGED vars
  <2>1. TypeOK'
    BY <1>2 DEF TypeOK, vars, vectorVars, historyVars
  <2>2. CallInv'
    BY <1>2 DEF CallInv, CallOK, Placing, Changing, vars, lockVars
  <2>3. LastPlaced' /\ RecordsFollowLog'
    BY <1>2 DEF LastPlaced, RecordsFollowLog, Entry, Recorded, vars, vectorVars
  <2>4. VectorInv'
    BY <1>2 DEF VectorInv, Growing, vars, vectorVars
  <2>5. PeekInv'
    BY <1>2 DEF PeekInv, Growing, vars, vectorVars, historyVars
  <2> QED
    BY <2>1, <2>2, <2>3, <2>4, <2>5
<1> QED
  BY <1>1, <1>2 DEF Next, Step

(* The invariant, with that of the lock.                                   *)
LEMMA StorageHolds == Spec => [](StorageInv /\ Lock!LockInv)
BY InitStorage, NextStorage, LockHolds, PTL DEF Spec

(* The storage and its record map keep their types: a number never ends up *)
(* where a customer belongs, and readCnt never falls below zero.           *)
THEOREM StorageTypes == Spec => []TypeOK
BY StorageHolds, PTL DEF StorageInv

(* Only a push_back that moves the entries to a new block can make an      *)
(* unlocked getIdx or get_log answer with something the log never was.     *)
THEOREM UnlockedReads == Spec => []UnlockedReadsTornOnlyByGrowth
<1>1. PeekInv => UnlockedReadsTornOnlyByGrowth
  BY DEF PeekInv, UnlockedReadsTornOnlyByGrowth
<1> QED
  BY <1>1, StorageHolds, PTL DEF StorageInv
-----------------------------------------------------------------------------
(* The refinement of AtomicStorage.                                        *)

View == [t \in Thread |-> AtomicCall(call[t])]

(* A call in AtomicStorage, field by field.                                *)
LEMMA AtomicCallOf ==
  ASSUME NEW c, c.op \in {"place", "read"}
  PROVE  /\ c.at \in {"record", "unlock", "leave"} =>
              AtomicCall(c) = [op |-> c.op, cust |-> c.cust, num |-> c.num, phase |-> "answered"]
         /\ c.at \notin {"record", "unlock", "leave"} =>
              AtomicCall(c) = [op |-> c.op, cust |-> c.cust, num |-> c.num, phase |-> "called"]
BY DEF AtomicCall

(* The others are no calls there.                                          *)
LEMMA NoAtomicCall ==
  ASSUME NEW c, c.op \notin {"place", "read"}
  PROVE  AtomicCall(c) = Atomic!Idle
BY DEF AtomicCall, Atomic!Idle

(* A step of one thread changes its own call only, there too.              *)
LEMMA ViewMoves ==
  ASSUME TypeOK, NEW t \in Thread, Step(t)
  PROVE  View' = [View EXCEPT ![t] = AtomicCall(call'[t])]
<1>1. \A u \in Thread : u # t => call'[u] = call[u]
  BY OthersUntouched
<1>2. View' = [u \in Thread |-> AtomicCall(call'[u])]
  BY DEF View
<1> QED
  BY <1>1, <1>2 DEF View

(* Updates of a call's fields.                                             *)
LEMMA RecordUpdates ==
  ASSUME NEW o, NEW c, NEW n, NEW p, NEW m, NEW q
  PROVE  /\ [[op |-> o, cust |-> c, num |-> n, phase |-> p] EXCEPT !.phase = q] =
              [op |-> o, cust |-> c, num |-> n, phase |-> q]
         /\ [[op |-> o, cust |-> c, num |-> n, phase |-> p] EXCEPT !.num = m] =
              [op |-> o, cust |-> c, num |-> m, phase |-> p]
BY SMT

(* The actions of AtomicStorage, said of the view.                         *)
LEMMA AtomicActions ==
  ASSUME NEW t \in Thread, NEW op, NEW c, NEW n
  PROVE  /\ View[t] = Atomic!Idle /\ log' = log
            /\ View' = [View EXCEPT ![t] = [op |-> op, cust |-> c, num |-> n, phase |-> "called"]]
            => Atomic!Begin(t, op, c, n)
         /\ View[t] = [op |-> "place", cust |-> c, num |-> n, phase |-> "called"]
            /\ View' = [View EXCEPT ![t] = [op |-> "place", cust |-> c, num |-> n, phase |-> "answered"]]
            /\ log' = Append(log, [cust |-> c, num |-> n])
            => Atomic!Place(t)
         /\ View[t] = [op |-> "read", cust |-> c, num |-> n, phase |-> "called"] /\ log' = log
            /\ View' = [View EXCEPT ![t] = [op |-> "read", cust |-> c, num |-> Atomic!Latest(log, c),
                                            phase |-> "answered"]]
            => Atomic!Read(t)
         /\ View[t].phase = "answered" /\ log' = log /\ View' = [View EXCEPT ![t] = Atomic!Idle]
            => Atomic!End(t)
<1> DEFINE L == Atomic!Latest(log, c)
<1>1. /\ View[t] = Atomic!Idle /\ log' = log
      /\ View' = [View EXCEPT ![t] = [op |-> op, cust |-> c, num |-> n, phase |-> "called"]]
      => Atomic!Begin(t, op, c, n)
  BY Zenon DEF View, Atomic!Begin
<1>2. View[t].phase = "answered" /\ log' = log /\ View' = [View EXCEPT ![t] = Atomic!Idle] => Atomic!End(t)
  BY Zenon DEF View, Atomic!End
<1>3. Atomic!Place(t) <=> /\ View[t].op = "place" /\ View[t].phase = "called"
                          /\ log' = Append(log, [cust |-> View[t].cust, num |-> View[t].num])
                          /\ View' = [View EXCEPT ![t].phase = "answered"]
  BY Zenon DEF View, Atomic!Place
<1>4. Atomic!Read(t) <=> /\ View[t].op = "read" /\ View[t].phase = "called" /\ log' = log
                         /\ View' = [View EXCEPT ![t].phase = "answered",
                                                 ![t].num = Atomic!Latest(log, View[t].cust)]
  BY Zenon DEF View, Atomic!Read
<1>5. View \in [Thread -> {View[u] : u \in Thread}]
  BY DEF View
<1> HIDE DEF L
<1>6. ASSUME View[t] = [op |-> "place", cust |-> c, num |-> n, phase |-> "called"],
             View' = [View EXCEPT ![t] = [op |-> "place", cust |-> c, num |-> n, phase |-> "answered"]],
             log' = Append(log, [cust |-> c, num |-> n])
      PROVE  Atomic!Place(t)
  <2>1. [View[t] EXCEPT !.phase = "answered"] = [op |-> "place", cust |-> c, num |-> n, phase |-> "answered"]
    BY <1>6, RecordUpdates
  <2>2. [View EXCEPT ![t].phase = "answered"] =
          [View EXCEPT ![t] = [op |-> "place", cust |-> c, num |-> n, phase |-> "answered"]]
    BY <2>1, Zenon
  <2>3. View[t].op = "place" /\ View[t].phase = "called" /\ View[t].cust = c /\ View[t].num = n
    BY <1>6
  <2>4. View' = [View EXCEPT ![t].phase = "answered"]
    BY <1>6, <2>2, Zenon
  <2> QED
    BY <1>3, <1>6, <2>3, <2>4, Zenon
<1>7. ASSUME View[t] = [op |-> "read", cust |-> c, num |-> n, phase |-> "called"], log' = log,
             View' = [View EXCEPT ![t] = [op |-> "read", cust |-> c, num |-> L, phase |-> "answered"]]
      PROVE  Atomic!Read(t)
  <2> DEFINE W == [View EXCEPT ![t].phase = "answered"]
  <2>1. [View[t] EXCEPT !.phase = "answered"] = [op |-> "read", cust |-> c, num |-> n, phase |-> "answered"]
    BY <1>7, RecordUpdates
  <2>2. W[t] = [op |-> "read", cust |-> c, num |-> n, phase |-> "answered"]
    BY <1>5, <2>1
  <2>3. [W[t] EXCEPT !.num = L] = [op |-> "read", cust |-> c, num |-> L, phase |-> "answered"]
    BY <2>2, RecordUpdates
  <2>4. \A r : [W EXCEPT ![t] = r] = [View EXCEPT ![t] = r]
    BY <1>5
  <2> HIDE DEF W
  <2>5. [W EXCEPT ![t].num = L] = [W EXCEPT ![t] = [op |-> "read", cust |-> c, num |-> L, phase |-> "answered"]]
    BY <2>3, Zenon
  <2>6. View' = [W EXCEPT ![t].num = L]
    BY <1>7, <2>4, <2>5, Zenon
  <2>7. View[t].cust = c /\ View[t].op = "read" /\ View[t].phase = "called"
    BY <1>7
  <2>8. View' = [View EXCEPT ![t].phase = "answered", ![t].num = Atomic!Latest(log, View[t].cust)]
    BY <2>6, <2>7 DEF W, L
  <2> QED
    BY <1>4, <1>7, <2>7, <2>8, Zenon
<1> QED
  BY <1>1, <1>2, <1>6, <1>7 DEF L

(* Every step of the storage is a step of AtomicStorage or leaves its log  *)
(* and its calls unchanged.                                                *)
LEMMA StepIsAtomic ==
  ASSUME StorageInv, Lock!LockInv, NEW t \in Thread, Step(t)
  PROVE  Atomic!Next \/ UNCHANGED <<log, View>>
<1>a. /\ TypeOK /\ CallOK(t) /\ call \in [Thread -> Call] /\ call[t] \in Call
      /\ log \in Seq([cust : Customer, num : Number])
  BY DEF StorageInv, TypeOK, CallInv
<1>b. View \in [Thread -> {AtomicCall(call[u]) : u \in Thread}] /\ View[t] = AtomicCall(call[t])
  BY DEF View
<1>c. ASSUME AtomicCall(call'[t]) = AtomicCall(call[t]) PROVE View' = View
  BY <1>a, <1>b, <1>c, ViewMoves
<1>d. ASSUME call'[t] = call[t] PROVE View' = View
  BY <1>c, <1>d
<1>f. ASSUME NEW op, NEW c, NEW n, NEW at, call' = [call EXCEPT ![t] = Doing(op, c, n, at)]
      PROVE  call'[t].op = op /\ call'[t].cust = c /\ call'[t].num = n /\ call'[t].at = at
  BY <1>a, <1>f DEF Doing
<1>g. ASSUME NEW at, GoTo(t, at)
      PROVE  /\ call'[t].op = call[t].op /\ call'[t].cust = call[t].cust
             /\ call'[t].num = call[t].num /\ call'[t].at = at
  BY <1>a, <1>g, Moved
<1>h. ASSUME call[t] = Idle PROVE View[t] = Atomic!Idle
  <2>1. call[t].op = "none"
    BY <1>h DEF Idle, Doing
  <2> QED
    BY <1>b, <2>1, NoAtomicCall
<1>i. ASSUME call' = [call EXCEPT ![t] = Idle] PROVE AtomicCall(call'[t]) = Atomic!Idle
  <2>1. call'[t].op = "none"
    BY <1>a, <1>i, Moved
  <2> QED
    BY <2>1, NoAtomicCall
<1>1. ASSUME NEW c \in Customer, NEW n \in Number, PlaceOrder(t, c, n) PROVE Atomic!Begin(t, "place", c, n)
  <2>1. call'[t].op = "place" /\ call'[t].cust = c /\ call'[t].num = n /\ call'[t].at = "push"
    BY <1>1, <1>f DEF PlaceOrder
  <2>2. AtomicCall(call'[t]) = [op |-> "place", cust |-> c, num |-> n, phase |-> "called"]
    BY <2>1, AtomicCallOf
  <2>3. View[t] = Atomic!Idle /\ log' = log
    BY <1>1, <1>h DEF PlaceOrder, vectorVars
  <2> QED
    BY <1>a, <2>2, <2>3, ViewMoves, AtomicActions
<1>2. ASSUME NEW c \in Customer, ReadRecord(t, c) PROVE Atomic!Begin(t, "read", c, -1)
  <2>1. call'[t].op = "read" /\ call'[t].cust = c /\ call'[t].num = -1 /\ call'[t].at = "count"
    BY <1>2, <1>f DEF ReadRecord
  <2>2. AtomicCall(call'[t]) = [op |-> "read", cust |-> c, num |-> -1, phase |-> "called"]
    BY <2>1, AtomicCallOf
  <2>3. View[t] = Atomic!Idle /\ log' = log
    BY <1>2, <1>h DEF ReadRecord, vectorVars
  <2> QED
    BY <1>a, <2>2, <2>3, ViewMoves, AtomicActions
<1>3. ASSUME PushBack(t) \/ StoreFinish(t) PROVE Atomic!Place(t)
  <2>1. /\ call[t].at \in {"push", "finish"} /\ Placing(t)
        /\ log' = Append(log, Entry(t)) /\ GoTo(t, "record")
    BY <1>3 DEF PushBack, StoreFinish, At, Placing
  <2>2. /\ call'[t].op = call[t].op /\ call'[t].cust = call[t].cust
        /\ call'[t].num = call[t].num /\ call'[t].at = "record"
    BY <2>1, <1>g
  <2>3. call[t].op = "place"
    BY <1>a, <2>1 DEF CallOK
  <2>4. View[t] = [op |-> "place", cust |-> call[t].cust, num |-> call[t].num, phase |-> "called"]
    BY <1>b, <2>1, <2>3, AtomicCallOf
  <2>5. AtomicCall(call'[t]) = [op |-> "place", cust |-> call[t].cust, num |-> call[t].num, phase |-> "answered"]
    BY <2>2, <2>3, AtomicCallOf
  <2>6. View' = [View EXCEPT ![t] = [op |-> "place", cust |-> call[t].cust, num |-> call[t].num,
                                      phase |-> "answered"]]
    BY <1>a, <2>5, ViewMoves
  <2>7. log' = Append(log, [cust |-> call[t].cust, num |-> call[t].num])
    BY <2>1 DEF Entry
  <2> QED
    BY <2>4, <2>6, <2>7, AtomicActions
<1>4. ASSUME Grow(t) \/ StoreStart(t) \/ StoreRecord(t) PROVE UNCHANGED <<log, View>>
  <2>1. log' = log /\ Placing(t)
    BY <1>4 DEF Grow, StoreStart, StoreRecord, At, Placing, vectorVars
  <2>2. \/ call[t].at = "push" /\ GoTo(t, "start")
        \/ call[t].at = "start" /\ GoTo(t, "finish")
        \/ call[t].at = "record" /\ GoTo(t, "unlock")
    BY <1>4 DEF Grow, StoreStart, StoreRecord, At
  <2>3. /\ call'[t].op = call[t].op /\ call'[t].cust = call[t].cust /\ call'[t].num = call[t].num
        /\ call'[t].at \in {"record", "unlock", "leave"} <=> call[t].at \in {"record", "unlock", "leave"}
    BY <2>2, <1>g
  <2>4. AtomicCall(call'[t]) = AtomicCall(call[t])
    BY <2>3 DEF AtomicCall
  <2> QED
    BY <1>c, <2>1, <2>4
<1>5. CASE Count(t)
  <2>1. /\ call[t].at = "count" /\ pc[t] = "reading" /\ log' = log
        /\ GoTo(t, IF call[t].cust \in DOMAIN customer_record THEN "value" ELSE "leave")
    BY <1>5 DEF Count, At, vectorVars
  <2>2. /\ call'[t].op = call[t].op /\ call'[t].cust = call[t].cust /\ call'[t].num = call[t].num
        /\ call'[t].at = IF call[t].cust \in DOMAIN customer_record THEN "value" ELSE "leave"
    BY <2>1, <1>g
  <2>3. call[t].op = "read" /\ call[t].cust \in Customer /\ call[t].num = -1
    BY <1>a, <2>1 DEF CallOK
  <2>4. View[t] = [op |-> "read", cust |-> call[t].cust, num |-> -1, phase |-> "called"]
    BY <1>b, <2>1, <2>3, AtomicCallOf
  <2>5. CASE call[t].cust \in DOMAIN customer_record
    <3>1. AtomicCall(call'[t]) = AtomicCall(call[t])
      BY <2>1, <2>2, <2>3, <2>5 DEF AtomicCall
    <3> QED
      BY <1>c, <2>1, <3>1
  <2>6. CASE call[t].cust \notin DOMAIN customer_record
    <3>1. AtomicCall(call'[t]) = [op |-> "read", cust |-> call[t].cust, num |-> -1, phase |-> "answered"]
      BY <2>1, <2>2, <2>3, <2>6, AtomicCallOf
    <3>2. Recorded(call[t].cust) = -1
      BY <2>6 DEF Recorded
    <3>3. ~\E u \in Thread : call[u].at = "record"
      BY <2>1, Exclusion DEF StorageInv, CallInv, CallOK, Changing
    <3>4. Atomic!Latest(log, call[t].cust) = -1
      BY <2>3, <3>2, <3>3 DEF StorageInv, RecordsFollowLog
    <3>5. View' = [View EXCEPT ![t] = [op |-> "read", cust |-> call[t].cust,
                                       num |-> Atomic!Latest(log, call[t].cust), phase |-> "answered"]]
      BY <1>a, <3>1, <3>4, ViewMoves
    <3>6. Atomic!Read(t)
      BY <2>1, <2>4, <3>5, AtomicActions
    <3> QED
      BY <3>6 DEF Atomic!Next
  <2> QED
    BY <2>5, <2>6
<1>6. CASE Value(t)
  <2>1. /\ call[t].at = "value" /\ pc[t] = "reading" /\ log' = log
        /\ call' = [call EXCEPT ![t].num = customer_record[call[t].cust], ![t].at = "leave"]
    BY <1>6 DEF Value, At, vectorVars
  <2>2. /\ call'[t].op = call[t].op /\ call'[t].cust = call[t].cust
        /\ call'[t].num = customer_record[call[t].cust] /\ call'[t].at = "leave"
    BY <1>a, <2>1 DEF Call
  <2>3. /\ call[t].op = "read" /\ call[t].cust \in Customer /\ call[t].num = -1
        /\ call[t].cust \in DOMAIN customer_record
    BY <1>a, <2>1 DEF CallOK
  <2>4. View[t] = [op |-> "read", cust |-> call[t].cust, num |-> -1, phase |-> "called"]
    BY <1>b, <2>1, <2>3, AtomicCallOf
  <2>5. AtomicCall(call'[t]) = [op |-> "read", cust |-> call[t].cust,
                          num |-> customer_record[call[t].cust], phase |-> "answered"]
    BY <2>2, <2>3, AtomicCallOf
  <2>6. ~\E u \in Thread : call[u].at = "record"
    BY <2>1, Exclusion DEF StorageInv, CallInv, CallOK, Changing
  <2>7. Atomic!Latest(log, call[t].cust) = customer_record[call[t].cust]
    BY <2>3, <2>6 DEF StorageInv, RecordsFollowLog, Recorded
  <2>8. View' = [View EXCEPT ![t] = [op |-> "read", cust |-> call[t].cust,
                                     num |-> Atomic!Latest(log, call[t].cust), phase |-> "answered"]]
    BY <1>a, <2>5, <2>7, ViewMoves
  <2>9. Atomic!Read(t)
    BY <2>1, <2>4, <2>8, AtomicActions
  <2> QED
    BY <2>9 DEF Atomic!Next
<1>7. ASSUME PlaceOrderReturn(t) \/ ReadRecordReturn(t) PROVE Atomic!End(t)
  <2>1. call' = [call EXCEPT ![t] = Idle] /\ log' = log
    BY <1>7 DEF PlaceOrderReturn, ReadRecordReturn, vectorVars
  <2>2. call[t].at \in {"unlock", "leave"}
    BY <1>7, <1>a DEF PlaceOrderReturn, ReadRecordReturn, Lock!ReadUnlockReturn, CallOK, Changing, Call
  <2>3. call[t].op \in {"place", "read"}
    BY <1>a, <2>2 DEF CallOK, Placing
  <2>4. View[t].phase = "answered"
    BY <1>b, <2>2, <2>3, AtomicCallOf
  <2>5. AtomicCall(call'[t]) = Atomic!Idle
    BY <2>1, <1>i
  <2> QED
    BY <1>a, <2>1, <2>4, <2>5, ViewMoves, AtomicActions
<1>8. ASSUME Acquire(t) \/ ReadUnlock(t) PROVE UNCHANGED <<log, View>>
  BY <1>8, <1>d DEF Acquire, ReadUnlock, vectorVars
<1>9. CASE getIdx_get_log(t)
  <2>1. log' = log
    BY <1>9 DEF getIdx_get_log, Peek, LoadStart, LoadFinish, PeekReturns, PeekEnds, vectorVars
  <2>2. call[t].op \notin {"place", "read"}
    BY <1>9, <1>a DEF getIdx_get_log, Peek, LoadStart, LoadFinish, PeekReturns, PeekEnds, CallOK,
                      Idle, Doing
  <2>3. call'[t].op \notin {"place", "read"}
    <3>1. ASSUME NEW op \in {"getIdx", "get_log"}, Peek(t, op) PROVE call'[t].op = op
      BY <1>f, <3>1 DEF Peek
    <3>2. LoadStart(t) \/ LoadFinish(t) => call'[t].op = call[t].op
      BY <1>a DEF LoadStart, LoadFinish, Call
    <3>3. ASSUME PeekReturns(t) PROVE call'[t].op = call[t].op
      <4>1. PICK answer : call' = [call EXCEPT ![t] = Doing(call[t].op, 0, answer, "answer")]
        BY <3>3 DEF PeekReturns
      <4> QED
        BY <4>1, <1>a DEF Doing
    <3>4. PeekEnds(t) => call'[t].op = "none"
      BY <1>a, Moved DEF PeekEnds
    <3> QED
      BY <1>9, <2>2, <3>1, <3>2, <3>3, <3>4 DEF getIdx_get_log
  <2>4. AtomicCall(call'[t]) = AtomicCall(call[t])
    BY <2>2, <2>3 DEF AtomicCall
  <2> QED
    BY <1>c, <2>1, <2>4
<1>10. CASE place_order(t)
  BY <1>1, <1>3, <1>4, <1>7, <1>10 DEF place_order, Atomic!Next
<1>11. CASE read_record(t)
  BY <1>2, <1>5, <1>6, <1>7, <1>8, <1>11 DEF read_record, Atomic!Next
<1> QED
  BY <1>8, <1>9, <1>10, <1>11 DEF Step

(* place_order and read_record behave as if each happened in one moment,   *)
(* for any threads, customers and numbers.                                 *)
THEOREM StorageIsAtomic == Spec => ImplementsAtomicStorage
<1>1. Init => Atomic!Init
  <2> SUFFICES ASSUME Init PROVE log = << >> /\ View = [t \in Thread |-> Atomic!Idle]
    BY DEF Atomic!Init, View
  <2>1. \A t \in Thread : AtomicCall(call[t]) = Atomic!Idle
    BY DEF Init, AtomicCall, Idle, Doing, Atomic!Idle
  <2> QED
    BY <2>1 DEF Init, View
<1>2. StorageInv /\ Lock!LockInv /\ [Next]_vars => [Atomic!Next]_<<log, View>>
  <2> SUFFICES ASSUME StorageInv, Lock!LockInv, [Next]_vars
               PROVE  Atomic!Next \/ UNCHANGED <<log, View>>
    OBVIOUS
  <2>1. CASE UNCHANGED vars
    BY <2>1 DEF vars, vectorVars, View, AtomicCall
  <2>2. ASSUME NEW t \in Thread, Step(t) PROVE Atomic!Next \/ UNCHANGED <<log, View>>
    BY <2>2, StepIsAtomic
  <2> QED
    BY <2>1, <2>2 DEF Next, Step
<1> QED
  BY <1>1, <1>2, StorageHolds, PTL DEF Spec, ImplementsAtomicStorage, Atomic!Spec, View
=============================================================================
