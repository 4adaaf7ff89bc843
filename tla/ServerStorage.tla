---------------------------- MODULE ServerStorage ---------------------------
(***************************************************************************)
(* ServerStorage.cpp and ServerStorage.h: the log and the record map of a  *)
(* server, shared by its admin thread and engineer threads through the     *)
(* lock of RWLock.  place_order and read_record use the lock; getIdx and   *)
(* get_log do not, so they see the vector while push_back changes it.      *)
(*                                                                         *)
(* The vector is the log's entries and the pointers a size is computed     *)
(* from: the start of its block, and the end, which has a block and an     *)
(* offset.  When the block is full push_back moves the entries to a new    *)
(* one, frees the old one, and then stores the new start and the new end.  *)
(***************************************************************************)
EXTENDS Integers, Sequences, FiniteSets

CONSTANTS
  Thread,     \* the threads of the server
  Admin,      \* the one that runs ProductionAdminThread
  NoThread,   \* the holder of a free mutex
  MaxCalls,   \* bound: locked calls a thread makes
  Customer,   \* customer ids
  Number,     \* order numbers
  Torn        \* the size computed from pointers that do not belong together

ASSUME StorageAssumption ==
  /\ IsFiniteSet(Thread) /\ NoThread \notin Thread /\ MaxCalls \in Nat
  /\ Admin \in Thread
  /\ Number \subseteq Nat
  /\ Torn \in Int

VARIABLES
  (* The lock. *)
  readMtx, writeMtx, readCnt, pc, calls,
  (* The storage. *)
  log,              \* state_machine_log
  customer_record,  \* customer_record: a partial function
  start,            \* the block the vector's start pointer points to
  finish,           \* the block and the offset of its end pointer
  newest,           \* the youngest block; older ones have been freed
  capacity,         \* entries the block has room for
  (* The calls. *)
  call,             \* what each thread is doing
  (* History, read by no action. *)
  base,             \* length of the log when the unlocked call began
  grew              \* push_back moved to a new block during the call

lockVars    == <<readMtx, writeMtx, readCnt, pc, calls>>
vectorVars  == <<log, start, finish, newest, capacity>>
historyVars == <<base, grew>>
vars == <<lockVars, vectorVars, customer_record, call, historyVars>>

Lock == INSTANCE RWLock

(* A call: its arguments, the statement at is the thread's next one inside *)
(* the lock, and the pointers an unlocked call has read.  num of a reading *)
(* call is its answer.                                                     *)
NoBlock == -1
Doing(op, c, n, statement) ==
  [op |-> op, cust |-> c, num |-> n, at |-> statement, st |-> NoBlock, fin |-> NoBlock, size |-> 0]
Idle == Doing("none", 0, -1, "none")

Init ==
  /\ Lock!Init
  /\ log = << >>
  /\ customer_record = << >>
  /\ start = 0
  /\ finish = [blk |-> 0, n |-> 0]
  /\ newest = 0
  /\ capacity = 0
  /\ call = [t \in Thread |-> Idle]
  /\ base = 0
  /\ grew = FALSE

Growing == \E t \in Thread : call[t].at \in {"start", "finish"}
-----------------------------------------------------------------------------
(* The lock's own steps: a thread on its way into the lock.                *)
Acquire(t) ==
  /\ \/ Lock!ReadLockEnter(t)
     \/ Lock!FirstReaderLocksWriteMtx(t)
     \/ Lock!ReadLockReturn(t)
     \/ Lock!WriteLock(t)
  /\ UNCHANGED <<vectorVars, customer_record, call, historyVars>>

(* place_order(customer_id, latest_number_of_customer).                    *)
PlaceOrder(t, c, n) ==
  /\ call[t] = Idle
  /\ Lock!Call(t, "wantWrite")
  /\ call' = [call EXCEPT ![t] = Doing("place", c, n, "push")]
  /\ UNCHANGED <<vectorVars, customer_record, historyVars>>

At(t, phase, statement) == pc[t] = phase /\ call[t].at = statement
GoTo(t, statement) == call' = [call EXCEPT ![t].at = statement]
Entry(t) == [cust |-> call[t].cust, num |-> call[t].num]

(* push_back with room in the block: the end moves by one.                 *)
PushBack(t) ==
  /\ At(t, "writing", "push")
  /\ Len(log) < capacity
  /\ log' = Append(log, Entry(t))
  /\ finish' = [finish EXCEPT !.n = @ + 1]
  /\ GoTo(t, "record")
  /\ UNCHANGED <<lockVars, start, newest, capacity, customer_record, historyVars>>

(* push_back without: the entries are moved to a block of twice the size   *)
(* and the old block is freed, then the start and the end are stored.      *)
Grow(t) ==
  /\ At(t, "writing", "push")
  /\ Len(log) = capacity
  /\ newest' = newest + 1
  /\ capacity' = IF capacity = 0 THEN 1 ELSE 2 * capacity
  /\ GoTo(t, "start")
  /\ grew' = (grew \/ call[Admin].at = "pointers")
  /\ UNCHANGED <<lockVars, log, start, finish, customer_record, base>>

StoreStart(t) ==
  /\ At(t, "writing", "start")
  /\ start' = newest
  /\ GoTo(t, "finish")
  /\ UNCHANGED <<lockVars, log, finish, newest, capacity, customer_record, historyVars>>

StoreFinish(t) ==
  /\ At(t, "writing", "finish")
  /\ log' = Append(log, Entry(t))
  /\ finish' = [blk |-> newest, n |-> Len(log) + 1]
  /\ GoTo(t, "record")
  /\ UNCHANGED <<lockVars, start, newest, capacity, customer_record, historyVars>>

(* A place_order that swaps the customer and the number, both of them ints. *)
StoreRecord_Swapped(t) ==
  /\ At(t, "writing", "record")
  /\ customer_record' = [c \in DOMAIN customer_record \cup {call[t].num} |->
                           IF c = call[t].num THEN call[t].cust ELSE customer_record[c]]
  /\ GoTo(t, "unlock")
  /\ UNCHANGED <<lockVars, vectorVars, historyVars>>

(* customer_record[customer_id] = latest_number_of_customer.               *)
StoreRecord(t) ==
  /\ At(t, "writing", "record")
  /\ customer_record' = [c \in DOMAIN customer_record \cup {call[t].cust} |->
                           IF c = call[t].cust THEN call[t].num ELSE customer_record[c]]
  /\ GoTo(t, "unlock")
  /\ UNCHANGED <<lockVars, vectorVars, historyVars>>

(* A place_order that unlocks between the log and the record.              *)
PlaceOrderReturn_Early(t) ==
  \/ /\ call[t].at = "record"
     /\ Lock!WriteUnlock(t)
     /\ UNCHANGED <<vectorVars, customer_record, call, historyVars>>
  \/ /\ At(t, "out", "record")
     /\ customer_record' = [c \in DOMAIN customer_record \cup {call[t].cust} |->
                              IF c = call[t].cust THEN call[t].num ELSE customer_record[c]]
     /\ call' = [call EXCEPT ![t] = Idle]
     /\ UNCHANGED <<lockVars, vectorVars, historyVars>>

PlaceOrderReturn(t) ==
  /\ call[t].at = "unlock"
  /\ Lock!WriteUnlock(t)
  /\ call' = [call EXCEPT ![t] = Idle]
  /\ UNCHANGED <<vectorVars, customer_record, historyVars>>
-----------------------------------------------------------------------------
(* read_record(customer_id), which only engineer threads call.             *)
ReadRecord(t, c) ==
  /\ t # Admin
  /\ call[t] = Idle
  /\ Lock!Call(t, "wantRead")
  /\ call' = [call EXCEPT ![t] = Doing("read", c, -1, "count")]
  /\ UNCHANGED <<vectorVars, customer_record, historyVars>>

(* customer_record.count(customer_id): -1 for a customer without entry.    *)
Count(t) ==
  /\ At(t, "reading", "count")
  /\ GoTo(t, IF call[t].cust \in DOMAIN customer_record THEN "value" ELSE "leave")
  /\ UNCHANGED <<lockVars, vectorVars, customer_record, historyVars>>

Value(t) ==
  /\ At(t, "reading", "value")
  /\ call' = [call EXCEPT ![t].num = customer_record[call[t].cust], ![t].at = "leave"]
  /\ UNCHANGED <<lockVars, vectorVars, customer_record, historyVars>>

ReadUnlock(t) ==
  /\ call[t].at = "leave"
  /\ Lock!ReadUnlockEnter(t)
  /\ UNCHANGED <<vectorVars, customer_record, call, historyVars>>

ReadRecordReturn(t) ==
  /\ Lock!ReadUnlockReturn(t)
  /\ call' = [call EXCEPT ![t] = Idle]
  /\ UNCHANGED <<vectorVars, customer_record, historyVars>>
-----------------------------------------------------------------------------
(* getIdx() and get_log(), without the lock; the admin thread calls them.  *)
Peek(t, op) ==
  /\ t = Admin
  /\ call[t] = Idle
  /\ pc[t] = "out"
  /\ call' = [call EXCEPT ![t] = Doing(op, 0, -1, "pointers")]
  /\ base' = Len(log)
  /\ grew' = Growing
  /\ UNCHANGED <<lockVars, vectorVars, customer_record>>

(* size() loads the start and the end, in the order the compiler chose.    *)
LoadStart(t) ==
  /\ call[t].at = "pointers" /\ call[t].st = NoBlock
  /\ call' = [call EXCEPT ![t].st = start]
  /\ UNCHANGED <<lockVars, vectorVars, customer_record, historyVars>>

LoadFinish(t) ==
  /\ call[t].at = "pointers" /\ call[t].fin = NoBlock
  /\ call' = [call EXCEPT ![t].fin = finish.blk, ![t].size = finish.n]
  /\ UNCHANGED <<lockVars, vectorVars, customer_record, historyVars>>

(* size() - 1 of the loaded pointers, as an int; and a slip of it.         *)
Index_OffByOne(size) == size
Index(size) == size - 1

(* The copy of get_log reads freed memory when its block has been left.    *)
Copied(b, size) == IF b < newest THEN Torn ELSE size

(* The answer of getIdx is an index, that of get_log is taken to be the    *)
(* number of entries it copied.                                            *)
PeekReturns(t) ==
  /\ call[t].at = "pointers"
  /\ call[t].st # NoBlock /\ call[t].fin # NoBlock
  /\ LET c == call[t]
         answer == IF c.st # c.fin THEN Torn
                   ELSE IF c.op = "getIdx" THEN Index(c.size) ELSE Copied(c.st, c.size)
     IN call' = [call EXCEPT ![t] = Doing(c.op, 0, answer, "answer")]
  /\ UNCHANGED <<lockVars, vectorVars, customer_record, historyVars>>

PeekEnds(t) ==
  /\ call[t].at = "answer"
  /\ call' = [call EXCEPT ![t] = Idle]
  /\ base' = 0
  /\ grew' = FALSE
  /\ UNCHANGED <<lockVars, vectorVars, customer_record>>
-----------------------------------------------------------------------------
place_order(t) ==
  \/ \E c \in Customer, n \in Number : PlaceOrder(t, c, n)
  \/ PushBack(t) \/ Grow(t) \/ StoreStart(t) \/ StoreFinish(t)
  \/ StoreRecord(t) \/ PlaceOrderReturn(t)

read_record(t) ==
  \/ \E c \in Customer : ReadRecord(t, c)
  \/ Count(t) \/ Value(t) \/ ReadUnlock(t) \/ ReadRecordReturn(t)

getIdx_get_log(t) ==
  \/ \E op \in {"getIdx", "get_log"} : Peek(t, op)
  \/ LoadStart(t) \/ LoadFinish(t) \/ PeekReturns(t) \/ PeekEnds(t)

Next == \E t \in Thread : Acquire(t) \/ place_order(t) \/ read_record(t) \/ getIdx_get_log(t)

Spec == Init /\ [][Next]_vars
-----------------------------------------------------------------------------
(* Properties.                                                             *)

Call == [op : {"none", "place", "read", "getIdx", "get_log"}, cust : Customer \cup {0}, num : Int,
         at : {"none", "push", "start", "finish", "record", "unlock", "count", "value", "leave",
               "pointers", "answer"},
         st : Nat \cup {NoBlock}, fin : Nat \cup {NoBlock}, size : Nat]

(* The state has its types; in particular the record maps customers to     *)
(* order numbers.                                                          *)
TypeOK ==
  /\ Lock!TypeOK
  /\ log \in Seq([cust : Customer, num : Number])
  /\ DOMAIN customer_record \subseteq Customer
  /\ \A c \in DOMAIN customer_record : customer_record[c] \in Number
  /\ start \in Nat /\ newest \in Nat /\ capacity \in Nat
  /\ finish \in [blk : Nat, n : Nat]
  /\ call \in [Thread -> Call]
  /\ base \in Nat
  /\ grew \in BOOLEAN

(* A call as AtomicStorage sees it: a placed order takes effect when it is *)
(* in the log, a read when its answer is known.  getIdx and get_log are no *)
(* calls there.                                                            *)
AtomicCall(c) ==
  IF c.op \in {"place", "read"}
  THEN [op |-> c.op, cust |-> c.cust, num |-> c.num,
        phase |-> IF c.at \in {"record", "unlock", "leave"} THEN "answered" ELSE "called"]
  ELSE [op |-> "none", cust |-> 0, num |-> -1, phase |-> "idle"]

Atomic == INSTANCE AtomicStorage WITH call <- [t \in Thread |-> AtomicCall(call[t])]

(* place_order and read_record behave as if each happened in one moment:   *)
(* a read returns the customer's last order in the log, although log and   *)
(* map are changed one after the other and readers share the lock.         *)
ImplementsAtomicStorage == Atomic!Spec

(* An unlocked getIdx or get_log sees a log as it was at some moment of    *)
(* the call, unless push_back moved the entries to a new block meanwhile:  *)
(* only then can the answer be an index, or a copy, of nothing.            *)
UnlockedReadsTornOnlyByGrowth ==
  LET c == call[Admin] IN
  c.at = "answer" /\ ~grew =>
    (IF c.op = "getIdx" THEN c.num + 1 ELSE c.num) \in base..Len(log)
=============================================================================
