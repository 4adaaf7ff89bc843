----------------------------- MODULE AdminQueue -----------------------------
(***************************************************************************)
(* How an engineer thread hands an order to the admin thread and gets the  *)
(* answer (ServerThread.cpp): the queue erq behind the mutex erq_lock, the *)
(* condition variable erq_cv, and a promise/future pair per order.  One    *)
(* action per statement that blocks, wakes or changes what the other side  *)
(* sees.  What the admin thread does with an order is left out.            *)
(*                                                                         *)
(* An engineer thread waits for its order before it takes another, so an   *)
(* AdminRequest is named by its engineer.                                  *)
(***************************************************************************)
EXTENDS Integers, Sequences

CONSTANTS
  Engineer,    \* the engineer threads
  Admin,       \* the ProductionAdminThread
  Nobody,      \* no thread
  MaxOrders,   \* bound: orders an engineer thread receives
  MaxSpurious  \* bound: spurious wake-ups of the condition variable

ASSUME AdminQueueAssumption ==
  /\ Admin \notin Engineer
  /\ Nobody \notin Engineer \cup {Admin}
  /\ MaxOrders \in Nat
  /\ MaxSpurious \in Nat

VARIABLES
  erq,         \* the queue of AdminRequests
  erq_lock,    \* the thread that holds the mutex, or Nobody
  epc,         \* where each engineer thread is in CreateRegularLaptop
  promise,     \* the promise of each engineer's order
  orders,      \* how many orders each engineer has received
  apc,         \* where the admin thread is in its loop
  req,         \* the request it has popped, or Nobody
  spurious     \* how many spurious wake-ups there were

vars == <<erq, erq_lock, epc, promise, orders, apc, req, spurious>>

(* "asleep" is inside erq_cv.wait with the mutex released, "woken" inside  *)
(* it waiting to lock the mutex again.                                     *)
EngineerPC == {"idle", "lock", "push", "notify", "unlock", "get"}
AdminPC    == {"lock", "test", "asleep", "woken", "pop", "unlock", "work"}

Init ==
  /\ erq = << >>
  /\ erq_lock = Nobody
  /\ epc = [e \in Engineer |-> "idle"]
  /\ promise = [e \in Engineer |-> "none"]
  /\ orders = [e \in Engineer |-> 0]
  /\ apc = "lock"
  /\ req = Nobody
  /\ spurious = 0
-----------------------------------------------------------------------------
(* CreateRegularLaptop of engineer e.                                      *)

MakeRequest(e) ==
  /\ epc[e] = "idle"
  /\ orders[e] < MaxOrders
  /\ orders' = [orders EXCEPT ![e] = @ + 1]
  /\ promise' = [promise EXCEPT ![e] = "unset"]
  /\ epc' = [epc EXCEPT ![e] = "lock"]
  /\ UNCHANGED <<erq, erq_lock, apc, req, spurious>>

EngineerLock(e) ==
  /\ epc[e] = "lock"
  /\ erq_lock = Nobody
  /\ erq_lock' = e
  /\ epc' = [epc EXCEPT ![e] = "push"]
  /\ UNCHANGED <<erq, promise, orders, apc, req, spurious>>

Push(e) ==
  /\ epc[e] = "push"
  /\ erq' = Append(erq, e)
  /\ epc' = [epc EXCEPT ![e] = "notify"]
  /\ UNCHANGED <<erq_lock, promise, orders, apc, req, spurious>>

(* A CreateRegularLaptop that does not notify.                             *)
Notify_Missing(e) ==
  /\ epc[e] = "notify"
  /\ epc' = [epc EXCEPT ![e] = "unlock"]
  /\ UNCHANGED <<erq, erq_lock, promise, orders, apc, req, spurious>>

(* erq_cv.notify_one(): lost unless the admin thread is asleep.            *)
Notify(e) ==
  /\ epc[e] = "notify"
  /\ apc' = IF apc = "asleep" THEN "woken" ELSE apc
  /\ epc' = [epc EXCEPT ![e] = "unlock"]
  /\ UNCHANGED <<erq, erq_lock, promise, orders, req, spurious>>

EngineerUnlock(e) ==
  /\ epc[e] = "unlock"
  /\ erq_lock' = Nobody
  /\ epc' = [epc EXCEPT ![e] = "get"]
  /\ UNCHANGED <<erq, promise, orders, apc, req, spurious>>

(* fut.get() returns; the promise goes with the call.                      *)
FutGet(e) ==
  /\ epc[e] = "get"
  /\ promise[e] = "set"
  /\ promise' = [promise EXCEPT ![e] = "none"]
  /\ epc' = [epc EXCEPT ![e] = "idle"]
  /\ UNCHANGED <<erq, erq_lock, orders, apc, req, spurious>>
-----------------------------------------------------------------------------
(* ProductionAdminThread.                                                  *)

AdminLock ==
  /\ apc = "lock"
  /\ erq_lock = Nobody
  /\ erq_lock' = Admin
  /\ apc' = "test"
  /\ UNCHANGED <<erq, epc, promise, orders, req, spurious>>

(* A thread that unlocks the mutex before it goes to sleep, so that an     *)
(* order can be pushed and notified in between.                            *)
AdminTest_UnlocksFirst ==
  /\ apc \in {"test", "unlocked"}
  /\ apc' = IF apc = "unlocked" THEN "asleep" ELSE IF erq = << >> THEN "unlocked" ELSE "pop"
  /\ erq_lock' = IF apc = "test" /\ erq = << >> THEN Nobody ELSE erq_lock
  /\ UNCHANGED <<erq, epc, promise, orders, req, spurious>>

(* erq.empty(), or the predicate of the wait: an empty queue puts the      *)
(* thread to sleep and releases the mutex in one step.                     *)
AdminTest ==
  /\ apc = "test"
  /\ apc' = IF erq = << >> THEN "asleep" ELSE "pop"
  /\ erq_lock' = IF erq = << >> THEN Nobody ELSE erq_lock
  /\ UNCHANGED <<erq, epc, promise, orders, req, spurious>>

(* A condition variable may wake a thread that nobody notified.            *)
WakeSpuriously ==
  /\ apc = "asleep"
  /\ spurious < MaxSpurious
  /\ spurious' = spurious + 1
  /\ apc' = "woken"
  /\ UNCHANGED <<erq, erq_lock, epc, promise, orders, req>>

(* An erq_cv.wait without the predicate.                                   *)
AdminRelock_NoPredicate ==
  /\ apc = "woken"
  /\ erq_lock = Nobody
  /\ erq_lock' = Admin
  /\ apc' = "pop"
  /\ UNCHANGED <<erq, epc, promise, orders, req, spurious>>

(* The wait locks the mutex again and goes back to the predicate.          *)
AdminRelock ==
  /\ apc = "woken"
  /\ erq_lock = Nobody
  /\ erq_lock' = Admin
  /\ apc' = "test"
  /\ UNCHANGED <<erq, epc, promise, orders, req, spurious>>

(* A thread that takes the newest order.                                   *)
Pop_Newest ==
  /\ apc = "pop"
  /\ req' = erq[Len(erq)]
  /\ erq' = SubSeq(erq, 1, Len(erq) - 1)
  /\ apc' = "unlock"
  /\ UNCHANGED <<erq_lock, epc, promise, orders, spurious>>

(* erq.front() is moved out and popped.                                    *)
Pop ==
  /\ apc = "pop"
  /\ req' = Head(erq)
  /\ erq' = Tail(erq)
  /\ apc' = "unlock"
  /\ UNCHANGED <<erq_lock, epc, promise, orders, spurious>>

AdminUnlock ==
  /\ apc = "unlock"
  /\ erq_lock' = Nobody
  /\ apc' = "work"
  /\ UNCHANGED <<erq, epc, promise, orders, req, spurious>>

(* The order is done and its promise is set.                               *)
SetValue ==
  /\ apc = "work"
  /\ promise' = [promise EXCEPT ![req] = "set"]
  /\ req' = Nobody
  /\ apc' = "lock"
  /\ UNCHANGED <<erq, erq_lock, epc, orders, spurious>>
-----------------------------------------------------------------------------
CreateRegularLaptop(e) ==
  \/ EngineerLock(e)
  \/ Push(e)
  \/ Notify(e)
  \/ EngineerUnlock(e)
  \/ FutGet(e)

ProductionAdminThread ==
  \/ AdminLock
  \/ AdminTest
  \/ AdminRelock
  \/ Pop
  \/ AdminUnlock
  \/ SetValue

Next ==
  \/ \E e \in Engineer : MakeRequest(e) \/ CreateRegularLaptop(e)
  \/ ProductionAdminThread
  \/ WakeSpuriously

Spec == Init /\ [][Next]_vars

(* Every thread that can run is run, and gets a mutex that stays free.     *)
(* Clients need not order, and no spurious wake-up is relied on; the       *)
(* bounds on orders and spurious wake-ups keep the others from taking the  *)
(* mutex again and again, against which std::mutex promises nothing.       *)
FairSpec ==
  /\ Spec
  /\ \A e \in Engineer : WF_vars(CreateRegularLaptop(e))
  /\ WF_vars(ProductionAdminThread)
-----------------------------------------------------------------------------
(* Properties.                                                             *)

(* The state has its types; in particular the admin thread and every       *)
(* engineer thread is at a statement of its function.                      *)
TypeOK ==
  /\ erq \in Seq(Engineer)
  /\ erq_lock \in Engineer \cup {Admin, Nobody}
  /\ epc \in [Engineer -> EngineerPC]
  /\ promise \in [Engineer -> {"none", "unset", "set"}]
  /\ orders \in [Engineer -> Nat]
  /\ apc \in AdminPC
  /\ req \in Engineer \cup {Nobody}
  /\ spurious \in Nat

Pushed(e) == epc[e] \in {"notify", "unlock", "get"}

(* The mutex is held exactly by the thread between its lock and unlock.    *)
MutexInv ==
  /\ \A e \in Engineer : epc[e] \in {"push", "notify", "unlock"} <=> erq_lock = e
  /\ apc \in {"test", "pop", "unlock"} <=> erq_lock = Admin

(* A pop finds an order.                                                   *)
PopInv ==
  /\ apc = "pop" => erq # << >>
  /\ req # Nobody <=> apc \in {"unlock", "work"}

(* Each promise that is pushed and not set belongs to exactly one request, *)
(* in the queue or with the admin thread, and to no other engineer: the    *)
(* promise of a popped request exists, and is set once.                    *)
PromiseInv ==
  /\ \A e \in Engineer : promise[e] = "none" <=> epc[e] = "idle"
  /\ \A e \in Engineer : promise[e] = "set" => Pushed(e)
  /\ \A i \in 1..Len(erq) : Pushed(erq[i]) /\ promise[erq[i]] = "unset" /\ erq[i] # req
  /\ \A i, j \in 1..Len(erq) : erq[i] = erq[j] => i = j
  /\ req # Nobody => Pushed(req) /\ promise[req] = "unset"
  /\ \A e \in Engineer : Pushed(e) /\ promise[e] = "unset" =>
       req = e \/ \E i \in 1..Len(erq) : erq[i] = e

(* The handshake of CreateRegularLaptop and the admin loop is consistent   *)
(* at every step: an order is answered to the engineer that waits for it,  *)
(* never twice, and no queued order is forgotten.                          *)
HandshakeInv == MutexInv /\ PopInv /\ PromiseInv

(* The admin thread does not sleep on an order: if the queue is not empty  *)
(* while it waits on erq_cv, the engineer that pushed is about to notify.  *)
NoLostWakeup ==
  apc = "asleep" /\ erq # << >> => \E e \in Engineer : epc[e] = "notify"

State(e) == IF Pushed(e) THEN IF promise[e] = "set" THEN "served" ELSE "waiting" ELSE "idle"

Abstract == INSTANCE OrderQueue WITH
  queue <- erq, serving <- req, state <- [e \in Engineer |-> State(e)]

(* Mutex, condition variable and promises together are the atomic FIFO     *)
(* with one answer per order that LaptopFactory takes erq to be.           *)
ImplementsOrderQueue == Abstract!Spec

(* Every order an engineer thread hands over is answered.                  *)
RequestAnswered == \A e \in Engineer : epc[e] # "idle" ~> epc[e] = "idle"
=============================================================================
