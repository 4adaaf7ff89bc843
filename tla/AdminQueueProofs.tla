-------------------------- MODULE AdminQueueProofs --------------------------
(***************************************************************************)
(* The admin queue's handshake is correct for any number of engineer       *)
(* threads and orders, and implements the atomic FIFO of LaptopFactory.    *)
(***************************************************************************)
EXTENDS AdminQueue, SequenceTheorems, TLAPS

Inv == TypeOK /\ HandshakeInv /\ NoLostWakeup

USE DEF EngineerPC, AdminPC

(* The invariant holds before any order.                                   *)
LEMMA InitInv == Init => Inv
BY AdminQueueAssumption
   DEF Init, Inv, TypeOK, HandshakeInv, MutexInv, PopInv, PromiseInv, NoLostWakeup, Pushed

(* A push leaves the entries where they are and adds one at the end.       *)
LEMMA AppendElements ==
  ASSUME NEW q \in Seq(Engineer), NEW e \in Engineer
  PROVE  /\ Append(q, e) \in Seq(Engineer)
         /\ Len(Append(q, e)) = Len(q) + 1
         /\ \A i \in 1..Len(q) : Append(q, e)[i] = q[i]
         /\ Append(q, e)[Len(q) + 1] = e
OBVIOUS

(* A pop moves every other entry one place to the front.                   *)
LEMMA TailElements ==
  ASSUME NEW q \in Seq(Engineer), q # << >>
  PROVE  /\ Tail(q) \in Seq(Engineer)
         /\ Head(q) \in Engineer
         /\ Head(q) = q[1]
         /\ Len(q) \in Nat \ {0}
         /\ Len(Tail(q)) = Len(q) - 1
         /\ \A i \in 1..Len(Tail(q)) : Tail(q)[i] = q[i + 1]
OBVIOUS

(* Every step keeps the types; a pop needs the order that PopInv promises. *)
LEMMA NextType == TypeOK /\ HandshakeInv /\ [Next]_vars => TypeOK'
<1> SUFFICES ASSUME TypeOK, HandshakeInv, [Next]_vars PROVE TypeOK'
  OBVIOUS
<1> USE DEF TypeOK
<1>1. ASSUME NEW e \in Engineer, MakeRequest(e) PROVE TypeOK'
  BY <1>1 DEF MakeRequest
<1>2. ASSUME NEW e \in Engineer, EngineerLock(e) PROVE TypeOK'
  BY <1>2 DEF EngineerLock
<1>3. ASSUME NEW e \in Engineer, Push(e) PROVE TypeOK'
  BY <1>3, AppendElements DEF Push
<1>4. ASSUME NEW e \in Engineer, Notify(e) PROVE TypeOK'
  BY <1>4 DEF Notify
<1>5. ASSUME NEW e \in Engineer, EngineerUnlock(e) PROVE TypeOK'
  BY <1>5 DEF EngineerUnlock
<1>6. ASSUME NEW e \in Engineer, FutGet(e) PROVE TypeOK'
  BY <1>6 DEF FutGet
<1>7. CASE AdminLock
  BY <1>7 DEF AdminLock
<1>8. CASE AdminTest
  BY <1>8 DEF AdminTest
<1>9. CASE AdminRelock
  BY <1>9 DEF AdminRelock
<1>10. CASE Pop
  BY <1>10, TailElements DEF Pop, HandshakeInv, PopInv
<1>11. CASE AdminUnlock
  BY <1>11 DEF AdminUnlock
<1>12. CASE SetValue
  BY <1>12 DEF SetValue
<1>13. CASE WakeSpuriously
  BY <1>13 DEF WakeSpuriously
<1>14. CASE UNCHANGED vars
  BY <1>14 DEF vars
<1> QED
  BY <1>1, <1>2, <1>3, <1>4, <1>5, <1>6, <1>7, <1>8, <1>9, <1>10, <1>11, <1>12, <1>13, <1>14
     DEF Next, CreateRegularLaptop, ProductionAdminThread

(* Only the holder of the mutex moves between its lock and unlock.         *)
LEMMA NextMutex == TypeOK /\ MutexInv /\ [Next]_vars => MutexInv'
<1> SUFFICES ASSUME TypeOK, MutexInv, [Next]_vars PROVE MutexInv'
  OBVIOUS
<1> USE AdminQueueAssumption DEF TypeOK, MutexInv
<1>1. ASSUME NEW e \in Engineer, MakeRequest(e) PROVE MutexInv'
  BY <1>1 DEF MakeRequest
<1>2. ASSUME NEW e \in Engineer, EngineerLock(e) PROVE MutexInv'
  BY <1>2 DEF EngineerLock
<1>3. ASSUME NEW e \in Engineer, Push(e) PROVE MutexInv'
  BY <1>3 DEF Push
<1>4. ASSUME NEW e \in Engineer, Notify(e) PROVE MutexInv'
  BY <1>4 DEF Notify
<1>5. ASSUME NEW e \in Engineer, EngineerUnlock(e) PROVE MutexInv'
  BY <1>5 DEF EngineerUnlock
<1>6. ASSUME NEW e \in Engineer, FutGet(e) PROVE MutexInv'
  BY <1>6 DEF FutGet
<1>7. CASE ProductionAdminThread \/ WakeSpuriously
  BY <1>7 DEF ProductionAdminThread, AdminLock, AdminTest, AdminRelock, Pop, AdminUnlock,
              SetValue, WakeSpuriously
<1>8. CASE UNCHANGED vars
  BY <1>8 DEF vars
<1> QED
  BY <1>1, <1>2, <1>3, <1>4, <1>5, <1>6, <1>7, <1>8 DEF Next, CreateRegularLaptop

(* A thread pops under the mutex it held when it saw an order, so nobody   *)
(* else has emptied the queue.                                             *)
LEMMA NextPop == TypeOK /\ PopInv /\ [Next]_vars => PopInv'
<1> SUFFICES ASSUME TypeOK, PopInv, [Next]_vars PROVE PopInv'
  OBVIOUS
<1> USE AdminQueueAssumption DEF TypeOK, PopInv
<1>1. ASSUME NEW e \in Engineer, Push(e) PROVE PopInv'
  <2>1. Len(erq') = Len(erq) + 1 /\ erq' \in Seq(Engineer)
    BY <1>1, AppendElements DEF Push
  <2> QED
    BY <1>1, <2>1 DEF Push
<1>2. ASSUME NEW e \in Engineer, MakeRequest(e) \/ EngineerLock(e) \/ EngineerUnlock(e) \/ FutGet(e)
      PROVE  PopInv'
  BY <1>2 DEF MakeRequest, EngineerLock, EngineerUnlock, FutGet
<1>3. ASSUME NEW e \in Engineer, Notify(e) PROVE PopInv'
  BY <1>3 DEF Notify
<1>4. CASE Pop
  BY <1>4, TailElements DEF Pop
<1>5. CASE AdminLock \/ AdminTest \/ AdminRelock \/ AdminUnlock \/ SetValue \/ WakeSpuriously
  BY <1>5 DEF AdminLock, AdminTest, AdminRelock, AdminUnlock, SetValue, WakeSpuriously
<1>6. CASE UNCHANGED vars
  BY <1>6 DEF vars
<1> QED
  BY <1>1, <1>2, <1>3, <1>4, <1>5, <1>6 DEF Next, CreateRegularLaptop, ProductionAdminThread

(* Where an engineer thread is once its order has been pushed.            *)
AfterPush == {"notify", "unlock", "get"}

(* A step that only moves a program counter, and not across the push or    *)
(* the end of an order, leaves the requests and promises as they are.      *)
LEMMA PromiseUntouched ==
  ASSUME TypeOK, PromiseInv,
         erq' = erq, promise' = promise, req' = req,
         \A f \in Engineer : epc'[f] = "idle" <=> epc[f] = "idle",
         \A f \in Engineer : epc'[f] \in AfterPush <=> epc[f] \in AfterPush
  PROVE  PromiseInv'
<1> USE DEF AfterPush
<1>1. \A i \in 1..Len(erq) : erq[i] \in Engineer
  BY DEF TypeOK
<1>2. req \in Engineer \cup {Nobody}
  BY DEF TypeOK
<1>3. \A f \in Engineer : promise'[f] = "none" <=> epc'[f] = "idle"
  BY DEF PromiseInv
<1>4. \A f \in Engineer : promise'[f] = "set" => epc'[f] \in AfterPush
  BY DEF PromiseInv, Pushed
<1>5. \A i \in 1..Len(erq') : epc'[erq'[i]] \in AfterPush /\ promise'[erq'[i]] = "unset" /\ erq'[i] # req'
  BY <1>1 DEF PromiseInv, Pushed
<1>6. \A i, j \in 1..Len(erq') : erq'[i] = erq'[j] => i = j
  BY DEF PromiseInv
<1>7. req' # Nobody => epc'[req'] \in AfterPush /\ promise'[req'] = "unset"
  BY <1>2 DEF PromiseInv, Pushed
<1>8. \A f \in Engineer : epc'[f] \in AfterPush /\ promise'[f] = "unset" =>
        req' = f \/ \E i \in 1..Len(erq') : erq'[i] = f
  BY DEF PromiseInv, Pushed
<1> QED
  BY <1>3, <1>4, <1>5, <1>6, <1>7, <1>8 DEF PromiseInv, Pushed

(* A push adds the request of an engineer that has none, a pop moves one   *)
(* to the admin thread, SetValue ends it, and FutGet only follows that.    *)
LEMMA NextPromise == TypeOK /\ PopInv /\ PromiseInv /\ [Next]_vars => PromiseInv'
<1> SUFFICES ASSUME TypeOK, PopInv, PromiseInv, [Next]_vars PROVE PromiseInv'
  OBVIOUS
<1> USE AdminQueueAssumption DEF TypeOK, AfterPush
<1>1. ASSUME NEW e \in Engineer, MakeRequest(e) PROVE PromiseInv'
  <2>1. epc[e] = "idle" /\ erq' = erq /\ req' = req
    BY <1>1 DEF MakeRequest
  <2>2. promise' = [promise EXCEPT ![e] = "unset"] /\ epc' = [epc EXCEPT ![e] = "lock"]
    BY <1>1 DEF MakeRequest
  <2>3. \A i \in 1..Len(erq) : /\ erq[i] \in Engineer /\ erq[i] # req
                               /\ epc[erq[i]] \in AfterPush /\ promise[erq[i]] = "unset"
    BY DEF PromiseInv, Pushed
  <2>4. promise[e] = "none" /\ req # e
    BY <2>1 DEF PromiseInv, Pushed
  <2>5. \A f \in Engineer : promise'[f] = "none" <=> epc'[f] = "idle"
    BY <2>1, <2>2, <2>3, <2>4 DEF PromiseInv
  <2>6. \A f \in Engineer : promise'[f] = "set" => epc'[f] \in AfterPush
    BY <2>1, <2>2, <2>3, <2>4 DEF PromiseInv, Pushed
  <2>7. \A i \in 1..Len(erq') : epc'[erq'[i]] \in AfterPush /\ promise'[erq'[i]] = "unset" /\ erq'[i] # req'
    BY <2>1, <2>2, <2>3, <2>4
  <2>8. \A i, j \in 1..Len(erq') : erq'[i] = erq'[j] => i = j
    BY <2>1, <2>2, <2>3, <2>4 DEF PromiseInv
  <2>9. req' # Nobody => epc'[req'] \in AfterPush /\ promise'[req'] = "unset"
    BY <2>1, <2>2, <2>3, <2>4 DEF PromiseInv, Pushed
  <2>10. \A f \in Engineer : epc'[f] \in AfterPush /\ promise'[f] = "unset" =>
           req' = f \/ \E i \in 1..Len(erq') : erq'[i] = f
    BY <2>1, <2>2, <2>3, <2>4 DEF PromiseInv, Pushed
  <2> QED
    BY <2>5, <2>6, <2>7, <2>8, <2>9, <2>10 DEF PromiseInv, Pushed
<1>2. ASSUME NEW e \in Engineer, EngineerLock(e) PROVE PromiseInv'
  <2>1. /\ erq' = erq /\ promise' = promise /\ req' = req
        /\ \A f \in Engineer : epc'[f] = "idle" <=> epc[f] = "idle"
        /\ \A f \in Engineer : epc'[f] \in AfterPush <=> epc[f] \in AfterPush
    BY <1>2 DEF EngineerLock
  <2> QED
    BY <2>1, PromiseUntouched
<1>3. ASSUME NEW e \in Engineer, Push(e) PROVE PromiseInv'
  <2>1. /\ erq' \in Seq(Engineer)
        /\ Len(erq') = Len(erq) + 1
        /\ \A i \in 1..Len(erq) : erq'[i] = erq[i]
        /\ erq'[Len(erq) + 1] = e
        /\ Len(erq) \in Nat
    BY <1>3, AppendElements DEF Push
  <2>2. epc[e] = "push" /\ promise[e] = "unset" /\ req # e
    BY <1>3 DEF Push, PromiseInv, Pushed
  <2>3. promise' = promise /\ req' = req /\ epc' = [epc EXCEPT ![e] = "notify"]
    BY <1>3 DEF Push
  <2>4. \A i \in 1..Len(erq) : /\ erq[i] \in Engineer /\ erq[i] # e /\ erq[i] # req
                               /\ epc'[erq[i]] \in AfterPush /\ promise[erq[i]] = "unset"
    BY <2>2, <2>3 DEF PromiseInv, Pushed
  <2>5. \A i \in 1..Len(erq') : (i \in 1..Len(erq) /\ erq'[i] = erq[i]) \/ (i = Len(erq) + 1 /\ erq'[i] = e)
    BY <2>1
  <2>6. \A i \in 1..Len(erq') : epc'[erq'[i]] \in AfterPush /\ promise'[erq'[i]] = "unset" /\ erq'[i] # req'
    BY <2>2, <2>3, <2>4, <2>5
  <2>7. \A i, j \in 1..Len(erq') : erq'[i] = erq'[j] => i = j
    <3> TAKE i, j \in 1..Len(erq')
    <3>1. CASE i \in 1..Len(erq) /\ j \in 1..Len(erq)
      BY <2>1, <3>1 DEF PromiseInv
    <3> QED
      BY <2>4, <2>5, <3>1
  <2>8. ASSUME NEW f \in Engineer, epc'[f] \in AfterPush, promise'[f] = "unset"
        PROVE  req' = f \/ \E i \in 1..Len(erq') : erq'[i] = f
    <3>1. CASE f = e
      BY <2>1, <3>1
    <3>2. CASE f # e
      <4>1. req = f \/ \E i \in 1..Len(erq) : erq[i] = f
        BY <2>3, <2>8, <3>2 DEF PromiseInv, Pushed
      <4> QED
        BY <2>1, <2>3, <4>1
    <3> QED
      BY <3>1, <3>2
  <2>9. \A f \in Engineer : (promise'[f] = "none" <=> epc'[f] = "idle") /\ (promise'[f] = "set" => epc'[f] \in AfterPush)
    BY <2>2, <2>3 DEF PromiseInv, Pushed
  <2>10. req' # Nobody => epc'[req'] \in AfterPush /\ promise'[req'] = "unset"
    BY <2>2, <2>3 DEF PromiseInv, Pushed
  <2> QED
    BY <2>6, <2>7, <2>8, <2>9, <2>10 DEF PromiseInv, Pushed
<1>4. ASSUME NEW e \in Engineer, Notify(e) PROVE PromiseInv'
  <2>1. /\ erq' = erq /\ promise' = promise /\ req' = req
        /\ \A f \in Engineer : epc'[f] = "idle" <=> epc[f] = "idle"
        /\ \A f \in Engineer : epc'[f] \in AfterPush <=> epc[f] \in AfterPush
    BY <1>4 DEF Notify
  <2> QED
    BY <2>1, PromiseUntouched
<1>5. ASSUME NEW e \in Engineer, EngineerUnlock(e) PROVE PromiseInv'
  <2>1. /\ erq' = erq /\ promise' = promise /\ req' = req
        /\ \A f \in Engineer : epc'[f] = "idle" <=> epc[f] = "idle"
        /\ \A f \in Engineer : epc'[f] \in AfterPush <=> epc[f] \in AfterPush
    BY <1>5 DEF EngineerUnlock
  <2> QED
    BY <2>1, PromiseUntouched
<1>6. ASSUME NEW e \in Engineer, FutGet(e) PROVE PromiseInv'
  <2>1. promise[e] = "set" /\ erq' = erq /\ req' = req
    BY <1>6 DEF FutGet
  <2>2. promise' = [promise EXCEPT ![e] = "none"] /\ epc' = [epc EXCEPT ![e] = "idle"]
    BY <1>6 DEF FutGet
  <2>3. \A i \in 1..Len(erq) : /\ erq[i] \in Engineer /\ erq[i] # req
                               /\ epc[erq[i]] \in AfterPush /\ promise[erq[i]] = "unset"
    BY DEF PromiseInv, Pushed
  <2>4. req # e
    BY <2>1 DEF PromiseInv
  <2>5. \A f \in Engineer : promise'[f] = "none" <=> epc'[f] = "idle"
    BY <2>1, <2>2, <2>3, <2>4 DEF PromiseInv
  <2>6. \A f \in Engineer : promise'[f] = "set" => epc'[f] \in AfterPush
    BY <2>1, <2>2, <2>3, <2>4 DEF PromiseInv, Pushed
  <2>7. \A i \in 1..Len(erq') : epc'[erq'[i]] \in AfterPush /\ promise'[erq'[i]] = "unset" /\ erq'[i] # req'
    BY <2>1, <2>2, <2>3, <2>4
  <2>8. \A i, j \in 1..Len(erq') : erq'[i] = erq'[j] => i = j
    BY <2>1, <2>2, <2>3, <2>4 DEF PromiseInv
  <2>9. req' # Nobody => epc'[req'] \in AfterPush /\ promise'[req'] = "unset"
    BY <2>1, <2>2, <2>3, <2>4 DEF PromiseInv, Pushed
  <2>10. \A f \in Engineer : epc'[f] \in AfterPush /\ promise'[f] = "unset" =>
           req' = f \/ \E i \in 1..Len(erq') : erq'[i] = f
    BY <2>1, <2>2, <2>3, <2>4 DEF PromiseInv, Pushed
  <2> QED
    BY <2>5, <2>6, <2>7, <2>8, <2>9, <2>10 DEF PromiseInv, Pushed
<1>7. CASE Pop
  <2>1. erq # << >> /\ req = Nobody
    BY <1>7 DEF Pop, PopInv
  <2>2. /\ req' = erq[1]
        /\ erq[1] \in Engineer
        /\ Len(erq) \in Nat \ {0}
        /\ Len(erq') = Len(erq) - 1
        /\ \A i \in 1..Len(erq') : erq'[i] = erq[i + 1]
    BY <1>7, <2>1, TailElements DEF Pop
  <2>3. promise' = promise /\ epc' = epc
    BY <1>7 DEF Pop
  <2>4. \A i \in 1..Len(erq') : i + 1 \in 1..Len(erq) /\ i + 1 # 1 /\ i \in Nat
    BY <2>2
  <2>5. 1 \in 1..Len(erq)
    BY <2>2
  <2>6. ASSUME NEW i \in 1..Len(erq')
        PROVE  epc'[erq'[i]] \in AfterPush /\ promise'[erq'[i]] = "unset" /\ erq'[i] # req'
    <3>1. i + 1 \in 1..Len(erq) /\ i + 1 # 1 /\ erq'[i] = erq[i + 1]
      BY <2>2, <2>4
    <3>2. erq[i + 1] # erq[1]
      BY <2>5, <3>1 DEF PromiseInv
    <3> QED
      BY <2>2, <2>3, <3>1, <3>2 DEF PromiseInv, Pushed
  <2>7. ASSUME NEW i \in 1..Len(erq'), NEW j \in 1..Len(erq'), erq'[i] = erq'[j] PROVE i = j
    <3>1. i + 1 \in 1..Len(erq) /\ j + 1 \in 1..Len(erq)
      BY <2>4
    <3>2. erq[i + 1] = erq[j + 1]
      BY <2>2, <2>7
    <3>3. i + 1 = j + 1
      BY <3>1, <3>2 DEF PromiseInv
    <3> QED
      BY <2>4, <3>3
  <2>8. ASSUME NEW f \in Engineer, epc'[f] \in AfterPush, promise'[f] = "unset"
        PROVE  req' = f \/ \E i \in 1..Len(erq') : erq'[i] = f
    <3>1. PICK i \in 1..Len(erq) : erq[i] = f
      BY <2>1, <2>3, <2>8 DEF PromiseInv, Pushed
    <3>2. CASE i = 1
      BY <2>2, <3>1, <3>2
    <3>3. CASE i # 1
      <4>1. i - 1 \in 1..Len(erq') /\ (i - 1) + 1 = i
        BY <2>2, <3>3
      <4> QED
        BY <2>2, <3>1, <4>1
    <3> QED
      BY <3>2, <3>3
  <2>9. epc'[req'] \in AfterPush /\ promise'[req'] = "unset"
    BY <2>2, <2>3, <2>5 DEF PromiseInv, Pushed
  <2>10. \A f \in Engineer : (promise'[f] = "none" <=> epc'[f] = "idle") /\ (promise'[f] = "set" => epc'[f] \in AfterPush)
    BY <2>3 DEF PromiseInv, Pushed
  <2> QED
    BY <2>6, <2>7, <2>8, <2>9, <2>10 DEF PromiseInv, Pushed
<1>8. CASE SetValue
  <2>1. req \in Engineer /\ erq' = erq /\ epc' = epc /\ req' = Nobody
    BY <1>8 DEF SetValue, PopInv
  <2>2. promise' = [promise EXCEPT ![req] = "set"]
    BY <1>8 DEF SetValue
  <2>3. \A i \in 1..Len(erq) : /\ erq[i] \in Engineer /\ erq[i] # req
                               /\ epc[erq[i]] \in AfterPush /\ promise[erq[i]] = "unset"
    BY DEF PromiseInv, Pushed
  <2>4. epc[req] \in AfterPush /\ promise[req] = "unset"
    BY <2>1 DEF PromiseInv, Pushed
  <2>5. \A f \in Engineer : promise'[f] = "none" <=> epc'[f] = "idle"
    BY <2>1, <2>2, <2>3, <2>4 DEF PromiseInv
  <2>6. \A f \in Engineer : promise'[f] = "set" => epc'[f] \in AfterPush
    BY <2>1, <2>2, <2>3, <2>4 DEF PromiseInv, Pushed
  <2>7. \A i \in 1..Len(erq') : epc'[erq'[i]] \in AfterPush /\ promise'[erq'[i]] = "unset" /\ erq'[i] # req'
    BY <2>1, <2>2, <2>3, <2>4
  <2>8. \A i, j \in 1..Len(erq') : erq'[i] = erq'[j] => i = j
    BY <2>1, <2>2, <2>3, <2>4 DEF PromiseInv
  <2>9. req' # Nobody => epc'[req'] \in AfterPush /\ promise'[req'] = "unset"
    BY <2>1, <2>2, <2>3, <2>4 DEF PromiseInv, Pushed
  <2>10. \A f \in Engineer : epc'[f] \in AfterPush /\ promise'[f] = "unset" =>
           req' = f \/ \E i \in 1..Len(erq') : erq'[i] = f
    BY <2>1, <2>2, <2>3, <2>4 DEF PromiseInv, Pushed
  <2> QED
    BY <2>5, <2>6, <2>7, <2>8, <2>9, <2>10 DEF PromiseInv, Pushed
<1>9. CASE AdminLock \/ AdminTest \/ AdminRelock \/ AdminUnlock \/ WakeSpuriously
  <2>1. erq' = erq /\ promise' = promise /\ req' = req /\ epc' = epc
    BY <1>9 DEF AdminLock, AdminTest, AdminRelock, AdminUnlock, WakeSpuriously
  <2> QED
    BY <2>1, PromiseUntouched
<1>10. CASE UNCHANGED vars
  <2>1. erq' = erq /\ promise' = promise /\ req' = req /\ epc' = epc
    BY <1>10 DEF vars
  <2> QED
    BY <2>1, PromiseUntouched
<1> QED
  BY <1>1, <1>2, <1>3, <1>4, <1>5, <1>6, <1>7, <1>8, <1>9, <1>10
     DEF Next, CreateRegularLaptop, ProductionAdminThread

(* The queue is empty when the admin thread falls asleep; who pushes after *)
(* that goes on to notify.                                                 *)
LEMMA NextWakeup == TypeOK /\ NoLostWakeup /\ [Next]_vars => NoLostWakeup'
<1> SUFFICES ASSUME TypeOK, NoLostWakeup, [Next]_vars PROVE NoLostWakeup'
  OBVIOUS
<1> USE DEF TypeOK, NoLostWakeup
<1>1. ASSUME NEW e \in Engineer, MakeRequest(e) \/ EngineerLock(e) \/ EngineerUnlock(e) \/ FutGet(e)
      PROVE  NoLostWakeup'
  BY <1>1 DEF MakeRequest, EngineerLock, EngineerUnlock, FutGet
<1>2. ASSUME NEW e \in Engineer, Push(e) PROVE NoLostWakeup'
  BY <1>2 DEF Push
<1>3. ASSUME NEW e \in Engineer, Notify(e) PROVE NoLostWakeup'
  BY <1>3 DEF Notify
<1>4. CASE ProductionAdminThread \/ WakeSpuriously
  BY <1>4 DEF ProductionAdminThread, AdminLock, AdminTest, AdminRelock, Pop, AdminUnlock,
              SetValue, WakeSpuriously
<1>5. CASE UNCHANGED vars
  BY <1>5 DEF vars
<1> QED
  BY <1>1, <1>2, <1>3, <1>4, <1>5 DEF Next, CreateRegularLaptop

(* Mutex, queue and promises stay consistent, for any engineer threads.    *)
THEOREM QueueInvariant == Spec => [](TypeOK /\ HandshakeInv)
<1>1. Inv /\ [Next]_vars => Inv'
  BY NextType, NextMutex, NextPop, NextPromise, NextWakeup DEF Inv, HandshakeInv
<1> QED
  BY <1>1, InitInv, PTL DEF Spec, Inv

(* The admin thread never sleeps on an order nobody will wake it for.      *)
THEOREM NoOrderSleepsOn == Spec => []NoLostWakeup
<1>1. Inv /\ [Next]_vars => Inv'
  BY NextType, NextMutex, NextPop, NextPromise, NextWakeup DEF Inv, HandshakeInv
<1> QED
  BY <1>1, InitInv, PTL DEF Spec, Inv

(* The push is where an order is submitted.                                *)
LEMMA Submitted ==
  ASSUME TypeOK, NEW e \in Engineer, Push(e), PromiseInv
  PROVE  Abstract!Submit(e)
<1>1. State(e) = "idle" /\ promise[e] # "set"
  BY DEF State, Push, Pushed, PromiseInv
<1>2. [f \in Engineer |-> State(f)]' = [[f \in Engineer |-> State(f)] EXCEPT ![e] = "waiting"]
  BY <1>1 DEF TypeOK, State, Push, Pushed
<1> QED
  BY <1>1, <1>2 DEF Abstract!Submit, Push

(* SetValue serves the order the admin thread has taken.                   *)
LEMMA Served ==
  ASSUME TypeOK, SetValue, PopInv, PromiseInv
  PROVE  Abstract!Serve
<1>1. req \in Engineer /\ Pushed(req) /\ promise[req] = "unset"
  BY AdminQueueAssumption DEF TypeOK, SetValue, PopInv, PromiseInv
<1>2. State(req) = "waiting"
  BY <1>1 DEF State
<1>3. [f \in Engineer |-> State(f)]' = [[f \in Engineer |-> State(f)] EXCEPT ![req] = "served"]
  BY <1>1 DEF TypeOK, State, SetValue, Pushed
<1> QED
  BY <1>1, <1>2, <1>3, AdminQueueAssumption DEF Abstract!Serve, SetValue

(* fut.get() collects an answer.                                           *)
LEMMA Collected ==
  ASSUME TypeOK, NEW e \in Engineer, FutGet(e)
  PROVE  Abstract!Collect(e)
<1>1. State(e) = "served"
  BY DEF State, FutGet, Pushed
<1>2. [f \in Engineer |-> State(f)]' = [[f \in Engineer |-> State(f)] EXCEPT ![e] = "idle"]
  BY DEF TypeOK, State, FutGet, Pushed
<1> QED
  BY <1>1, <1>2 DEF Abstract!Collect, FutGet

(* The steps inside the mutex and the wake-ups are not visible.            *)
LEMMA Hidden ==
  ASSUME TypeOK,
         \/ \E e \in Engineer : MakeRequest(e) \/ EngineerLock(e) \/ Notify(e) \/ EngineerUnlock(e)
         \/ AdminLock \/ AdminTest \/ AdminRelock \/ AdminUnlock \/ WakeSpuriously
         \/ UNCHANGED vars
  PROVE  UNCHANGED <<erq, req, [e \in Engineer |-> State(e)]>>
<1>1. ASSUME NEW e \in Engineer, MakeRequest(e) \/ EngineerLock(e) \/ Notify(e) \/ EngineerUnlock(e)
      PROVE  UNCHANGED <<erq, req, [f \in Engineer |-> State(f)]>>
  BY <1>1 DEF TypeOK, MakeRequest, EngineerLock, Notify, EngineerUnlock, State, Pushed
<1>2. CASE AdminLock \/ AdminTest \/ AdminRelock \/ AdminUnlock \/ WakeSpuriously
  BY <1>2 DEF TypeOK, AdminLock, AdminTest, AdminRelock, AdminUnlock, WakeSpuriously, State, Pushed
<1>3. CASE UNCHANGED vars
  BY <1>3 DEF vars, State, Pushed
<1> QED
  BY <1>1, <1>2, <1>3

(* Every step of the mutex, condition variable and promises is a step of   *)
(* the atomic FIFO queue or invisible to it.                               *)
THEOREM QueueRefinement == Spec => ImplementsOrderQueue
<1>1. Init => Abstract!Init
  BY DEF Init, Abstract!Init, State, Pushed
<1>2. TypeOK /\ HandshakeInv /\ [Next]_vars => [Abstract!Next]_<<erq, req, [e \in Engineer |-> State(e)]>>
  <2> SUFFICES ASSUME TypeOK, HandshakeInv, [Next]_vars
               PROVE  Abstract!Next \/ UNCHANGED <<erq, req, [e \in Engineer |-> State(e)]>>
    OBVIOUS
  <2>1. PopInv /\ PromiseInv
    BY DEF HandshakeInv
  <2>2. ASSUME NEW e \in Engineer, Push(e) PROVE Abstract!Next
    BY <2>1, <2>2, Submitted DEF Abstract!Next
  <2>3. ASSUME NEW e \in Engineer, FutGet(e) PROVE Abstract!Next
    BY <2>3, Collected DEF Abstract!Next
  <2>4. CASE Pop
    <3>1. req = Nobody /\ erq # << >>
      BY <2>1, <2>4 DEF Pop, PopInv
    <3>2. UNCHANGED [e \in Engineer |-> State(e)]
      BY <2>4 DEF Pop, State, Pushed
    <3>3. Abstract!Take
      BY <2>4, <3>1, <3>2 DEF Pop, Abstract!Take
    <3> QED
      BY <3>3 DEF Abstract!Next
  <2>5. CASE SetValue
    BY <2>1, <2>5, Served DEF Abstract!Next
  <2> QED
    BY <2>2, <2>3, <2>4, <2>5, Hidden DEF Next, CreateRegularLaptop, ProductionAdminThread
<1> QED
  BY <1>1, <1>2, QueueInvariant, PTL DEF Spec, ImplementsOrderQueue, Abstract!Spec
=============================================================================
