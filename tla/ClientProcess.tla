---------------------------- MODULE ClientProcess ---------------------------
(***************************************************************************)
(* The client program: ClientMain.cpp, the loop of ClientThread.cpp and    *)
(* the statistics of ClientTimer.cpp.                                      *)
(*                                                                         *)
(* main starts its timer, a thread per customer, joins them, and merges    *)
(* their timers into its own.  What a call of the stub does is not looked  *)
(* at here (that is Connection): it takes some time and succeeds or not.   *)
(***************************************************************************)
EXTENDS Integers, FiniteSets, FiniteSetsExt

CONSTANTS
  NumCustomers,   \* argv[3]
  Orders,         \* values of argv[4], 0 among them
  Types,          \* values of argv[5]: 1 orders, 2 one read, 3 reads, others none
  NoMin,          \* where a minimum begins: 9999999999.9 microseconds
  MaxTime         \* bound: how far the clock goes

ASSUME ClientAssumption ==
  /\ NumCustomers \in Nat
  /\ Orders \subseteq Int
  /\ NoMin \in Nat
  /\ Types \subseteq Nat
  /\ MaxTime \in Nat

Thread == 0..NumCustomers - 1

VARIABLES
  laptop_type,
  num_orders,
  now,          \* high_resolution_clock
  main,         \* what main does next
  k,            \* position in its loops over the threads
  timer,        \* main's ClientTimer
  thread,       \* each client thread: statement, order number, its timer
  (* History, read by no action. *)
  done          \* operations that were measured: [thread, op, took]

vars == <<laptop_type, num_orders, now, main, k, timer, thread, done>>

(* ClientTimer(): min begins as a large number, which an operation may     *)
(* nevertheless exceed.                                                    *)
NewTimer == [sum |-> 0, max |-> 0, min |-> NoMin, op_count |-> 0, start_time |-> 0, elapsed_time |-> 0]

Start(t) == [t EXCEPT !.start_time = now]
End(t) == [t EXCEPT !.elapsed_time = now - t.start_time]

(* EndAndMerge counts the operation just ended; in a slip op_count stays.  *)
EndAndMerge_NotCounted(t) ==
  LET e == End(t) IN
  [e EXCEPT !.sum = @ + e.elapsed_time,
            !.min = IF e.elapsed_time < @ THEN e.elapsed_time ELSE @,
            !.max = IF e.elapsed_time > @ THEN e.elapsed_time ELSE @]
EndAndMerge(t) ==
  LET e == End(t) IN
  [e EXCEPT !.op_count = @ + 1,
            !.sum = @ + e.elapsed_time,
            !.min = IF e.elapsed_time < @ THEN e.elapsed_time ELSE @,
            !.max = IF e.elapsed_time > @ THEN e.elapsed_time ELSE @]

(* Merge adds another timer's statistics to t's; in a slip one comparison  *)
(* is the wrong way round.                                                 *)
Merge_MinOfMax(t, u) ==
  [t EXCEPT !.sum = @ + u.sum, !.op_count = @ + u.op_count,
            !.min = IF u.min > @ THEN u.min ELSE @,
            !.max = IF u.max > @ THEN u.max ELSE @]
Merge(t, u) ==
  [t EXCEPT !.sum = @ + u.sum, !.op_count = @ + u.op_count,
            !.min = IF u.min < @ THEN u.min ELSE @,
            !.max = IF u.max > @ THEN u.max ELSE @]

Init ==
  /\ laptop_type \in Types
  /\ num_orders \in Orders
  /\ now = 0
  /\ main = "start"
  /\ k = 0
  /\ timer = NewTimer
  /\ thread = [i \in Thread |-> [at |-> "none", i |-> 0, timer |-> NewTimer]]
  /\ done = {}

Tick ==
  /\ main # "exit"
  /\ now < MaxTime
  /\ now' = now + 1
  /\ UNCHANGED <<laptop_type, num_orders, main, k, timer, thread, done>>
-----------------------------------------------------------------------------
(* main.                                                                   *)

(* Type 2 starts a single thread, for the customer whose id is argv[3],    *)
(* waits for it and returns 1; nothing is measured.                        *)
MainStart ==
  /\ main = "start"
  /\ IF laptop_type = 2
     THEN main' = "single" /\ UNCHANGED timer
     ELSE main' = "create" /\ timer' = Start(timer)
  /\ UNCHANGED <<laptop_type, num_orders, now, k, thread, done>>

SingleRead ==
  /\ main = "single"
  /\ main' = "exit"
  /\ UNCHANGED <<laptop_type, num_orders, now, k, timer, thread, done>>

CreateThread ==
  /\ main = "create"
  /\ IF k < NumCustomers
     THEN /\ thread' = [thread EXCEPT ![k].at = "connect"]
          /\ k' = k + 1
          /\ UNCHANGED main
     ELSE main' = "join" /\ k' = 0 /\ UNCHANGED thread
  /\ UNCHANGED <<laptop_type, num_orders, now, timer, done>>

(* A loop of joins that leaves out the last thread.                        *)
Join_NotLast ==
  /\ main = "join"
  /\ IF k + 1 < NumCustomers
     THEN thread[k].at = "ended" /\ k' = k + 1 /\ UNCHANGED <<main, timer>>
     ELSE main' = "merge" /\ k' = 0 /\ timer' = End(timer)
  /\ UNCHANGED <<laptop_type, num_orders, now, thread, done>>

Join ==
  /\ main = "join"
  /\ IF k < NumCustomers
     THEN thread[k].at = "ended" /\ k' = k + 1 /\ UNCHANGED <<main, timer>>
     ELSE main' = "merge" /\ k' = 0 /\ timer' = End(timer)
  /\ UNCHANGED <<laptop_type, num_orders, now, thread, done>>

MergeTimer ==
  /\ main = "merge"
  /\ IF k < NumCustomers
     THEN timer' = Merge(timer, thread[k].timer) /\ k' = k + 1 /\ UNCHANGED main
     ELSE main' = "print" /\ UNCHANGED <<timer, k>>
  /\ UNCHANGED <<laptop_type, num_orders, now, thread, done>>

(* PrintStats divides the sum by op_count, and op_count by elapsed_time.   *)
PrintStats ==
  /\ main = "print"
  /\ main' = "exit"
  /\ UNCHANGED <<laptop_type, num_orders, now, k, timer, thread, done>>
-----------------------------------------------------------------------------
(* ThreadBody of client thread t.                                          *)

(* stub.Init fails: the thread returns with an empty timer.                *)
Connect(t) ==
  /\ thread[t].at = "connect"
  /\ \E at \in {"loop", "ended"} : thread' = [thread EXCEPT ![t].at = at]
  /\ UNCHANGED <<laptop_type, num_orders, now, main, k, timer, done>>

LoopHead(t) ==
  /\ thread[t].at = "loop"
  /\ thread' = IF thread[t].i < num_orders
               THEN [thread EXCEPT ![t].at = "op", ![t].timer = Start(@)]
               ELSE [thread EXCEPT ![t].at = "ended"]
  /\ UNCHANGED <<laptop_type, num_orders, now, main, k, timer, done>>

(* The operation returns: an order or a read that worked, an order that    *)
(* did not, or nothing for another laptop_type.  All of them are measured. *)
OperationEnds(t) ==
  /\ thread[t].at = "op"
  /\ thread' = [thread EXCEPT ![t] = [at |-> "loop", i |-> @.i + 1, timer |-> EndAndMerge(@.timer)]]
  /\ done' = done \cup {[thread |-> t, op |-> thread[t].i, took |-> now - thread[t].timer.start_time]}
  /\ UNCHANGED <<laptop_type, num_orders, now, main, k, timer>>

(* A read of type 3 that fails ends the thread and is not measured.  In a  *)
(* slip it is tried again.                                                 *)
ReadFails_Retries(t) ==
  /\ thread[t].at = "op"
  /\ laptop_type = 3
  /\ thread' = [thread EXCEPT ![t].at = "loop"]
  /\ UNCHANGED <<laptop_type, num_orders, now, main, k, timer, done>>

ReadFails(t) ==
  /\ thread[t].at = "op"
  /\ laptop_type = 3
  /\ thread' = [thread EXCEPT ![t].at = "ended"]
  /\ UNCHANGED <<laptop_type, num_orders, now, main, k, timer, done>>

ThreadBody(t) == Connect(t) \/ LoopHead(t) \/ OperationEnds(t) \/ ReadFails(t)
Main == MainStart \/ SingleRead \/ CreateThread \/ Join \/ MergeTimer \/ PrintStats

Next == Tick \/ Main \/ \E t \in Thread : ThreadBody(t)

Spec == Init /\ [][Next]_vars

(* Threads run, and calls of the stubs return: CallsReturn of Connection.  *)
FairSpec == Spec /\ WF_vars(Main) /\ \A t \in Thread : WF_vars(ThreadBody(t))
-----------------------------------------------------------------------------
(* Properties.                                                             *)

Printing == main = "print"

(* What is printed is the statistics of the operations of all threads:     *)
(* merging the timers of the threads, each merged operation by operation,  *)
(* gives the sum, count, maximum and minimum of everything measured; only  *)
(* the minimum is cut off at the number it begins with.                    *)
StatsOfAllOperations ==
  LET times == {d.took : d \in done} IN
  Printing =>
    /\ timer.op_count = Cardinality(done)
    /\ timer.sum = MapThenSumSet(LAMBDA d : d.took, done)
    /\ timer.min = Min(times \cup {NoMin})
    /\ timer.max = Max(times \cup {0})

(* The statistics fit the run: no operation took longer than the whole,    *)
(* and the threads together not more than as many times the whole.         *)
StatsWithinRun ==
  Printing =>
    /\ timer.max <= timer.elapsed_time
    /\ timer.sum <= NumCustomers * timer.elapsed_time

(* The mean is that of no operation, 0/0, only if no orders were asked    *)
(* for, or no client thread got a connection, or (type 3) no read          *)
(* succeeded; orders that failed count as operations.                      *)
NoMeanOnlyUnconnected ==
  Printing /\ timer.op_count = 0 =>
    \A t \in Thread :
      /\ thread[t].i = 0
      /\ num_orders <= 0 \/ laptop_type = 3 \/ thread[t].timer = NewTimer

(* The client comes to its end: main joins every thread it has created and *)
(* every thread ends, also when it gets no connection or a read fails.     *)
ClientEnds == <>(main = "exit")
=============================================================================
