---------------------------- MODULE AtomicStorage ---------------------------
(***************************************************************************)
(* What ServerStorage promises: a call of place_order or read_record takes *)
(* effect at one moment between its begin and its end.  The storage is the *)
(* log alone; a customer's record is its last entry in the log.            *)
(***************************************************************************)
EXTENDS Integers, Sequences

CONSTANTS Thread, Customer, Number

VARIABLES
  log,       \* entries [cust, num], oldest first
  call       \* what each thread is doing; num of a read is its answer

Idle == [op |-> "none", cust |-> 0, num |-> -1, phase |-> "idle"]

Entries(l, c) == {i \in 1..Len(l) : l[i].cust = c}

(* The number of the last entry of customer c, -1 if there is none.        *)
Latest(l, c) ==
  IF Entries(l, c) = {} THEN -1
  ELSE l[CHOOSE i \in Entries(l, c) : \A j \in Entries(l, c) : j <= i].num

Init ==
  /\ log = << >>
  /\ call = [t \in Thread |-> Idle]

Begin(t, op, c, n) ==
  /\ call[t] = Idle
  /\ call' = [call EXCEPT ![t] = [op |-> op, cust |-> c, num |-> n, phase |-> "called"]]
  /\ UNCHANGED log

Place(t) ==
  /\ call[t].op = "place" /\ call[t].phase = "called"
  /\ log' = Append(log, [cust |-> call[t].cust, num |-> call[t].num])
  /\ call' = [call EXCEPT ![t].phase = "answered"]

Read(t) ==
  /\ call[t].op = "read" /\ call[t].phase = "called"
  /\ call' = [call EXCEPT ![t].phase = "answered", ![t].num = Latest(log, call[t].cust)]
  /\ UNCHANGED log

End(t) ==
  /\ call[t].phase = "answered"
  /\ call' = [call EXCEPT ![t] = Idle]
  /\ UNCHANGED log

Next == \E t \in Thread :
  \/ \E c \in Customer, n \in Number : Begin(t, "place", c, n)
  \/ \E c \in Customer : Begin(t, "read", c, -1)
  \/ Place(t)
  \/ Read(t)
  \/ End(t)

Spec == Init /\ [][Next]_<<log, call>>
=============================================================================
