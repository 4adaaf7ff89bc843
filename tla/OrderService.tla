---------------------------- MODULE OrderService ----------------------------
(***************************************************************************)
(* What the servers together promise their customers while none of them    *)
(* crashes: a replicated record per customer.  A customer asks with one    *)
(* order at a time, every server learns its number, some time, in any      *)
(* order, and the customer is told only when all have learnt it.           *)
(* Primaries, takeovers, stubs, requests and queues are not to be seen.    *)
(***************************************************************************)
EXTENDS Integers

CONSTANTS
  Server,
  Customer,
  Number     \* order numbers

VARIABLES
  record,    \* what each server would answer to a read of a customer
  asked,     \* number of the customer's order on its way, -1 for none
  told       \* number of the last order it was told of, -1 for none

Init ==
  /\ record = [s \in Server |-> [c \in Customer |-> -1]]
  /\ asked = [c \in Customer |-> -1]
  /\ told = [c \in Customer |-> -1]

Ask(c, n) ==
  /\ asked[c] = -1
  /\ asked' = [asked EXCEPT ![c] = n]
  /\ UNCHANGED <<record, told>>

Learn(s, c) ==
  /\ asked[c] # -1
  /\ record' = [record EXCEPT ![s][c] = asked[c]]
  /\ UNCHANGED <<asked, told>>

Tell(c) ==
  /\ asked[c] # -1
  /\ \A s \in Server : record[s][c] = asked[c]
  /\ told' = [told EXCEPT ![c] = asked[c]]
  /\ asked' = [asked EXCEPT ![c] = -1]
  /\ UNCHANGED record

Next == \E c \in Customer : (\E n \in Number : Ask(c, n)) \/ (\E s \in Server : Learn(s, c)) \/ Tell(c)

Spec == Init /\ [][Next]_<<record, asked, told>>
=============================================================================
