----------------------------- MODULE OrderQueue -----------------------------
(***************************************************************************)
(* What the admin queue promises the engineer threads: orders are served   *)
(* one at a time and in the order they were submitted, each exactly once,  *)
(* and the engineer that submitted an order is the one that is told.       *)
(* LaptopFactory uses the queue in this form.                              *)
(***************************************************************************)
EXTENDS Sequences

CONSTANTS Engineer, Nobody

VARIABLES
  queue,      \* engineers whose orders wait to be served
  serving,    \* the engineer whose order is being served, or Nobody
  state       \* "idle", "waiting" or "served" for each engineer

Init ==
  /\ queue = << >>
  /\ serving = Nobody
  /\ state = [e \in Engineer |-> "idle"]

Submit(e) ==
  /\ state[e] = "idle"
  /\ queue' = Append(queue, e)
  /\ state' = [state EXCEPT ![e] = "waiting"]
  /\ UNCHANGED serving

Take ==
  /\ serving = Nobody
  /\ queue # << >>
  /\ serving' = Head(queue)
  /\ queue' = Tail(queue)
  /\ UNCHANGED state

Serve ==
  /\ serving # Nobody
  /\ state[serving] = "waiting"
  /\ state' = [state EXCEPT ![serving] = "served"]
  /\ serving' = Nobody
  /\ UNCHANGED queue

Collect(e) ==
  /\ state[e] = "served"
  /\ state' = [state EXCEPT ![e] = "idle"]
  /\ UNCHANGED <<queue, serving>>

Next == Take \/ Serve \/ \E e \in Engineer : Submit(e) \/ Collect(e)

Spec == Init /\ [][Next]_<<queue, serving, state>>
=============================================================================
