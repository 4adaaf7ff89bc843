---------------------------- MODULE WholeMessages ---------------------------
(***************************************************************************)
(* What two connected sockets promise to the stubs above them: messages    *)
(* arrive whole and in the order they were sent, until one side ends.      *)
(* Then what is on its way to that side is lost.                           *)
(***************************************************************************)
EXTENDS Sequences

CONSTANTS
  Side,        \* the two ends of the connection
  Message,
  NoMessage

VARIABLES
  flight,    \* the messages each side has sent that have not arrived
  last,      \* the last message that arrived at each side
  over       \* whether a side has ended

Other(s) == CHOOSE t \in Side : t # s

Init ==
  /\ flight = [s \in Side |-> << >>]
  /\ last = [s \in Side |-> NoMessage]
  /\ over = [s \in Side |-> FALSE]

(* Side s sends a message: the one that flight'[s] then ends with.  What   *)
(* is sent to a side that has ended goes nowhere.                          *)
Send(s) ==
  /\ ~over[s] /\ ~over[Other(s)]
  /\ flight'[s] # << >>
  /\ LET m == flight'[s][Len(flight'[s])]
     IN m \in Message /\ flight' = [flight EXCEPT ![s] = Append(@, m)]
  /\ UNCHANGED <<last, over>>

Arrive(s) ==
  /\ ~over[s]
  /\ flight[Other(s)] # << >>
  /\ last' = [last EXCEPT ![s] = Head(flight[Other(s)])]
  /\ flight' = [flight EXCEPT ![Other(s)] = Tail(@)]
  /\ UNCHANGED over

End(s) ==
  /\ ~over[s]
  /\ over' = [over EXCEPT ![s] = TRUE]
  /\ flight' = [flight EXCEPT ![Other(s)] = << >>]
  /\ UNCHANGED last

Next == \E s \in Side : Send(s) \/ Arrive(s) \/ End(s)

Spec == Init /\ [][Next]_<<flight, last, over>>
=============================================================================
