------------------------------- MODULE MCReads ------------------------------
(* LaptopReads for TLC: every server lists every other one as a peer.      *)
EXTENDS LaptopReads

LOCAL INSTANCE SequencesExt

MCPeerList == [s \in Server |-> SetToSeq(Server \ {s})]
MCReadList == SetToSeq(CustomerId)

(* Each client with an id of its own.                                      *)
MCOwnIds == [c \in Customer |-> c]

(* One customer comes back, the others never order.                        *)
MCOneComesBack == [c \in Customer |-> IF c = CHOOSE d \in Customer : TRUE THEN 2 ELSE 0]
MCOneRun == [c \in Customer |-> 1]

MCNoCrash == [s \in Server |-> 0]
MCOneCrash == [s \in Server |-> IF s = CHOOSE t \in Server : TRUE THEN 1 ELSE 0]
MCConn6 == 1..6
=============================================================================
