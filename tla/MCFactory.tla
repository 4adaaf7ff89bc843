------------------------------ MODULE MCFactory -----------------------------
(* LaptopFactory for TLC: deployments in which every server lists every    *)
(* other one as a peer.                                                    *)
EXTENDS LaptopFactoryInv, TLC

LOCAL INSTANCE SequencesExt

MCPeerList == [s \in Server |-> SetToSeq(Server \ {s})]

(* Two servers listing each other, and the customers, are interchangeable. *)
MCSymmetry2 == Permutations(Server) \cup Permutations(Customer)
MCSymmetryCustomers == Permutations(Customer)

(* Each client with an id of its own; one id for all, as clients of        *)
(* different processes have.                                               *)
MCOwnIds  == [c \in Customer |-> c]
MCOneId   == [c \in Customer |-> CHOOSE d \in Customer : TRUE]

MCOneRun  == [c \in Customer |-> 1]
MCTwoRuns == [c \in Customer |-> 2]

MCNoCrash   == [s \in Server |-> 0]
MCOneCrash  == [s \in Server |-> IF s = CHOOSE t \in Server : TRUE THEN 1 ELSE 0]
MCCrashEach == [s \in Server |-> 1]

MCConn6 == 1..6
=============================================================================
