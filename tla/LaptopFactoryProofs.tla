------------------------- MODULE LaptopFactoryProofs ------------------------
(***************************************************************************)
(* Proofs about LaptopFactory for every value of its constants.  One       *)
(* section per conjunct of the invariant of LaptopFactoryInv, each ending  *)
(* with a lemma Next... that every step keeps it; the theorems are last.   *)
(***************************************************************************)
EXTENDS LaptopFactoryInv, SequenceTheorems, TLAPS

-----------------------------------------------------------------------------
(* Types of the operators the actions are built from.                      *)

(* The constant records of the model have the types of their fields.       *)
LEMMA ConstantTypes ==
  /\ NoMsg \in Request
  /\ FreeConn \in Conn
  /\ \A p \in Server : NewStub(p) \in Stub
BY DEF NoMsg, NoOrder, Request, FreeConn, Conn, NewStub, Stub

(* Opening a connection yields a stub of the same peer and connections.    *)
LEMMA DialTypes ==
  ASSUME TypeOK, NEW s \in Server, NEW b \in Stub, NEW k \in Dialled(s, b)
  PROVE  /\ k \in ConnId \cup {Refused, NoSocket}
         /\ SocketInit(b, k) \in Stub
         /\ SocketInit(b, k).peer = b.peer
         /\ Dial(s, b, k) \in [ConnId -> Conn]
<1>1. k \in ConnId \cup {Refused, NoSocket}
  BY DEF Dialled, FreshConn, Stub, Refused
<1>2. SocketInit(b, k) \in Stub /\ SocketInit(b, k).peer = b.peer
  BY <1>1 DEF SocketInit, Stub
<1>3. [FreeConn EXCEPT !.from = s, !.to = b.peer, !.open = TRUE, !.eng = "status"] \in Conn
  BY ConstantTypes DEF Conn, Stub
<1>4. Dial(s, b, k) \in [ConnId -> Conn]
  BY <1>3 DEF Dial, TypeOK
<1> QED
  BY <1>1, <1>2, <1>4

(* Changing a connection that exists or not keeps the type.                *)
LEMMA ConnUpdate ==
  ASSUME NEW f \in [ConnId -> Conn], NEW k, NEW m \in Request
  PROVE  /\ Send(f, k, m) \in [ConnId -> Conn]
         /\ [f EXCEPT ![k].ident = TRUE] \in [ConnId -> Conn]
         /\ [f EXCEPT ![k].ack = FALSE] \in [ConnId -> Conn]
         /\ [f EXCEPT ![k] = FreeConn] \in [ConnId -> Conn]
<1>1. CASE k \in ConnId
  BY <1>1, ConstantTypes DEF Send, Conn
<1>2. CASE k \notin ConnId
  BY <1>2 DEF Send
<1> QED
  BY <1>1, <1>2

(* A stub in the list is a stub, and replacing it keeps the list's length. *)
LEMMA StubUpdate ==
  ASSUME ServerTypeOK, NEW s \in Server, NEW i \in 1..Len(stubs[s]), NEW b \in Stub
  PROVE  /\ stubs[s][i] \in Stub
         /\ [stubs EXCEPT ![s][i] = b] \in [Server -> Seq(Stub)]
         /\ \A t \in Server : Len([stubs EXCEPT ![s][i] = b][t]) = Len(stubs[t])
<1>1. stubs[s] \in Seq(Stub)
  BY DEF ServerTypeOK
<1>2. [stubs[s] EXCEPT ![i] = b] \in Seq(Stub) /\ Len([stubs[s] EXCEPT ![i] = b]) = Len(stubs[s])
  BY <1>1, ExceptSeq
<1>3. stubs[s][i] \in Stub
  BY <1>1, ElementOfSeq
<1> QED
  BY <1>2, <1>3 DEF ServerTypeOK

(* place_order keeps the types of the log and the record map.              *)
LEMMA PlaceOrderTypes ==
  ASSUME ServerTypeOK, NEW s \in Server, NEW o \in Order, place_order(s, o)
  PROVE  log' \in [Server -> Seq(Order)] /\ customer_record' \in [Server -> [CustomerId -> Int]]
<1>1. Append(log[s], o) \in Seq(Order)
  BY DEF ServerTypeOK
<1>2. IdOf[o.cust] \in CustomerId /\ o.num \in Int
  BY DEF Order, CustomerId
<1>3. [customer_record[s] EXCEPT ![IdOf[o.cust]] = o.num] \in [CustomerId -> Int]
  BY <1>2 DEF ServerTypeOK
<1> QED
  BY <1>1, <1>3 DEF ServerTypeOK, place_order

-----------------------------------------------------------------------------
(* Type correctness, one lemma per kind of actor.                          *)

(* The initial state is well typed.                                        *)
LEMMA InitType == Init => TypeOK
<1> SUFFICES ASSUME Init PROVE TypeOK
  OBVIOUS
<1>1. ServerTypeOK
  BY FactoryAssumption DEF Init, ServerTypeOK
<1>2. AdminTypeOK /\ PositionsOK
  BY ConstantTypes DEF Init, AdminTypeOK, PositionsOK, AdminPC
<1>3. ClientTypeOK
  BY DEF Init, ClientTypeOK, ClientPC
<1> QED
  BY <1>1, <1>2, <1>3, ConstantTypes DEF Init, TypeOK

(* Steps of a client.                                                      *)
LEMMA ClientType ==
  ASSUME TypeOK, FactoryInv, NEW c \in Customer, Client(c)
  PROVE  TypeOK'
<1>1. ASSUME NEW s \in Server, StartSession(c, s) PROVE TypeOK'
  <2>1. ClientTypeOK'
    BY <1>1 DEF TypeOK, ClientTypeOK, StartSession, ClientPC
  <2>2. ServerTypeOK' /\ AdminTypeOK' /\ PositionsOK'
    BY <1>1 DEF TypeOK, ServerTypeOK, AdminTypeOK, PositionsOK, StartSession, srvVars, adminVars
  <2> QED
    BY <1>1, <2>1, <2>2 DEF TypeOK, StartSession
<1>2. CASE SendOrder(c)
  <2>1. ClientTypeOK'
    BY <1>2 DEF TypeOK, ClientTypeOK, SendOrder, ClientPC
  <2>2. OrderOf(c) \in Order
    BY DEF TypeOK, ClientTypeOK, OrderOf, Order
  <2> csrv[c] \in Server
    BY <1>2 DEF SendOrder, FactoryInv, ClientInv
  <2>3. ServerTypeOK'
    BY <1>2, <2>2 DEF TypeOK, ServerTypeOK, SendOrder
  <2>4. AdminTypeOK' /\ PositionsOK'
    BY <1>2 DEF TypeOK, AdminTypeOK, PositionsOK, SendOrder, adminVars
  <2> QED
    BY <1>2, <2>1, <2>3, <2>4 DEF TypeOK, SendOrder
<1>3. ASSUME NEW s \in Server, CreateRegularLaptop(s, c) PROVE TypeOK'
  <2>1. ServerTypeOK'
    BY <1>3 DEF TypeOK, ServerTypeOK, CreateRegularLaptop
  <2>2. AdminTypeOK' /\ ClientTypeOK' /\ PositionsOK'
    BY <1>3 DEF TypeOK, AdminTypeOK, ClientTypeOK, PositionsOK, CreateRegularLaptop, adminVars, clientVars
  <2> QED
    BY <1>3, <2>1, <2>2 DEF TypeOK, CreateRegularLaptop
<1>4. CASE SendLaptop(c)
  <2>1. ClientTypeOK'
    BY <1>4 DEF TypeOK, ClientTypeOK, SendLaptop, ClientPC
  <2>2. OrderOf(c) \in Order
    BY DEF TypeOK, ClientTypeOK, OrderOf, Order
  <2>3. csrv[c] \in Server /\ Reached(csrv[c]) \subseteq Server
    BY <1>4, FactoryAssumption DEF SendLaptop, FactoryInv, ClientInv, Reached, Peers
  <2>4. acked' \subseteq [ord : Order, by : Server, at : SUBSET Server]
    BY <1>4, <2>2, <2>3 DEF TypeOK, SendLaptop
  <2>5. ServerTypeOK' /\ AdminTypeOK' /\ PositionsOK'
    BY <1>4 DEF TypeOK, ServerTypeOK, AdminTypeOK, PositionsOK, SendLaptop, srvVars, adminVars
  <2> QED
    BY <1>4, <2>1, <2>4, <2>5 DEF TypeOK, SendLaptop
<1>5. CASE ClientGone(c)
  <2>1. ClientTypeOK'
    BY <1>5 DEF TypeOK, ClientTypeOK, ClientGone, ClientPC
  <2>2. OrderOf(c) \in Order
    BY DEF TypeOK, ClientTypeOK, OrderOf, Order
  <2>3. ServerTypeOK' /\ AdminTypeOK' /\ PositionsOK'
    BY <1>5 DEF TypeOK, ServerTypeOK, AdminTypeOK, PositionsOK, ClientGone, srvVars, adminVars
  <2> QED
    BY <1>5, <2>1, <2>2, <2>3 DEF TypeOK, ClientGone
<1> QED
  BY <1>1, <1>2, <1>3, <1>4, <1>5 DEF Client

(* A step of the admin thread of s to statement a with loop position n     *)
(* keeps the positions inside the lists when n is inside the one a uses.   *)
LEMMA AdminMoves ==
  ASSUME TypeOK, NEW s \in Server, NEW a \in AdminPC, NEW n \in Nat \ {0},
         apc' = [apc EXCEPT ![s] = a], it' = [it EXCEPT ![s] = n],
         \A t \in Server \ {s} : Len(stubs'[t]) = Len(stubs[t]),
         a \in {"connect", "identify"} => n <= Len(PeerList[s]),
         a \in {"visit", "await"} => n <= Len(stubs'[s])
  PROVE  /\ apc' \in [Server -> AdminPC]
         /\ it' \in [Server -> Nat \ {0}]
         /\ PositionsOK'
<1>1. apc' \in [Server -> AdminPC] /\ it' \in [Server -> Nat \ {0}]
  BY DEF TypeOK, AdminTypeOK
<1>2. ASSUME NEW t \in Server
      PROVE  /\ apc'[t] \in {"connect", "identify"} => it'[t] <= Len(PeerList[t])
             /\ apc'[t] \in {"visit", "await"} => it'[t] <= Len(stubs'[t])
  <2>1. CASE t = s
    BY <2>1 DEF TypeOK, AdminTypeOK
  <2>2. CASE t # s
    <3>1. apc'[t] = apc[t] /\ it'[t] = it[t] /\ Len(stubs'[t]) = Len(stubs[t])
      BY <2>2 DEF TypeOK, AdminTypeOK
    <3> QED
      BY <3>1 DEF TypeOK, PositionsOK
  <2> QED
    BY <2>1, <2>2
<1> QED
  BY <1>1, <1>2 DEF PositionsOK

(* Where the loops of startConnection and startReplication go next.        *)
LEMMA LoopSteps ==
  ASSUME TypeOK, NEW s \in Server, NEW i \in Nat
  PROVE  /\ AfterPeer(s, i) \in {"connect", "index"}
         /\ AfterPeer(s, i) = "connect" => i + 1 <= Len(PeerList[s])
         /\ AfterStub(s, i) \in {"visit", "place"}
         /\ AfterStub(s, i) = "visit" => i + 1 <= Len(stubs[s])
         /\ AfterPeer(s, i) \in AdminPC /\ AfterStub(s, i) \in AdminPC
<1>1. Len(PeerList[s]) \in Nat /\ Len(stubs[s]) \in Nat
  BY FactoryAssumption DEF TypeOK, ServerTypeOK
<1> QED
  BY <1>1 DEF AfterPeer, AfterStub, AdminPC

(* Steps of the admin thread up to the end of startConnection.             *)
LEMMA ConnectionType ==
  ASSUME TypeOK, FactoryInv, NEW s \in Server,
         \/ AdminDequeue(s) \/ ReadCommitted(s) \/ ClaimPrimary(s)
         \/ ConnectPeer(s) \/ IdentifyPeer(s)
  PROVE  TypeOK'
<1>a. it[s] \in Nat \ {0} /\ it = [it EXCEPT ![s] = it[s]]
  BY DEF TypeOK, AdminTypeOK
<1>1. CASE AdminDequeue(s)
  <2>1. ServerTypeOK'
    BY <1>1 DEF TypeOK, ServerTypeOK, AdminDequeue
  <2>2. AdminTypeOK' /\ PositionsOK'
    BY <1>1 DEF TypeOK, ServerTypeOK, AdminTypeOK, PositionsOK, AdminDequeue, AdminPC
  <2> QED
    BY <1>1, <2>1, <2>2 DEF TypeOK, AdminDequeue, clientVars, ClientTypeOK
<1>2. CASE ReadCommitted(s)
  <2>1. AdminTypeOK' /\ PositionsOK'
    BY <1>2 DEF TypeOK, ServerTypeOK, AdminTypeOK, PositionsOK, ReadCommitted, AdminPC, srvVars
  <2> QED
    BY <1>2, <2>1 DEF TypeOK, ReadCommitted, clientVars, srvVars, ClientTypeOK, ServerTypeOK
<1>3. CASE ClaimPrimary(s)
  <2>1. ServerTypeOK'
    BY <1>3 DEF TypeOK, ServerTypeOK, AdminTypeOK, ClaimPrimary
  <2>2. apc' \in [Server -> AdminPC] /\ it' \in [Server -> Nat \ {0}] /\ PositionsOK'
    <3> DEFINE a == AfterPeer(s, 0)
    <3>1. /\ apc' = [apc EXCEPT ![s] = a] /\ it' = [it EXCEPT ![s] = 1]
          /\ \A t \in Server \ {s} : Len(stubs'[t]) = Len(stubs[t])
      BY <1>3 DEF ClaimPrimary
    <3>2. a \in AdminPC /\ a \notin {"identify", "visit", "await"} /\ (a = "connect" => 1 <= Len(PeerList[s]))
          /\ 1 \in Nat \ {0}
      BY FactoryAssumption DEF AfterPeer, AdminPC
    <3> HIDE DEF a
    <3> QED
      BY <3>1, <3>2, AdminMoves
  <2>3. AdminTypeOK'
    BY <1>3, <2>2 DEF TypeOK, AdminTypeOK, ClaimPrimary
  <2> QED
    BY <1>3, <2>1, <2>2, <2>3 DEF TypeOK, ClaimPrimary, clientVars, ClientTypeOK
<1>4. CASE ConnectPeer(s)
  <2> DEFINE new == NewStub(PeerList[s][it[s]])
  <2>1. new \in Stub /\ it[s] <= Len(PeerList[s])
    BY <1>4, <1>a, FactoryAssumption, ConstantTypes DEF TypeOK, PositionsOK, ConnectPeer
  <2>2. PICK k \in Dialled(s, new) :
          /\ stubs' = [stubs EXCEPT ![s] = Append(@, SocketInit(new, k))]
          /\ conn' = Dial(s, new, k)
          /\ apc' = [apc EXCEPT ![s] = IF SocketInit(new, k).valid THEN "identify" ELSE AfterPeer(s, it[s])]
          /\ it' = [it EXCEPT ![s] = IF SocketInit(new, k).valid THEN @ ELSE @ + 1]
    BY <1>4 DEF ConnectPeer
  <2>3. SocketInit(new, k) \in Stub /\ conn' \in [ConnId -> Conn]
    BY <2>1, <2>2, DialTypes
  <2> HIDE DEF new
  <2>4. stubs' \in [Server -> Seq(Stub)] /\ \A t \in Server \ {s} : stubs'[t] = stubs[t]
    BY <2>2, <2>3 DEF TypeOK, ServerTypeOK
  <2>5. ServerTypeOK'
    BY <1>4, <2>4 DEF TypeOK, ServerTypeOK, ConnectPeer
  <2>6. apc' \in [Server -> AdminPC] /\ it' \in [Server -> Nat \ {0}] /\ PositionsOK'
    <3>1. CASE SocketInit(new, k).valid
      BY <1>a, <2>1, <2>2, <2>4, <3>1, AdminMoves DEF AdminPC
    <3>2. CASE ~SocketInit(new, k).valid
      <4> DEFINE a == AfterPeer(s, it[s])
      <4>1. apc' = [apc EXCEPT ![s] = a] /\ it' = [it EXCEPT ![s] = it[s] + 1]
        BY <2>2, <3>2
      <4>2. a \in AdminPC /\ a \notin {"identify", "visit", "await"}
            /\ (a = "connect" => it[s] + 1 <= Len(PeerList[s])) /\ it[s] + 1 \in Nat \ {0}
        BY <1>a, LoopSteps
      <4> HIDE DEF a
      <4> QED
        BY <2>4, <4>1, <4>2, AdminMoves
    <3> QED
      BY <3>1, <3>2
  <2>7. AdminTypeOK'
    BY <1>4, <2>6 DEF TypeOK, AdminTypeOK, ConnectPeer
  <2> QED
    BY <1>4, <2>3, <2>5, <2>6, <2>7 DEF TypeOK, ConnectPeer, clientVars, ClientTypeOK
<1>5. CASE IdentifyPeer(s)
  <2> DEFINE n == Len(stubs[s])
             k == stubs[s][n].conn
  <2>0. stubs[s] \in Seq(Stub) /\ n \in 1..Len(stubs[s])
    BY <1>5 DEF TypeOK, ServerTypeOK, FactoryInv, StubInv, IdentifyPeer
  <2>1. /\ conn' = conn \/ conn' = [conn EXCEPT ![k].ident = TRUE] \/ conn' = [conn EXCEPT ![k] = FreeConn]
        /\ stubs' = stubs \/ stubs' = [stubs EXCEPT ![s][n] = Closed(stubs[s][n])]
    BY <1>5 DEF IdentifyPeer
  <2>2. Closed(stubs[s][n]) \in Stub
    <3>1. stubs[s][n] \in Stub
      BY <2>0, ElementOfSeq
    <3> QED
      BY <3>1 DEF Closed, Stub
  <2> HIDE DEF n, k
  <2>3. conn' \in [ConnId -> Conn]
    <3>1. conn \in [ConnId -> Conn]
      BY DEF TypeOK
    <3>2. [conn EXCEPT ![k].ident = TRUE] \in [ConnId -> Conn] /\ [conn EXCEPT ![k] = FreeConn] \in [ConnId -> Conn]
      BY <3>1, ConnUpdate, ConstantTypes
    <3>3. conn' = conn \/ conn' = [conn EXCEPT ![k].ident = TRUE] \/ conn' = [conn EXCEPT ![k] = FreeConn]
      BY <2>1
    <3>4. CASE conn' = [conn EXCEPT ![k].ident = TRUE]
      BY <3>2, <3>4
    <3>5. CASE conn' = [conn EXCEPT ![k] = FreeConn]
      BY <3>2, <3>5
    <3>6. CASE conn' = conn
      BY <3>1, <3>6
    <3> QED
      BY <3>3, <3>4, <3>5, <3>6
  <2>4. stubs' \in [Server -> Seq(Stub)] /\ \A t \in Server : Len(stubs'[t]) = Len(stubs[t])
    <3>1. CASE stubs' = stubs
      BY <3>1 DEF TypeOK, ServerTypeOK
    <3>2. CASE stubs' = [stubs EXCEPT ![s][n] = Closed(stubs[s][n])]
      BY <2>0, <2>2, <3>2, StubUpdate DEF TypeOK
    <3> QED
      BY <2>1, <3>1, <3>2
  <2>5. ServerTypeOK'
    BY <1>5, <2>4 DEF TypeOK, ServerTypeOK, IdentifyPeer
  <2>6. apc' \in [Server -> AdminPC] /\ it' \in [Server -> Nat \ {0}] /\ PositionsOK'
    <3> DEFINE a == AfterPeer(s, it[s])
    <3>1. apc' = [apc EXCEPT ![s] = a] /\ it' = [it EXCEPT ![s] = it[s] + 1]
      BY <1>5 DEF IdentifyPeer
    <3>2. a \in AdminPC /\ a \notin {"identify", "visit", "await"}
          /\ (a = "connect" => it[s] + 1 <= Len(PeerList[s])) /\ it[s] + 1 \in Nat \ {0}
      BY <1>a, LoopSteps
    <3> HIDE DEF a
    <3> QED
      BY <2>4, <3>1, <3>2, AdminMoves
  <2>7. AdminTypeOK'
    BY <1>5, <2>6 DEF TypeOK, AdminTypeOK, IdentifyPeer
  <2> QED
    BY <1>5, <2>3, <2>5, <2>6, <2>7 DEF TypeOK, IdentifyPeer, clientVars, ClientTypeOK
<1> QED
  BY <1>1, <1>2, <1>3, <1>4, <1>5

(* Steps of the admin thread from getIdx to the promise.                   *)
LEMMA ReplicationType ==
  ASSUME TypeOK, FactoryInv, NEW s \in Server,
         \/ ReadIndex(s) \/ BuildRequest(s) \/ ReplicateTo(s) \/ ReplicationAcked(s)
         \/ ReplicationFailed(s) \/ AdminPlaceOrder(s) \/ CommitOrder(s)
  PROVE  TypeOK'
<1>a. it[s] \in Nat \ {0} /\ it = [it EXCEPT ![s] = it[s]]
  BY DEF TypeOK, AdminTypeOK
<1>b. stubs[s] \in Seq(Stub) /\ conn \in [ConnId -> Conn] /\ msg[s] \in Request
  BY DEF TypeOK, ServerTypeOK, AdminTypeOK
<1>c. apc[s] \in {"visit", "await"} => it[s] \in 1..Len(stubs[s]) /\ stubs[s][it[s]] \in Stub
  BY <1>a, <1>b, ElementOfSeq DEF TypeOK, PositionsOK
<1>d. todo[s] = << >>
  BY DEF FactoryInv, RequestInv
<1>e. ASSUME NEW i \in Nat
      PROVE  /\ AfterStub(s, i) \in AdminPC
             /\ AfterStub(s, i) \notin {"connect", "identify", "await"}
             /\ AfterStub(s, i) = "visit" => i + 1 <= Len(stubs[s])
  BY LoopSteps DEF AfterStub, AdminPC
<1>1. CASE ReadIndex(s)
  <2>1. getIdx(s) \subseteq Int
    BY FactoryAssumption DEF getIdx, TypeOK, ServerTypeOK
  <2>2. ServerTypeOK'
    BY <1>1, <2>1 DEF TypeOK, ServerTypeOK, ReadIndex
  <2>3. [fid |-> s, committed |-> committed_index[s], last |-> -1, ord |-> cur[s]] \in Request
    BY DEF TypeOK, ServerTypeOK, AdminTypeOK, Request
  <2>4. AdminTypeOK'
    BY <1>1, <2>3 DEF TypeOK, AdminTypeOK, ReadIndex, AdminPC
  <2>5. PositionsOK'
    BY <1>1 DEF TypeOK, AdminTypeOK, PositionsOK, ReadIndex
  <2> QED
    BY <1>1, <2>2, <2>4, <2>5 DEF TypeOK, ReadIndex, clientVars, ClientTypeOK
<1>2. CASE BuildRequest(s)
  <2>1. apc' \in [Server -> AdminPC] /\ it' \in [Server -> Nat \ {0}] /\ PositionsOK'
    <3> DEFINE a == AfterStub(s, 0)
    <3>1. /\ apc' = [apc EXCEPT ![s] = a] /\ it' = [it EXCEPT ![s] = 1]
          /\ stubs' = stubs
      BY <1>2 DEF BuildRequest, srvVars
    <3>2. a \in AdminPC /\ a \notin {"connect", "identify", "await"} /\ (a = "visit" => 1 <= Len(stubs'[s]))
          /\ 1 \in Nat \ {0}
      BY <1>b, <3>1 DEF AfterStub, AdminPC
    <3> HIDE DEF a
    <3> QED
      BY <3>1, <3>2, AdminMoves
  <2>2. msg' \in [Server -> Request]
    <3>1. last_index[s] \in Int
      BY DEF TypeOK, ServerTypeOK
    <3>2. [msg[s] EXCEPT !.last = last_index[s]] \in Request
      BY <1>b, <3>1 DEF Request
    <3> QED
      BY <1>2, <3>2 DEF TypeOK, AdminTypeOK, BuildRequest
  <2>3. AdminTypeOK'
    BY <1>2, <2>1, <2>2 DEF TypeOK, AdminTypeOK, BuildRequest
  <2> QED
    BY <1>2, <2>1, <2>3 DEF TypeOK, ServerTypeOK, BuildRequest, clientVars, srvVars, ClientTypeOK
<1>3. CASE ReplicateTo(s)
  <2> DEFINE b == stubs[s][it[s]]
  <2>1. b \in Stub /\ it[s] \in 1..Len(stubs[s])
    BY <1>3, <1>c DEF ReplicateTo
  <2>u. UNCHANGED <<up, primary_id, committed_index, last_index, log, customer_record, inbox, erq,
                    cur, bump, msg, clientVars, acked, abandoned, crashes>>
    BY <1>3 DEF ReplicateTo
  <2>t. << >> \in Seq(Request)
    OBVIOUS
  <2>2. CASE b.valid
    <3>1. /\ stubs' = [stubs EXCEPT ![s][it[s]] = b]
          /\ conn' = Send(conn, b.conn, msg[s])
          /\ todo' = [todo EXCEPT ![s] = << >>]
          /\ apc' = [apc EXCEPT ![s] = "await"]
          /\ it' = [it EXCEPT ![s] = it[s]]
      <4>1. Head(<< msg[s] >>) = msg[s] /\ Tail(<< msg[s] >>) = << >>
        OBVIOUS
      <4> QED
        BY <1>3, <2>2, <4>1 DEF ReplicateTo
    <3> HIDE DEF b
    <3>2. conn' \in [ConnId -> Conn]
      BY <1>b, <3>1, ConnUpdate
    <3>3. stubs' \in [Server -> Seq(Stub)] /\ \A t \in Server : Len(stubs'[t]) = Len(stubs[t])
      BY <2>1, <3>1, StubUpdate DEF TypeOK
    <3>4. ServerTypeOK'
      BY <2>u, <3>3 DEF TypeOK, ServerTypeOK
    <3>5. apc' \in [Server -> AdminPC] /\ it' \in [Server -> Nat \ {0}] /\ PositionsOK'
      <4>1. it[s] <= Len(stubs'[s]) /\ "await" \in AdminPC
        BY <2>1, <3>3 DEF AdminPC
      <4> QED
        BY <1>a, <3>1, <3>3, <4>1, AdminMoves
    <3>6. AdminTypeOK'
      BY <2>t, <2>u, <3>1, <3>5 DEF TypeOK, AdminTypeOK
    <3> QED
      BY <2>u, <3>2, <3>4, <3>5, <3>6 DEF TypeOK, clientVars, ClientTypeOK
  <2>3. CASE ~b.valid
    <3>1. PICK k \in Dialled(s, b) :
            /\ ~SocketInit(b, k).valid
            /\ stubs' = [stubs EXCEPT ![s][it[s]] = SocketInit(b, k)]
            /\ conn' = Dial(s, b, k)
            /\ todo' = [todo EXCEPT ![s] = << >>]
            /\ apc' = [apc EXCEPT ![s] = AfterStub(s, it[s])]
            /\ it' = [it EXCEPT ![s] = it[s] + 1]
      <4>1. \A k : ~SocketInit(b, k).valid
        BY <2>1, <2>3 DEF SocketInit, Stub
      <4> QED
        BY <1>3, <2>3, <4>1 DEF ReplicateTo
    <3> HIDE DEF b
    <3>2. SocketInit(b, k) \in Stub /\ conn' \in [ConnId -> Conn]
      BY <2>1, <3>1, DialTypes
    <3>3. stubs' \in [Server -> Seq(Stub)] /\ \A t \in Server : Len(stubs'[t]) = Len(stubs[t])
      BY <2>1, <3>1, <3>2, StubUpdate DEF TypeOK
    <3>4. ServerTypeOK'
      BY <2>u, <3>3 DEF TypeOK, ServerTypeOK
    <3>5. apc' \in [Server -> AdminPC] /\ it' \in [Server -> Nat \ {0}] /\ PositionsOK'
      <4> DEFINE a == AfterStub(s, it[s])
      <4>1. /\ a \in AdminPC /\ a \notin {"connect", "identify", "await"}
            /\ (a = "visit" => it[s] + 1 <= Len(stubs'[s])) /\ it[s] + 1 \in Nat \ {0}
        BY <1>a, <1>e, <3>3
      <4>2. apc' = [apc EXCEPT ![s] = a]
        BY <3>1
      <4> HIDE DEF a
      <4> QED
        BY <3>1, <3>3, <4>1, <4>2, AdminMoves
    <3>6. AdminTypeOK'
      BY <2>t, <2>u, <3>1, <3>5 DEF TypeOK, AdminTypeOK
    <3> QED
      BY <2>u, <3>2, <3>4, <3>5, <3>6 DEF TypeOK, clientVars, ClientTypeOK
  <2> QED
    BY <2>2, <2>3
<1>4. CASE ReplicationAcked(s)
  <2> DEFINE k == stubs[s][it[s]].conn
  <2>1. /\ conn' = [conn EXCEPT ![k].ack = FALSE]
        /\ todo' = [todo EXCEPT ![s] = << >>]
        /\ apc' = [apc EXCEPT ![s] = AfterStub(s, it[s])]
        /\ it' = [it EXCEPT ![s] = it[s] + 1]
        /\ stubs' = stubs
    BY <1>4, <1>d DEF ReplicationAcked, srvVars
  <2> HIDE DEF k
  <2>2. conn' \in [ConnId -> Conn]
    BY <1>b, <2>1, ConnUpdate, ConstantTypes
  <2>3. apc' \in [Server -> AdminPC] /\ it' \in [Server -> Nat \ {0}] /\ PositionsOK'
    <3> DEFINE a == AfterStub(s, it[s])
    <3>1. /\ a \in AdminPC /\ a \notin {"connect", "identify", "await"}
          /\ (a = "visit" => it[s] + 1 <= Len(stubs'[s])) /\ it[s] + 1 \in Nat \ {0}
      BY <1>a, <1>e, <2>1
    <3>2. apc' = [apc EXCEPT ![s] = a]
      BY <2>1
    <3> HIDE DEF a
    <3> QED
      BY <2>1, <3>1, <3>2, AdminMoves
  <2>4. AdminTypeOK'
    BY <1>4, <2>1, <2>3 DEF TypeOK, AdminTypeOK, ReplicationAcked
  <2> QED
    BY <1>4, <2>2, <2>3, <2>4 DEF TypeOK, ServerTypeOK, ReplicationAcked, srvVars, clientVars, ClientTypeOK
<1>5. CASE ReplicationFailed(s)
  <2> DEFINE k == stubs[s][it[s]].conn
             b == Closed(stubs[s][it[s]])
  <2>1. /\ conn' = [conn EXCEPT ![k] = FreeConn]
        /\ stubs' = [stubs EXCEPT ![s][it[s]] = b]
        /\ todo' = [todo EXCEPT ![s] = << >>]
        /\ apc' = [apc EXCEPT ![s] = AfterStub(s, it[s])]
        /\ it' = [it EXCEPT ![s] = it[s] + 1]
        /\ it[s] \in 1..Len(stubs[s])
    BY <1>5, <1>c DEF ReplicationFailed
  <2>2. b \in Stub
    BY <1>5, <1>c DEF ReplicationFailed, Closed, Stub
  <2> HIDE DEF k, b
  <2>3. conn' \in [ConnId -> Conn]
    BY <1>b, <2>1, ConnUpdate, ConstantTypes
  <2>4. stubs' \in [Server -> Seq(Stub)] /\ \A t \in Server : Len(stubs'[t]) = Len(stubs[t])
    BY <2>1, <2>2, StubUpdate DEF TypeOK
  <2>5. ServerTypeOK'
    BY <1>5, <2>4 DEF TypeOK, ServerTypeOK, ReplicationFailed
  <2>6. apc' \in [Server -> AdminPC] /\ it' \in [Server -> Nat \ {0}] /\ PositionsOK'
    <3> DEFINE a == AfterStub(s, it[s])
    <3>1. /\ a \in AdminPC /\ a \notin {"connect", "identify", "await"}
          /\ (a = "visit" => it[s] + 1 <= Len(stubs'[s])) /\ it[s] + 1 \in Nat \ {0}
      BY <1>a, <1>e, <2>4
    <3>2. apc' = [apc EXCEPT ![s] = a]
      BY <2>1
    <3> HIDE DEF a
    <3> QED
      BY <2>1, <2>4, <3>1, <3>2, AdminMoves
  <2>7. AdminTypeOK'
    BY <1>5, <2>1, <2>6 DEF TypeOK, AdminTypeOK, ReplicationFailed
  <2> QED
    BY <1>5, <2>3, <2>5, <2>6, <2>7 DEF TypeOK, ReplicationFailed, clientVars, ClientTypeOK
<1>6. CASE AdminPlaceOrder(s)
  <2>1. cur[s] \in Order
    BY <1>6 DEF AdminPlaceOrder, FactoryInv, ClientInv, QueueOK
  <2>2. ServerTypeOK'
    BY <1>6, <2>1, PlaceOrderTypes DEF TypeOK, ServerTypeOK, AdminPlaceOrder
  <2>3. AdminTypeOK' /\ PositionsOK'
    BY <1>6 DEF TypeOK, AdminTypeOK, PositionsOK, AdminPlaceOrder, AdminPC
  <2> QED
    BY <1>6, <2>2, <2>3 DEF TypeOK, AdminPlaceOrder, clientVars, ClientTypeOK
<1>7. CASE CommitOrder(s)
  <2>1. ServerTypeOK'
    BY <1>7 DEF TypeOK, ServerTypeOK, CommitOrder
  <2>2. AdminTypeOK' /\ PositionsOK'
    BY <1>7, ConstantTypes DEF TypeOK, AdminTypeOK, PositionsOK, CommitOrder, AdminPC
  <2>3. cur[s].cust \in Customer
    BY <1>7 DEF CommitOrder, FactoryInv, ClientInv, QueueOK, Order
  <2>4. ClientTypeOK'
    BY <1>7, <2>3 DEF TypeOK, ClientTypeOK, CommitOrder, ClientPC
  <2> QED
    BY <1>7, <2>1, <2>2, <2>4 DEF TypeOK, CommitOrder
<1> QED
  BY <1>1, <1>2, <1>3, <1>4, <1>5, <1>6, <1>7

(* Steps of an engineer thread.                                            *)
LEMMA EngineerType ==
  ASSUME TypeOK, FactoryInv, NEW k \in ConnId, EngineerThread(k)
  PROVE  TypeOK'
<1>a. conn \in [ConnId -> Conn] /\ conn[k].msg \in Request
  BY DEF TypeOK, Conn
<1>b. conn[k].eng # "free" => conn[k].to \in Server
  BY DEF FactoryInv, StubInv, ConnOK
<1>1. CASE ReceiveStatusInfo(k)
  <2>1. conn' \in [ConnId -> Conn]
    BY <1>1, <1>a DEF ReceiveStatusInfo, Conn
  <2> QED
    BY <1>1, <2>1 DEF TypeOK, ReceiveStatusInfo, srvVars, adminVars, clientVars,
                      ServerTypeOK, AdminTypeOK, ClientTypeOK, PositionsOK
<1>2. CASE StatusLost(k)
  <2>1. ServerTypeOK'
    BY <1>2 DEF TypeOK, ServerTypeOK, StatusLost
  <2>2. conn' \in [ConnId -> Conn]
    BY <1>a, <1>2, ConstantTypes DEF StatusLost, Conn
  <2> QED
    BY <1>2, <2>1, <2>2 DEF TypeOK, StatusLost, adminVars, clientVars, AdminTypeOK, ClientTypeOK, PositionsOK
<1>3. CASE ReceiveReplicationRequest(k)
  <2>1. conn[k].msg.fid \in Server \cup {NoOne}
    BY <1>a DEF Request
  <2>2. ServerTypeOK'
    BY <1>3, <2>1 DEF TypeOK, ServerTypeOK, ReceiveReplicationRequest
  <2>3. conn' \in [ConnId -> Conn]
    BY <1>a, <1>3 DEF ReceiveReplicationRequest, Conn
  <2> QED
    BY <1>3, <2>2, <2>3 DEF TypeOK, ReceiveReplicationRequest, adminVars, clientVars,
                            AdminTypeOK, ClientTypeOK, PositionsOK
<1>4. CASE StoreCommittedIndex(k)
  <2>1. conn[k].msg.committed \in Int
    BY <1>a DEF Request
  <2>2. ServerTypeOK'
    BY <1>4, <2>1 DEF TypeOK, ServerTypeOK, StoreCommittedIndex
  <2>3. conn' \in [ConnId -> Conn]
    BY <1>a, <1>4 DEF StoreCommittedIndex, Conn
  <2> QED
    BY <1>4, <2>2, <2>3 DEF TypeOK, StoreCommittedIndex, adminVars, clientVars,
                            AdminTypeOK, ClientTypeOK, PositionsOK
<1>5. CASE StoreLastIndex(k)
  <2>1. conn[k].msg.last \in Int
    BY <1>a DEF Request
  <2>2. ServerTypeOK'
    BY <1>5, <2>1 DEF TypeOK, ServerTypeOK, StoreLastIndex
  <2>3. conn' \in [ConnId -> Conn]
    BY <1>a, <1>5 DEF StoreLastIndex, Conn
  <2> QED
    BY <1>5, <2>2, <2>3 DEF TypeOK, StoreLastIndex, adminVars, clientVars,
                            AdminTypeOK, ClientTypeOK, PositionsOK
<1>6. CASE EngineerPlaceOrder(k)
  <2>1. conn[k].msg.ord \in Order /\ conn[k].to \in Server
    BY <1>b, <1>6 DEF EngineerPlaceOrder, FactoryInv, RequestInv, PendingOK, Busy
  <2>2. log' \in [Server -> Seq(Order)] /\ customer_record' \in [Server -> [CustomerId -> Int]]
    BY <1>6, <2>1, PlaceOrderTypes DEF EngineerPlaceOrder, TypeOK
  <2>3. ServerTypeOK'
    BY <1>6, <2>2 DEF TypeOK, ServerTypeOK, EngineerPlaceOrder
  <2>4. conn' \in [ConnId -> Conn]
    BY <1>a, <1>6 DEF EngineerPlaceOrder, Conn
  <2> QED
    BY <1>6, <2>3, <2>4 DEF TypeOK, EngineerPlaceOrder, adminVars, clientVars,
                            AdminTypeOK, ClientTypeOK, PositionsOK
<1>7. CASE SendReplicationResult(k)
  <2>1. conn' \in [ConnId -> Conn]
    <3> DEFINE open == conn[k].open
    <3>1. open \in BOOLEAN /\ conn[k] \in Conn
      BY <1>a DEF Conn
    <3>2. conn' = [conn EXCEPT ![k] = [conn[k] EXCEPT !.eng = "recv", !.ack = open, !.msg = NoMsg]]
      BY <1>a, <1>7 DEF SendReplicationResult
    <3> HIDE DEF open
    <3>3. [conn[k] EXCEPT !.eng = "recv", !.ack = open, !.msg = NoMsg] \in Conn
      BY <3>1, ConstantTypes DEF Conn
    <3> QED
      BY <1>a, <3>2, <3>3
  <2> QED
    BY <1>7, <2>1 DEF TypeOK, SendReplicationResult, srvVars, adminVars, clientVars,
                      ServerTypeOK, AdminTypeOK, ClientTypeOK, PositionsOK
<1>8. CASE PeerHangup(k)
  <2>1. ServerTypeOK'
    BY <1>8 DEF TypeOK, ServerTypeOK, PeerHangup
  <2>2. conn' \in [ConnId -> Conn]
    BY <1>a, <1>8, ConstantTypes DEF PeerHangup
  <2> QED
    BY <1>8, <2>1, <2>2 DEF TypeOK, PeerHangup, adminVars, clientVars, AdminTypeOK, ClientTypeOK, PositionsOK
<1> QED
  BY <1>1, <1>2, <1>3, <1>4, <1>5, <1>6, <1>7, <1>8 DEF EngineerThread

(* The death of a server process and its restart.                          *)
LEMMA CrashType ==
  ASSUME TypeOK, NEW s \in Server, Die(s) \/ Restart(s)
  PROVE  TypeOK'
<1>1. CASE Die(s)
  <2>1. ServerTypeOK'
    BY <1>1 DEF TypeOK, ServerTypeOK, Die
  <2>2. AdminTypeOK'
    BY <1>1, ConstantTypes DEF TypeOK, AdminTypeOK, Die, AdminPC
  <2>3. PositionsOK'
    BY <1>1 DEF TypeOK, ServerTypeOK, AdminTypeOK, PositionsOK, Die
  <2>4. ClientTypeOK'
    BY <1>1 DEF TypeOK, ClientTypeOK, Die, ClientPC
  <2>5. conn' \in [ConnId -> Conn]
    <3>1. ASSUME NEW k \in ConnId PROVE AfterCrash(conn[k], s) \in Conn
      <4>1. conn[k] \in Conn
        BY DEF TypeOK
      <4> DEFINE c == conn[k]
                 open == c.open /\ c.from # s
                 ack == c.ack /\ open
      <4>2. open \in BOOLEAN /\ ack \in BOOLEAN /\ c.ack \in BOOLEAN
        BY <4>1 DEF Conn
      <4>3. c.from \in Server \cup {NoOne} /\ c.to \in Server \cup {NoOne}
        BY <4>1 DEF Conn
      <4>4. [FreeConn EXCEPT !.from = c.from, !.to = c.to, !.open = TRUE, !.ack = c.ack, !.eng = "dead"] \in Conn
        BY <4>2, <4>3, ConstantTypes DEF Conn
      <4>5. [c EXCEPT !.open = open, !.ack = ack] \in Conn
        <5> HIDE DEF open, ack
        <5> QED
          BY <4>1, <4>2 DEF Conn
      <4> QED
        BY <4>4, <4>5, ConstantTypes DEF AfterCrash
    <3> QED
      BY <1>1, <3>1 DEF Die
  <2> QED
    BY <1>1, <2>1, <2>2, <2>3, <2>4, <2>5 DEF TypeOK, Die
<1>2. CASE Restart(s)
  BY <1>2 DEF TypeOK, Restart, ServerTypeOK, adminVars, clientVars, AdminTypeOK, ClientTypeOK, PositionsOK
<1> QED
  BY <1>1, <1>2

(* Every step keeps the types, in states that satisfy the invariant.       *)
LEMMA NextType == TypeOK /\ FactoryInv /\ [Next]_vars => TypeOK'
<1> SUFFICES ASSUME TypeOK, FactoryInv, [Next]_vars PROVE TypeOK'
  OBVIOUS
<1>1. ASSUME NEW s \in Server, ProductionAdminThread(s) PROVE TypeOK'
  BY <1>1, ConnectionType, ReplicationType, CrashType DEF ProductionAdminThread, BrokenPipe
<1>2. ASSUME NEW s \in Server, Crash(s) \/ Restart(s) PROVE TypeOK'
  BY <1>2, CrashType DEF Crash
<1>3. CASE UNCHANGED vars
  BY <1>3 DEF TypeOK, vars, srvVars, adminVars, clientVars,
              ServerTypeOK, AdminTypeOK, ClientTypeOK, PositionsOK
<1> QED
  BY <1>1, <1>2, <1>3, ClientType, EngineerType DEF Next

-----------------------------------------------------------------------------
(* Orders and clients.                                                     *)

(* An order stays outstanding when its client and its number do not move.  *)
LEMMA OutstandingKept ==
  ASSUME NEW s, NEW o, Outstanding(s, o),
         csrv'[o.cust] = csrv[o.cust], cpc'[o.cust] = cpc[o.cust],
         sess'[o.cust] = sess[o.cust], cnum'[o.cust] = cnum[o.cust]
  PROVE  Outstanding(s, o)'
BY DEF Outstanding, OrderOf

(* What a server expects: its clients' orders and those of the dead.       *)
LEMMA ExpectedOf ==
  ASSUME NEW s \in Server, NEW o \in Order
  PROVE  /\ o \in Expected(s) <=> Outstanding(s, o) \/ o \in abandoned
         /\ o \in Expected(s)' <=> Outstanding(s, o)' \/ o \in abandoned'
<1>1. \A c \in Customer : OrderOf(c).cust = c /\ (OrderOf(c).cust = c)'
  BY DEF OrderOf
<1>2. o.cust \in Customer
  BY DEF Order
<1>3. o \in Expected(s) <=> Outstanding(s, o) \/ o \in abandoned
  BY <1>1, <1>2 DEF Expected, Outstanding
<1>4. o \in Expected(s)' <=> Outstanding(s, o)' \/ o \in abandoned'
  BY <1>1, <1>2 DEF Expected, Outstanding, OrderOf
<1> QED
  BY <1>3, <1>4

(* The order a client is about to send is in no server's hands.            *)
LEMMA NextOrderNew ==
  ASSUME TypeOK, ClientInv, NEW c \in Customer, cpc[c] \in {"ready", "promised"}, NEW s \in Server
  PROVE  OrderOf(c) \notin Expected(s)
<1>1. ~Outstanding(s, OrderOf(c))
  BY DEF Outstanding, OrderOf
<1>2. OrderOf(c) \notin abandoned
  <2>1. SUFFICES ASSUME OrderOf(c) \in abandoned PROVE FALSE
    OBVIOUS
  <2>2. OrderOf(c).cust = c /\ OrderOf(c).sess = sess[c] /\ sess[c] \in Nat
    BY DEF OrderOf, TypeOK, ClientTypeOK
  <2> QED
    BY <2>1, <2>2 DEF ClientInv, AbandonedPast
<1>3. PICK o \in Order : o = OrderOf(c)
  BY DEF OrderOf, Order, TypeOK, ClientTypeOK
<1>4. o \notin Expected(s)
  BY <1>1, <1>2, <1>3, ExpectedOf
<1> QED
  BY <1>3, <1>4

(* What a server expects, it expects until the admin thread is done with   *)
(* it, or the server dies.                                                 *)
LEMMA ExpectedKept ==
  ASSUME TypeOK, ClientInv, [Next]_vars,
         NEW t \in Server, NEW p \in Order, p \in Expected(t),
         ~Die(t), CommitOrder(t) => p # cur[t]
  PROVE  p \in Expected(t)'
<1>1. CASE p \in abandoned
  <2>1. abandoned \subseteq abandoned'
    <3>1. ASSUME NEW c \in Customer, Client(c) PROVE abandoned \subseteq abandoned'
      BY <3>1 DEF Client, StartSession, SendOrder, CreateRegularLaptop, SendLaptop, ClientGone
    <3>2. ASSUME NEW s \in Server, ProductionAdminThread(s) PROVE abandoned' = abandoned
      BY <3>2 DEF ProductionAdminThread, AdminDequeue, ReadCommitted, ClaimPrimary, ConnectPeer, IdentifyPeer,
           ReadIndex, BuildRequest, ReplicateTo, ReplicationAcked, ReplicationFailed, AdminPlaceOrder,
           CommitOrder, BrokenPipe, Die
    <3>3. ASSUME NEW k \in ConnId, EngineerThread(k) PROVE abandoned' = abandoned
      BY <3>3 DEF EngineerThread, ReceiveStatusInfo, StatusLost, ReceiveReplicationRequest, StoreCommittedIndex,
           StoreLastIndex, EngineerPlaceOrder, SendReplicationResult, PeerHangup
    <3>4. ASSUME NEW s \in Server, Crash(s) \/ Restart(s) PROVE abandoned' = abandoned
      BY <3>4 DEF Crash, Die, Restart
    <3> QED
      BY <3>1, <3>2, <3>3, <3>4 DEF Next, vars
  <2> QED
    BY <1>1, <2>1, ExpectedOf
<1>2. CASE Outstanding(t, p)
  <2>0. p.cust \in Customer /\ csrv[p.cust] = t /\ cpc[p.cust] = "wait" /\ p = OrderOf(p.cust)
    BY <1>2 DEF Outstanding, Order
  <2>1. ASSUME NEW c \in Customer, Client(c) PROVE p \in Expected(t)'
    <3>1. CASE c # p.cust
      <4>1. /\ csrv'[p.cust] = csrv[p.cust] /\ cpc'[p.cust] = cpc[p.cust]
            /\ sess'[p.cust] = sess[p.cust] /\ cnum'[p.cust] = cnum[p.cust]
        BY <2>0, <2>1, <3>1 DEF Client, StartSession, SendOrder, CreateRegularLaptop, SendLaptop, ClientGone,
             clientVars, TypeOK, ClientTypeOK
      <4> QED
        BY <1>2, <4>1, OutstandingKept, ExpectedOf
    <3>2. CASE c = p.cust
      <4>1. CASE ClientGone(c)
        BY <2>0, <3>2, <4>1 DEF ClientGone, Expected, OrderOf
      <4>2. CASE \E s \in Server : CreateRegularLaptop(s, c)
        BY <1>2, <4>2, OutstandingKept, ExpectedOf DEF CreateRegularLaptop, clientVars
      <4>3. ~SendOrder(c) /\ ~SendLaptop(c) /\ \A s \in Server : ~StartSession(c, s)
        BY <2>0, <3>2 DEF SendOrder, SendLaptop, StartSession
      <4> QED
        BY <2>1, <4>1, <4>2, <4>3 DEF Client
    <3> QED
      BY <3>1, <3>2
  <2>2. ASSUME NEW s \in Server, Die(s) PROVE p \in Expected(t)'
    <3>1. t # s
      BY <2>2
    <3>2. /\ csrv'[p.cust] = csrv[p.cust] /\ cpc'[p.cust] = cpc[p.cust]
          /\ sess'[p.cust] = sess[p.cust] /\ cnum'[p.cust] = cnum[p.cust]
      BY <2>0, <2>2, <3>1 DEF Die
    <3> QED
      BY <1>2, <3>2, OutstandingKept, ExpectedOf
  <2>3. ASSUME NEW s \in Server, CommitOrder(s) PROVE p \in Expected(t)'
    <3>1. CASE ~Outstanding(s, cur[s])
      BY <1>2, <2>3, <3>1, OutstandingKept, ExpectedOf DEF CommitOrder
    <3>2. CASE Outstanding(s, cur[s])
      <4>1. p.cust # cur[s].cust
        BY <2>0, <2>3, <3>2 DEF Outstanding
      <4>2. /\ csrv'[p.cust] = csrv[p.cust] /\ cpc'[p.cust] = cpc[p.cust]
            /\ sess'[p.cust] = sess[p.cust] /\ cnum'[p.cust] = cnum[p.cust]
        BY <2>0, <2>3, <3>2, <4>1 DEF CommitOrder, TypeOK, ClientTypeOK
      <4> QED
        BY <1>2, <4>2, OutstandingKept, ExpectedOf
    <3> QED
      BY <3>1, <3>2
  <2>4. ASSUME NEW s \in Server, ProductionAdminThread(s), ~CommitOrder(s), ~BrokenPipe(s) PROVE UNCHANGED clientVars
    BY <2>4 DEF ProductionAdminThread, AdminDequeue, ReadCommitted, ClaimPrimary, ConnectPeer, IdentifyPeer,
         ReadIndex, BuildRequest, ReplicateTo, ReplicationAcked, ReplicationFailed, AdminPlaceOrder
  <2>5. ASSUME NEW k \in ConnId, EngineerThread(k) PROVE UNCHANGED clientVars
    BY <2>5 DEF EngineerThread, ReceiveStatusInfo, StatusLost, ReceiveReplicationRequest, StoreCommittedIndex,
         StoreLastIndex, EngineerPlaceOrder, SendReplicationResult, PeerHangup
  <2>6. CASE UNCHANGED clientVars
    BY <1>2, <2>6, OutstandingKept, ExpectedOf DEF clientVars
  <2> QED
    BY <2>1, <2>2, <2>3, <2>4, <2>5, <2>6 DEF Next, Crash, BrokenPipe, Restart, vars
<1> QED
  BY <1>1, <1>2, ExpectedOf

(* A queue that stays as it is stays in order.                             *)
LEMMA QueueKept ==
  ASSUME TypeOK, NEW s \in Server, QueueOK(s),
         inbox'[s] = inbox[s], erq'[s] = erq[s], cur'[s] = cur[s],
         apc'[s] # "idle" => apc[s] # "idle",
         \A p \in Order : p \in Expected(s) => p \in Expected(s)'
  PROVE  QueueOK(s)'
<1>1. inbox[s] \subseteq Order /\ erq[s] \in Seq(Order)
  BY DEF TypeOK, ServerTypeOK
<1>2. apc'[s] # "idle" => cur'[s] \in Order /\ cur'[s] \in Expected(s)'
  BY DEF QueueOK
<1>3. \A o \in inbox'[s] : o \in Expected(s)' /\ (apc'[s] # "idle" => o # cur'[s])
  BY <1>1 DEF QueueOK
<1>4. ASSUME NEW i \in 1..Len(erq'[s])
      PROVE  /\ erq'[s][i] \in Expected(s)'
             /\ erq'[s][i] \notin inbox'[s]
             /\ apc'[s] # "idle" => erq'[s][i] # cur'[s]
             /\ \A j \in 1..Len(erq'[s]) : erq'[s][i] = erq'[s][j] => i = j
  <2>1. erq[s][i] \in Order
    BY <1>1, ElementOfSeq
  <2> QED
    BY <2>1 DEF QueueOK
<1> QED
  BY <1>2, <1>3, <1>4 DEF QueueOK

(* An order on its way to server s: it is in no other place there.         *)
LEMMA SendQueue ==
  ASSUME TypeOK, ClientInv, NEW c \in Customer, SendOrder(c), NEW s \in Server,
         \A p \in Order : p \in Expected(s) => p \in Expected(s)'
  PROVE  QueueOK(s)'
<1>0. QueueOK(s) /\ UNCHANGED <<erq, cur, apc>>
  BY DEF ClientInv, SendOrder, adminVars
<1>1. CASE s # csrv[c]
  <2>1. inbox'[s] = inbox[s]
    BY <1>1 DEF SendOrder, TypeOK, ServerTypeOK
  <2> QED
    BY <1>0, <2>1, QueueKept
<1>2. CASE s = csrv[c]
  <2>1. PICK o \in Order : o = OrderOf(c)
    BY DEF TypeOK, ClientTypeOK, OrderOf, Order
  <2>2. o \notin Expected(s)
    BY <2>1, NextOrderNew DEF SendOrder
  <2>3. inbox'[s] = inbox[s] \cup {o}
    BY <1>2, <2>1 DEF SendOrder, TypeOK, ServerTypeOK
  <2>4. o \in Expected(s)'
    BY <1>2, <2>1 DEF SendOrder, Expected, Outstanding, OrderOf, TypeOK, ClientTypeOK
  <2>5. inbox[s] \subseteq Order /\ erq[s] \in Seq(Order)
    BY DEF TypeOK, ServerTypeOK
  <2>6. apc[s] # "idle" => cur[s] \in Order /\ cur[s] \in Expected(s)' /\ cur[s] # o
    BY <1>0, <2>2 DEF QueueOK
  <2>7. \A p \in inbox'[s] : p \in Expected(s)' /\ (apc[s] # "idle" => p # cur[s])
    BY <1>0, <2>3, <2>4, <2>5, <2>6 DEF QueueOK
  <2>8. ASSUME NEW i \in 1..Len(erq[s])
        PROVE  /\ erq[s][i] \in Expected(s)' /\ erq[s][i] \notin inbox'[s]
               /\ apc[s] # "idle" => erq[s][i] # cur[s]
               /\ \A j \in 1..Len(erq[s]) : erq[s][i] = erq[s][j] => i = j
    <3>1. erq[s][i] \in Order
      BY <2>5, ElementOfSeq
    <3>2. erq[s][i] \in Expected(s)
      BY <1>0 DEF QueueOK
    <3> QED
      BY <1>0, <2>2, <2>3, <3>1, <3>2 DEF QueueOK
  <2> QED
    BY <1>0, <2>6, <2>7, <2>8 DEF QueueOK
<1> QED
  BY <1>1, <1>2

(* An order that arrives goes to the end of the queue.                     *)
LEMMA ArriveQueue ==
  ASSUME TypeOK, ClientInv, NEW t \in Server, NEW c \in Customer, CreateRegularLaptop(t, c), NEW s \in Server,
         \A p \in Order : p \in Expected(s) => p \in Expected(s)'
  PROVE  QueueOK(s)'
<1>0. QueueOK(s) /\ UNCHANGED <<cur, apc>>
  BY DEF ClientInv, CreateRegularLaptop, adminVars
<1>1. CASE s # t
  <2>1. inbox'[s] = inbox[s] /\ erq'[s] = erq[s]
    BY <1>1 DEF CreateRegularLaptop, TypeOK, ServerTypeOK
  <2> QED
    BY <1>0, <2>1, QueueKept
<1>2. CASE s = t
  <2>0. inbox[s] \subseteq Order /\ erq[s] \in Seq(Order)
    BY DEF TypeOK, ServerTypeOK
  <2>1. PICK o \in inbox[s] : inbox'[s] = inbox[s] \ {o} /\ erq'[s] = Append(erq[s], o)
    BY <1>2 DEF CreateRegularLaptop, TypeOK, ServerTypeOK
  <2>2. o \in Order /\ o \in Expected(s) /\ (apc[s] # "idle" => o # cur[s])
    BY <1>0, <2>0 DEF QueueOK
  <2>3. apc[s] # "idle" => cur[s] \in Order /\ cur[s] \in Expected(s)'
    BY <1>0 DEF QueueOK
  <2>4. \A p \in inbox'[s] : p \in Expected(s)' /\ (apc[s] # "idle" => p # cur[s])
    BY <1>0, <2>0, <2>1 DEF QueueOK
  <2>5. /\ Len(erq'[s]) = Len(erq[s]) + 1 /\ erq'[s][Len(erq[s]) + 1] = o /\ Len(erq[s]) \in Nat
        /\ \A i \in 1..Len(erq[s]) : erq'[s][i] = erq[s][i]
    BY <2>0, <2>1, <2>2, AppendProperties, LenProperties
  <2>6. \A i \in 1..Len(erq[s]) :
          /\ erq[s][i] \in Order /\ erq[s][i] \in Expected(s) /\ erq[s][i] # o
          /\ erq[s][i] \notin inbox[s] /\ (apc[s] # "idle" => erq[s][i] # cur[s])
          /\ \A j \in 1..Len(erq[s]) : erq[s][i] = erq[s][j] => i = j
    BY <1>0, <2>0, <2>1, ElementOfSeq DEF QueueOK
  <2>7. ASSUME NEW i \in 1..Len(erq'[s])
        PROVE  /\ erq'[s][i] \in Expected(s)' /\ erq'[s][i] \notin inbox'[s]
               /\ apc[s] # "idle" => erq'[s][i] # cur[s]
               /\ \A j \in 1..Len(erq'[s]) : erq'[s][i] = erq'[s][j] => i = j
    <3>1. i \in 1..Len(erq[s]) \/ i = Len(erq[s]) + 1
      BY <2>5
    <3>2. \A j \in 1..Len(erq'[s]) : j \in 1..Len(erq[s]) \/ j = Len(erq[s]) + 1
      BY <2>5
    <3>3. CASE i \in 1..Len(erq[s])
      <4>1. erq'[s][i] = erq[s][i]
        BY <2>5, <3>3
      <4>2. \A j \in 1..Len(erq'[s]) : erq'[s][i] = erq'[s][j] => i = j
        BY <2>5, <2>6, <3>2, <3>3, <4>1
      <4>3. erq[s][i] \in Order /\ erq[s][i] \in Expected(s) /\ erq[s][i] \notin inbox[s]
            /\ (apc[s] # "idle" => erq[s][i] # cur[s])
        BY <2>6, <3>3
      <4> QED
        BY <2>1, <4>1, <4>2, <4>3
    <3>4. CASE i = Len(erq[s]) + 1
      <4>1. erq'[s][i] = o
        BY <2>5, <3>4
      <4>2. \A j \in 1..Len(erq'[s]) : erq'[s][i] = erq'[s][j] => i = j
        BY <2>5, <2>6, <3>2, <3>4, <4>1
      <4> QED
        BY <2>1, <2>2, <4>1, <4>2
    <3> QED
      BY <3>1, <3>3, <3>4
  <2> QED
    BY <1>0, <2>3, <2>4, <2>7 DEF QueueOK
<1> QED
  BY <1>1, <1>2

(* The admin thread takes the front of the queue.                          *)
LEMMA DequeueQueue ==
  ASSUME TypeOK, ClientInv, NEW t \in Server, AdminDequeue(t), NEW s \in Server,
         \A p \in Order : p \in Expected(s) => p \in Expected(s)'
  PROVE  QueueOK(s)'
<1>0. QueueOK(s) /\ UNCHANGED inbox
  BY DEF ClientInv, AdminDequeue
<1>1. CASE s # t
  <2>1. erq'[s] = erq[s] /\ cur'[s] = cur[s] /\ apc'[s] = apc[s]
    BY <1>1 DEF AdminDequeue, TypeOK, ServerTypeOK, AdminTypeOK
  <2> QED
    BY <1>0, <2>1, QueueKept
<1>2. CASE s = t
  <2>0. inbox[s] \subseteq Order /\ erq[s] \in Seq(Order) /\ erq[s] # << >>
    BY <1>2 DEF TypeOK, ServerTypeOK, AdminDequeue
  <2>1. erq'[s] = Tail(erq[s]) /\ cur'[s] = Head(erq[s])
    BY <1>2 DEF AdminDequeue, TypeOK, ServerTypeOK, AdminTypeOK
  <2>2. /\ Len(erq[s]) \in Nat /\ Len(erq[s]) > 0 /\ Len(erq'[s]) = Len(erq[s]) - 1 /\ cur'[s] = erq[s][1]
        /\ \A i \in 1..Len(erq'[s]) : erq'[s][i] = erq[s][i + 1]
    BY <2>0, <2>1, HeadTailProperties, EmptySeq, LenProperties
  <2>3. \A i \in 1..Len(erq[s]) :
          /\ erq[s][i] \in Order /\ erq[s][i] \in Expected(s)' /\ erq[s][i] \notin inbox[s]
          /\ \A j \in 1..Len(erq[s]) : erq[s][i] = erq[s][j] => i = j
    BY <1>0, <2>0, ElementOfSeq DEF QueueOK
  <2>4. cur'[s] \in Order /\ cur'[s] \in Expected(s)' /\ cur'[s] \notin inbox[s]
    <3>1. 1 \in 1..Len(erq[s])
      BY <2>2
    <3> QED
      BY <2>2, <2>3, <3>1
  <2>5. \A p \in inbox[s] : p \in Expected(s)' /\ p # cur'[s]
    BY <1>0, <2>0, <2>4 DEF QueueOK
  <2>6. ASSUME NEW i \in 1..Len(erq'[s])
        PROVE  /\ erq'[s][i] \in Expected(s)' /\ erq'[s][i] \notin inbox[s] /\ erq'[s][i] # cur'[s]
               /\ \A j \in 1..Len(erq'[s]) : erq'[s][i] = erq'[s][j] => i = j
    <3>1. i + 1 \in 1..Len(erq[s]) /\ 1 \in 1..Len(erq[s]) /\ i + 1 # 1 /\ erq'[s][i] = erq[s][i + 1]
      BY <2>2
    <3>2. ASSUME NEW j \in 1..Len(erq'[s]), erq'[s][i] = erq'[s][j] PROVE i = j
      <4>1. j + 1 \in 1..Len(erq[s]) /\ erq'[s][j] = erq[s][j + 1]
        BY <2>2
      <4>2. i + 1 = j + 1
        BY <2>3, <3>1, <3>2, <4>1
      <4> QED
        BY <4>2
    <3>3. erq[s][i + 1] # erq[s][1]
      BY <2>3, <3>1
    <3> QED
      BY <2>2, <2>3, <3>1, <3>2, <3>3
  <2> QED
    BY <1>0, <2>4, <2>5, <2>6 DEF QueueOK
<1> QED
  BY <1>1, <1>2

(* The admin thread is done with its order.                                *)
LEMMA CommitQueue ==
  ASSUME TypeOK, ClientInv, NEW t \in Server, CommitOrder(t), NEW s \in Server,
         \A p \in Order : p \in Expected(s) /\ (s = t => p # cur[t]) => p \in Expected(s)'
  PROVE  QueueOK(s)'
<1>0. QueueOK(s) /\ UNCHANGED <<inbox, erq>>
  BY DEF ClientInv, CommitOrder
<1>1. CASE s # t
  <2>1. cur'[s] = cur[s] /\ apc'[s] = apc[s]
    BY <1>1 DEF CommitOrder, TypeOK, AdminTypeOK
  <2> QED
    BY <1>0, <1>1, <2>1, QueueKept
<1>2. CASE s = t
  <2>0. inbox[s] \subseteq Order /\ erq[s] \in Seq(Order)
    BY DEF TypeOK, ServerTypeOK
  <2>1. apc[s] # "idle" /\ apc'[s] = "idle"
    BY <1>2 DEF CommitOrder, TypeOK, AdminTypeOK
  <2>2. \A p \in inbox[s] : p \in Expected(s)'
    BY <1>0, <1>2, <2>0, <2>1 DEF QueueOK
  <2>3. \A i \in 1..Len(erq[s]) : erq[s][i] \in Expected(s)'
    BY <1>0, <1>2, <2>0, <2>1, ElementOfSeq DEF QueueOK
  <2> QED
    BY <1>0, <2>1, <2>2, <2>3 DEF QueueOK
<1> QED
  BY <1>1, <1>2

(* A server that dies forgets its orders.                                  *)
LEMMA DieQueue ==
  ASSUME TypeOK, ClientInv, NEW t \in Server, Die(t), NEW s \in Server,
         s # t => \A p \in Order : p \in Expected(s) => p \in Expected(s)'
  PROVE  QueueOK(s)'
<1>0. QueueOK(s)
  BY DEF ClientInv
<1>1. CASE s # t
  <2>1. inbox'[s] = inbox[s] /\ erq'[s] = erq[s] /\ cur'[s] = cur[s] /\ apc'[s] = apc[s]
    BY <1>1 DEF Die, TypeOK, ServerTypeOK, AdminTypeOK
  <2> QED
    BY <1>0, <1>1, <2>1, QueueKept
<1>2. CASE s = t
  <2>1. inbox'[s] = {} /\ erq'[s] = << >> /\ apc'[s] = "idle"
    BY <1>2 DEF Die, TypeOK, ServerTypeOK, AdminTypeOK
  <2>2. Len(erq'[s]) = 0
    BY <2>1
  <2> QED
    BY <2>1, <2>2 DEF QueueOK
<1> QED
  BY <1>1, <1>2

(* A step that no client takes part in but by seeing its server die, or by *)
(* getting its answer.                                                     *)
LEMMA PastKept ==
  ASSUME TypeOK, ClientInv, UNCHANGED <<csrv, sess, abandoned>>,
         \A c \in Customer : cpc'[c] # "off" => cpc[c] # "off"
  PROVE  /\ \A c \in Customer : cpc'[c] # "off" => csrv'[c] \in Server
         /\ \A o \in abandoned' : AbandonedPast(o)'
BY DEF ClientInv, AbandonedPast, TypeOK, Order

(* Every step keeps the orders where they belong.                          *)
LEMMA NextClient ==
  ASSUME TypeOK, FactoryInv, [Next]_vars
  PROVE  ClientInv'
<1>0. ClientInv
  BY DEF FactoryInv
<1>e. ASSUME NEW s \in Server, ~Die(s), ~CommitOrder(s)
      PROVE  \A p \in Order : p \in Expected(s) => p \in Expected(s)'
  BY <1>0, <1>e, ExpectedKept
<1>d. \A s, t \in Server : Die(s) /\ t # s => ~Die(t)
  BY DEF Die, TypeOK
<1>1. ASSUME NEW c \in Customer, Client(c) PROVE ClientInv'
  <2>0. /\ UNCHANGED <<crashes, cur, apc>>
        /\ \A s \in Server : ~Die(s) /\ ~CommitOrder(s)
    <3>1. UNCHANGED <<crashes, cur, apc>>
      BY <1>1 DEF Client, StartSession, SendOrder, CreateRegularLaptop, SendLaptop, ClientGone, adminVars
    <3>2. \A s \in Server : Die(s) => crashes'[s] # crashes[s]
      BY DEF Die, TypeOK
    <3>3. \A s \in Server : CommitOrder(s) => apc'[s] # apc[s]
      BY DEF CommitOrder, TypeOK, AdminTypeOK
    <3> QED
      BY <3>1, <3>2, <3>3
  <2>e. \A s \in Server : \A p \in Order : p \in Expected(s) => p \in Expected(s)'
    BY <1>e, <2>0
  <2>1. ASSUME NEW s \in Server, StartSession(c, s) PROVE ClientInv'
    <3>1. /\ UNCHANGED <<abandoned, inbox, erq>> /\ cpc[c] = "off" /\ csrv'[c] = s /\ sess'[c] = sess[c] + 1
          /\ \A d \in Customer \ {c} : csrv'[d] = csrv[d] /\ cpc'[d] = cpc[d] /\ sess'[d] = sess[d]
          /\ sess[c] \in Nat
      BY <2>1 DEF StartSession, srvVars, TypeOK, ClientTypeOK
    <3>2. \A t \in Server : QueueOK(t)'
      BY <1>0, <2>0, <2>e, <3>1, QueueKept DEF ClientInv
    <3>3. \A d \in Customer : cpc'[d] # "off" => csrv'[d] \in Server
      BY <1>0, <3>1 DEF ClientInv
    <3>4. \A o \in abandoned' : AbandonedPast(o)'
      <4> SUFFICES ASSUME NEW o \in abandoned PROVE AbandonedPast(o)'
        BY <3>1
      <4>1. o.cust \in Customer /\ o.sess \in Nat /\ AbandonedPast(o)
        BY <1>0 DEF TypeOK, Order, ClientInv
      <4>2. CASE o.cust = c
        <5>1. o.sess <= sess[c]
          BY <4>1, <4>2 DEF AbandonedPast
        <5>2. o.sess <= sess'[c] /\ o.sess < sess'[c]
          BY <3>1, <4>1, <5>1
        <5> QED
          BY <4>2, <5>2 DEF AbandonedPast
      <4>3. CASE o.cust # c
        BY <3>1, <4>1, <4>3 DEF AbandonedPast
      <4> QED
        BY <4>2, <4>3
    <3> QED
      BY <3>2, <3>3, <3>4 DEF ClientInv
  <2>2. CASE SendOrder(c)
    <3>1. \A t \in Server : QueueOK(t)'
      BY <1>0, <2>2, <2>e, SendQueue
    <3>2. UNCHANGED <<csrv, sess, abandoned>> /\ \A d \in Customer : cpc'[d] # "off" => cpc[d] # "off"
      BY <2>2 DEF SendOrder, TypeOK, ClientTypeOK
    <3> QED
      BY <1>0, <3>1, <3>2, PastKept DEF ClientInv
  <2>3. ASSUME NEW s \in Server, CreateRegularLaptop(s, c) PROVE ClientInv'
    <3>1. \A t \in Server : QueueOK(t)'
      BY <1>0, <2>3, <2>e, ArriveQueue
    <3>2. UNCHANGED <<csrv, sess, abandoned, cpc>>
      BY <2>3 DEF CreateRegularLaptop, clientVars
    <3> QED
      BY <1>0, <3>1, <3>2, PastKept DEF ClientInv
  <2>4. CASE SendLaptop(c)
    <3>1. UNCHANGED <<csrv, sess, abandoned, inbox, erq>> /\ \A d \in Customer : cpc'[d] # "off" => cpc[d] # "off"
      BY <2>4 DEF SendLaptop, srvVars, TypeOK, ClientTypeOK
    <3>2. \A t \in Server : QueueOK(t)'
      BY <1>0, <2>0, <2>e, <3>1, QueueKept DEF ClientInv
    <3> QED
      BY <1>0, <3>1, <3>2, PastKept DEF ClientInv
  <2>5. CASE ClientGone(c)
    <3>1. /\ UNCHANGED <<csrv, sess, inbox, erq>> /\ abandoned' = abandoned \cup {OrderOf(c)} /\ cpc'[c] = "off"
          /\ \A d \in Customer : cpc'[d] # "off" => cpc[d] # "off"
      BY <2>5 DEF ClientGone, srvVars, TypeOK, ClientTypeOK
    <3>2. \A t \in Server : QueueOK(t)'
      BY <1>0, <2>0, <2>e, <3>1, QueueKept DEF ClientInv
    <3>3. \A o \in abandoned : AbandonedPast(o)'
      BY <1>0, <3>1 DEF ClientInv, AbandonedPast, TypeOK, Order
    <3>4. AbandonedPast(OrderOf(c))'
      <4>1. OrderOf(c).cust = c /\ OrderOf(c).sess = sess[c] /\ sess[c] \in Nat
        BY DEF OrderOf, TypeOK, ClientTypeOK
      <4>2. PICK o : o = OrderOf(c)
        OBVIOUS
      <4>3. AbandonedPast(o)'
        BY <3>1, <4>1, <4>2 DEF AbandonedPast
      <4> QED
        BY <3>1, <4>2, <4>3 DEF OrderOf, ClientGone, AbandonedPast
    <3>5. OrderOf(c)' = OrderOf(c)
      BY <2>5 DEF ClientGone, OrderOf
    <3>6. \A o \in abandoned' : AbandonedPast(o)'
      BY <3>1, <3>3, <3>4, <3>5
    <3> QED
      BY <1>0, <3>1, <3>2, <3>6 DEF ClientInv
  <2> QED
    BY <1>1, <2>1, <2>2, <2>3, <2>4, <2>5 DEF Client
<1>2. ASSUME NEW s \in Server, Die(s) PROVE ClientInv'
  <2>1. \A t \in Server : t # s => ~CommitOrder(t)
    <3>1. \A t \in Server : t # s => apc'[t] = apc[t]
      BY <1>2 DEF Die, TypeOK, AdminTypeOK
    <3>2. \A t \in Server : CommitOrder(t) => apc'[t] # apc[t]
      BY DEF CommitOrder, TypeOK, AdminTypeOK
    <3> QED
      BY <3>1, <3>2
  <2>2. \A t \in Server : t # s => \A p \in Order : p \in Expected(t) => p \in Expected(t)'
    BY <1>2, <1>d, <1>e, <2>1
  <2>3. \A t \in Server : QueueOK(t)'
    BY <1>0, <1>2, <2>2, DieQueue
  <2>4. UNCHANGED <<csrv, sess, abandoned>> /\ \A c \in Customer : cpc'[c] # "off" => cpc[c] # "off"
    BY <1>2 DEF Die, TypeOK, ClientTypeOK
  <2> QED
    BY <1>0, <2>3, <2>4, PastKept DEF ClientInv
<1>3. ASSUME NEW s \in Server, ProductionAdminThread(s), ~BrokenPipe(s) PROVE ClientInv'
  <2>0. UNCHANGED <<csrv, sess, abandoned, crashes, inbox>> /\ \A t \in Server : ~Die(t)
    <3>1. UNCHANGED <<csrv, sess, abandoned, crashes, inbox>>
      BY <1>3 DEF ProductionAdminThread, AdminDequeue, ReadCommitted, ClaimPrimary, ConnectPeer, IdentifyPeer,
           ReadIndex, BuildRequest, ReplicateTo, ReplicationAcked, ReplicationFailed, AdminPlaceOrder,
           CommitOrder, clientVars, srvVars
    <3>2. \A t \in Server : Die(t) => crashes'[t] # crashes[t]
      BY DEF Die, TypeOK
    <3> QED
      BY <3>1, <3>2
  <2>1. CASE CommitOrder(s)
    <3>1. \A t \in Server : \A p \in Order : p \in Expected(t) /\ (t = s => p # cur[s]) => p \in Expected(t)'
      <4> SUFFICES ASSUME NEW t \in Server, NEW p \in Order, p \in Expected(t), t = s => p # cur[s] PROVE p \in Expected(t)'
        OBVIOUS
      <4>1. t # s => ~CommitOrder(t)
        <5>1. t # s => apc'[t] = apc[t]
          BY <2>1 DEF CommitOrder, TypeOK, AdminTypeOK
        <5>2. CommitOrder(t) => apc'[t] # apc[t]
          BY DEF CommitOrder, TypeOK, AdminTypeOK
        <5> QED
          BY <5>1, <5>2
      <4>2. CommitOrder(t) => p # cur[t]
        BY <4>1
      <4> QED
        BY <1>0, <2>0, <4>2, ExpectedKept
    <3>2. \A t \in Server : QueueOK(t)'
      BY <1>0, <2>1, <3>1, CommitQueue
    <3>3. \A c \in Customer : cpc'[c] # "off" => cpc[c] # "off"
      BY <2>1 DEF CommitOrder, Outstanding, Order, TypeOK, ClientTypeOK
    <3> QED
      BY <1>0, <2>0, <3>2, <3>3, PastKept DEF ClientInv
  <2>2. CASE ~CommitOrder(s)
    <3>0. /\ UNCHANGED cpc /\ \A t \in Server \ {s} : apc'[t] = apc[t]
      BY <1>3, <2>2 DEF ProductionAdminThread, AdminDequeue, ReadCommitted, ClaimPrimary, ConnectPeer, IdentifyPeer,
           ReadIndex, BuildRequest, ReplicateTo, ReplicationAcked, ReplicationFailed, AdminPlaceOrder,
           clientVars, TypeOK, AdminTypeOK
    <3>1. \A t \in Server : ~CommitOrder(t)
      <4>1. \A t \in Server : CommitOrder(t) => apc'[t] # apc[t]
        BY DEF CommitOrder, TypeOK, AdminTypeOK
      <4> QED
        BY <2>2, <3>0, <4>1
    <3>2. \A t \in Server : \A p \in Order : p \in Expected(t) => p \in Expected(t)'
      BY <1>e, <2>0, <3>1
    <3>3. CASE AdminDequeue(s)
      <4>1. \A t \in Server : QueueOK(t)'
        BY <1>0, <3>2, <3>3, DequeueQueue
      <4> QED
        BY <1>0, <2>0, <3>0, <4>1, PastKept DEF ClientInv
    <3>4. CASE ~AdminDequeue(s)
      <4>1. UNCHANGED <<cur, erq>> /\ apc[s] # "idle"
        BY <1>3, <2>2, <3>4 DEF ProductionAdminThread, ReadCommitted, ClaimPrimary, ConnectPeer, IdentifyPeer,
           ReadIndex, BuildRequest, ReplicateTo, ReplicationAcked, ReplicationFailed, AdminPlaceOrder, srvVars
      <4>2. \A t \in Server : QueueOK(t)'
        BY <1>0, <2>0, <3>0, <3>2, <4>1, QueueKept DEF ClientInv
      <4> QED
        BY <1>0, <2>0, <3>0, <4>2, PastKept DEF ClientInv
    <3> QED
      BY <3>3, <3>4
  <2> QED
    BY <2>1, <2>2
<1>4. ASSUME UNCHANGED <<inbox, erq, cur, apc, clientVars, abandoned, crashes>> PROVE ClientInv'
  <2>1. \A s \in Server : ~Die(s) /\ ~CommitOrder(s)
    <3>2. \A s \in Server : Die(s) => crashes'[s] # crashes[s]
      BY DEF Die, TypeOK
    <3>3. \A s \in Server : CommitOrder(s) => apc'[s] # apc[s]
      BY DEF CommitOrder, TypeOK, AdminTypeOK
    <3> QED
      BY <1>4, <3>2, <3>3
  <2>2. \A s \in Server : QueueOK(s)'
    BY <1>0, <1>4, <1>e, <2>1, QueueKept DEF ClientInv
  <2> QED
    BY <1>0, <1>4, <2>2, PastKept DEF ClientInv, clientVars
<1>5. ASSUME NEW k \in ConnId, EngineerThread(k) PROVE ClientInv'
  <2>1. UNCHANGED <<inbox, erq, cur, apc, clientVars, abandoned, crashes>>
    BY <1>5 DEF EngineerThread, ReceiveStatusInfo, StatusLost, ReceiveReplicationRequest, StoreCommittedIndex,
                StoreLastIndex, EngineerPlaceOrder, SendReplicationResult, PeerHangup, srvVars, adminVars
  <2> QED
    BY <1>4, <2>1
<1>6. ASSUME (\E s \in Server : Restart(s)) \/ UNCHANGED vars PROVE ClientInv'
  <2>1. UNCHANGED <<inbox, erq, cur, apc, clientVars, abandoned, crashes>>
    BY <1>6 DEF Restart, vars, srvVars, adminVars
  <2> QED
    BY <1>4, <2>1
<1> QED
  BY <1>1, <1>2, <1>3, <1>5, <1>6 DEF Next, Crash, BrokenPipe

-----------------------------------------------------------------------------
(* Stubs and their connections.                                            *)

(* A connection that keeps its ends.                                       *)
SameLink(k) ==
  /\ conn'[k].from = conn[k].from
  /\ conn'[k].to = conn[k].to
  /\ conn'[k].open <=> conn[k].open
  /\ conn'[k].eng = "free" <=> conn[k].eng = "free"
  /\ conn'[k].eng = "dead" <=> conn[k].eng = "dead"

(* Steps that change no stub, and free only connections whose stub is gone. *)
LEMMA StubKept ==
  ASSUME StubInv, UNCHANGED <<stubs, crashes>>,
         \A s \in Server : apc'[s] = "identify" => apc[s] = "identify",
         \A s \in Server : apc[s] = "identify" => apc'[s] = "identify" \/ stubs[s][Len(stubs[s])].init,
         \A s \in Server : ~up'[s] => ~up[s],
         \A k \in ConnId : SameLink(k) \/ (~conn[k].open /\ conn'[k].eng = "free")
  PROVE  StubInv'
<1>1. ASSUME NEW k \in ConnId PROVE ConnOK(k)'
  BY DEF StubInv, ConnOK, SameLink
<1>2. ASSUME NEW s \in Server, NEW i \in 1..Len(stubs[s]) PROVE StubOK(s, stubs[s][i])'
  <2>1. StubOK(s, stubs[s][i])
    BY DEF StubInv
  <2> QED
    BY <2>1 DEF StubOK, SameLink
<1>3. ASSUME NEW s \in Server, NEW i \in 1..Len(stubs[s]), stubs[s][i].valid, ~stubs[s][i].init
      PROVE  s \in Flaky /\ apc'[s] = "identify" /\ i = Len(stubs[s])
  BY <1>3 DEF StubInv
<1>4. \A s \in Server : apc'[s] = "identify" => Len(stubs[s]) > 0 /\ stubs[s][Len(stubs[s])].valid
  BY DEF StubInv
<1>5. \A s \in Server : \A i, j \in 1..Len(stubs[s]) :
        stubs[s][i].init /\ stubs[s][j].init /\ stubs[s][i].conn = stubs[s][j].conn => i = j
  BY DEF StubInv
<1>6. \A s \in Server : ~up'[s] => crashes'[s] > 0
  BY DEF StubInv
<1> QED
  BY <1>1, <1>2, <1>3, <1>4, <1>5, <1>6 DEF StubInv

(* Steps that put stub b at position i of the stubs of s: a new one at the *)
(* end or a replacement.  Other stubs keep their connections.              *)
LEMMA StubStep ==
  ASSUME TypeOK, StubInv, NEW s \in Server, NEW i \in Nat, NEW b,
         UNCHANGED <<up, crashes>>,
         \A t \in Server \ {s} : stubs'[t] = stubs[t],
         Len(stubs'[s]) \in Nat, i \in 1..Len(stubs'[s]), stubs'[s][i] = b,
         \A j \in 1..Len(stubs'[s]) : j # i => j \in 1..Len(stubs[s]) /\ stubs'[s][j] = stubs[s][j],
         StubOK(s, b)',
         \A t \in Server \ {s} : apc'[t] = apc[t],
         apc'[s] = "identify" => b.valid /\ i = Len(stubs'[s]),
         b.valid /\ ~b.init => s \in Flaky /\ apc'[s] = "identify" /\ i = Len(stubs'[s]),
         apc[s] = "identify" => i = Len(stubs[s]),
         \A t \in Server : \A j \in 1..Len(stubs[t]) :
            (t # s \/ j # i) /\ stubs[t][j].init => SameLink(stubs[t][j].conn),
         \A j \in 1..Len(stubs[s]) : b.init /\ j # i /\ stubs[s][j].init => stubs[s][j].conn # b.conn,
         \A k \in ConnId : ConnOK(k)'
  PROVE  StubInv'
<1>1. ASSUME NEW t \in Server, NEW j \in 1..Len(stubs'[t]) PROVE StubOK(t, stubs[t][j])'
  <2>1. CASE t = s /\ j = i
    BY <2>1 DEF StubOK
  <2>2. CASE t # s \/ j # i
    <3>1. j \in 1..Len(stubs[t]) /\ stubs'[t][j] = stubs[t][j]
      BY <2>2
    <3>2. StubOK(t, stubs[t][j])
      BY <3>1 DEF StubInv
    <3>3. stubs[t][j].init => SameLink(stubs[t][j].conn)
      BY <2>2, <3>1
    <3> QED
      BY <3>1, <3>2, <3>3 DEF StubOK, SameLink
  <2> QED
    BY <2>1, <2>2
<1>2. ASSUME NEW t \in Server, NEW j \in 1..Len(stubs'[t]), NEW l \in 1..Len(stubs'[t]),
             stubs'[t][j].init, stubs'[t][l].init, stubs'[t][j].conn = stubs'[t][l].conn
      PROVE  j = l
  <2>1. CASE t # s
    BY <1>2, <2>1 DEF StubInv
  <2>2. CASE t = s /\ j # i /\ l # i
    BY <1>2, <2>2 DEF StubInv
  <2>3. CASE t = s /\ (j = i \/ l = i)
    BY <1>2, <2>3
  <2> QED
    BY <2>1, <2>2, <2>3
<1>3. ASSUME NEW t \in Server, apc'[t] = "identify"
      PROVE  Len(stubs'[t]) > 0 /\ stubs'[t][Len(stubs'[t])].valid
  BY <1>3 DEF StubInv
<1>4. \A t \in Server : ~up'[t] => crashes'[t] > 0
  BY DEF StubInv
<1>5. ASSUME NEW t \in Server, NEW j \in 1..Len(stubs'[t]), stubs'[t][j].valid, ~stubs'[t][j].init
      PROVE  t \in Flaky /\ apc'[t] = "identify" /\ j = Len(stubs'[t])
  <2>1. CASE t = s /\ j = i
    BY <1>5, <2>1
  <2>2. CASE t # s
    BY <1>5, <2>2 DEF StubInv
  <2>3. CASE t = s /\ j # i
    <3>1. j \in 1..Len(stubs[s]) /\ stubs[s][j].valid /\ ~stubs[s][j].init
      BY <1>5, <2>3
    <3>2. apc[s] = "identify" /\ j = Len(stubs[s])
      BY <3>1 DEF StubInv
    <3> QED
      BY <2>3, <3>2
  <2> QED
    BY <2>1, <2>2, <2>3
<1> QED
  BY <1>1, <1>2, <1>3, <1>4, <1>5 DEF StubInv

(* Opening a connection for stub b of s: other connections stay as they    *)
(* are, and the new one belongs to b alone.                                *)
LEMMA DialOK ==
  ASSUME TypeOK, StubInv, NEW s \in Server, NEW b \in Stub, NEW k \in Dialled(s, b),
         b.peer # s, b.init => StubOK(s, b), b.init \/ b.valid \/ crashes[b.peer] > 0 \/ s \in Flaky,
         conn' = Dial(s, b, k), UNCHANGED crashes,
         NEW r, r = SocketInit(b, k), b.init => ~b.valid
  PROVE  /\ StubOK(s, r)'
         /\ \A j \in ConnId : ConnOK(j)'
         /\ \A j \in ConnId : conn[j].eng # "free" => conn'[j] = conn[j]
         /\ r.peer = b.peer /\ (r.valid => b.valid /\ (~r.init => s \in Flaky)) /\ r \in Stub
         /\ r.init => r.conn \in ConnId /\ (~b.init => conn[r.conn].eng = "free" /\ Quiet(conn'[r.conn]))
         /\ b.init => r = b
         /\ ~b.valid => ~r.valid
<1>0. r \in Stub /\ r.peer = b.peer /\ b.peer \in Server /\ conn \in [ConnId -> Conn]
      /\ k \in ConnId \cup {Refused, NoSocket}
  BY DialTypes DEF Stub, TypeOK
<1>1. CASE b.init \/ k \notin ConnId
  <2>1. conn' = conn
    BY <1>1 DEF Dial
  <2>2. /\ r = b \/ r = [b EXCEPT !.valid = FALSE]
        /\ r.init => r = b
        /\ ~b.init => ~r.init
    BY <1>1, <1>0 DEF SocketInit, Stub
  <2>3. ~b.init => /\ k = NoSocket => r = b
                   /\ k = Refused => ~r.valid
                   /\ k \in {Refused, NoSocket}
    BY <1>1, <1>0 DEF SocketInit, Stub, Refused, NoSocket
  <2>4. k \notin ConnId /\ ~b.init => s \in Flaky \/ (~up[b.peer] /\ k = Refused)
    BY DEF Dialled, FreshConn
  <2>5. ~up[b.peer] => crashes[b.peer] > 0
    BY <1>0 DEF StubInv
  <2>6. r.valid => b.valid /\ (~r.init => s \in Flaky)
    BY <1>0, <1>1, <2>2, <2>3, <2>4 DEF Stub
  <2>7. ~r.valid => crashes[r.peer] > 0 \/ s \in Flaky
    <3>1. CASE b.init
      <4>1. r = b
        BY <3>1 DEF SocketInit
      <4> QED
        BY <3>1, <4>1 DEF StubOK
    <3>2. CASE ~b.init
      BY <1>0, <1>1, <2>4, <2>5, <3>2
    <3> QED
      BY <3>1, <3>2
  <2>8. StubOK(s, r)'
    <3>1. r.init => StubOK(s, r)
      BY <2>2
    <3> QED
      BY <1>0, <2>1, <2>7, <3>1 DEF StubOK
  <2>9. \A j \in ConnId : ConnOK(j)'
    BY <2>1 DEF StubInv, ConnOK
  <2>10. b.init => r = b
    BY DEF SocketInit
  <2>11. r.init => r.conn \in ConnId
    BY <2>2, <2>10 DEF StubOK
  <2>12. \A j \in ConnId : conn[j].eng # "free" => conn'[j] = conn[j]
    BY <2>1
  <2> QED
    BY <1>0, <2>2, <2>6, <2>8, <2>9, <2>10, <2>11, <2>12
<1>2. CASE ~b.init /\ k \in ConnId
  <2>1. k \in ConnId /\ conn[k].eng = "free" /\ k # Refused /\ k # NoSocket
    BY <1>2, FactoryAssumption DEF Dialled, FreshConn, Refused, NoSocket
  <2>2. r = [b EXCEPT !.init = TRUE, !.conn = k]
    BY <1>2, <2>1 DEF SocketInit
  <2>3. /\ conn'[k] = [FreeConn EXCEPT !.from = s, !.to = b.peer, !.open = TRUE, !.eng = "status"]
        /\ \A j \in ConnId \ {k} : conn'[j] = conn[j]
    BY <1>0, <1>2, <2>1 DEF Dial
  <2>4. /\ conn'[k].from = s /\ conn'[k].to = b.peer /\ conn'[k].open /\ conn'[k].eng = "status"
        /\ ~conn'[k].sent /\ ~conn'[k].ack
    BY <2>3 DEF FreeConn
  <2>5. r.init /\ r.conn = k /\ r.valid = b.valid
    BY <2>2 DEF Stub
  <2>6. StubOK(s, r)'
    BY <1>0, <1>2, <2>1, <2>4, <2>5 DEF StubOK
  <2>7. ASSUME NEW j \in ConnId PROVE ConnOK(j)'
    <3>1. CASE j = k
      BY <1>0, <2>4, <3>1 DEF ConnOK
    <3>2. CASE j # k
      BY <2>3, <3>2 DEF StubInv, ConnOK
    <3> QED
      BY <3>1, <3>2
  <2>8. Quiet(conn'[r.conn])
    BY <2>4, <2>5 DEF Quiet
  <2>9. \A j \in ConnId : conn[j].eng # "free" => conn'[j] = conn[j]
    BY <2>1, <2>3
  <2> QED
    BY <1>0, <1>2, <2>1, <2>5, <2>6, <2>7, <2>8, <2>9
<1> QED
  BY <1>1, <1>2

(* A stub of s whose peer died is closed and its connection given back.    *)
LEMMA CloseOK ==
  ASSUME TypeOK, StubInv, NEW s \in Server, NEW i \in 1..Len(stubs[s]),
         stubs[s][i].init, NEW k, k = stubs[s][i].conn, conn[k].eng = "dead",
         conn' = [conn EXCEPT ![k] = FreeConn],
         stubs' = [stubs EXCEPT ![s][i] = Closed(stubs[s][i])],
         UNCHANGED <<up, crashes>>,
         \A t \in Server \ {s} : apc'[t] = apc[t], apc'[s] # "identify",
         apc[s] = "identify" => i = Len(stubs[s])
  PROVE  StubInv'
<1>b. PICK b : b = Closed(stubs[s][i])
  OBVIOUS
<1>0. /\ stubs[s] \in Seq(Stub) /\ stubs \in [Server -> Seq(Stub)] /\ conn \in [ConnId -> Conn]
      /\ stubs[s][i] \in Stub /\ StubOK(s, stubs[s][i]) /\ i \in Nat
  BY ElementOfSeq DEF TypeOK, ServerTypeOK, StubInv
<1>1. k \in ConnId /\ conn[k].to = stubs[s][i].peer /\ crashes[stubs[s][i].peer] > 0
  BY <1>0 DEF StubOK, StubInv, ConnOK
<1>2. ~b.valid /\ ~b.init /\ b.peer = stubs[s][i].peer
  BY <1>0, <1>b DEF Closed, Stub
<1>3. StubOK(s, b)'
  BY <1>0, <1>1, <1>2 DEF StubOK
<1>4. /\ \A t \in Server \ {s} : stubs'[t] = stubs[t]
      /\ Len(stubs'[s]) = Len(stubs[s]) /\ Len(stubs'[s]) \in Nat /\ i \in 1..Len(stubs'[s])
      /\ stubs'[s][i] = b
      /\ \A j \in 1..Len(stubs'[s]) : j # i => j \in 1..Len(stubs[s]) /\ stubs'[s][j] = stubs[s][j]
  BY <1>0, <1>b
<1>5. ASSUME NEW t \in Server, NEW j \in 1..Len(stubs[t]), t # s \/ j # i, stubs[t][j].init
      PROVE  SameLink(stubs[t][j].conn)
  <2>1. stubs[t][j].conn \in ConnId /\ conn[stubs[t][j].conn].from = t
    BY <1>5 DEF StubInv, StubOK
  <2>2. conn[k].from = s
    BY <1>0 DEF StubOK
  <2>3. stubs[t][j].conn # k
    BY <1>5, <2>1, <2>2 DEF StubInv
  <2> QED
    BY <1>0, <2>1, <2>3 DEF SameLink
<1>6. \A j \in ConnId : ConnOK(j)'
  <2>1. ASSUME NEW j \in ConnId PROVE conn'[j] = conn[j] \/ conn'[j].eng = "free"
    BY <1>0 DEF FreeConn
  <2> QED
    BY <2>1 DEF ConnOK, StubInv
<1> QED
  BY <1>0, <1>2, <1>3, <1>4, <1>5, <1>6, StubStep

(* The identification of a stub without a socket fails and closes it.      *)
LEMMA NoSocketStub ==
  ASSUME TypeOK, StubInv, NEW s \in Server, apc[s] = "identify",
         NEW i, i = Len(stubs[s]), ~stubs[s][i].init,
         stubs' = [stubs EXCEPT ![s][i] = Closed(stubs[s][i])],
         UNCHANGED <<up, crashes, conn>>,
         \A t \in Server \ {s} : apc'[t] = apc[t], apc'[s] # "identify"
  PROVE  StubInv'
<1>b. PICK b : b = Closed(stubs[s][i])
  OBVIOUS
<1>0. /\ stubs[s] \in Seq(Stub) /\ stubs \in [Server -> Seq(Stub)] /\ i \in 1..Len(stubs[s]) /\ i \in Nat
      /\ stubs[s][i].valid
  BY DEF TypeOK, ServerTypeOK, StubInv
<1>1. stubs[s][i] \in Stub /\ StubOK(s, stubs[s][i]) /\ s \in Flaky
  BY <1>0, ElementOfSeq DEF StubInv
<1>2. ~b.valid /\ ~b.init /\ b.peer = stubs[s][i].peer
  BY <1>1, <1>b DEF Closed, Stub
<1>3. StubOK(s, b)'
  BY <1>1, <1>2 DEF StubOK
<1>4. /\ \A t \in Server \ {s} : stubs'[t] = stubs[t]
      /\ Len(stubs'[s]) = Len(stubs[s]) /\ Len(stubs'[s]) \in Nat /\ i \in 1..Len(stubs'[s])
      /\ stubs'[s][i] = b
      /\ \A j \in 1..Len(stubs'[s]) : j # i => j \in 1..Len(stubs[s]) /\ stubs'[s][j] = stubs[s][j]
  BY <1>0, <1>b
<1>5. /\ \A k \in ConnId : SameLink(k) /\ ConnOK(k)'
      /\ \A t \in Server : \A j \in 1..Len(stubs[t]) : stubs[t][j].init => stubs[t][j].conn \in ConnId
  BY DEF SameLink, ConnOK, StubInv, StubOK
<1> QED
  BY <1>0, <1>2, <1>3, <1>4, <1>5, StubStep

(* startConnection puts one more stub behind the others.                   *)
LEMMA ConnectStub ==
  ASSUME TypeOK, StubInv, NEW s \in Server, ConnectPeer(s)
  PROVE  StubInv'
<1> DEFINE new == NewStub(PeerList[s][it[s]])
<1>1. /\ apc[s] = "connect" /\ it[s] \in 1..Len(PeerList[s])
      /\ stubs[s] \in Seq(Stub) /\ stubs \in [Server -> Seq(Stub)] /\ apc \in [Server -> AdminPC]
  BY DEF ConnectPeer, TypeOK, PositionsOK, AdminTypeOK, ServerTypeOK
<1>2. new \in Stub /\ new.peer # s /\ new.valid /\ ~new.init
  BY <1>1, FactoryAssumption, ConstantTypes DEF NewStub
<1>p. PICK k \in Dialled(s, new) :
        /\ stubs' = [stubs EXCEPT ![s] = Append(stubs[s], SocketInit(new, k))]
        /\ conn' = Dial(s, new, k)
        /\ apc' = [apc EXCEPT ![s] = IF SocketInit(new, k).valid THEN "identify" ELSE AfterPeer(s, it[s])]
  BY DEF ConnectPeer
<1>3. PICK r : /\ r = SocketInit(new, k)
               /\ stubs' = [stubs EXCEPT ![s] = Append(stubs[s], r)]
               /\ conn' = Dial(s, new, k)
               /\ apc' = [apc EXCEPT ![s] = IF r.valid THEN "identify" ELSE AfterPeer(s, it[s])]
  BY <1>p
<1>u. UNCHANGED <<up, crashes>>
  BY DEF ConnectPeer
<1> HIDE DEF new
<1>4. /\ StubOK(s, r)' /\ \A j \in ConnId : ConnOK(j)'
      /\ \A j \in ConnId : conn[j].eng # "free" => conn'[j] = conn[j]
      /\ r.init => conn[r.conn].eng = "free"
      /\ r \in Stub /\ (r.valid /\ ~r.init => s \in Flaky)
  BY <1>2, <1>3, <1>u, DialOK
<1>5. /\ Len(stubs'[s]) = Len(stubs[s]) + 1 /\ Len(stubs'[s]) \in Nat
      /\ stubs'[s][Len(stubs[s]) + 1] = r
      /\ \A j \in 1..Len(stubs[s]) : stubs'[s][j] = stubs[s][j]
      /\ \A t \in Server \ {s} : stubs'[t] = stubs[t]
  BY <1>1, <1>3, <1>4, AppendProperties
<1>6. apc'[s] = "identify" <=> r.valid
  <2>1. AfterPeer(s, it[s]) # "identify"
    BY DEF AfterPeer
  <2> QED
    BY <1>1, <1>3, <2>1
<1>7. \A t \in Server \ {s} : apc'[t] = apc[t]
  BY <1>1, <1>3
<1>8. ASSUME NEW t \in Server, NEW j \in 1..Len(stubs[t]), stubs[t][j].init
      PROVE  SameLink(stubs[t][j].conn) /\ conn[stubs[t][j].conn].eng # "free"
  BY <1>4, <1>8 DEF StubInv, StubOK, SameLink
<1>9. \A j \in 1..Len(stubs[s]) : r.init /\ stubs[s][j].init => stubs[s][j].conn # r.conn
  BY <1>4, <1>8
<1> DEFINE i == Len(stubs[s]) + 1
<1>10. /\ i \in Nat /\ i \in 1..Len(stubs'[s]) /\ i = Len(stubs'[s])
       /\ stubs'[s][i] = r
       /\ \A j \in 1..Len(stubs'[s]) : j # i => j \in 1..Len(stubs[s]) /\ stubs'[s][j] = stubs[s][j]
  BY <1>1, <1>5
<1> HIDE DEF i
<1>11. /\ apc[s] # "identify"
       /\ apc'[s] = "identify" => r.valid /\ i = Len(stubs'[s])
       /\ r.valid /\ ~r.init => s \in Flaky /\ apc'[s] = "identify" /\ i = Len(stubs'[s])
       /\ \A j \in ConnId : ConnOK(j)'
       /\ StubOK(s, r)'
  BY <1>1, <1>4, <1>6, <1>10
<1> QED
  BY <1>5, <1>7, <1>8, <1>9, <1>10, <1>11, <1>u, StubStep

(* startReplication reconnects an invalid stub.                            *)
LEMMA ReconnectStub ==
  ASSUME TypeOK, StubInv, NEW s \in Server, ReplicateTo(s), ~stubs[s][it[s]].valid
  PROVE  StubInv'
<1> DEFINE i == it[s]
           b == stubs[s][i]
<1>1. /\ apc[s] = "visit" /\ i \in 1..Len(stubs[s]) /\ i \in Nat
      /\ stubs[s] \in Seq(Stub) /\ stubs \in [Server -> Seq(Stub)] /\ apc \in [Server -> AdminPC]
  BY DEF ReplicateTo, TypeOK, PositionsOK, AdminTypeOK, ServerTypeOK
<1>2. b \in Stub /\ ~b.valid /\ StubOK(s, b) /\ b.peer # s /\ (crashes[b.peer] > 0 \/ s \in Flaky)
  BY <1>1, ElementOfSeq DEF StubInv, StubOK
<1>v. \A k : ~SocketInit(b, k).valid
  BY <1>2 DEF SocketInit, Stub
<1>p. PICK k \in Dialled(s, b) :
        /\ stubs' = [stubs EXCEPT ![s][i] = SocketInit(b, k)]
        /\ conn' = Dial(s, b, k)
        /\ apc' = [apc EXCEPT ![s] = AfterStub(s, it[s])]
  BY <1>2, <1>v DEF ReplicateTo
<1>3. PICK r : /\ r = SocketInit(b, k)
               /\ stubs' = [stubs EXCEPT ![s][i] = r]
               /\ conn' = Dial(s, b, k)
               /\ apc' = [apc EXCEPT ![s] = AfterStub(s, it[s])]
  BY <1>p
<1>u. UNCHANGED <<up, crashes>>
  BY DEF ReplicateTo
<1> HIDE DEF b, i
<1>4. /\ StubOK(s, r)' /\ \A j \in ConnId : ConnOK(j)'
      /\ \A j \in ConnId : conn[j].eng # "free" => conn'[j] = conn[j]
      /\ r.init /\ ~b.init => conn[r.conn].eng = "free"
      /\ b.init => r = b
      /\ r \in Stub /\ ~r.valid
  BY <1>2, <1>3, <1>u, DialOK
<1>5. /\ Len(stubs'[s]) = Len(stubs[s]) /\ Len(stubs'[s]) \in Nat /\ i \in 1..Len(stubs'[s])
      /\ stubs'[s][i] = r
      /\ \A j \in 1..Len(stubs'[s]) : j # i => j \in 1..Len(stubs[s]) /\ stubs'[s][j] = stubs[s][j]
      /\ \A t \in Server \ {s} : stubs'[t] = stubs[t]
  BY <1>1, <1>3, <1>4
<1>6. apc'[s] # "identify" /\ \A t \in Server \ {s} : apc'[t] = apc[t]
  <2>1. AfterStub(s, it[s]) # "identify"
    BY DEF AfterStub
  <2> QED
    BY <1>1, <1>3, <2>1
<1>7. ASSUME NEW t \in Server, NEW j \in 1..Len(stubs[t]), stubs[t][j].init
      PROVE  SameLink(stubs[t][j].conn) /\ conn[stubs[t][j].conn].eng # "free"
  BY <1>4, <1>7 DEF StubInv, StubOK, SameLink
<1>8. \A j \in 1..Len(stubs[s]) : r.init /\ j # i /\ stubs[s][j].init => stubs[s][j].conn # r.conn
  <2>1. CASE b.init
    BY <1>1, <1>4, <2>1 DEF StubInv, b
  <2>2. CASE ~b.init
    BY <1>4, <1>7, <2>2
  <2> QED
    BY <2>1, <2>2
<1>9. apc[s] # "identify" /\ ~r.valid /\ StubOK(s, r)' /\ (\A j \in ConnId : ConnOK(j)') /\ i \in Nat
  BY <1>1, <1>4
<1> QED
  BY <1>5, <1>6, <1>7, <1>8, <1>9, <1>u, StubStep

(* The death of s: its stubs are gone, the connections to it are dead, the *)
(* stubs of other servers keep theirs.                                     *)
LEMMA DieStub ==
  ASSUME TypeOK, StubInv, NEW s \in Server, Die(s)
  PROVE  StubInv'
<1>0. /\ \A t \in Server : crashes[t] \in Nat
      /\ conn \in [ConnId -> Conn] /\ up \in [Server -> BOOLEAN] /\ apc \in [Server -> AdminPC]
      /\ stubs \in [Server -> Seq(Stub)] /\ crashes \in [Server -> Nat]
  BY DEF TypeOK, ServerTypeOK, AdminTypeOK
<1>1. /\ crashes' = [crashes EXCEPT ![s] = @ + 1] /\ up' = [up EXCEPT ![s] = FALSE]
      /\ apc' = [apc EXCEPT ![s] = "idle"] /\ stubs' = [stubs EXCEPT ![s] = << >>]
      /\ \A k \in ConnId : conn'[k] = AfterCrash(conn[k], s)
  BY DEF Die
<1>2. ASSUME NEW t \in Server, crashes[t] > 0 \/ t = s PROVE crashes'[t] > 0
  BY <1>0, <1>1, <1>2
<1>3. ASSUME NEW k \in ConnId
      PROVE  /\ ConnOK(k)'
             /\ conn[k].open /\ conn[k].from # s /\ conn[k].eng # "free" =>
                  /\ conn'[k].from = conn[k].from /\ conn'[k].to = conn[k].to
                  /\ conn'[k].open /\ conn'[k].eng # "free"
  <2> DEFINE c == conn[k]
             open == c.open /\ c.from # s
  <2>1. c \in Conn /\ ConnOK(k)
    BY <1>0 DEF StubInv
  <2>2. CASE c.eng = "free" \/ ((c.to = s \/ c.eng = "dead") /\ ~open)
    <3>1. conn'[k] = FreeConn
      BY <1>1, <2>2 DEF AfterCrash
    <3> QED
      BY <2>2, <3>1 DEF ConnOK, FreeConn
  <2>3. CASE c.eng # "free" /\ (c.to = s \/ c.eng = "dead") /\ open
    <3>1. conn'[k] = [FreeConn EXCEPT !.from = c.from, !.to = c.to, !.open = TRUE, !.ack = c.ack, !.eng = "dead"]
      BY <1>1, <2>3 DEF AfterCrash
    <3>2. conn'[k].from = c.from /\ conn'[k].to = c.to /\ conn'[k].open /\ conn'[k].eng = "dead"
      BY <3>1 DEF FreeConn
    <3>3. c.from \in Server /\ c.to \in Server /\ c.from # c.to /\ (c.to = s \/ crashes[c.to] > 0)
      BY <2>1, <2>3 DEF ConnOK
    <3>4. crashes'[c.to] > 0
      BY <1>2, <3>3
    <3> QED
      BY <3>2, <3>3, <3>4 DEF ConnOK
  <2>4. CASE c.eng # "free" /\ ~(c.to = s \/ c.eng = "dead")
    <3>1. conn'[k] = [c EXCEPT !.open = open, !.ack = c.ack /\ open]
      BY <1>1, <2>4 DEF AfterCrash
    <3>2. conn'[k].from = c.from /\ conn'[k].to = c.to /\ conn'[k].open = open /\ conn'[k].eng = c.eng
      BY <2>1, <3>1 DEF Conn
    <3> QED
      BY <2>1, <2>4, <3>2 DEF ConnOK
  <2> QED
    BY <2>2, <2>3, <2>4
<1>4. ASSUME NEW t \in Server \ {s}, NEW i \in 1..Len(stubs[t]) PROVE StubOK(t, stubs[t][i])'
  <2>1. stubs[t] \in Seq(Stub) /\ stubs'[t][i] = stubs[t][i]
    BY <1>0, <1>1
  <2>2. stubs[t][i] \in Stub
    BY <2>1, ElementOfSeq
  <2>3. StubOK(t, stubs[t][i]) /\ stubs[t][i].peer \in Server
    BY <2>2 DEF StubInv, Stub
  <2> QED
    BY <1>2, <1>3, <2>1, <2>3 DEF StubOK
<1>5. stubs'[s] = << >> /\ \A t \in Server \ {s} : stubs'[t] = stubs[t] /\ apc'[t] = apc[t]
  BY <1>0, <1>1
<1>6. Len(stubs'[s]) = 0 /\ apc'[s] = "idle"
  BY <1>0, <1>1, <1>5
<1>7. \A t \in Server : ~up'[t] => crashes'[t] > 0
  BY <1>0, <1>1, <1>2 DEF StubInv
<1>8. ASSUME NEW t \in Server, NEW i \in 1..Len(stubs'[t]) PROVE t # s /\ StubOK(t, stubs[t][i])'
  BY <1>4, <1>5, <1>6
<1>9. ASSUME NEW t \in Server, NEW i \in 1..Len(stubs'[t]), NEW j \in 1..Len(stubs'[t]),
             stubs'[t][i].init, stubs'[t][j].init, stubs'[t][i].conn = stubs'[t][j].conn
      PROVE  i = j
  BY <1>5, <1>8, <1>9 DEF StubInv
<1>10. ASSUME NEW t \in Server, apc'[t] = "identify"
       PROVE  Len(stubs'[t]) > 0 /\ stubs'[t][Len(stubs'[t])].valid
  BY <1>5, <1>6, <1>10 DEF StubInv
<1>11. ASSUME NEW t \in Server, NEW i \in 1..Len(stubs'[t]), stubs'[t][i].valid, ~stubs'[t][i].init
       PROVE  t \in Flaky /\ apc'[t] = "identify" /\ i = Len(stubs'[t])
  BY <1>5, <1>8, <1>11 DEF StubInv
<1> QED
  BY <1>3, <1>7, <1>8, <1>9, <1>10, <1>11 DEF StubInv

(* Every step keeps stubs and connections in step.                         *)
LEMMA NextStub ==
  ASSUME TypeOK, FactoryInv, [Next]_vars
  PROVE  StubInv'
<1>0. /\ StubInv /\ RequestInv
      /\ apc \in [Server -> AdminPC] /\ up \in [Server -> BOOLEAN] /\ conn \in [ConnId -> Conn]
  BY DEF FactoryInv, TypeOK, AdminTypeOK, ServerTypeOK
<1>1. ASSUME NEW c \in Customer, Client(c) PROVE StubInv'
  <2>1. UNCHANGED <<stubs, crashes, up, conn, apc>>
    BY <1>1 DEF Client, StartSession, SendOrder, CreateRegularLaptop, SendLaptop, ClientGone, srvVars, adminVars
  <2> QED
    BY <1>0, <2>1, StubKept DEF SameLink
<1>2. ASSUME NEW s \in Server, ProductionAdminThread(s) PROVE StubInv'
  <2>1. CASE \/ AdminDequeue(s) \/ ReadCommitted(s) \/ ClaimPrimary(s) \/ ReadIndex(s) \/ BuildRequest(s)
             \/ AdminPlaceOrder(s) \/ CommitOrder(s)
    <3>1. UNCHANGED <<stubs, crashes, up, conn>> /\ \A t \in Server \ {s} : apc'[t] = apc[t]
      BY <1>0, <2>1 DEF AdminDequeue, ReadCommitted, ClaimPrimary, ReadIndex, BuildRequest, AdminPlaceOrder,
                        CommitOrder, srvVars
    <3>2. apc'[s] # "identify" /\ apc[s] # "identify"
      BY <1>0, <2>1 DEF AdminDequeue, ReadCommitted, ClaimPrimary, ReadIndex, BuildRequest, AdminPlaceOrder,
                        CommitOrder, AfterPeer, AfterStub
    <3> QED
      BY <1>0, <3>1, <3>2, StubKept DEF SameLink
  <2>2. CASE ConnectPeer(s)
    BY <1>0, <2>2, ConnectStub
  <2>3. CASE IdentifyPeer(s)
    <3> DEFINE n == Len(stubs[s])
               k == stubs[s][n].conn
    <3>1. /\ apc[s] = "identify" /\ n \in 1..Len(stubs[s]) /\ stubs[s][n].valid
          /\ UNCHANGED <<up, crashes>>
      BY <1>0, <2>3 DEF IdentifyPeer, StubInv, StubOK, TypeOK, ServerTypeOK
    <3>2. apc'[s] # "identify" /\ \A t \in Server \ {s} : apc'[t] = apc[t]
      BY <1>0, <2>3 DEF IdentifyPeer, AfterPeer
    <3>3. CASE stubs[s][n].init /\ conn' = [conn EXCEPT ![k].ident = TRUE] /\ stubs' = stubs
      <4>1. \A j \in ConnId : SameLink(j)
        BY <1>0, <3>3 DEF SameLink, Conn
      <4> QED
        BY <1>0, <3>1, <3>2, <3>3, <4>1, StubKept
    <3>4. CASE /\ stubs[s][n].init /\ conn[k].eng = "dead"
               /\ conn' = [conn EXCEPT ![k] = FreeConn]
               /\ stubs' = [stubs EXCEPT ![s][n] = Closed(stubs[s][n])]
      <4> HIDE DEF n, k
      <4>1. k = stubs[s][n].conn /\ n = Len(stubs[s])
        BY DEF k, n
      <4> QED
        BY <1>0, <3>1, <3>2, <3>4, <4>1, CloseOK
    <3>5. CASE /\ ~stubs[s][n].init /\ conn' = conn
               /\ stubs' = [stubs EXCEPT ![s][n] = Closed(stubs[s][n])]
      <4>1. n = Len(stubs[s])
        OBVIOUS
      <4> HIDE DEF n, k
      <4> QED
        BY <1>0, <3>1, <3>2, <3>5, <4>1, NoSocketStub
    <3> QED
      BY <2>3, <3>3, <3>4, <3>5 DEF IdentifyPeer
  <2>4. CASE ReplicateTo(s)
    <3>1. CASE ~stubs[s][it[s]].valid
      BY <1>0, <2>4, <3>1, ReconnectStub
    <3>2. CASE stubs[s][it[s]].valid
      <4>1. /\ conn' = Send(conn, stubs[s][it[s]].conn, msg[s])
            /\ stubs' = [stubs EXCEPT ![s][it[s]] = stubs[s][it[s]]]
            /\ apc' = [apc EXCEPT ![s] = "await"]
            /\ UNCHANGED <<up, crashes>>
        <5>1. Head(<< msg[s] >>) = msg[s]
          OBVIOUS
        <5> QED
          BY <2>4, <3>2, <5>1 DEF ReplicateTo
      <4>2. stubs' = stubs
        BY <4>1 DEF TypeOK, ServerTypeOK
      <4>3. ASSUME NEW j \in ConnId PROVE SameLink(j)
        <5>1. conn[j] \in Conn
          BY <1>0
        <5>2. conn'[j] = conn[j] \/ conn'[j] = [conn[j] EXCEPT !.sent = TRUE, !.msg = msg[s]]
          BY <1>0, <4>1 DEF Send
        <5> QED
          BY <5>1, <5>2 DEF SameLink, Conn
      <4>4. apc[s] = "visit" /\ apc'[s] = "await" /\ \A t \in Server \ {s} : apc'[t] = apc[t]
        BY <1>0, <2>4, <4>1 DEF ReplicateTo
      <4> QED
        BY <4>1, <4>2, <4>3, <4>4, <1>0, StubKept
    <3> QED
      BY <3>1, <3>2
  <2>5. CASE ReplicationAcked(s)
    <3>1. /\ conn' = [conn EXCEPT ![stubs[s][it[s]].conn].ack = FALSE]
          /\ apc[s] = "await" /\ apc' = [apc EXCEPT ![s] = AfterStub(s, it[s])]
          /\ UNCHANGED <<stubs, up, crashes>>
      BY <1>0, <2>5 DEF ReplicationAcked, RequestInv, srvVars
    <3>2. \A j \in ConnId : SameLink(j)
      BY <1>0, <3>1 DEF SameLink, Conn
    <3> QED
      BY <1>0, <3>1, <3>2, StubKept DEF AfterStub
  <2>6. CASE ReplicationFailed(s)
    <3> DEFINE i == it[s]
               k == stubs[s][i].conn
    <3>1. /\ apc[s] = "await" /\ i \in 1..Len(stubs[s]) /\ stubs[s][i].valid /\ stubs[s][i].init
          /\ conn[k].eng = "dead"
          /\ conn' = [conn EXCEPT ![k] = FreeConn]
          /\ stubs' = [stubs EXCEPT ![s][i] = Closed(stubs[s][i])]
          /\ apc' = [apc EXCEPT ![s] = AfterStub(s, i)]
          /\ UNCHANGED <<up, crashes>>
      BY <1>0, <2>6 DEF ReplicationFailed, RequestInv, StubInv, StubOK, TypeOK, AdminTypeOK, ServerTypeOK, PositionsOK
    <3>2. apc'[s] # "identify" /\ \A t \in Server \ {s} : apc'[t] = apc[t]
      BY <1>0, <3>1 DEF AfterStub
    <3>3. k = stubs[s][i].conn
      OBVIOUS
    <3> HIDE DEF i, k
    <3> QED
      BY <1>0, <3>1, <3>2, <3>3, CloseOK
  <2>7. CASE BrokenPipe(s)
    BY <1>0, <2>7, DieStub DEF BrokenPipe
  <2> QED
    BY <1>2, <2>1, <2>2, <2>3, <2>4, <2>5, <2>6, <2>7 DEF ProductionAdminThread
<1>3. ASSUME NEW k \in ConnId, EngineerThread(k) PROVE StubInv'
  <2>1. UNCHANGED <<stubs, crashes, up, apc>>
    BY <1>3 DEF EngineerThread, ReceiveStatusInfo, StatusLost, ReceiveReplicationRequest, StoreCommittedIndex,
                StoreLastIndex, EngineerPlaceOrder, SendReplicationResult, PeerHangup, srvVars, adminVars
  <2>2. ASSUME NEW j \in ConnId PROVE SameLink(j) \/ (~conn[j].open /\ conn'[j].eng = "free")
    <3>1. CASE StatusLost(k) \/ PeerHangup(k)
      BY <1>0, <3>1 DEF StatusLost, PeerHangup, SameLink, Conn, FreeConn
    <3>2. CASE \/ ReceiveStatusInfo(k) \/ ReceiveReplicationRequest(k) \/ StoreCommittedIndex(k)
               \/ StoreLastIndex(k) \/ EngineerPlaceOrder(k)
      BY <1>0, <3>2 DEF ReceiveStatusInfo, ReceiveReplicationRequest, StoreCommittedIndex, StoreLastIndex,
                        EngineerPlaceOrder, SameLink, Conn
    <3>3. CASE SendReplicationResult(k)
      BY <1>0, <3>3 DEF SendReplicationResult, SameLink, Conn
    <3> QED
      BY <1>3, <3>1, <3>2, <3>3 DEF EngineerThread
  <2> QED
    BY <1>0, <2>1, <2>2, StubKept
<1>4. ASSUME NEW s \in Server, Crash(s) PROVE StubInv'
  BY <1>0, <1>4, DieStub DEF Crash
<1>5. ASSUME (\E s \in Server : Restart(s)) \/ UNCHANGED vars PROVE StubInv'
  <2>1. UNCHANGED <<stubs, crashes, conn, apc>> /\ \A s \in Server : ~up'[s] => ~up[s]
    BY <1>0, <1>5 DEF Restart, vars, srvVars, adminVars
  <2> QED
    BY <1>0, <2>1, StubKept DEF SameLink
<1> QED
  BY <1>1, <1>2, <1>3, <1>4, <1>5 DEF Next

-----------------------------------------------------------------------------
(* Logs and what they hold.                                                *)

(* A log that stays or gets one more order.                                *)
LogGrows(t) == log'[t] = log[t] \/ \E x \in Order : log'[t] = Append(log[t], x)

(* A growing log keeps what it holds.                                      *)
LEMMA HoldsKept ==
  ASSUME TypeOK, NEW t \in Server, LogGrows(t), NEW o, Holds(t, o)
  PROVE  Holds(t, o)'
<1>1. log[t] \in Seq(Order)
  BY DEF TypeOK, ServerTypeOK
<1>2. CASE log'[t] = log[t]
  BY <1>2 DEF Holds
<1>3. ASSUME NEW x \in Order, log'[t] = Append(log[t], x) PROVE Holds(t, o)'
  <2>1. Len(log'[t]) = Len(log[t]) + 1 /\ \A j \in 1..Len(log[t]) : log'[t][j] = log[t][j]
    BY <1>1, <1>3, AppendProperties
  <2> QED
    BY <1>1, <2>1 DEF Holds
<1> QED
  BY <1>2, <1>3 DEF LogGrows

(* place_order puts the order into the log of its server, others stay.     *)
LEMMA PlaceOrderLog ==
  ASSUME TypeOK, NEW t \in Server, NEW o \in Order, place_order(t, o)
  PROVE  Holds(t, o)' /\ \A u \in Server : LogGrows(u)
<1>1. log \in [Server -> Seq(Order)] /\ log' = [log EXCEPT ![t] = Append(@, o)]
  BY DEF TypeOK, ServerTypeOK, place_order
<1>2. Len(log'[t]) = Len(log[t]) + 1 /\ log'[t][Len(log[t]) + 1] = o
  BY <1>1, AppendProperties
<1>3. Len(log[t]) + 1 \in 1..Len(log'[t])
  BY <1>1, <1>2
<1> QED
  BY <1>1, <1>2, <1>3 DEF Holds, LogGrows

(* No step shortens the log of a server that does not die.                 *)
LEMMA LogsGrow ==
  ASSUME TypeOK, FactoryInv, [Next]_vars
  PROVE  \/ \A t \in Server : LogGrows(t)
         \/ \E s \in Server : Die(s)
<1>1. ASSUME NEW c \in Customer, Client(c) PROVE \A t \in Server : LogGrows(t)
  BY <1>1 DEF Client, StartSession, SendOrder, CreateRegularLaptop, SendLaptop, ClientGone, srvVars, LogGrows
<1>2. ASSUME NEW s \in Server, ProductionAdminThread(s), ~BrokenPipe(s) PROVE \A t \in Server : LogGrows(t)
  <2>1. CASE AdminPlaceOrder(s)
    <3>1. cur[s] \in Order /\ place_order(s, cur[s])
      BY <2>1 DEF FactoryInv, ClientInv, QueueOK, AdminPlaceOrder
    <3> QED
      BY <3>1, PlaceOrderLog
  <2>2. CASE ~AdminPlaceOrder(s)
    BY <1>2, <2>2 DEF ProductionAdminThread, AdminDequeue, ReadCommitted, ClaimPrimary, ConnectPeer, IdentifyPeer,
         ReadIndex, BuildRequest, ReplicateTo, ReplicationAcked, ReplicationFailed, CommitOrder, srvVars, LogGrows
  <2> QED
    BY <2>1, <2>2
<1>3. ASSUME NEW k \in ConnId, EngineerThread(k) PROVE \A t \in Server : LogGrows(t)
  <2>1. CASE EngineerPlaceOrder(k)
    <3>1. conn[k].to \in Server /\ conn[k].msg.ord \in Order /\ place_order(conn[k].to, conn[k].msg.ord)
      BY <2>1 DEF EngineerPlaceOrder, FactoryInv, StubInv, ConnOK, RequestInv, PendingOK, Busy
    <3> QED
      BY <3>1, PlaceOrderLog
  <2>2. CASE ~EngineerPlaceOrder(k)
    BY <1>3, <2>2 DEF EngineerThread, ReceiveStatusInfo, StatusLost, ReceiveReplicationRequest, StoreCommittedIndex,
         StoreLastIndex, SendReplicationResult, PeerHangup, srvVars, LogGrows
  <2> QED
    BY <2>1, <2>2
<1>4. ASSUME (\E s \in Server : Restart(s)) \/ UNCHANGED vars PROVE \A t \in Server : LogGrows(t)
  BY <1>4 DEF Restart, vars, srvVars, LogGrows
<1> QED
  BY <1>1, <1>2, <1>3, <1>4 DEF Next, Crash, BrokenPipe

-----------------------------------------------------------------------------
(* Requests in flight.                                                     *)

(* The part of RequestInv about the admin thread of s.                     *)
RequestOf(s) ==
  /\ todo[s] = << >>
  /\ apc[s] \in {"build", "visit", "await"} => msg[s].fid = s /\ msg[s].ord = cur[s]
  /\ \A i \in 1..Len(stubs[s]) :
       stubs[s][i].init /\ ~(apc[s] = "await" /\ i = it[s]) => Quiet(conn[stubs[s][i].conn])
  /\ apc[s] = "await" => stubs[s][it[s]].valid /\ Awaited(conn[stubs[s][it[s]].conn], cur[s])

(* RequestInv is the requests of all admin threads and all connections.    *)
LEMMA RequestParts ==
  RequestInv <=> (\A s \in Server : RequestOf(s)) /\ (\A k \in ConnId : PendingOK(k))
BY DEF RequestInv, RequestOf

(* A step in which s does nothing, and what travels on the connections of  *)
(* its stubs stays what s waits for, or nothing.                           *)
LEMMA OthersRequests ==
  ASSUME TypeOK, StubInv, NEW s \in Server, RequestOf(s),
         stubs'[s] = stubs[s], apc'[s] = apc[s], it'[s] = it[s],
         msg'[s] = msg[s], cur'[s] = cur[s], todo'[s] = todo[s],
         \A i \in 1..Len(stubs[s]) : stubs[s][i].init =>
            LET k == stubs[s][i].conn
            IN /\ Quiet(conn[k]) => Quiet(conn'[k])
               /\ \A o : Awaited(conn[k], o) => Awaited(conn'[k], o)
  PROVE  RequestOf(s)'
<1>1. ASSUME apc[s] = "await"
      PROVE  it[s] \in 1..Len(stubs[s]) /\ stubs[s][it[s]].init
  BY <1>1 DEF TypeOK, AdminTypeOK, ServerTypeOK, PositionsOK, RequestOf, StubInv, StubOK
<1>2. apc'[s] = "await" => stubs'[s][it'[s]].valid /\ Awaited(conn'[stubs'[s][it'[s]].conn], cur'[s])
  BY <1>1 DEF RequestOf
<1>3. \A i \in 1..Len(stubs'[s]) :
        stubs'[s][i].init /\ ~(apc'[s] = "await" /\ i = it'[s]) => Quiet(conn'[stubs'[s][i].conn])
  BY DEF RequestOf
<1> QED
  BY <1>2, <1>3 DEF RequestOf

(* Steps of the admin thread of s that send nothing and receive nothing.   *)
LEMMA LocalRequests ==
  ASSUME TypeOK, StubInv, RequestInv, NEW s \in Server,
         UNCHANGED <<stubs, conn, todo>>,
         \A t \in Server \ {s} : apc'[t] = apc[t] /\ it'[t] = it[t] /\ msg'[t] = msg[t] /\ cur'[t] = cur[t],
         apc[s] # "await", apc'[s] # "await",
         apc'[s] \in {"build", "visit", "await"} => msg'[s].fid = s /\ msg'[s].ord = cur'[s],
         \A t \in Server : LogGrows(t)
  PROVE  RequestInv'
<1>1. ASSUME NEW t \in Server \ {s} PROVE RequestOf(t)'
  BY RequestParts, OthersRequests
<1>2. RequestOf(s)'
  BY DEF RequestInv, RequestOf
<1>3. ASSUME NEW k \in ConnId PROVE PendingOK(k)'
  <2>1. PendingOK(k) /\ conn'[k] = conn[k]
    BY DEF RequestInv
  <2>2. CASE conn[k].eng = "reply"
    <3>1. conn[k].to \in Server /\ Holds(conn[k].to, conn[k].msg.ord)
      BY <2>1, <2>2 DEF PendingOK, StubInv, ConnOK
    <3>2. Holds(conn[k].to, conn[k].msg.ord)'
      BY <3>1, HoldsKept
    <3> QED
      BY <2>1, <2>2, <3>2 DEF PendingOK
  <2>3. CASE conn[k].eng # "reply"
    BY <2>1, <2>3 DEF PendingOK
  <2> QED
    BY <2>2, <2>3
<1>4. \A t \in Server : RequestOf(t)'
  BY <1>1, <1>2
<1> QED
  BY <1>3, <1>4 DEF RequestInv, RequestOf

(* A connection that carries what it carried, or carries nothing.          *)
LEMMA PendingKept ==
  ASSUME TypeOK, StubInv, RequestInv, NEW k \in ConnId, \A t \in Server : LogGrows(t),
         \/ /\ conn'[k].from = conn[k].from /\ conn'[k].to = conn[k].to
            /\ conn'[k].eng = conn[k].eng /\ conn'[k].msg = conn[k].msg
            /\ conn'[k].sent <=> conn[k].sent
         \/ ~conn'[k].sent /\ conn'[k].eng \notin Busy
  PROVE  PendingOK(k)'
<1>1. PendingOK(k) /\ ConnOK(k)
  BY DEF RequestInv, StubInv
<1>2. CASE ~conn'[k].sent /\ conn'[k].eng \notin Busy
  BY <1>2 DEF PendingOK, Busy
<1>3. CASE /\ conn'[k].from = conn[k].from /\ conn'[k].to = conn[k].to
           /\ conn'[k].eng = conn[k].eng /\ conn'[k].msg = conn[k].msg
           /\ conn'[k].sent <=> conn[k].sent
  <2>1. CASE conn[k].eng = "reply"
    <3>1. PICK t \in Server : t = conn[k].to
      BY <1>1, <2>1 DEF ConnOK
    <3>2. PICK o : o = conn[k].msg.ord
      OBVIOUS
    <3>3. Holds(t, o)
      BY <1>1, <2>1, <3>1, <3>2 DEF PendingOK
    <3>4. Holds(t, o)'
      BY <3>3, HoldsKept
    <3>5. conn'[k].to = t /\ conn'[k].msg.ord = o
      BY <1>3, <3>1, <3>2
    <3>6. Holds(conn[k].to, conn[k].msg.ord)'
      BY <3>4, <3>5 DEF Holds
    <3> QED
      BY <1>1, <1>3, <2>1, <3>6 DEF PendingOK
  <2>2. CASE conn[k].eng # "reply"
    BY <1>1, <1>3, <2>2 DEF PendingOK
  <2> QED
    BY <2>1, <2>2
<1> QED
  BY <1>2, <1>3

(* Steps of the admin thread of s touch only connections of its own stubs. *)
LEMMA AdminRequests ==
  ASSUME TypeOK, StubInv, RequestInv, NEW s \in Server,
         \A t \in Server \ {s} : /\ stubs'[t] = stubs[t] /\ apc'[t] = apc[t] /\ it'[t] = it[t]
                                 /\ msg'[t] = msg[t] /\ cur'[t] = cur[t] /\ todo'[t] = todo[t],
         \A k \in ConnId : conn[k].eng = "free" \/ conn[k].from = s \/ conn'[k] = conn[k],
         RequestOf(s)', \A k \in ConnId : PendingOK(k)'
  PROVE  RequestInv'
<1>1. ASSUME NEW t \in Server \ {s} PROVE RequestOf(t)'
  <2>1. ASSUME NEW i \in 1..Len(stubs[t]), stubs[t][i].init
        PROVE  conn'[stubs[t][i].conn] = conn[stubs[t][i].conn]
    BY <2>1 DEF StubInv, StubOK
  <2> QED
    BY <2>1, RequestParts, OthersRequests
<1>2. \A t \in Server : RequestOf(t)'
  BY <1>1
<1> QED
  BY <1>2 DEF RequestInv, RequestOf

(* A connection that opening one adds carries nothing.                     *)
LEMMA DialQuiet ==
  ASSUME TypeOK, NEW s \in Server, NEW b \in Stub, NEW k \in Dialled(s, b), conn' = Dial(s, b, k)
  PROVE  \A j \in ConnId : conn'[j] = conn[j] \/ (conn[j].eng = "free" /\ ~conn'[j].sent /\ conn'[j].eng = "status")
<1>1. CASE b.init \/ k \notin ConnId
  BY <1>1 DEF Dial
<1>2. CASE ~b.init /\ k \in ConnId
  <2>1. k \in ConnId /\ conn[k].eng = "free" /\ conn \in [ConnId -> Conn]
    BY <1>2, FactoryAssumption DEF Dialled, FreshConn, Refused, NoSocket, TypeOK
  <2>2. /\ conn'[k] = [FreeConn EXCEPT !.from = s, !.to = b.peer, !.open = TRUE, !.eng = "status"]
        /\ \A j \in ConnId \ {k} : conn'[j] = conn[j]
    BY <1>2, <2>1 DEF Dial
  <2> QED
    BY <2>1, <2>2 DEF FreeConn
<1> QED
  BY <1>1, <1>2

(* A new stub's connection carries nothing yet.                            *)
LEMMA ConnectRequests ==
  ASSUME TypeOK, FactoryInv, NEW s \in Server, ConnectPeer(s), \A t \in Server : LogGrows(t)
  PROVE  RequestInv'
<1> DEFINE new == NewStub(PeerList[s][it[s]])
<1>1. /\ apc[s] = "connect" /\ it[s] \in 1..Len(PeerList[s])
      /\ stubs[s] \in Seq(Stub) /\ stubs \in [Server -> Seq(Stub)] /\ apc \in [Server -> AdminPC]
      /\ it \in [Server -> Nat \ {0}] /\ StubInv /\ RequestInv
  BY DEF ConnectPeer, TypeOK, PositionsOK, AdminTypeOK, ServerTypeOK, FactoryInv
<1>2. new \in Stub /\ new.peer # s /\ new.valid /\ ~new.init
  BY <1>1, FactoryAssumption, ConstantTypes DEF NewStub
<1>p. PICK k \in Dialled(s, new) :
        /\ stubs' = [stubs EXCEPT ![s] = Append(stubs[s], SocketInit(new, k))]
        /\ conn' = Dial(s, new, k)
        /\ apc' = [apc EXCEPT ![s] = IF SocketInit(new, k).valid THEN "identify" ELSE AfterPeer(s, it[s])]
        /\ it' = [it EXCEPT ![s] = IF SocketInit(new, k).valid THEN it[s] ELSE it[s] + 1]
  BY DEF ConnectPeer
<1>3. PICK r : /\ r = SocketInit(new, k)
               /\ stubs' = [stubs EXCEPT ![s] = Append(stubs[s], r)]
               /\ conn' = Dial(s, new, k)
               /\ apc' = [apc EXCEPT ![s] = IF r.valid THEN "identify" ELSE AfterPeer(s, it[s])]
               /\ it' = [it EXCEPT ![s] = IF r.valid THEN it[s] ELSE it[s] + 1]
  BY <1>p
<1>u. UNCHANGED <<up, crashes, msg, cur, todo>>
  BY DEF ConnectPeer
<1> HIDE DEF new
<1>4. /\ \A j \in ConnId : conn[j].eng # "free" => conn'[j] = conn[j]
      /\ r.init => Quiet(conn'[r.conn])
      /\ r \in Stub
  BY <1>1, <1>2, <1>3, <1>u, DialOK
<1>5. /\ Len(stubs'[s]) = Len(stubs[s]) + 1
      /\ stubs'[s][Len(stubs[s]) + 1] = r
      /\ \A j \in 1..Len(stubs[s]) : stubs'[s][j] = stubs[s][j]
      /\ \A t \in Server \ {s} : stubs'[t] = stubs[t]
  BY <1>1, <1>3, <1>4, AppendProperties
<1>6. /\ apc'[s] \in {"identify", "connect", "index"}
      /\ \A t \in Server \ {s} : apc'[t] = apc[t] /\ it'[t] = it[t]
  BY <1>1, <1>3 DEF AfterPeer
<1>7. ASSUME NEW k2 \in ConnId PROVE PendingOK(k2)'
  <2>1. conn'[k2] = conn[k2] \/ (~conn'[k2].sent /\ conn'[k2].eng = "status")
    BY <1>2, <1>3, DialQuiet
  <2> QED
    BY <1>1, <2>1, PendingKept DEF Busy
<1>8. ASSUME NEW i \in 1..Len(stubs'[s]), stubs'[s][i].init PROVE Quiet(conn'[stubs'[s][i].conn])
  <2>1. CASE i = Len(stubs[s]) + 1
    BY <1>4, <1>5, <1>8, <2>1
  <2>2. CASE i # Len(stubs[s]) + 1
    <3>1. i \in 1..Len(stubs[s]) /\ stubs'[s][i] = stubs[s][i]
      BY <1>1, <1>5, <2>2
    <3>2. StubOK(s, stubs[s][i]) /\ Quiet(conn[stubs[s][i].conn])
      BY <1>1, <1>8, <3>1 DEF RequestInv, StubInv
    <3> QED
      BY <1>4, <1>8, <3>1, <3>2 DEF StubOK
  <2> QED
    BY <2>1, <2>2
<1>9. RequestOf(s)'
  BY <1>1, <1>6, <1>8, <1>u DEF RequestOf, RequestInv
<1> QED
  BY <1>1, <1>4, <1>5, <1>6, <1>7, <1>9, <1>u, AdminRequests

(* A closed stub carries nothing; the other stubs of s go on.              *)
LEMMA CloseRequests ==
  ASSUME TypeOK, StubInv, RequestInv, NEW s \in Server, NEW i \in 1..Len(stubs[s]),
         stubs[s][i].init, NEW k, k = stubs[s][i].conn, conn[k].eng = "dead",
         apc[s] = "await" => i = it[s],
         conn' = [conn EXCEPT ![k] = FreeConn],
         stubs' = [stubs EXCEPT ![s][i] = Closed(stubs[s][i])],
         UNCHANGED <<msg, cur>>, todo'[s] = << >>,
         \A t \in Server \ {s} : apc'[t] = apc[t] /\ it'[t] = it[t] /\ todo'[t] = todo[t],
         apc'[s] # "await", apc'[s] \in {"build", "visit"} => apc[s] \in {"build", "visit", "await"},
         \A t \in Server : LogGrows(t)
  PROVE  RequestInv'
<1>0. /\ stubs[s] \in Seq(Stub) /\ stubs \in [Server -> Seq(Stub)] /\ conn \in [ConnId -> Conn]
      /\ stubs[s][i] \in Stub /\ StubOK(s, stubs[s][i]) /\ i \in Nat
  BY ElementOfSeq DEF TypeOK, ServerTypeOK, StubInv
<1>1. k \in ConnId /\ conn[k].from = s
  BY <1>0 DEF StubOK
<1>2. /\ conn'[k] = FreeConn /\ \A j \in ConnId \ {k} : conn'[j] = conn[j]
      /\ ~stubs'[s][i].init
      /\ Len(stubs'[s]) = Len(stubs[s])
      /\ \A j \in 1..Len(stubs[s]) : j # i => stubs'[s][j] = stubs[s][j]
      /\ \A t \in Server \ {s} : stubs'[t] = stubs[t]
  BY <1>0, <1>1 DEF Closed, Stub
<1>3. ASSUME NEW j \in ConnId PROVE PendingOK(j)'
  <2>1. conn'[j] = conn[j] \/ (~conn'[j].sent /\ conn'[j].eng \notin Busy)
    BY <1>2 DEF FreeConn, Busy
  <2> QED
    BY <2>1, PendingKept
<1>4. ASSUME NEW j \in 1..Len(stubs'[s]), stubs'[s][j].init PROVE Quiet(conn'[stubs'[s][j].conn])
  <2>1. j # i /\ j \in 1..Len(stubs[s]) /\ stubs'[s][j] = stubs[s][j]
    BY <1>2, <1>4
  <2>2. stubs[s][j].conn # k /\ stubs[s][j].conn \in ConnId
    BY <1>4, <2>1 DEF StubInv, StubOK
  <2>3. Quiet(conn[stubs[s][j].conn])
    BY <1>4, <2>1 DEF RequestInv
  <2> QED
    BY <1>2, <2>1, <2>2, <2>3
<1>5. RequestOf(s)'
  BY <1>4 DEF RequestOf, RequestInv
<1>6. \A t \in Server \ {s} : msg'[t] = msg[t] /\ cur'[t] = cur[t]
  OBVIOUS
<1> QED
  BY <1>1, <1>2, <1>3, <1>5, <1>6, AdminRequests

(* startReplication sends the request over a valid stub, which had nothing *)
(* in flight, and waits for the answer to this one.                        *)
LEMMA SendRequest ==
  ASSUME TypeOK, FactoryInv, NEW s \in Server, ReplicateTo(s), stubs[s][it[s]].valid,
         \A t \in Server : LogGrows(t)
  PROVE  RequestInv'
<1> DEFINE i == it[s]
           k == stubs[s][i].conn
<1>0. /\ apc[s] = "visit" /\ apc \in [Server -> AdminPC] /\ conn \in [ConnId -> Conn] /\ it \in [Server -> Nat \ {0}]
      /\ stubs \in [Server -> Seq(Stub)] /\ todo \in [Server -> Seq(Request)] /\ StubInv /\ RequestInv
      /\ i \in 1..Len(stubs[s])
  BY DEF ReplicateTo, TypeOK, AdminTypeOK, ServerTypeOK, PositionsOK, FactoryInv
<1>h. Head(<< msg[s] >>) = msg[s] /\ Tail(<< msg[s] >>) = << >>
  OBVIOUS
<1>1. /\ conn' = Send(conn, k, msg[s])
      /\ stubs' = [stubs EXCEPT ![s][i] = stubs[s][i]]
      /\ todo' = [todo EXCEPT ![s] = << >>]
      /\ apc' = [apc EXCEPT ![s] = "await"]
      /\ it' = [it EXCEPT ![s] = it[s]]
      /\ UNCHANGED <<msg, cur>>
  BY <1>h DEF ReplicateTo
<1>2. stubs' = stubs /\ it' = it /\ todo'[s] = << >> /\ apc'[s] = "await"
  BY <1>0, <1>1
<1>3. StubOK(s, stubs[s][i]) /\ stubs[s][i].init /\ stubs[s][i].valid
  BY <1>0 DEF StubInv, StubOK
<1>4. k \in ConnId /\ conn[k].from = s /\ conn[k].eng # "free" /\ Quiet(conn[k]) /\ conn[k] \in Conn
  BY <1>0, <1>3 DEF StubOK, RequestInv
<1>5. msg[s].fid = s /\ msg[s].ord = cur[s] /\ cur[s] \in Order
  BY <1>0 DEF RequestInv, FactoryInv, ClientInv, QueueOK
<1> HIDE DEF k
<1>6. conn'[k] = [conn[k] EXCEPT !.sent = TRUE, !.msg = msg[s]] /\ \A j \in ConnId \ {k} : conn'[j] = conn[j]
  BY <1>0, <1>1, <1>4 DEF Send
<1>7. /\ conn'[k].sent /\ conn'[k].msg = msg[s] /\ conn'[k].from = s /\ conn'[k].eng = conn[k].eng
      /\ conn'[k].ack <=> conn[k].ack
  BY <1>4, <1>6 DEF Conn
<1>8. ASSUME NEW j \in ConnId PROVE PendingOK(j)'
  <2>1. CASE j = k
    BY <1>4, <1>5, <1>7, <2>1 DEF PendingOK, Quiet, Busy
  <2>2. CASE j # k
    BY <1>0, <1>6, <2>2, PendingKept
  <2> QED
    BY <2>1, <2>2
<1>9. Awaited(conn'[k], cur'[s])
  BY <1>1, <1>4, <1>5, <1>7 DEF Quiet, Awaited, Busy
<1>10. ASSUME NEW j \in 1..Len(stubs[s]), stubs[s][j].init, j # i PROVE Quiet(conn'[stubs[s][j].conn])
  <2>1. stubs[s][j].conn # k /\ stubs[s][j].conn \in ConnId
    BY <1>0, <1>3, <1>10 DEF StubInv, StubOK, k
  <2> QED
    BY <1>0, <1>6, <1>10, <2>1 DEF RequestInv
<1>11. RequestOf(s)'
  <2>1. stubs'[s][it'[s]].conn = k /\ stubs'[s][it'[s]].valid /\ it'[s] = i
    BY <1>2 DEF k
  <2> QED
    BY <1>1, <1>2, <1>5, <1>9, <1>10, <2>1 DEF RequestOf
<1>12. \A t \in Server \ {s} : /\ stubs'[t] = stubs[t] /\ apc'[t] = apc[t] /\ it'[t] = it[t]
                               /\ msg'[t] = msg[t] /\ cur'[t] = cur[t] /\ todo'[t] = todo[t]
  BY <1>0, <1>1, <1>2
<1>13. \A j \in ConnId : conn[j].from = s \/ conn'[j] = conn[j]
  BY <1>4, <1>6
<1> QED
  BY <1>0, <1>8, <1>11, <1>12, <1>13, AdminRequests

(* startReplication reconnects an invalid stub and goes on: the connection *)
(* carries nothing.                                                        *)
LEMMA ReconnectRequests ==
  ASSUME TypeOK, FactoryInv, NEW s \in Server, ReplicateTo(s), ~stubs[s][it[s]].valid,
         \A t \in Server : LogGrows(t)
  PROVE  RequestInv'
<1> DEFINE i == it[s]
           b == stubs[s][i]
<1>1. /\ apc[s] = "visit" /\ i \in 1..Len(stubs[s]) /\ StubInv /\ RequestInv
      /\ stubs[s] \in Seq(Stub) /\ stubs \in [Server -> Seq(Stub)] /\ apc \in [Server -> AdminPC]
      /\ it \in [Server -> Nat \ {0}] /\ todo \in [Server -> Seq(Request)]
  BY DEF ReplicateTo, TypeOK, PositionsOK, AdminTypeOK, ServerTypeOK, FactoryInv
<1>2. b \in Stub /\ ~b.valid /\ StubOK(s, b) /\ b.peer # s /\ (crashes[b.peer] > 0 \/ s \in Flaky)
  BY <1>1, ElementOfSeq DEF StubInv, StubOK
<1>v. \A k : ~SocketInit(b, k).valid
  BY <1>2 DEF SocketInit, Stub
<1>p. PICK k \in Dialled(s, b) :
        /\ stubs' = [stubs EXCEPT ![s][i] = SocketInit(b, k)]
        /\ conn' = Dial(s, b, k)
        /\ apc' = [apc EXCEPT ![s] = AfterStub(s, it[s])]
        /\ it' = [it EXCEPT ![s] = it[s] + 1]
        /\ todo' = [todo EXCEPT ![s] = << >>]
  BY <1>2, <1>v DEF ReplicateTo
<1>3. PICK r : /\ r = SocketInit(b, k)
               /\ stubs' = [stubs EXCEPT ![s][i] = r]
               /\ conn' = Dial(s, b, k)
               /\ apc' = [apc EXCEPT ![s] = AfterStub(s, it[s])]
               /\ it' = [it EXCEPT ![s] = it[s] + 1]
               /\ todo' = [todo EXCEPT ![s] = << >>]
  BY <1>p
<1>u. UNCHANGED <<up, crashes, msg, cur>>
  BY DEF ReplicateTo
<1>q. b.init => Quiet(conn[b.conn])
  BY <1>1 DEF RequestInv
<1>i. i \in Nat
  BY <1>1
<1> HIDE DEF b, i
<1>4. /\ \A j \in ConnId : conn[j].eng # "free" => conn'[j] = conn[j]
      /\ r.init /\ ~b.init => Quiet(conn'[r.conn])
      /\ b.init => r = b
      /\ r \in Stub
  BY <1>1, <1>2, <1>3, <1>u, DialOK
<1>5. /\ Len(stubs'[s]) = Len(stubs[s])
      /\ stubs'[s][i] = r
      /\ \A j \in 1..Len(stubs[s]) : j # i => stubs'[s][j] = stubs[s][j]
      /\ \A t \in Server \ {s} : stubs'[t] = stubs[t]
  BY <1>1, <1>3, <1>4
<1>6. /\ apc'[s] \in {"visit", "place"} /\ todo'[s] = << >>
      /\ \A t \in Server \ {s} : apc'[t] = apc[t] /\ it'[t] = it[t] /\ todo'[t] = todo[t]
  BY <1>1, <1>3 DEF AfterStub
<1>7. ASSUME NEW j \in ConnId PROVE PendingOK(j)'
  <2>1. conn'[j] = conn[j] \/ (~conn'[j].sent /\ conn'[j].eng = "status")
    BY <1>2, <1>3, DialQuiet
  <2> QED
    BY <1>1, <2>1, PendingKept DEF Busy
<1>8. ASSUME NEW j \in 1..Len(stubs'[s]), stubs'[s][j].init PROVE Quiet(conn'[stubs'[s][j].conn])
  <2>1. CASE j = i /\ b.init
    BY <1>2, <1>4, <1>5, <1>q, <2>1 DEF StubOK
  <2>2. CASE j = i /\ ~b.init
    BY <1>4, <1>5, <1>8, <2>2
  <2>3. CASE j # i
    <3>1. j \in 1..Len(stubs[s]) /\ stubs'[s][j] = stubs[s][j]
      BY <1>5, <2>3
    <3>2. StubOK(s, stubs[s][j]) /\ Quiet(conn[stubs[s][j].conn])
      BY <1>1, <1>8, <3>1 DEF RequestInv, StubInv
    <3> QED
      BY <1>4, <1>8, <3>1, <3>2 DEF StubOK
  <2> QED
    BY <2>1, <2>2, <2>3
<1>9. msg[s].fid = s /\ msg[s].ord = cur[s]
  BY <1>1 DEF RequestInv
<1>10. RequestOf(s)'
  BY <1>6, <1>8, <1>9, <1>u DEF RequestOf
<1> QED
  BY <1>1, <1>4, <1>5, <1>6, <1>7, <1>10, <1>u, AdminRequests

(* The awaited answer arrives.                                             *)
LEMMA AckRequests ==
  ASSUME TypeOK, FactoryInv, NEW s \in Server, ReplicationAcked(s), \A t \in Server : LogGrows(t)
  PROVE  RequestInv'
<1> DEFINE i == it[s]
           k == stubs[s][i].conn
<1>0. /\ apc[s] = "await" /\ apc \in [Server -> AdminPC] /\ conn \in [ConnId -> Conn] /\ it \in [Server -> Nat \ {0}]
      /\ todo \in [Server -> Seq(Request)] /\ StubInv /\ RequestInv
      /\ i \in 1..Len(stubs[s]) /\ todo[s] = << >> /\ conn[k].ack
  <2>1. apc[s] = "await" /\ conn[k].ack
    BY DEF ReplicationAcked
  <2>2. StubInv /\ RequestInv /\ todo[s] = << >>
    BY DEF FactoryInv, RequestInv
  <2>3. i \in 1..Len(stubs[s])
    BY <2>1 DEF TypeOK, AdminTypeOK, ServerTypeOK, PositionsOK
  <2> QED
    BY <2>1, <2>2, <2>3 DEF TypeOK, AdminTypeOK
<1>1. /\ conn' = [conn EXCEPT ![k].ack = FALSE]
      /\ apc' = [apc EXCEPT ![s] = AfterStub(s, i)]
      /\ it' = [it EXCEPT ![s] = i + 1]
      /\ todo' = [todo EXCEPT ![s] = << >>]
      /\ UNCHANGED <<msg, cur, stubs>>
  BY <1>0 DEF ReplicationAcked, srvVars
<1>2. k \in ConnId /\ conn[k] \in Conn /\ conn[k].from = s /\ Awaited(conn[k], cur[s])
  <2>1. stubs[s][i].valid /\ Awaited(conn[k], cur[s])
    BY <1>0 DEF RequestInv
  <2>2. stubs[s][i].init /\ StubOK(s, stubs[s][i])
    BY <1>0, <2>1 DEF StubInv
  <2> QED
    BY <1>0, <2>1, <2>2 DEF StubOK
<1> HIDE DEF k
<1>3. conn'[k] = [conn[k] EXCEPT !.ack = FALSE] /\ \A j \in ConnId \ {k} : conn'[j] = conn[j]
  BY <1>0, <1>1, <1>2
<1>4. /\ ~conn'[k].ack /\ conn'[k].eng = conn[k].eng /\ conn'[k].msg = conn[k].msg
      /\ conn'[k].from = conn[k].from /\ conn'[k].to = conn[k].to
      /\ conn'[k].sent <=> conn[k].sent
  BY <1>2, <1>3 DEF Conn
<1>5. Quiet(conn'[k])
  BY <1>0, <1>2, <1>4 DEF Awaited, Quiet, k
<1>6. ASSUME NEW j \in 1..Len(stubs[s]), stubs[s][j].init PROVE Quiet(conn'[stubs[s][j].conn])
  <2>1. CASE stubs[s][j].conn = k
    BY <1>5, <2>1
  <2>2. CASE stubs[s][j].conn # k
    <3>1. j # i /\ stubs[s][j].conn \in ConnId
      BY <1>0, <1>6, <2>2 DEF StubInv, StubOK, k
    <3> QED
      BY <1>0, <1>3, <1>6, <2>2, <3>1 DEF RequestInv
  <2> QED
    BY <2>1, <2>2
<1>7. ASSUME NEW j \in ConnId PROVE PendingOK(j)'
  <2>1. /\ conn'[j].from = conn[j].from /\ conn'[j].to = conn[j].to
        /\ conn'[j].eng = conn[j].eng /\ conn'[j].msg = conn[j].msg
        /\ conn'[j].sent <=> conn[j].sent
    BY <1>3, <1>4
  <2> QED
    BY <1>0, <2>1, PendingKept
<1>8. apc'[s] # "await" /\ msg[s].fid = s /\ msg[s].ord = cur[s] /\ todo'[s] = << >>
  BY <1>0, <1>1 DEF AfterStub, RequestInv
<1>9. RequestOf(s)'
  BY <1>1, <1>6, <1>8 DEF RequestOf
<1>10. \A j \in ConnId : conn[j].from = s \/ conn'[j] = conn[j]
  BY <1>2, <1>3
<1>11. \A t \in Server \ {s} : /\ stubs'[t] = stubs[t] /\ apc'[t] = apc[t] /\ it'[t] = it[t]
                               /\ msg'[t] = msg[t] /\ cur'[t] = cur[t] /\ todo'[t] = todo[t]
  BY <1>0, <1>1
<1> QED
  BY <1>0, <1>7, <1>9, <1>10, <1>11, AdminRequests

(* An engineer thread works on the request of its connection: what is      *)
(* awaited stays on its way, and the log has the order before the reply.   *)
LEMMA EngineerRequest ==
  ASSUME TypeOK, FactoryInv, NEW k \in ConnId, EngineerThread(k), \A t \in Server : LogGrows(t)
  PROVE  /\ \A j \in ConnId \ {k} : conn'[j] = conn[j]
         /\ conn[k].open /\ Quiet(conn[k]) => Quiet(conn'[k])
         /\ conn[k].open => \A o : Awaited(conn[k], o) => Awaited(conn'[k], o)
         /\ PendingOK(k)'
<1>0. conn \in [ConnId -> Conn] /\ conn[k] \in Conn /\ StubInv /\ RequestInv /\ PendingOK(k) /\ ConnOK(k)
  BY DEF TypeOK, FactoryInv, RequestInv, StubInv
<1>1. CASE ReceiveStatusInfo(k)
  <2>1. conn' = [conn EXCEPT ![k] = [conn[k] EXCEPT !.ident = FALSE, !.eng = "recv"]]
    BY <1>0, <1>1 DEF ReceiveStatusInfo
  <2>2. /\ conn[k].eng = "status" /\ conn'[k].eng = "recv" /\ conn'[k].msg = conn[k].msg
        /\ conn'[k].from = conn[k].from /\ \A j \in ConnId \ {k} : conn'[j] = conn[j]
        /\ (conn'[k].sent <=> conn[k].sent) /\ (conn'[k].ack <=> conn[k].ack)
    BY <1>0, <1>1, <2>1 DEF ReceiveStatusInfo, Conn
  <2> QED
    BY <1>0, <2>2 DEF Quiet, Awaited, PendingOK, Busy
<1>2. CASE StatusLost(k)
  <2>1. /\ ~conn[k].open /\ \A j \in ConnId \ {k} : conn'[j] = conn[j]
        /\ conn'[k] = FreeConn \/ conn'[k] = [conn[k] EXCEPT !.eng = "spin"]
    BY <1>0, <1>2 DEF StatusLost
  <2>2. /\ conn'[k].sent => conn[k].sent /\ conn'[k].msg = conn[k].msg /\ conn'[k].from = conn[k].from
        /\ conn'[k].sent => conn'[k].eng = "spin"
        /\ conn'[k].eng \in {"free", "spin"}
    BY <1>0, <2>1 DEF FreeConn, Conn
  <2> QED
    BY <1>0, <2>1, <2>2 DEF PendingOK, Busy
<1>3. CASE ReceiveReplicationRequest(k)
  <2>1. conn' = [conn EXCEPT ![k] = [conn[k] EXCEPT !.sent = FALSE, !.eng = "committed"]]
    BY <1>0, <1>3 DEF ReceiveReplicationRequest
  <2>2. /\ conn[k].sent /\ ~conn'[k].sent /\ conn'[k].eng = "committed" /\ conn'[k].msg = conn[k].msg
        /\ conn'[k].from = conn[k].from /\ \A j \in ConnId \ {k} : conn'[j] = conn[j]
        /\ (conn'[k].ack <=> conn[k].ack)
    BY <1>0, <1>3, <2>1 DEF ReceiveReplicationRequest, Conn
  <2> QED
    BY <1>0, <2>2 DEF Quiet, Awaited, PendingOK, Busy
<1>4. CASE StoreCommittedIndex(k) \/ StoreLastIndex(k) \/ EngineerPlaceOrder(k)
  <2>0. PICK e \in {"last", "place", "reply"} :
          /\ conn[k].eng \in {"committed", "last", "place"}
          /\ conn' = [conn EXCEPT ![k] = [conn[k] EXCEPT !.eng = e]]
          /\ e = "reply" => EngineerPlaceOrder(k)
    BY <1>0, <1>4 DEF StoreCommittedIndex, StoreLastIndex, EngineerPlaceOrder
  <2>2. /\ conn'[k].eng = e /\ conn'[k].msg = conn[k].msg /\ conn'[k].to = conn[k].to
        /\ conn'[k].from = conn[k].from /\ \A j \in ConnId \ {k} : conn'[j] = conn[j]
        /\ (conn'[k].sent <=> conn[k].sent) /\ (conn'[k].ack <=> conn[k].ack)
    BY <1>0, <2>0 DEF Conn
  <2>3. ASSUME e = "reply" PROVE Holds(conn[k].to, conn[k].msg.ord)'
    <3>1. PICK t \in Server : t = conn[k].to
      BY <1>0, <2>0 DEF ConnOK
    <3>2. PICK o \in Order : o = conn[k].msg.ord
      BY <1>0, <2>0 DEF PendingOK, Busy
    <3>3. place_order(t, o)
      BY <2>0, <2>3, <3>1, <3>2 DEF EngineerPlaceOrder
    <3>4. Holds(t, o)'
      BY <3>3, PlaceOrderLog
    <3> QED
      BY <2>2, <3>1, <3>2, <3>4 DEF Holds
  <2>4. PendingOK(k)'
    BY <1>0, <2>0, <2>2, <2>3 DEF PendingOK, Busy
  <2> QED
    BY <1>0, <2>0, <2>2, <2>4 DEF Quiet, Awaited, Busy
<1>5. CASE SendReplicationResult(k)
  <2>1. /\ conn[k].eng = "reply"
        /\ conn' = [conn EXCEPT ![k] = [conn[k] EXCEPT !.eng = "recv", !.ack = conn[k].open, !.msg = NoMsg]]
    BY <1>0, <1>5 DEF SendReplicationResult
  <2>2. /\ conn'[k].eng = "recv" /\ \A j \in ConnId \ {k} : conn'[j] = conn[j]
        /\ (conn'[k].sent <=> conn[k].sent) /\ ~conn[k].sent
    BY <1>0, <2>1 DEF Conn, PendingOK, Busy
  <2> QED
    BY <1>0, <2>1, <2>2 DEF Quiet, Awaited, PendingOK, Busy
<1>6. CASE PeerHangup(k)
  <2>1. ~conn[k].open /\ conn'[k] = FreeConn /\ \A j \in ConnId \ {k} : conn'[j] = conn[j]
    BY <1>0, <1>6 DEF PeerHangup
  <2> QED
    BY <2>1 DEF FreeConn, PendingOK, Busy
<1> QED
  BY <1>1, <1>2, <1>3, <1>4, <1>5, <1>6 DEF EngineerThread

(* An engineer thread's step keeps the requests in order.                  *)
LEMMA EngineerRequests ==
  ASSUME TypeOK, FactoryInv, NEW k \in ConnId, EngineerThread(k), \A t \in Server : LogGrows(t)
  PROVE  RequestInv'
<1>0. StubInv /\ RequestInv
  BY DEF FactoryInv
<1>1. UNCHANGED <<stubs, apc, it, msg, cur, todo>>
  BY DEF EngineerThread, ReceiveStatusInfo, StatusLost, ReceiveReplicationRequest, StoreCommittedIndex,
         StoreLastIndex, EngineerPlaceOrder, SendReplicationResult, PeerHangup, srvVars, adminVars
<1>2. ASSUME NEW t \in Server PROVE RequestOf(t)'
  <2>1. ASSUME NEW i \in 1..Len(stubs[t]), stubs[t][i].init, NEW j, j = stubs[t][i].conn
        PROVE  /\ Quiet(conn[j]) => Quiet(conn'[j])
               /\ \A o : Awaited(conn[j], o) => Awaited(conn'[j], o)
    <3>1. conn[j].open /\ j \in ConnId
      BY <1>0, <2>1 DEF StubInv, StubOK
    <3> QED
      BY <3>1, EngineerRequest
  <2> QED
    BY <1>0, <1>1, <2>1, RequestParts, OthersRequests
<1>3. ASSUME NEW j \in ConnId PROVE PendingOK(j)'
  <2>1. CASE j = k
    BY <2>1, EngineerRequest
  <2>2. CASE j # k
    <3>1. conn'[j] = conn[j]
      BY <2>2, EngineerRequest
    <3> QED
      BY <1>0, <3>1, PendingKept
  <2> QED
    BY <2>1, <2>2
<1>4. \A t \in Server : RequestOf(t)'
  BY <1>2
<1> QED
  BY <1>3, <1>4 DEF RequestInv, RequestOf

(* The death of s leaves others' requests: an answer already sent to them  *)
(* can be read, a request to s is answered no more.                        *)
LEMMA DieRequests ==
  ASSUME TypeOK, FactoryInv, NEW s \in Server, Die(s)
  PROVE  RequestInv'
<1>0. /\ conn \in [ConnId -> Conn] /\ apc \in [Server -> AdminPC] /\ stubs \in [Server -> Seq(Stub)]
      /\ it \in [Server -> Nat \ {0}] /\ msg \in [Server -> Request] /\ todo \in [Server -> Seq(Request)]
      /\ cur \in [Server -> Order \cup {NoOrder}] /\ log \in [Server -> Seq(Order)]
      /\ StubInv /\ RequestInv
  BY DEF TypeOK, ServerTypeOK, AdminTypeOK, FactoryInv
<1>1. /\ apc' = [apc EXCEPT ![s] = "idle"] /\ stubs' = [stubs EXCEPT ![s] = << >>]
      /\ todo' = [todo EXCEPT ![s] = << >>] /\ it' = [it EXCEPT ![s] = 1]
      /\ msg' = [msg EXCEPT ![s] = NoMsg] /\ cur' = [cur EXCEPT ![s] = NoOrder]
      /\ log' = [log EXCEPT ![s] = << >>]
      /\ \A k \in ConnId : conn'[k] = AfterCrash(conn[k], s)
  BY DEF Die
<1>2. ASSUME NEW k \in ConnId
      PROVE  /\ conn'[k].sent \/ conn'[k].eng \in Busy =>
                  /\ conn'[k].eng = conn[k].eng /\ conn'[k].msg = conn[k].msg /\ conn'[k].from = conn[k].from
                  /\ (conn'[k].sent <=> conn[k].sent) /\ conn'[k].to = conn[k].to /\ conn[k].to # s
             /\ conn[k].open /\ conn[k].from # s /\ conn[k].eng # "free" =>
                  /\ (conn'[k].ack <=> conn[k].ack)
                  /\ \/ ~conn'[k].sent /\ conn'[k].eng = "dead"
                     \/ /\ conn'[k].eng = conn[k].eng /\ conn'[k].msg = conn[k].msg
                        /\ (conn'[k].sent <=> conn[k].sent)
  <2> DEFINE c == conn[k]
             open == c.open /\ c.from # s
  <2>0. c \in Conn
    BY <1>0
  <2>2. CASE c.eng = "free" \/ ((c.to = s \/ c.eng = "dead") /\ ~open)
    <3>1. conn'[k] = FreeConn
      BY <1>1, <2>2 DEF AfterCrash
    <3>2. ~conn'[k].sent /\ conn'[k].eng = "free"
      BY <3>1 DEF FreeConn
    <3> QED
      BY <2>2, <3>2 DEF Busy
  <2>3. CASE c.eng # "free" /\ (c.to = s \/ c.eng = "dead") /\ open
    <3>1. conn'[k] = [FreeConn EXCEPT !.from = c.from, !.to = c.to, !.open = TRUE, !.ack = c.ack, !.eng = "dead"]
      BY <1>1, <2>3 DEF AfterCrash
    <3>2. ~conn'[k].sent /\ conn'[k].eng = "dead"
      BY <3>1 DEF FreeConn
    <3>3. conn'[k].ack = c.ack
      BY <3>1 DEF FreeConn
    <3> QED
      BY <3>2, <3>3 DEF Busy
  <2>4. CASE c.eng # "free" /\ ~(c.to = s \/ c.eng = "dead")
    <3>1. conn'[k] = [c EXCEPT !.open = open, !.ack = c.ack /\ open]
      BY <1>1, <2>4 DEF AfterCrash
    <3>2. conn'[k].from = c.from /\ conn'[k].to = c.to /\ conn'[k].eng = c.eng /\ conn'[k].msg = c.msg
      BY <2>0, <3>1 DEF Conn
    <3>3. conn'[k].sent = c.sent
      BY <2>0, <3>1 DEF Conn
    <3>4. conn'[k].ack = (c.ack /\ open)
      BY <2>0, <3>1 DEF Conn
    <3> QED
      BY <2>4, <3>2, <3>3, <3>4
  <2> QED
    BY <2>2, <2>3, <2>4
<1>3. ASSUME NEW k \in ConnId PROVE PendingOK(k)'
  <2>1. CASE conn'[k].sent \/ conn'[k].eng \in Busy
    <3>1. /\ conn'[k].eng = conn[k].eng /\ conn'[k].msg = conn[k].msg /\ conn'[k].from = conn[k].from
          /\ (conn'[k].sent <=> conn[k].sent) /\ conn'[k].to = conn[k].to /\ conn[k].to # s
      BY <1>2, <2>1
    <3>2. PendingOK(k) /\ ConnOK(k)
      BY <1>0 DEF RequestInv, StubInv
    <3>3. log'[conn[k].to] = log[conn[k].to]
      BY <1>0, <1>1, <3>1
    <3> QED
      BY <3>1, <3>2, <3>3 DEF PendingOK, Holds
  <2>2. CASE ~(conn'[k].sent \/ conn'[k].eng \in Busy)
    BY <2>2 DEF PendingOK, Busy
  <2> QED
    BY <2>1, <2>2
<1>4. ASSUME NEW t \in Server \ {s} PROVE RequestOf(t)'
  <2>1. ASSUME NEW i \in 1..Len(stubs[t]), stubs[t][i].init, NEW j, j = stubs[t][i].conn
        PROVE  /\ Quiet(conn[j]) => Quiet(conn'[j])
               /\ \A o : Awaited(conn[j], o) => Awaited(conn'[j], o)
    <3>0. StubOK(t, stubs[t][i])
      BY <1>0 DEF StubInv
    <3>1. conn[j].open /\ j \in ConnId /\ conn[j].from # s /\ conn[j].eng # "free"
      BY <2>1, <3>0 DEF StubOK
    <3>2. /\ (conn'[j].ack <=> conn[j].ack)
          /\ \/ ~conn'[j].sent /\ conn'[j].eng = "dead"
             \/ /\ conn'[j].eng = conn[j].eng /\ conn'[j].msg = conn[j].msg
                /\ (conn'[j].sent <=> conn[j].sent)
      BY <1>2, <3>1
    <3> QED
      BY <3>1, <3>2 DEF Quiet, Awaited, Busy
  <2>2. /\ stubs'[t] = stubs[t] /\ apc'[t] = apc[t] /\ it'[t] = it[t]
        /\ msg'[t] = msg[t] /\ cur'[t] = cur[t] /\ todo'[t] = todo[t]
    BY <1>0, <1>1
  <2> QED
    BY <1>0, <2>1, <2>2, RequestParts, OthersRequests
<1>5. apc'[s] = "idle" /\ Len(stubs'[s]) = 0 /\ todo'[s] = << >>
  BY <1>0, <1>1
<1>6. RequestOf(s)'
  BY <1>5 DEF RequestOf
<1>7. \A t \in Server : RequestOf(t)'
  BY <1>4, <1>6
<1> QED
  BY <1>3, <1>7 DEF RequestInv, RequestOf

(* Every step keeps the requests in order.                                 *)
LEMMA NextRequest ==
  ASSUME TypeOK, FactoryInv, [Next]_vars
  PROVE  RequestInv'
<1>0. /\ StubInv /\ RequestInv /\ apc \in [Server -> AdminPC] /\ conn \in [ConnId -> Conn]
      /\ it \in [Server -> Nat \ {0}] /\ msg \in [Server -> Request] /\ cur \in [Server -> Order \cup {NoOrder}]
  BY DEF FactoryInv, TypeOK, AdminTypeOK
<1>d. ASSUME NEW s \in Server, Die(s) PROVE RequestInv'
  BY <1>d, DieRequests
<1>g. SUFFICES ASSUME \A t \in Server : LogGrows(t) PROVE RequestInv'
  BY <1>d, LogsGrow
<1>1. ASSUME UNCHANGED <<stubs, conn, todo, apc, it, msg, cur>> PROVE RequestInv'
  <2>1. ASSUME NEW k \in ConnId PROVE PendingOK(k)'
    BY <1>0, <1>1, <1>g, PendingKept
  <2> QED
    BY <1>0, <1>1, <2>1 DEF RequestInv
<1>2. ASSUME NEW c \in Customer, Client(c) PROVE RequestInv'
  <2>1. UNCHANGED <<stubs, conn, todo, apc, it, msg, cur>>
    BY <1>2 DEF Client, StartSession, SendOrder, CreateRegularLaptop, SendLaptop, ClientGone, srvVars, adminVars
  <2> QED
    BY <1>1, <2>1
<1>3. ASSUME NEW s \in Server, ProductionAdminThread(s) PROVE RequestInv'
  <2>1. CASE \/ AdminDequeue(s) \/ ReadCommitted(s) \/ ClaimPrimary(s) \/ ReadIndex(s) \/ BuildRequest(s)
             \/ AdminPlaceOrder(s) \/ CommitOrder(s)
    <3>1. /\ UNCHANGED <<stubs, conn, todo>> /\ apc[s] # "await" /\ apc'[s] # "await"
          /\ \A t \in Server \ {s} : apc'[t] = apc[t] /\ it'[t] = it[t] /\ msg'[t] = msg[t] /\ cur'[t] = cur[t]
      BY <1>0, <2>1 DEF AdminDequeue, ReadCommitted, ClaimPrimary, ReadIndex, BuildRequest, AdminPlaceOrder,
                        CommitOrder, srvVars, AfterPeer, AfterStub
    <3>2. CASE ReadIndex(s)
      <4>1. msg'[s] = [fid |-> s, committed |-> committed_index[s], last |-> -1, ord |-> cur[s]] /\ cur' = cur
        BY <1>0, <3>2 DEF ReadIndex
      <4> QED
        BY <1>0, <1>g, <3>1, <4>1, LocalRequests
    <3>3. CASE BuildRequest(s)
      <4>1. msg'[s] = [msg[s] EXCEPT !.last = last_index[s]] /\ cur' = cur /\ apc[s] = "build"
        BY <1>0, <3>3 DEF BuildRequest
      <4>2. msg'[s].fid = s /\ msg'[s].ord = cur'[s]
        BY <1>0, <4>1 DEF RequestInv, Request
      <4> QED
        BY <1>0, <1>g, <3>1, <4>2, LocalRequests
    <3>4. CASE ~ReadIndex(s) /\ ~BuildRequest(s)
      <4>1. apc'[s] \notin {"build", "visit", "await"}
        BY <1>0, <2>1, <3>4 DEF AdminDequeue, ReadCommitted, ClaimPrimary, AdminPlaceOrder, CommitOrder, AfterPeer
      <4> QED
        BY <1>0, <1>g, <3>1, <4>1, LocalRequests
    <3> QED
      BY <3>2, <3>3, <3>4
  <2>2. CASE ConnectPeer(s)
    BY <1>g, <2>2, ConnectRequests
  <2>3. CASE IdentifyPeer(s)
    <3> DEFINE n == Len(stubs[s])
               k == stubs[s][n].conn
    <3>1. /\ apc[s] = "identify" /\ n \in 1..Len(stubs[s]) /\ stubs[s][n].valid
          /\ UNCHANGED <<msg, cur, todo>> /\ todo[s] = << >>
      <4>1. apc[s] = "identify" /\ UNCHANGED <<msg, cur, todo>>
        BY <2>3 DEF IdentifyPeer
      <4>2. stubs[s] \in Seq(Stub) /\ Len(stubs[s]) > 0 /\ stubs[s][n].valid
        BY <1>0, <4>1 DEF StubInv, TypeOK, ServerTypeOK
      <4>3. n \in 1..Len(stubs[s])
        BY <4>2
      <4> QED
        BY <1>0, <4>1, <4>2, <4>3 DEF StubInv, StubOK, RequestInv
    <3>2. /\ apc'[s] \notin {"build", "visit", "await"}
          /\ \A t \in Server \ {s} : apc'[t] = apc[t] /\ it'[t] = it[t]
      BY <1>0, <2>3 DEF IdentifyPeer, AfterPeer
    <3>5. stubs[s][n].init => k \in ConnId /\ conn[k].from = s
      <4>1. StubOK(s, stubs[s][n])
        BY <1>0, <3>1 DEF StubInv
      <4> QED
        BY <4>1 DEF StubOK
    <3>6. stubs[s][n].conn = k
      OBVIOUS
    <3>3. CASE stubs[s][n].init /\ conn' = [conn EXCEPT ![k].ident = TRUE] /\ stubs' = stubs
      <4> HIDE DEF n, k
      <4>1. \A j \in ConnId \ {k} : conn'[j] = conn[j]
        BY <1>0, <3>3
      <4>2. conn'[k] = [conn[k] EXCEPT !.ident = TRUE] /\ conn[k] \in Conn
        BY <1>0, <3>3, <3>5
      <4>3. /\ conn'[k].from = conn[k].from /\ conn'[k].to = conn[k].to
            /\ conn'[k].eng = conn[k].eng /\ conn'[k].msg = conn[k].msg
            /\ (conn'[k].sent <=> conn[k].sent) /\ (conn'[k].ack <=> conn[k].ack)
        BY <4>2 DEF Conn
      <4>4. ASSUME NEW j \in ConnId PROVE PendingOK(j)'
        BY <1>0, <1>g, <4>1, <4>3, PendingKept
      <4>5. ASSUME NEW j \in 1..Len(stubs[s]), stubs[s][j].init PROVE Quiet(conn'[stubs[s][j].conn])
        <5>1. Quiet(conn[stubs[s][j].conn]) /\ stubs[s][j].conn \in ConnId
          BY <1>0, <3>1, <4>5 DEF RequestInv, StubInv, StubOK
        <5> QED
          BY <4>1, <4>3, <5>1 DEF Quiet
      <4>6. RequestOf(s)'
        BY <3>1, <3>2, <3>3, <4>5 DEF RequestOf
      <4>7. \A j \in ConnId : conn[j].from = s \/ conn'[j] = conn[j]
        BY <3>3, <3>5, <4>1
      <4> QED
        BY <1>0, <3>1, <3>2, <3>3, <4>4, <4>6, <4>7, AdminRequests
    <3>4. CASE /\ stubs[s][n].init /\ conn[k].eng = "dead"
               /\ conn' = [conn EXCEPT ![k] = FreeConn]
               /\ stubs' = [stubs EXCEPT ![s][n] = Closed(stubs[s][n])]
      <4>1. todo'[s] = << >> /\ apc[s] # "await" /\ \A t \in Server : todo'[t] = todo[t]
        BY <3>1
      <4> HIDE DEF n, k
      <4> QED
        BY <1>0, <1>g, <3>1, <3>2, <3>4, <3>6, <4>1, CloseRequests
    <3>7. CASE /\ conn' = conn
               /\ stubs' = [stubs EXCEPT ![s][n] = Closed(stubs[s][n])]
      <4> HIDE DEF n, k
      <4>1. ASSUME NEW j \in ConnId PROVE PendingOK(j)'
        BY <1>0, <1>g, <3>7, PendingKept
      <4>2. stubs[s] \in Seq(Stub) /\ stubs \in [Server -> Seq(Stub)]
        BY DEF TypeOK, ServerTypeOK
      <4>3. stubs[s][n] \in Stub
        BY <3>1, <4>2, ElementOfSeq
      <4>4. /\ Len(stubs'[s]) = Len(stubs[s]) /\ ~stubs'[s][n].init
            /\ \A j \in 1..Len(stubs[s]) : j # n => stubs'[s][j] = stubs[s][j]
            /\ \A t \in Server \ {s} : stubs'[t] = stubs[t]
        BY <3>1, <3>7, <4>2, <4>3 DEF Closed, Stub
      <4>5. ASSUME NEW j \in 1..Len(stubs'[s]), stubs'[s][j].init PROVE Quiet(conn'[stubs'[s][j].conn])
        <5>1. j # n /\ j \in 1..Len(stubs[s]) /\ stubs'[s][j] = stubs[s][j]
          BY <4>4, <4>5
        <5> QED
          BY <1>0, <3>1, <3>7, <4>5, <5>1 DEF RequestInv
      <4>6. RequestOf(s)'
        BY <3>1, <3>2, <4>5 DEF RequestOf
      <4> QED
        BY <1>0, <3>1, <3>2, <3>7, <4>1, <4>4, <4>6, AdminRequests
    <3> QED
      BY <2>3, <3>3, <3>4, <3>7 DEF IdentifyPeer
  <2>4. CASE ReplicateTo(s)
    BY <1>g, <2>4, SendRequest, ReconnectRequests
  <2>5. CASE ReplicationAcked(s)
    BY <1>g, <2>5, AckRequests
  <2>6. CASE ReplicationFailed(s)
    <3> DEFINE i == it[s]
               k == stubs[s][i].conn
    <3>1. apc[s] = "await" /\ i \in 1..Len(stubs[s]) /\ stubs[s][i].valid /\ stubs[s][i].init
      BY <1>0, <2>6 DEF ReplicationFailed, RequestInv, StubInv, StubOK, TypeOK, AdminTypeOK, ServerTypeOK, PositionsOK
    <3>2. /\ conn[k].eng = "dead"
          /\ conn' = [conn EXCEPT ![k] = FreeConn]
          /\ stubs' = [stubs EXCEPT ![s][i] = Closed(stubs[s][i])]
          /\ UNCHANGED <<msg, cur>>
      BY <2>6 DEF ReplicationFailed
    <3>3. /\ todo'[s] = << >> /\ apc'[s] # "await"
          /\ \A t \in Server \ {s} : apc'[t] = apc[t] /\ it'[t] = it[t] /\ todo'[t] = todo[t]
      <4>1. /\ apc' = [apc EXCEPT ![s] = AfterStub(s, it[s])]
            /\ it' = [it EXCEPT ![s] = it[s] + 1]
            /\ todo' = [todo EXCEPT ![s] = << >>]
        BY <2>6 DEF ReplicationFailed
      <4> QED
        BY <1>0, <4>1 DEF AfterStub, TypeOK, AdminTypeOK
    <3>4. k = stubs[s][i].conn /\ i = it[s]
      OBVIOUS
    <3> HIDE DEF i, k
    <3> QED
      BY <1>0, <1>g, <3>1, <3>2, <3>3, <3>4, CloseRequests
  <2>7. CASE BrokenPipe(s)
    BY <1>d, <2>7 DEF BrokenPipe
  <2> QED
    BY <1>3, <2>1, <2>2, <2>3, <2>4, <2>5, <2>6, <2>7 DEF ProductionAdminThread
<1>4. ASSUME NEW k \in ConnId, EngineerThread(k) PROVE RequestInv'
  BY <1>g, <1>4, EngineerRequests
<1>5. ASSUME NEW s \in Server, Crash(s) PROVE RequestInv'
  BY <1>5, <1>d DEF Crash
<1>6. ASSUME (\E s \in Server : Restart(s)) \/ UNCHANGED vars PROVE RequestInv'
  <2>1. UNCHANGED <<stubs, conn, todo, apc, it, msg, cur>>
    BY <1>6 DEF Restart, vars, srvVars, adminVars
  <2> QED
    BY <1>1, <2>1
<1> QED
  BY <1>2, <1>3, <1>4, <1>5, <1>6 DEF Next

-----------------------------------------------------------------------------
(* Stubs for every peer.                                                   *)

(* The stubs of s keep their peers and their places, and one that has      *)
(* failed never is valid again.                                            *)
StubsGrow(s) ==
  /\ Len(stubs'[s]) \in Nat
  /\ Len(stubs'[s]) >= Len(stubs[s])
  /\ \A i \in 1..Len(stubs[s]) : stubs'[s][i].peer = stubs[s][i].peer
  /\ \A i \in 1..Len(stubs[s]) : ~stubs[s][i].valid => ~stubs'[s][i].valid

(* Replacing stub i of s by one of the same peer.                          *)
LEMMA StubReplaced ==
  ASSUME TypeOK, NEW s \in Server, NEW i \in 1..Len(stubs[s]), NEW b,
         stubs' = [stubs EXCEPT ![s][i] = b], b.peer = stubs[s][i].peer, ~stubs[s][i].valid => ~b.valid
  PROVE  \A t \in Server : StubsGrow(t)
<1>1. stubs \in [Server -> Seq(Stub)]
  BY DEF TypeOK, ServerTypeOK
<1>2. Len(stubs'[s]) = Len(stubs[s])
  BY <1>1
<1>3. \A j \in 1..Len(stubs[s]) : stubs'[s][j].peer = stubs[s][j].peer /\ (~stubs[s][j].valid => ~stubs'[s][j].valid)
  BY <1>1
<1>4. \A t \in Server \ {s} : stubs'[t] = stubs[t]
  BY <1>1
<1>5. \A t \in Server : Len(stubs[t]) \in Nat
  BY <1>1
<1> QED
  BY <1>2, <1>3, <1>4, <1>5 DEF StubsGrow

(* startConnection's new stub is for the peer the loop is at.              *)
LEMMA ConnectGrows ==
  ASSUME TypeOK, NEW s \in Server, ConnectPeer(s)
  PROVE  /\ \A t \in Server : StubsGrow(t)
         /\ \E i \in 1..Len(stubs'[s]) : stubs'[s][i].peer = PeerList[s][it[s]]
<1> DEFINE new == NewStub(PeerList[s][it[s]])
<1>1. /\ it[s] \in 1..Len(PeerList[s])
      /\ stubs[s] \in Seq(Stub) /\ stubs \in [Server -> Seq(Stub)]
  BY DEF ConnectPeer, TypeOK, PositionsOK, AdminTypeOK, ServerTypeOK
<1>2. new \in Stub /\ new.peer = PeerList[s][it[s]]
  BY <1>1, FactoryAssumption, ConstantTypes DEF NewStub
<1>p. PICK k \in Dialled(s, new) : stubs' = [stubs EXCEPT ![s] = Append(stubs[s], SocketInit(new, k))]
  BY DEF ConnectPeer
<1>3. PICK r \in Stub : r.peer = new.peer /\ stubs' = [stubs EXCEPT ![s] = Append(stubs[s], r)]
  <2> HIDE DEF new
  <2> QED
    BY <1>2, <1>p, DialTypes
<1> HIDE DEF new
<1>5. /\ Len(stubs'[s]) = Len(stubs[s]) + 1
      /\ stubs'[s][Len(stubs[s]) + 1] = r
      /\ \A j \in 1..Len(stubs[s]) : stubs'[s][j] = stubs[s][j]
      /\ \A t \in Server \ {s} : stubs'[t] = stubs[t]
  BY <1>1, <1>3, AppendProperties
<1>6. \A t \in Server : Len(stubs[t]) \in Nat
  BY <1>1
<1>7. ASSUME NEW t \in Server PROVE StubsGrow(t)
  BY <1>5, <1>6 DEF StubsGrow
<1>8. Len(stubs[s]) + 1 \in 1..Len(stubs'[s]) /\ stubs'[s][Len(stubs[s]) + 1].peer = PeerList[s][it[s]]
  BY <1>2, <1>3, <1>5, <1>6
<1> QED
  BY <1>7, <1>8

(* No step takes a stub from a server that does not die.                   *)
LEMMA StubsKept ==
  ASSUME TypeOK, FactoryInv, [Next]_vars
  PROVE  \/ \A t \in Server : StubsGrow(t)
         \/ \E s \in Server : Die(s)
<1>0. stubs \in [Server -> Seq(Stub)] /\ StubInv /\ RequestInv
  BY DEF TypeOK, ServerTypeOK, FactoryInv
<1>1. ASSUME stubs' = stubs PROVE \A t \in Server : StubsGrow(t)
  BY <1>0, <1>1 DEF StubsGrow
<1>2. ASSUME NEW s \in Server, ProductionAdminThread(s), ~BrokenPipe(s) PROVE \A t \in Server : StubsGrow(t)
  <2>1. CASE ConnectPeer(s)
    BY <2>1, ConnectGrows
  <2>2. CASE IdentifyPeer(s)
    <3> DEFINE n == Len(stubs[s])
    <3>1. CASE stubs' = stubs
      BY <1>1, <3>1
    <3>2. CASE stubs' = [stubs EXCEPT ![s][n] = Closed(stubs[s][n])]
      <4>1. apc[s] = "identify"
        BY <2>2 DEF IdentifyPeer
      <4>2. stubs[s] \in Seq(Stub) /\ Len(stubs[s]) > 0
        BY <1>0, <4>1 DEF StubInv
      <4>3. n \in 1..Len(stubs[s]) /\ stubs[s][n] \in Stub
        BY <4>2, ElementOfSeq
      <4>4. Closed(stubs[s][n]).peer = stubs[s][n].peer /\ ~Closed(stubs[s][n]).valid
        BY <4>3 DEF Closed, Stub
      <4> QED
        BY <3>2, <4>3, <4>4, StubReplaced
    <3> QED
      BY <2>2, <3>1, <3>2 DEF IdentifyPeer
  <2>3. CASE ReplicateTo(s)
    <3> DEFINE i == it[s]
               b == stubs[s][i]
    <3>1. stubs[s] \in Seq(Stub) /\ i \in 1..Len(stubs[s])
      BY <2>3 DEF ReplicateTo, TypeOK, AdminTypeOK, ServerTypeOK, PositionsOK
    <3>2. b \in Stub
      BY <3>1, ElementOfSeq
    <3>3. CASE b.valid
      <4>1. stubs' = [stubs EXCEPT ![s][i] = b]
        BY <2>3, <3>3 DEF ReplicateTo
      <4> QED
        BY <3>1, <4>1, StubReplaced
    <3>4. CASE ~b.valid
      <4>1. PICK k \in Dialled(s, b) : stubs' = [stubs EXCEPT ![s][i] = SocketInit(b, k)]
        BY <2>3, <3>4 DEF ReplicateTo
      <4>2. PICK r : r = SocketInit(b, k)
        OBVIOUS
      <4>3. r.peer = b.peer
        BY <3>2, <4>2, DialTypes
      <4>5. ~r.valid
        BY <3>2, <3>4, <4>2 DEF SocketInit, Stub
      <4>4. stubs' = [stubs EXCEPT ![s][i] = r]
        BY <4>1, <4>2
      <4> QED
        BY <3>1, <4>3, <4>4, <4>5, StubReplaced
    <3> QED
      BY <3>3, <3>4
  <2>4. CASE ReplicationFailed(s)
    <3> DEFINE i == it[s]
    <3>1. stubs[s] \in Seq(Stub) /\ i \in 1..Len(stubs[s])
      BY <2>4 DEF ReplicationFailed, TypeOK, AdminTypeOK, ServerTypeOK, PositionsOK
    <3>2. stubs[s][i] \in Stub
      BY <3>1, ElementOfSeq
    <3>3. stubs' = [stubs EXCEPT ![s][i] = Closed(stubs[s][i])]
      BY <2>4 DEF ReplicationFailed
    <3>4. Closed(stubs[s][i]).peer = stubs[s][i].peer /\ ~Closed(stubs[s][i]).valid
      BY <3>2 DEF Closed, Stub
    <3> QED
      BY <3>1, <3>3, <3>4, StubReplaced
  <2>5. CASE \/ AdminDequeue(s) \/ ReadCommitted(s) \/ ClaimPrimary(s) \/ ReadIndex(s) \/ BuildRequest(s)
             \/ ReplicationAcked(s) \/ AdminPlaceOrder(s) \/ CommitOrder(s)
    <3>1. stubs' = stubs
      BY <2>5 DEF AdminDequeue, ReadCommitted, ClaimPrimary, ReadIndex, BuildRequest, ReplicationAcked,
                  AdminPlaceOrder, CommitOrder, srvVars
    <3> QED
      BY <1>1, <3>1
  <2> QED
    BY <1>2, <2>1, <2>2, <2>3, <2>4, <2>5 DEF ProductionAdminThread
<1>3. ASSUME \/ \E c \in Customer : Client(c)
             \/ \E k \in ConnId : EngineerThread(k)
             \/ \E s \in Server : Restart(s)
             \/ UNCHANGED vars
      PROVE  stubs' = stubs
  BY <1>3 DEF Client, StartSession, SendOrder, CreateRegularLaptop, SendLaptop, ClientGone, EngineerThread, ReceiveStatusInfo, StatusLost,
       ReceiveReplicationRequest, StoreCommittedIndex, StoreLastIndex, EngineerPlaceOrder, SendReplicationResult,
       PeerHangup, Restart, vars, srvVars
<1> QED
  BY <1>1, <1>2, <1>3 DEF Next, Crash, BrokenPipe

Taken == {"index", "build", "visit", "await", "place", "commit"}

(* The part of CoverInv about s.                                           *)
CoverOf(s) ==
  /\ primary_id[s] = s /\ apc[s] \notin {"connect", "identify"} => Connected(s)
  /\ apc[s] \in Taken => Connected(s)
  /\ \A j \in 1..Len(PeerList[s]) :
       \/ apc[s] \in {"connect", "identify"} /\ j < it[s]
       \/ apc[s] = "identify" /\ j = it[s]
       => \E i \in 1..Len(stubs[s]) : stubs[s][i].peer = PeerList[s][j]

(* CoverInv is CoverOf every server.                                       *)
LEMMA CoverParts == CoverInv <=> \A s \in Server : CoverOf(s)
BY DEF CoverInv, CoverOf, PrimaryConnected, Taken

(* A peer with a stub keeps it.                                            *)
LEMMA PeerKept ==
  ASSUME TypeOK, NEW s \in Server, StubsGrow(s), NEW p,
         \E i \in 1..Len(stubs[s]) : stubs[s][i].peer = p
  PROVE  \E i \in 1..Len(stubs'[s]) : stubs'[s][i].peer = p
<1>1. PICK i \in 1..Len(stubs[s]) : stubs[s][i].peer = p
  OBVIOUS
<1>2. Len(stubs[s]) \in Nat
  BY DEF TypeOK, ServerTypeOK
<1>0. /\ Len(stubs'[s]) \in Nat /\ Len(stubs'[s]) >= Len(stubs[s])
      /\ \A j \in 1..Len(stubs[s]) : stubs'[s][j].peer = stubs[s][j].peer
  BY DEF StubsGrow
<1>3. Len(stubs'[s]) \in Nat /\ Len(stubs'[s]) >= Len(stubs[s]) /\ stubs'[s][i].peer = p
  BY <1>0, <1>1
<1>4. i \in 1..Len(stubs'[s])
  BY <1>1, <1>2, <1>3
<1> QED
  BY <1>3, <1>4

(* Steps that do not move the loop of startConnection of s.                *)
LEMMA CoverKept ==
  ASSUME TypeOK, NEW s \in Server, CoverOf(s), StubsGrow(s),
         primary_id'[s] = s => primary_id[s] = s,
         \/ apc'[s] = apc[s] /\ it'[s] = it[s]
         \/ /\ apc[s] \notin {"connect", "identify"}
            /\ apc'[s] \notin {"connect", "identify"}
            /\ apc'[s] \in Taken => apc[s] \in Taken \/ primary_id[s] = s
  PROVE  CoverOf(s)'
<1>1. Connected(s) => Connected(s)'
  <2>1. ASSUME Connected(s), NEW p \in Peers(s) PROVE \E i \in 1..Len(stubs'[s]) : stubs'[s][i].peer = p
    BY <2>1, PeerKept DEF Connected
  <2> QED
    BY <2>1 DEF Connected, Peers
<1>2. CASE apc'[s] = apc[s] /\ it'[s] = it[s]
  <2>1. ASSUME NEW j \in 1..Len(PeerList[s]),
               \/ apc'[s] \in {"connect", "identify"} /\ j < it'[s]
               \/ apc'[s] = "identify" /\ j = it'[s]
        PROVE  \E i \in 1..Len(stubs'[s]) : stubs'[s][i].peer = PeerList[s][j]
    <3>1. \E i \in 1..Len(stubs[s]) : stubs[s][i].peer = PeerList[s][j]
      BY <1>2, <2>1 DEF CoverOf
    <3> QED
      BY <3>1, PeerKept
  <2> QED
    BY <1>1, <1>2, <2>1 DEF CoverOf
<1>3. CASE /\ apc[s] \notin {"connect", "identify"}
           /\ apc'[s] \notin {"connect", "identify"}
           /\ apc'[s] \in Taken => apc[s] \in Taken \/ primary_id[s] = s
  BY <1>1, <1>3 DEF CoverOf
<1> QED
  BY <1>2, <1>3

(* The loop of startConnection is done with its peer.                      *)
LEMMA PeerDone ==
  ASSUME TypeOK, NEW s \in Server, it[s] \in 1..Len(PeerList[s]),
         apc'[s] = AfterPeer(s, it[s]), it'[s] = it[s] + 1,
         \A j \in 1..Len(PeerList[s]) : j <= it[s] =>
            \E i \in 1..Len(stubs'[s]) : stubs'[s][i].peer = PeerList[s][j]
  PROVE  CoverOf(s)'
<1>1. CASE it[s] < Len(PeerList[s])
  <2>1. apc'[s] = "connect"
    BY <1>1 DEF AfterPeer
  <2>2. \A j \in 1..Len(PeerList[s]) : j < it'[s] => j <= it[s]
    OBVIOUS
  <2> QED
    BY <2>1, <2>2 DEF CoverOf, Taken
<1>2. CASE ~(it[s] < Len(PeerList[s]))
  <2>1. apc'[s] = "index"
    BY <1>2 DEF AfterPeer
  <2>2. \A j \in 1..Len(PeerList[s]) : j <= it[s]
    BY <1>2
  <2>3. Connected(s)'
    BY <2>2 DEF Connected, Peers
  <2> QED
    BY <2>1, <2>3 DEF CoverOf
<1> QED
  BY <1>1, <1>2

(* Every step keeps a stub for every peer of a primary.                    *)
LEMMA NextCover ==
  ASSUME TypeOK, FactoryInv, [Next]_vars
  PROVE  CoverInv'
<1>0. /\ \A s \in Server : CoverOf(s)
      /\ apc \in [Server -> AdminPC] /\ it \in [Server -> Nat \ {0}]
      /\ primary_id \in [Server -> Server \cup {NoOne}] /\ stubs \in [Server -> Seq(Stub)]
      /\ StubInv /\ RequestInv /\ NoOne \notin Server
  BY CoverParts, FactoryAssumption DEF FactoryInv, TypeOK, AdminTypeOK, ServerTypeOK
<1>d. ASSUME NEW s \in Server, Die(s) PROVE CoverInv'
  <2>1. /\ apc' = [apc EXCEPT ![s] = "idle"] /\ stubs' = [stubs EXCEPT ![s] = << >>]
        /\ primary_id' = [primary_id EXCEPT ![s] = NoOne] /\ it' = [it EXCEPT ![s] = 1]
    BY <1>d DEF Die
  <2>2. apc'[s] = "idle" /\ primary_id'[s] = NoOne
    BY <1>0, <2>1
  <2>3. CoverOf(s)'
    BY <1>0, <2>2 DEF CoverOf, Taken
  <2>4. ASSUME NEW t \in Server \ {s} PROVE CoverOf(t)'
    <3>1. stubs'[t] = stubs[t] /\ Len(stubs[t]) \in Nat
      BY <1>0, <2>1
    <3>2. StubsGrow(t)
      BY <3>1 DEF StubsGrow
    <3>3. apc'[t] = apc[t] /\ it'[t] = it[t] /\ primary_id'[t] = primary_id[t]
      BY <1>0, <2>1
    <3> QED
      BY <1>0, <3>2, <3>3, CoverKept
  <2>5. \A t \in Server : CoverOf(t)'
    BY <2>3, <2>4
  <2> QED
    BY <2>5, CoverParts DEF CoverInv, CoverOf, PrimaryConnected, Taken
<1>g. SUFFICES ASSUME \A t \in Server : StubsGrow(t), NEW t \in Server PROVE CoverOf(t)'
  BY <1>d, StubsKept DEF CoverInv, CoverOf, PrimaryConnected, Taken
<1>1. ASSUME primary_id'[t] = t => primary_id[t] = t, apc'[t] = apc[t], it'[t] = it[t] PROVE CoverOf(t)'
  BY <1>0, <1>1, <1>g, CoverKept
<1>2. ASSUME \/ \E c \in Customer : Client(c)
             \/ \E s \in Server : Restart(s)
             \/ UNCHANGED vars
      PROVE  UNCHANGED <<primary_id, apc, it>>
  BY <1>2 DEF Client, StartSession, SendOrder, CreateRegularLaptop, SendLaptop, ClientGone, Restart, vars, srvVars, adminVars
<1>3. ASSUME NEW k \in ConnId, EngineerThread(k) PROVE CoverOf(t)'
  <2>1. UNCHANGED <<apc, it>>
    BY <1>3 DEF EngineerThread, ReceiveStatusInfo, StatusLost, ReceiveReplicationRequest, StoreCommittedIndex,
         StoreLastIndex, EngineerPlaceOrder, SendReplicationResult, PeerHangup, srvVars, adminVars
  <2>2. \/ primary_id' = primary_id
        \/ primary_id' = [primary_id EXCEPT ![conn[k].to] = NoOne]
        \/ /\ conn[k].sent /\ conn[k].eng = "recv"
           /\ primary_id' = [primary_id EXCEPT ![conn[k].to] = conn[k].msg.fid]
    BY <1>3 DEF EngineerThread, ReceiveStatusInfo, StatusLost, ReceiveReplicationRequest, StoreCommittedIndex,
         StoreLastIndex, EngineerPlaceOrder, SendReplicationResult, PeerHangup, srvVars
  <2>3. conn[k].sent /\ conn[k].eng = "recv" => conn[k].msg.fid = conn[k].from /\ conn[k].from # conn[k].to
    BY <1>0 DEF RequestInv, PendingOK, StubInv, ConnOK
  <2>4. primary_id'[t] = t => primary_id[t] = t
    BY <1>0, <2>2, <2>3
  <2> QED
    BY <1>1, <2>1, <2>4
<1>4. ASSUME NEW s \in Server, ProductionAdminThread(s), ~Die(s) PROVE CoverOf(t)'
  <2>1. /\ t # s => apc'[t] = apc[t] /\ it'[t] = it[t]
        /\ primary_id' = primary_id \/ primary_id' = [primary_id EXCEPT ![s] = s]
    BY <1>0, <1>4 DEF ProductionAdminThread, AdminDequeue, ReadCommitted, ClaimPrimary, ConnectPeer, IdentifyPeer,
         ReadIndex, BuildRequest, ReplicateTo, ReplicationAcked, ReplicationFailed, AdminPlaceOrder, CommitOrder,
         BrokenPipe, srvVars
  <2>2. CASE t # s
    BY <1>0, <1>1, <2>1, <2>2
  <2>3. CASE t = s /\ ClaimPrimary(s)
    <3>1. apc'[s] = AfterPeer(s, 0) /\ it'[s] = 1
      BY <1>0, <2>3 DEF ClaimPrimary
    <3>2. CASE 0 < Len(PeerList[s])
      <4>1. apc'[s] = "connect"
        BY <3>1, <3>2 DEF AfterPeer
      <4> QED
        BY <2>3, <3>1, <4>1 DEF CoverOf, Taken
    <3>3. CASE ~(0 < Len(PeerList[s]))
      <4>1. apc'[s] = "index" /\ PeerList[s] \in Seq(Server)
        BY <3>1, <3>3, FactoryAssumption DEF AfterPeer
      <4>2. Peers(s) = {}
        BY <3>3, <4>1 DEF Peers
      <4>3. Connected(s)'
        BY <4>2 DEF Connected, Peers
      <4> QED
        BY <2>3, <4>1, <4>3 DEF CoverOf
    <3> QED
      BY <3>2, <3>3
  <2>4. CASE t = s /\ ConnectPeer(s)
    <3>1. apc[s] = "connect" /\ it[s] \in 1..Len(PeerList[s]) /\ primary_id' = primary_id
      BY <1>0, <2>4 DEF ConnectPeer, TypeOK, PositionsOK
    <3>2. ASSUME NEW j \in 1..Len(PeerList[s]), j <= it[s]
          PROVE  \E i \in 1..Len(stubs'[s]) : stubs'[s][i].peer = PeerList[s][j]
      <4>1. CASE j = it[s]
        BY <2>4, <4>1, ConnectGrows
      <4>2. CASE j # it[s]
        <5>1. j < it[s]
          BY <3>1, <3>2, <4>2
        <5>2. \E i \in 1..Len(stubs[s]) : stubs[s][i].peer = PeerList[s][j]
          BY <1>0, <3>1, <5>1 DEF CoverOf
        <5> QED
          BY <1>g, <5>2, PeerKept
      <4> QED
        BY <4>1, <4>2
    <3>3. \/ apc'[s] = "identify" /\ it'[s] = it[s]
          \/ apc'[s] = AfterPeer(s, it[s]) /\ it'[s] = it[s] + 1
      BY <1>0, <2>4 DEF ConnectPeer
    <3>4. CASE apc'[s] = "identify" /\ it'[s] = it[s]
      <4>1. \A j \in 1..Len(PeerList[s]) : j < it[s] \/ j = it[s] => j <= it[s]
        BY <3>1
      <4> QED
        BY <2>4, <3>2, <3>4, <4>1 DEF CoverOf, Taken
    <3>5. CASE apc'[s] = AfterPeer(s, it[s]) /\ it'[s] = it[s] + 1
      BY <2>4, <3>1, <3>2, <3>5, PeerDone
    <3> QED
      BY <3>3, <3>4, <3>5
  <2>5. CASE t = s /\ IdentifyPeer(s)
    <3>1. /\ apc[s] = "identify" /\ it[s] \in 1..Len(PeerList[s])
          /\ apc'[s] = AfterPeer(s, it[s]) /\ it'[s] = it[s] + 1
      BY <1>0, <2>5 DEF IdentifyPeer, TypeOK, PositionsOK
    <3>2. ASSUME NEW j \in 1..Len(PeerList[s]), j <= it[s]
          PROVE  \E i \in 1..Len(stubs'[s]) : stubs'[s][i].peer = PeerList[s][j]
      <4>1. j < it[s] \/ j = it[s]
        BY <3>1, <3>2
      <4>2. \E i \in 1..Len(stubs[s]) : stubs[s][i].peer = PeerList[s][j]
        BY <1>0, <3>1, <4>1 DEF CoverOf
      <4> QED
        BY <1>g, <4>2, PeerKept
    <3> QED
      BY <2>5, <3>1, <3>2, PeerDone
  <2>6. CASE t = s /\ (\/ AdminDequeue(s) \/ ReadCommitted(s) \/ ReadIndex(s) \/ BuildRequest(s) \/ ReplicateTo(s)
                       \/ ReplicationAcked(s) \/ ReplicationFailed(s) \/ AdminPlaceOrder(s) \/ CommitOrder(s))
    <3>1. /\ primary_id' = primary_id
          /\ apc[s] \notin {"connect", "identify"}
          /\ apc'[s] \notin {"connect", "identify"}
          /\ apc'[s] \in Taken => apc[s] \in Taken \/ primary_id[s] = s
      BY <1>0, <2>6 DEF AdminDequeue, ReadCommitted, ReadIndex, BuildRequest, ReplicateTo, ReplicationAcked,
         ReplicationFailed, AdminPlaceOrder, CommitOrder, srvVars, AfterStub, Taken
    <3> QED
      BY <1>0, <1>g, <2>6, <3>1, CoverKept
  <2> QED
    BY <1>4, <2>2, <2>3, <2>4, <2>5, <2>6 DEF ProductionAdminThread, BrokenPipe
<1>5. ASSUME NEW s \in Server, Die(s) PROVE CoverOf(t)'
  BY <1>5, <1>d, <1>g DEF CoverInv, CoverOf, PrimaryConnected, Taken
<1> QED
  BY <1>1, <1>2, <1>3, <1>4, <1>5 DEF Next, Crash, BrokenPipe

-----------------------------------------------------------------------------
(* Durability.                                                             *)

(* Only a crash counts as one.                                             *)
LEMMA CrashesChange ==
  ASSUME [Next]_vars, ~ \E s \in Server : Die(s)
  PROVE  crashes' = crashes
<1>1. ASSUME NEW c \in Customer, Client(c) PROVE crashes' = crashes
  BY <1>1 DEF Client, StartSession, SendOrder, CreateRegularLaptop, SendLaptop, ClientGone
<1>2. ASSUME NEW s \in Server, ProductionAdminThread(s) PROVE crashes' = crashes
  BY <1>2 DEF ProductionAdminThread, AdminDequeue, ReadCommitted, ClaimPrimary, ConnectPeer, IdentifyPeer, ReadIndex,
     BuildRequest, ReplicateTo, ReplicationAcked, ReplicationFailed, AdminPlaceOrder, CommitOrder, BrokenPipe
<1>3. ASSUME NEW k \in ConnId, EngineerThread(k) PROVE crashes' = crashes
  BY <1>3 DEF EngineerThread, ReceiveStatusInfo, StatusLost, ReceiveReplicationRequest, StoreCommittedIndex,
     StoreLastIndex, EngineerPlaceOrder, SendReplicationResult, PeerHangup
<1>4. ASSUME \E s \in Server : Crash(s) \/ Restart(s) PROVE crashes' = crashes
  BY <1>4 DEF Crash, Restart
<1>5. ASSUME UNCHANGED vars PROVE crashes' = crashes
  BY <1>5 DEF vars
<1> QED
  BY <1>1, <1>2, <1>3, <1>4, <1>5 DEF Next

(* An order stays durable on p: in a log that only grows, or lost with it. *)
LEMMA DurableKept ==
  ASSUME TypeOK, FactoryInv, [Next]_vars, NEW p \in Server, NEW o, Durable(p, o)
  PROVE  Durable(p, o)'
<1>0. crashes \in [Server -> Nat] /\ log \in [Server -> Seq(Order)]
  BY DEF TypeOK, ServerTypeOK
<1>1. ASSUME NEW s \in Server, Die(s) PROVE Durable(p, o)'
  <2>1. crashes' = [crashes EXCEPT ![s] = crashes[s] + 1] /\ log' = [log EXCEPT ![s] = << >>]
    BY <1>1 DEF Die
  <2>2. CASE p = s
    BY <1>0, <2>1, <2>2 DEF Durable
  <2>3. CASE p # s
    BY <1>0, <2>1, <2>3 DEF Durable, Holds
  <2> QED
    BY <2>2, <2>3
<1>2. ASSUME ~ \E s \in Server : Die(s) PROVE Durable(p, o)'
  <2>1. \A t \in Server : LogGrows(t)
    BY <1>2, LogsGrow
  <2>2. crashes' = crashes
    BY <1>2, CrashesChange
  <2> QED
    BY <2>1, <2>2, HoldsKept DEF Durable
<1> QED
  BY <1>1, <1>2

(* A server that has crashed has crashed ever after.                       *)
LEMMA CrashesGrow ==
  ASSUME TypeOK, [Next]_vars, NEW p \in Server, crashes[p] > 0
  PROVE  crashes'[p] > 0
<1>0. crashes \in [Server -> Nat]
  BY DEF TypeOK
<1>1. crashes' = crashes \/ \E s \in Server : Die(s)
  BY CrashesChange
<1>2. ASSUME NEW s \in Server, Die(s) PROVE crashes' = [crashes EXCEPT ![s] = crashes[s] + 1]
  BY <1>2 DEF Die
<1> QED
  BY <1>0, <1>1, <1>2

(* The stubs of a server that goes on never reach more peers than before.  *)
LEMMA ReachedShrinks ==
  ASSUME TypeOK, NEW s \in Server, StubsGrow(s), NEW p \in Reached(s)'
  PROVE  p \in Reached(s) /\ p \in Server
<1>1. p \in Peers(s) /\ p \in Server
  BY FactoryAssumption, ElementOfSeq DEF Reached, Peers
<1>2. ASSUME p \in Missed(s) PROVE FALSE
  <2>1. PICK i \in 1..Len(stubs[s]) : ~stubs[s][i].valid /\ stubs[s][i].peer = p
    BY <1>2 DEF Missed
  <2>2. Len(stubs'[s]) \in Nat /\ Len(stubs'[s]) >= Len(stubs[s]) /\ Len(stubs[s]) \in Nat
    BY DEF StubsGrow, TypeOK, ServerTypeOK
  <2>3. \A j \in 1..Len(stubs[s]) : stubs'[s][j].peer = stubs[s][j].peer
    BY DEF StubsGrow
  <2>4. \A j \in 1..Len(stubs[s]) : ~stubs[s][j].valid => ~stubs'[s][j].valid
    BY DEF StubsGrow
  <2>5. i \in 1..Len(stubs'[s]) /\ ~stubs'[s][i].valid /\ stubs'[s][i].peer = p
    BY <2>1, <2>2, <2>3, <2>4
  <2>6. p \in Missed(s)'
    BY <2>5 DEF Missed
  <2> QED
    BY <2>6 DEF Reached
<1> QED
  BY <1>1, <1>2 DEF Reached

(* The same for all servers that matter to an order taken by s.            *)
LEMMA EverywhereKept ==
  ASSUME TypeOK, FactoryInv, [Next]_vars, NEW s \in Server, StubsGrow(s), NEW o, Everywhere(s, o)
  PROVE  Everywhere(s, o)'
<1>1. ASSUME NEW p \in Reached(s)' PROVE Durable(p, o)'
  BY <1>1, ReachedShrinks, DurableKept DEF Everywhere
<1>2. Durable(s, o)'
  BY DurableKept DEF Everywhere
<1> QED
  BY <1>1, <1>2 DEF Everywhere

(* A stub of the loop is for a server.                                     *)
LEMMA StubPeer ==
  ASSUME TypeOK, NEW s \in Server, NEW i \in 1..Len(stubs[s])
  PROVE  stubs[s][i].peer \in Server /\ stubs[s][i] \in Stub
<1>1. stubs[s] \in Seq(Stub)
  BY DEF TypeOK, ServerTypeOK
<1>2. stubs[s][i] \in Stub
  BY <1>1, ElementOfSeq
<1> QED
  BY <1>2 DEF Stub

(* A step in which the admin thread of s does nothing.                     *)
LEMMA LoopKept ==
  ASSUME TypeOK, FactoryInv, [Next]_vars, NEW s \in Server,
         apc'[s] = apc[s], it'[s] = it[s], cur'[s] = cur[s], stubs'[s] = stubs[s],
         apc[s] = "await" =>
            LET b == stubs[s][it[s]]
            IN conn'[b.conn].ack => conn[b.conn].ack \/ Durable(b.peer, cur[s])
  PROVE  LoopDurable(s)'
<1>0. LoopDurable(s) /\ StubsGrow(s)
  BY DEF FactoryInv, DurableInv, StubsGrow, TypeOK, ServerTypeOK
<1>1. ASSUME apc[s] \in {"visit", "await"}, NEW i \in 1..Len(stubs[s]), i < it[s], stubs[s][i].valid
      PROVE  Durable(stubs[s][i].peer, cur[s])'
  <2>1. PICK p, o : p \in Server /\ p = stubs[s][i].peer /\ o = cur[s]
    BY StubPeer
  <2>2. Durable(p, o)
    BY <1>0, <1>1, <2>1 DEF LoopDurable
  <2>3. Durable(p, o)'
    BY <2>1, <2>2, DurableKept
  <2> QED
    BY <2>1, <2>3 DEF Durable, Holds
<1>2. ASSUME apc[s] = "await", conn'[stubs[s][it[s]].conn].ack
      PROVE  Durable(stubs[s][it[s]].peer, cur[s])'
  <2>0. it[s] \in 1..Len(stubs[s])
    BY <1>2 DEF TypeOK, AdminTypeOK, ServerTypeOK, PositionsOK
  <2>1. PICK p, o : p \in Server /\ p = stubs[s][it[s]].peer /\ o = cur[s]
    BY <2>0, StubPeer
  <2>2. Durable(p, o)
    BY <1>0, <1>2, <2>1 DEF LoopDurable
  <2>3. Durable(p, o)'
    BY <2>1, <2>2, DurableKept
  <2> QED
    BY <2>1, <2>3 DEF Durable, Holds
<1>3. ASSUME apc[s] = "place", NEW p \in Reached(s)' PROVE Durable(p, cur[s])'
  <2>1. p \in Server /\ Durable(p, cur[s])
    BY <1>0, <1>3, ReachedShrinks DEF LoopDurable
  <2>2. PICK o : o = cur[s]
    OBVIOUS
  <2>3. Durable(p, o)'
    BY <2>1, <2>2, DurableKept
  <2> QED
    BY <2>2, <2>3 DEF Durable, Holds
<1>4. ASSUME apc[s] = "commit" PROVE Everywhere(s, cur[s])'
  <2>1. PICK o : o = cur[s]
    OBVIOUS
  <2>2. Everywhere(s, o)
    BY <1>0, <1>4, <2>1 DEF LoopDurable
  <2>3. Everywhere(s, o)'
    BY <1>0, <2>2, EverywhereKept
  <2> QED
    BY <2>1, <2>3 DEF Everywhere, Durable, Holds
<1> QED
  BY <1>1, <1>2, <1>3, <1>4 DEF LoopDurable, Everywhere, Durable, Holds

(* The loop of startReplication passes a stub, which has failed if its     *)
(* peer lacks the order.                                                   *)
LEMMA StubPassed ==
  ASSUME TypeOK, FactoryInv, [Next]_vars, NEW s \in Server, apc[s] \in {"visit", "await"}, StubsGrow(s),
         stubs'[s][it[s]].valid => Durable(stubs[s][it[s]].peer, cur[s]),
         apc'[s] = AfterStub(s, it[s]), it'[s] = it[s] + 1, cur'[s] = cur[s], Len(stubs'[s]) = Len(stubs[s])
  PROVE  LoopDurable(s)'
<1>0. /\ LoopDurable(s) /\ Connected(s) /\ it[s] \in Nat /\ it[s] \in 1..Len(stubs[s])
      /\ Len(stubs[s]) \in Nat
  BY DEF FactoryInv, DurableInv, CoverInv, TypeOK, AdminTypeOK, ServerTypeOK, PositionsOK
<1>o. PICK o : o = cur[s]
  OBVIOUS
<1>g. /\ \A j \in 1..Len(stubs[s]) : stubs'[s][j].peer = stubs[s][j].peer
      /\ \A j \in 1..Len(stubs[s]) : stubs'[s][j].valid => stubs[s][j].valid
  BY DEF StubsGrow
<1>1. ASSUME NEW i \in 1..Len(stubs[s]), i <= it[s], stubs'[s][i].valid PROVE Durable(stubs[s][i].peer, o)'
  <2>1. i < it[s] \/ i = it[s]
    BY <1>0, <1>1
  <2>2. PICK p \in Server : p = stubs[s][i].peer
    BY StubPeer
  <2>3. ASSUME i < it[s] PROVE Durable(p, o)
    BY <1>0, <1>1, <1>o, <1>g, <2>2, <2>3 DEF LoopDurable
  <2>4. ASSUME i = it[s] PROVE Durable(p, o)
    BY <1>1, <1>o, <2>2, <2>4
  <2>5. Durable(p, o)
    BY <2>1, <2>2, <2>3, <2>4
  <2>6. Durable(p, o)'
    BY <2>5, DurableKept
  <2>7. stubs'[s][i].peer = p
    BY <1>g, <2>2
  <2> QED
    BY <2>6, <2>7 DEF Durable, Holds
<1>2. ASSUME NEW i \in 1..Len(stubs'[s]), i < it'[s], stubs'[s][i].valid PROVE Durable(stubs[s][i].peer, o)'
  <2>1. i \in 1..Len(stubs[s]) /\ i <= it[s]
    BY <1>0, <1>2
  <2> QED
    BY <1>1, <1>2, <1>g, <2>1
<1>3. ASSUME apc'[s] = "place", NEW p \in Reached(s)' PROVE Durable(p, o)'
  <2>1. p \in Peers(s)
    BY DEF Reached, Peers
  <2>2. PICK i \in 1..Len(stubs[s]) : stubs[s][i].peer = p
    BY <1>0, <2>1 DEF Connected
  <2>3. it[s] >= Len(stubs[s])
    BY <1>0, <1>3 DEF AfterStub
  <2>4. i <= it[s]
    BY <1>0, <2>3
  <2>5. stubs'[s][i].peer = p /\ i \in 1..Len(stubs'[s])
    BY <1>g, <2>2
  <2>6. stubs'[s][i].valid
    BY <2>5 DEF Reached, Missed
  <2>7. Durable(stubs[s][i].peer, o)'
    BY <1>1, <2>4, <2>6
  <2> QED
    BY <2>5, <2>7 DEF Durable, Holds
<1>4. apc'[s] \in {"visit", "place"}
  BY DEF AfterStub
<1>5. cur'[s] = o
  BY <1>o
<1> QED
  BY <1>2, <1>3, <1>4, <1>5 DEF LoopDurable, Durable, Holds

(* The stubs of s answer what was awaited; an admin step acknowledges      *)
(* nothing on anybody's connection.                                        *)
LEMMA AckFromEngineer ==
  ASSUME TypeOK, FactoryInv, [Next]_vars, NEW k \in ConnId, conn[k].eng # "free", conn'[k].ack, ~conn[k].ack
  PROVE  SendReplicationResult(k)
<1>0. conn \in [ConnId -> Conn] /\ conn[k] \in Conn /\ StubInv /\ RequestInv
  BY DEF TypeOK, FactoryInv
<1>1. ASSUME NEW s \in Server, Die(s) PROVE FALSE
  <2>1. conn'[k] = AfterCrash(conn[k], s)
    BY <1>1 DEF Die
  <2>2. CASE conn'[k] = FreeConn
    BY <2>2 DEF FreeConn
  <2>3. CASE conn'[k] = [FreeConn EXCEPT !.from = conn[k].from, !.to = conn[k].to, !.open = TRUE,
                                         !.ack = conn[k].ack, !.eng = "dead"]
    <3>1. conn'[k].ack = conn[k].ack
      BY <2>3 DEF FreeConn
    <3> QED
      BY <3>1
  <2>4. CASE \E x \in BOOLEAN : conn'[k] = [conn[k] EXCEPT !.open = x, !.ack = conn[k].ack /\ x]
    <3>1. PICK x \in BOOLEAN : conn'[k] = [conn[k] EXCEPT !.open = x, !.ack = conn[k].ack /\ x]
      BY <2>4
    <3>2. conn'[k].ack = (conn[k].ack /\ x)
      BY <1>0, <3>1 DEF Conn
    <3> QED
      BY <3>2
  <2>5. (conn[k].open /\ conn[k].from # s) \in BOOLEAN
    OBVIOUS
  <2> QED
    BY <2>1, <2>2, <2>3, <2>4, <2>5 DEF AfterCrash
<1>2. ASSUME NEW s \in Server, ProductionAdminThread(s), ~BrokenPipe(s) PROVE FALSE
  <2>1. CASE ConnectPeer(s)
    <3> DEFINE new == NewStub(PeerList[s][it[s]])
    <3>1. it[s] \in 1..Len(PeerList[s])
      BY <2>1 DEF ConnectPeer, TypeOK, PositionsOK, AdminTypeOK
    <3>2. new \in Stub
      BY <3>1, FactoryAssumption, ConstantTypes
    <3>3. \E j \in Dialled(s, new) : conn' = Dial(s, new, j)
      BY <2>1 DEF ConnectPeer
    <3> HIDE DEF new
    <3>4. conn'[k] = conn[k]
      BY <3>2, <3>3, DialQuiet
    <3> QED
      BY <3>4
  <2>2. CASE IdentifyPeer(s)
    BY <1>0, <2>2 DEF IdentifyPeer, Conn, FreeConn
  <2>3. CASE ReplicateTo(s)
    <3> DEFINE b == stubs[s][it[s]]
    <3>1. b \in Stub
      <4>1. it[s] \in 1..Len(stubs[s])
        BY <2>3 DEF ReplicateTo, TypeOK, PositionsOK, AdminTypeOK, ServerTypeOK
      <4> QED
        BY <4>1, StubPeer
    <3>2. CASE b.valid
      <4>1. conn' = Send(conn, b.conn, Head(<< msg[s] >>))
        BY <2>3, <3>2 DEF ReplicateTo
      <4> QED
        BY <1>0, <4>1 DEF Send, Conn
    <3>3. CASE ~b.valid
      <4>1. \E j \in Dialled(s, b) : conn' = Dial(s, b, j)
        BY <2>3, <3>1, <3>3 DEF ReplicateTo, SocketInit, Stub
      <4> HIDE DEF b
      <4>2. conn'[k] = conn[k]
        BY <3>1, <4>1, DialQuiet
      <4> QED
        BY <4>2
    <3> QED
      BY <3>2, <3>3
  <2>4. CASE ReplicationAcked(s) \/ ReplicationFailed(s)
    <3>1. todo[s] = << >>
      BY <1>0 DEF RequestInv
    <3> QED
      BY <1>0, <2>4, <3>1 DEF ReplicationAcked, ReplicationFailed, Conn, FreeConn
  <2>5. CASE \/ AdminDequeue(s) \/ ReadCommitted(s) \/ ClaimPrimary(s) \/ ReadIndex(s) \/ BuildRequest(s)
             \/ AdminPlaceOrder(s) \/ CommitOrder(s)
    BY <2>5 DEF AdminDequeue, ReadCommitted, ClaimPrimary, ReadIndex, BuildRequest, AdminPlaceOrder, CommitOrder
  <2> QED
    BY <1>2, <2>1, <2>2, <2>3, <2>4, <2>5 DEF ProductionAdminThread
<1>3. ASSUME NEW j \in ConnId, EngineerThread(j) PROVE SendReplicationResult(k)
  <2>1. CASE j # k
    BY <1>0, <1>3, <2>1 DEF EngineerThread, ReceiveStatusInfo, StatusLost, ReceiveReplicationRequest,
       StoreCommittedIndex, StoreLastIndex, EngineerPlaceOrder, SendReplicationResult, PeerHangup
  <2>2. CASE j = k /\ ~SendReplicationResult(k)
    <3>1. \/ conn' = [conn EXCEPT ![k] = FreeConn]
          \/ \E e \in {"spin", "committed", "last", "place", "reply"} :
               \/ conn' = [conn EXCEPT ![k] = [conn[k] EXCEPT !.eng = e]]
               \/ conn' = [conn EXCEPT ![k] = [conn[k] EXCEPT !.sent = FALSE, !.eng = e]]
          \/ conn' = [conn EXCEPT ![k] = [conn[k] EXCEPT !.ident = FALSE, !.eng = "recv"]]
      BY <1>0, <1>3, <2>2 DEF EngineerThread, ReceiveStatusInfo, StatusLost, ReceiveReplicationRequest,
         StoreCommittedIndex, StoreLastIndex, EngineerPlaceOrder, PeerHangup
    <3>2. CASE conn'[k] = FreeConn
      BY <3>2 DEF FreeConn
    <3>3. ASSUME NEW e, \/ conn'[k] = [conn[k] EXCEPT !.eng = e]
                        \/ conn'[k] = [conn[k] EXCEPT !.sent = FALSE, !.eng = e]
                        \/ conn'[k] = [conn[k] EXCEPT !.ident = FALSE, !.eng = "recv"]
          PROVE  conn'[k].ack = conn[k].ack
      BY <1>0, <3>3 DEF Conn
    <3> QED
      BY <1>0, <3>1, <3>2, <3>3
  <2> QED
    BY <2>1, <2>2
<1>4. ASSUME \/ \E c \in Customer : Client(c)
             \/ \E s \in Server : Restart(s)
             \/ UNCHANGED vars
      PROVE  FALSE
  <2>1. conn' = conn
    BY <1>4 DEF Client, StartSession, SendOrder, CreateRegularLaptop, SendLaptop, ClientGone, Restart, vars
  <2> QED
    BY <2>1
<1> QED
  BY <1>1, <1>2, <1>3, <1>4 DEF Next, Crash, BrokenPipe

(* A step in which the admin thread of s does nothing and no stub changes. *)
LEMMA OtherLoop ==
  ASSUME TypeOK, FactoryInv, [Next]_vars, NEW s \in Server,
         apc'[s] = apc[s], it'[s] = it[s], cur'[s] = cur[s], stubs'[s] = stubs[s]
  PROVE  LoopDurable(s)'
<1>1. ASSUME apc[s] = "await", NEW k, k = stubs[s][it[s]].conn, conn'[k].ack, ~conn[k].ack
      PROVE  Durable(stubs[s][it[s]].peer, cur[s])
  <2>0. it[s] \in 1..Len(stubs[s]) /\ stubs[s][it[s]].valid
    BY <1>1 DEF TypeOK, AdminTypeOK, ServerTypeOK, PositionsOK, FactoryInv, RequestInv
  <2>i. stubs[s][it[s]].init
    BY <1>1, <2>0 DEF FactoryInv, StubInv
  <2>1. StubOK(s, stubs[s][it[s]]) /\ Awaited(conn[k], cur[s])
    BY <1>1, <2>0 DEF FactoryInv, StubInv, RequestInv
  <2>2. k \in ConnId /\ conn[k].eng # "free" /\ conn[k].to = stubs[s][it[s]].peer
    BY <1>1, <2>0, <2>1, <2>i DEF StubOK
  <2>3. SendReplicationResult(k)
    BY <1>1, <2>2, AckFromEngineer
  <2>4. conn[k].eng = "reply" /\ conn[k].msg.ord = cur[s]
    BY <2>1, <2>3 DEF SendReplicationResult, Awaited, Busy
  <2>5. Holds(conn[k].to, conn[k].msg.ord)
    BY <2>2, <2>4 DEF FactoryInv, RequestInv, PendingOK
  <2> QED
    BY <2>2, <2>4, <2>5 DEF Durable
<1> QED
  BY <1>1, LoopKept

(* A step of the admin thread of s keeps its own loop durable.             *)
LEMMA OwnLoop ==
  ASSUME TypeOK, FactoryInv, [Next]_vars, NEW s \in Server, ProductionAdminThread(s), ~BrokenPipe(s),
         \A t \in Server : StubsGrow(t)
  PROVE  LoopDurable(s)'
<1>0. /\ apc \in [Server -> AdminPC] /\ it \in [Server -> Nat \ {0}] /\ stubs \in [Server -> Seq(Stub)]
      /\ cur \in [Server -> Order \cup {NoOrder}] /\ conn \in [ConnId -> Conn]
      /\ StubInv /\ RequestInv /\ CoverInv /\ LoopDurable(s)
  BY DEF TypeOK, AdminTypeOK, ServerTypeOK, FactoryInv, DurableInv
<1>1. CASE \/ AdminDequeue(s) \/ ReadCommitted(s) \/ ClaimPrimary(s) \/ ConnectPeer(s) \/ IdentifyPeer(s)
           \/ ReadIndex(s) \/ CommitOrder(s)
  <2>1. apc'[s] \notin {"visit", "await", "place", "commit"}
    BY <1>0, <1>1 DEF AdminDequeue, ReadCommitted, ClaimPrimary, ConnectPeer, IdentifyPeer, ReadIndex, CommitOrder,
                      AfterPeer
  <2> QED
    BY <2>1 DEF LoopDurable
<1>2. CASE BuildRequest(s)
  <2>1. it'[s] = 1 /\ apc[s] = "build" /\ apc'[s] = AfterStub(s, 0) /\ stubs' = stubs
    BY <1>0, <1>2 DEF BuildRequest, srvVars
  <2>2. CASE apc'[s] = "visit"
    <3>1. \A i \in 1..Len(stubs[s]) : ~(i < 1)
      BY <1>0
    <3> QED
      BY <2>1, <2>2, <3>1 DEF LoopDurable
  <2>3. CASE apc'[s] = "place"
    <3>1. Len(stubs[s]) = 0
      BY <1>0, <2>1, <2>3 DEF AfterStub
    <3>2. Peers(s) = {}
      BY <1>0, <2>1, <3>1 DEF CoverInv, Connected
    <3>3. Reached(s)' = {}
      BY <3>2 DEF Reached, Peers
    <3> QED
      BY <2>3, <3>3 DEF LoopDurable
  <2> QED
    BY <2>1, <2>2, <2>3 DEF AfterStub
<1>3. CASE ReplicateTo(s) /\ stubs[s][it[s]].valid
  <2> DEFINE i == it[s]
             k == stubs[s][i].conn
  <2>h. Head(<< msg[s] >>) = msg[s]
    OBVIOUS
  <2>1. /\ apc[s] = "visit"
        /\ conn' = Send(conn, k, msg[s])
        /\ stubs' = [stubs EXCEPT ![s][i] = stubs[s][i]]
        /\ apc' = [apc EXCEPT ![s] = "await"]
        /\ it' = [it EXCEPT ![s] = it[s]]
        /\ cur' = cur
    BY <1>3, <2>h DEF ReplicateTo
  <2>2. stubs' = stubs /\ it' = it /\ apc'[s] = "await" /\ i \in 1..Len(stubs[s]) /\ i \in Nat
    BY <1>0, <2>1 DEF TypeOK, PositionsOK
  <2>i. stubs[s][i].init
    BY <1>0, <1>3, <2>1, <2>2 DEF StubInv
  <2>3. k \in ConnId /\ ~conn[k].ack /\ conn[k] \in Conn
    <3>1. StubOK(s, stubs[s][i])
      BY <1>0, <2>2 DEF StubInv
    <3>2. Quiet(conn[k])
      BY <1>0, <2>1, <2>2, <2>i DEF RequestInv
    <3> QED
      BY <1>0, <2>i, <3>1, <3>2 DEF StubOK, Quiet
  <2>4. ~conn'[k].ack
    BY <1>0, <2>1, <2>3 DEF Send, Conn
  <2>5. ASSUME NEW j \in 1..Len(stubs[s]), j < i, stubs[s][j].valid PROVE Durable(stubs[s][j].peer, cur[s])'
    <3>1. PICK p, o : p \in Server /\ p = stubs[s][j].peer /\ o = cur[s]
      BY StubPeer
    <3>2. Durable(p, o)
      BY <1>0, <2>1, <2>5, <3>1 DEF LoopDurable
    <3>3. Durable(p, o)'
      BY <3>1, <3>2, DurableKept
    <3> QED
      BY <2>1, <2>2, <3>1, <3>3 DEF Durable, Holds
  <2> QED
    BY <2>2, <2>4, <2>5 DEF LoopDurable, Durable, Holds
<1>4. CASE ReplicateTo(s) /\ ~stubs[s][it[s]].valid
  <2>1. apc[s] = "visit" /\ it[s] \in 1..Len(stubs[s])
    BY <1>0, <1>4 DEF ReplicateTo, TypeOK, PositionsOK
  <2>2. stubs[s][it[s]] \in Stub
    BY <2>1, StubPeer
  <2>3. ~stubs'[s][it[s]].valid
    BY <1>4, <2>1 DEF StubsGrow
  <2>4. apc'[s] = AfterStub(s, it[s]) /\ it'[s] = it[s] + 1 /\ cur'[s] = cur[s]
    BY <1>0, <1>4, <2>2 DEF ReplicateTo, SocketInit, Stub
  <2>5. Len(stubs'[s]) = Len(stubs[s])
    <3>1. \E r : stubs' = [stubs EXCEPT ![s][it[s]] = r]
      BY <1>4 DEF ReplicateTo
    <3> QED
      BY <1>0, <3>1
  <2> QED
    BY <2>1, <2>3, <2>4, <2>5, StubPassed
<1>5. CASE ReplicationAcked(s)
  <2>0. todo[s] = << >>
    BY <1>0 DEF RequestInv
  <2>1. /\ apc[s] = "await" /\ conn[stubs[s][it[s]].conn].ack /\ stubs' = stubs
        /\ apc'[s] = AfterStub(s, it[s]) /\ it'[s] = it[s] + 1 /\ cur'[s] = cur[s]
    BY <1>0, <1>5, <2>0 DEF ReplicationAcked, srvVars
  <2>2. Durable(stubs[s][it[s]].peer, cur[s])
    BY <1>0, <2>1 DEF LoopDurable
  <2> QED
    BY <2>1, <2>2, StubPassed
<1>6. CASE ReplicationFailed(s)
  <2>1. /\ apc[s] = "await"
        /\ stubs' = [stubs EXCEPT ![s][it[s]] = Closed(stubs[s][it[s]])]
        /\ apc'[s] = AfterStub(s, it[s]) /\ it'[s] = it[s] + 1 /\ cur'[s] = cur[s]
    BY <1>0, <1>6 DEF ReplicationFailed
  <2>2. it[s] \in 1..Len(stubs[s])
    BY <1>0, <2>1 DEF TypeOK, PositionsOK
  <2>3. stubs[s][it[s]] \in Stub
    BY <2>2, StubPeer
  <2>4. ~Closed(stubs[s][it[s]]).valid
    BY <2>3 DEF Closed, Stub
  <2>5. ~stubs'[s][it[s]].valid /\ Len(stubs'[s]) = Len(stubs[s])
    BY <1>0, <2>1, <2>2, <2>4
  <2> QED
    BY <2>1, <2>5, StubPassed
<1>7. CASE AdminPlaceOrder(s)
  <2>1. apc[s] = "place" /\ apc'[s] = "commit" /\ cur' = cur /\ place_order(s, cur[s])
    BY <1>0, <1>7 DEF AdminPlaceOrder
  <2>2. PICK o \in Order : o = cur[s]
    BY <2>1 DEF FactoryInv, ClientInv, QueueOK
  <2>3. Holds(s, o)'
    BY <2>1, <2>2, PlaceOrderLog
  <2>4. ASSUME NEW p \in Reached(s)' PROVE Durable(p, o)'
    <3>1. p \in Server /\ Durable(p, o)
      <4>1. p \in Server /\ p \in Reached(s)
        BY ReachedShrinks
      <4>2. Durable(p, cur[s])
        BY <1>0, <2>1, <4>1 DEF LoopDurable
      <4> QED
        BY <2>2, <4>1, <4>2
    <3> QED
      BY <3>1, DurableKept
  <2>5. Everywhere(s, o)'
    BY <2>3, <2>4 DEF Everywhere, Durable
  <2>6. cur'[s] = o
    BY <2>1, <2>2
  <2> QED
    BY <2>1, <2>5, <2>6 DEF LoopDurable, Everywhere, Durable, Holds
<1> QED
  BY <1>1, <1>2, <1>3, <1>4, <1>5, <1>6, <1>7 DEF ProductionAdminThread

(* The part of AckedDurable about one acknowledged order.                  *)
AckKept(a) ==
  /\ \A p \in a.at : Durable(p, a.ord)
  /\ a.by \notin Flaky => \A p \in Peers(a.by) \ a.at : crashes[p] > 0

(* What an answered client was told stays true.                            *)
LEMMA AnswersKept ==
  ASSUME TypeOK, FactoryInv, [Next]_vars
  PROVE  /\ \A c \in Customer : /\ cpc[c] = "promised" /\ StubsGrow(csrv[c])
                               /\ csrv'[c] = csrv[c] /\ sess'[c] = sess[c] /\ cnum'[c] = cnum[c]
                                   => Everywhere(csrv[c], OrderOf(c))'
         /\ \A a \in acked : AckKept(a)'
<1>1. ASSUME NEW c \in Customer, cpc[c] = "promised", StubsGrow(csrv[c]),
             csrv'[c] = csrv[c], sess'[c] = sess[c], cnum'[c] = cnum[c]
      PROVE  Everywhere(csrv[c], OrderOf(c))'
  <2>1. PICK t, o : t \in Server /\ t = csrv[c] /\ o = OrderOf(c)
    BY <1>1 DEF FactoryInv, ClientInv
  <2>2. Everywhere(t, o) /\ StubsGrow(t)
    BY <1>1, <2>1 DEF FactoryInv, DurableInv
  <2>3. Everywhere(t, o)'
    BY <2>1, <2>2, EverywhereKept
  <2>4. csrv'[c] = t /\ OrderOf(c)' = o
    BY <1>1, <2>1 DEF OrderOf
  <2> QED
    BY <2>3, <2>4 DEF Everywhere, Durable, Holds, Reached, Missed, Peers
<1>2. ASSUME NEW a \in acked PROVE AckKept(a)'
  <2>1. /\ a.by \in Server /\ a.at \subseteq Server
        /\ \A p \in a.at : Durable(p, a.ord)
        /\ a.by \notin Flaky => \A p \in Peers(a.by) \ a.at : crashes[p] > 0
    BY DEF TypeOK, FactoryInv, DurableInv, AckedDurable
  <2>2. ASSUME NEW p \in a.at PROVE Durable(p, a.ord)'
    BY <2>1, DurableKept
  <2>3. ASSUME a.by \notin Flaky, NEW p \in Peers(a.by) \ a.at PROVE crashes'[p] > 0
    <3>1. p \in Server
      BY <2>1, FactoryAssumption, ElementOfSeq DEF Peers
    <3> QED
      BY <2>1, <2>3, <3>1, CrashesGrow
  <2> QED
    BY <2>2, <2>3 DEF AckKept, Peers
<1> QED
  BY <1>1, <1>2

(* Every step keeps orders durable.                                        *)
LEMMA NextDurable ==
  ASSUME TypeOK, FactoryInv, [Next]_vars
  PROVE  DurableInv'
<1>0. /\ cur \in [Server -> Order \cup {NoOrder}] /\ cpc \in [Customer -> ClientPC]
      /\ apc \in [Server -> AdminPC] /\ it \in [Server -> Nat \ {0}] /\ stubs \in [Server -> Seq(Stub)]
  BY DEF TypeOK, AdminTypeOK, ClientTypeOK, ServerTypeOK
<1>k. ASSUME UNCHANGED <<apc, it, cur, stubs>> PROVE \A s \in Server : LoopDurable(s)'
  BY <1>k, OtherLoop
<1>a. ASSUME \A s \in Server : LoopDurable(s)', acked' = acked,
             \A c \in Customer : cpc'[c] = "promised" =>
               /\ cpc[c] = "promised" /\ StubsGrow(csrv[c])
               /\ csrv'[c] = csrv[c] /\ sess'[c] = sess[c] /\ cnum'[c] = cnum[c]
      PROVE  DurableInv'
  <2>1. AckedDurable'
    BY <1>a, AnswersKept DEF AckedDurable, AckKept
  <2>2. \A c \in Customer : cpc'[c] = "promised" => Everywhere(csrv[c], OrderOf(c))'
    BY <1>a, AnswersKept
  <2> QED
    BY <1>a, <2>1, <2>2 DEF DurableInv
<1>d. ASSUME NEW s \in Server, Die(s) PROVE DurableInv'
  <2>1. /\ apc' = [apc EXCEPT ![s] = "idle"] /\ stubs' = [stubs EXCEPT ![s] = << >>]
        /\ it' = [it EXCEPT ![s] = 1] /\ cur' = [cur EXCEPT ![s] = NoOrder]
        /\ cpc' = [c \in Customer |-> IF csrv[c] = s THEN "off" ELSE cpc[c]]
        /\ UNCHANGED <<csrv, cnum, sess, acked>>
    BY <1>d DEF Die
  <2>2. apc'[s] = "idle"
    BY <1>0, <2>1
  <2>3. LoopDurable(s)'
    BY <2>2 DEF LoopDurable
  <2>4. ASSUME NEW t \in Server \ {s} PROVE LoopDurable(t)'
    <3>1. apc'[t] = apc[t] /\ it'[t] = it[t] /\ cur'[t] = cur[t] /\ stubs'[t] = stubs[t]
      BY <1>0, <2>1
    <3> QED
      BY <3>1, OtherLoop
  <2>5. \A t \in Server : LoopDurable(t)'
    BY <2>3, <2>4
  <2>6. ASSUME NEW c \in Customer, cpc'[c] = "promised" PROVE cpc[c] = "promised" /\ StubsGrow(csrv[c])
    <3>1. cpc[c] = "promised" /\ csrv[c] # s
      BY <2>1, <2>6
    <3>2. csrv[c] \in Server
      BY <3>1 DEF FactoryInv, ClientInv
    <3>3. PICK t \in Server : t = csrv[c]
      BY <3>2
    <3>4. stubs'[t] = stubs[t]
      BY <1>0, <2>1, <3>1, <3>3
    <3>5. StubsGrow(t)
      BY <1>0, <3>4 DEF StubsGrow
    <3> QED
      BY <3>1, <3>3, <3>5
  <2> QED
    BY <1>a, <2>1, <2>5, <2>6
<1>1. ASSUME NEW c \in Customer, Client(c) PROVE DurableInv'
  <2>1. \A s \in Server : LoopDurable(s)'
    <3>1. UNCHANGED <<apc, it, cur, stubs>>
      BY <1>1 DEF Client, StartSession, SendOrder, CreateRegularLaptop, SendLaptop, ClientGone, srvVars, adminVars
    <3> QED
      BY <1>k, <3>1
  <2>2. \A d \in Customer : cpc'[d] = "promised" =>
          cpc[d] = "promised" /\ csrv'[d] = csrv[d] /\ sess'[d] = sess[d] /\ cnum'[d] = cnum[d]
    <3>1. csrv \in [Customer -> Server \cup {NoOne}] /\ cnum \in [Customer -> Nat] /\ sess \in [Customer -> Nat]
      BY DEF TypeOK, ClientTypeOK
    <3>2. CASE (\E s \in Server : StartSession(c, s)) \/ SendOrder(c)
      BY <1>0, <3>1, <3>2 DEF StartSession, SendOrder
    <3>3. CASE \E s \in Server : CreateRegularLaptop(s, c)
      BY <1>0, <3>1, <3>3 DEF CreateRegularLaptop, clientVars
    <3>4. CASE SendLaptop(c) \/ ClientGone(c)
      BY <1>0, <3>1, <3>4 DEF SendLaptop, ClientGone
    <3> QED
      BY <1>1, <3>2, <3>3, <3>4 DEF Client
  <2>g. \A d \in Customer : cpc[d] = "promised" => StubsGrow(csrv[d])
    <3>1. stubs' = stubs
      BY <1>1 DEF Client, StartSession, SendOrder, CreateRegularLaptop, SendLaptop, ClientGone, srvVars
    <3>2. \A t \in Server : StubsGrow(t)
      BY <1>0, <3>1 DEF StubsGrow
    <3> QED
      BY <3>2 DEF FactoryInv, ClientInv
  <2>3. CASE acked' = acked
    BY <1>a, <2>1, <2>2, <2>3, <2>g
  <2>4. CASE SendLaptop(c)
    <3>1. PICK t, o : t \in Server /\ t = csrv[c] /\ o = OrderOf(c)
      BY <2>4 DEF FactoryInv, ClientInv, SendLaptop
    <3>2. PICK a : a = [ord |-> o, by |-> t, at |-> {t} \cup Reached(t)]
      OBVIOUS
    <3>3. cpc[c] = "promised" /\ acked' = acked \cup {a}
      BY <2>4, <3>1, <3>2 DEF SendLaptop
    <3>4. Everywhere(t, o)
      BY <3>1, <3>3 DEF FactoryInv, DurableInv
    <3>5. Reached(t) \subseteq Server /\ Peers(t) \subseteq Server
      BY <3>1, FactoryAssumption, ElementOfSeq DEF Reached, Peers
    <3>6. ASSUME NEW p \in a.at PROVE Durable(p, o)'
      <4>1. p \in Server /\ Durable(p, o)
        BY <3>1, <3>2, <3>4, <3>5, <3>6 DEF Everywhere
      <4> QED
        BY <4>1, DurableKept
    <3>8. ASSUME t \notin Flaky, NEW p \in Peers(t) \ a.at PROVE crashes'[p] > 0
      <4>1. p \in Missed(t)
        BY <3>2, <3>8 DEF Reached
      <4>2. PICK i \in 1..Len(stubs[t]) : ~stubs[t][i].valid /\ stubs[t][i].peer = p
        BY <4>1 DEF Missed
      <4>3. StubOK(t, stubs[t][i])
        BY <3>1 DEF FactoryInv, StubInv
      <4>4. crashes[p] > 0 /\ p \in Server
        BY <3>5, <3>8, <4>2, <4>3 DEF StubOK
      <4> QED
        BY <4>4, CrashesGrow
    <3>9. AckKept(a)'
      <4>1. a.by = t /\ a.ord = o
        BY <3>2
      <4> QED
        BY <3>6, <3>8, <4>1 DEF AckKept, Peers
    <3>7. AckedDurable'
      <4>1. \A b \in acked : AckKept(b)'
        BY AnswersKept
      <4>2. \A b \in acked \cup {a} : AckKept(b)'
        BY <3>9, <4>1
      <4> QED
        BY <3>3, <4>2 DEF AckedDurable, AckKept
    <3>10. \A d \in Customer : cpc'[d] = "promised" => Everywhere(csrv[d], OrderOf(d))'
      BY <2>2, <2>g, AnswersKept
    <3> QED
      BY <2>1, <3>7, <3>10 DEF DurableInv
  <2> QED
    BY <1>1, <2>3, <2>4 DEF Client, StartSession, SendOrder, CreateRegularLaptop, ClientGone
<1>2. ASSUME NEW s \in Server, ProductionAdminThread(s), ~BrokenPipe(s) PROVE DurableInv'
  <2>1. (~ \E t \in Server : Die(t)) => \A t \in Server : StubsGrow(t)
    BY StubsKept
  <2>2. CASE \E t \in Server : Die(t)
    BY <1>d, <2>2
  <2>3. CASE ~ \E t \in Server : Die(t)
    <3>1. LoopDurable(s)'
      BY <1>2, <2>1, <2>3, OwnLoop
    <3>2. ASSUME NEW t \in Server \ {s} PROVE LoopDurable(t)'
      <4>1. apc'[t] = apc[t] /\ it'[t] = it[t] /\ cur'[t] = cur[t]
        BY <1>0, <1>2 DEF ProductionAdminThread, AdminDequeue, ReadCommitted, ClaimPrimary, ConnectPeer,
           IdentifyPeer, ReadIndex, BuildRequest, ReplicateTo, ReplicationAcked, ReplicationFailed, AdminPlaceOrder,
           CommitOrder
      <4>2. stubs'[t] = stubs[t]
        BY <1>0, <1>2 DEF ProductionAdminThread, AdminDequeue, ReadCommitted, ClaimPrimary, ConnectPeer,
           IdentifyPeer, ReadIndex, BuildRequest, ReplicateTo, ReplicationAcked, ReplicationFailed, AdminPlaceOrder,
           CommitOrder, srvVars
      <4> QED
        BY <4>1, <4>2, OtherLoop
    <3>3. \A t \in Server : LoopDurable(t)'
      BY <3>1, <3>2
    <3>4. acked' = acked /\ UNCHANGED <<csrv, sess, cnum>>
      BY <1>2 DEF ProductionAdminThread, AdminDequeue, ReadCommitted, ClaimPrimary, ConnectPeer,
         IdentifyPeer, ReadIndex, BuildRequest, ReplicateTo, ReplicationAcked, ReplicationFailed, AdminPlaceOrder,
         CommitOrder, clientVars
    <3>g. \A c \in Customer : cpc[c] = "promised" => StubsGrow(csrv[c])
      BY <2>1, <2>3 DEF FactoryInv, ClientInv
    <3>5. CASE cpc' = cpc
      BY <1>a, <3>3, <3>4, <3>5, <3>g
    <3>6. CASE CommitOrder(s) /\ Outstanding(s, cur[s])
      <4>1. apc[s] = "commit" /\ cpc' = [cpc EXCEPT ![cur[s].cust] = "promised"]
        BY <3>6 DEF CommitOrder
      <4>2. Everywhere(s, cur[s])
        BY <4>1 DEF FactoryInv, DurableInv, LoopDurable
      <4>3. PICK o \in Order : o = cur[s] /\ csrv[o.cust] = s /\ o = OrderOf(o.cust)
        BY <3>6 DEF Outstanding
      <4>4. Everywhere(s, o)'
        BY <2>1, <2>3, <4>2, <4>3, EverywhereKept
      <4>5. o.cust \in Customer /\ cpc' = [cpc EXCEPT ![o.cust] = "promised"]
        BY <4>1, <4>3 DEF Order
      <4>6. PICK c \in Customer : c = o.cust
        BY <4>5
      <4>7. csrv'[c] = s /\ OrderOf(c)' = o
        BY <3>4, <4>3, <4>6 DEF OrderOf
      <4>8. Everywhere(csrv[c], OrderOf(c))'
        BY <4>4, <4>7 DEF Everywhere, Durable, Holds, Reached, Missed, Peers
      <4>9. ASSUME NEW d \in Customer, d # c, cpc'[d] = "promised" PROVE Everywhere(csrv[d], OrderOf(d))'
        <5>1. cpc[d] = "promised"
          BY <1>0, <4>5, <4>6, <4>9
        <5> QED
          BY <3>4, <3>g, <5>1, AnswersKept
      <4>10. \A d \in Customer : cpc'[d] = "promised" => Everywhere(csrv[d], OrderOf(d))'
        BY <4>8, <4>9
      <4>11. AckedDurable'
        BY <3>4, AnswersKept DEF AckedDurable, AckKept
      <4> QED
        BY <3>3, <4>10, <4>11 DEF DurableInv
    <3>7. CASE CommitOrder(s) /\ ~Outstanding(s, cur[s])
      <4>1. cpc' = cpc
        BY <3>7 DEF CommitOrder
      <4> QED
        BY <3>5, <4>1
    <3> QED
      BY <1>2, <3>5, <3>6, <3>7 DEF ProductionAdminThread, AdminDequeue, ReadCommitted, ClaimPrimary, ConnectPeer,
         IdentifyPeer, ReadIndex, BuildRequest, ReplicateTo, ReplicationAcked, ReplicationFailed, AdminPlaceOrder,
         clientVars
  <2> QED
    BY <2>2, <2>3
<1>3. ASSUME \/ \E k \in ConnId : EngineerThread(k)
             \/ \E s \in Server : Restart(s)
             \/ UNCHANGED vars
      PROVE  DurableInv'
  <2>1. UNCHANGED <<apc, it, cur, stubs, acked, csrv, sess, cnum, cpc>>
    BY <1>3 DEF EngineerThread, ReceiveStatusInfo, StatusLost, ReceiveReplicationRequest, StoreCommittedIndex,
       StoreLastIndex, EngineerPlaceOrder, SendReplicationResult, PeerHangup, Restart, vars, srvVars, adminVars,
       clientVars
  <2>2. \A s \in Server : LoopDurable(s)'
    BY <1>k, <2>1
  <2>3. \A t \in Server : StubsGrow(t)
    BY <1>0, <2>1 DEF StubsGrow
  <2>4. \A c \in Customer : cpc[c] = "promised" => StubsGrow(csrv[c])
    BY <2>3 DEF FactoryInv, ClientInv
  <2> QED
    BY <1>a, <2>1, <2>2, <2>4
<1> QED
  BY <1>1, <1>2, <1>3, <1>d DEF Next, Crash, BrokenPipe

-----------------------------------------------------------------------------
(* The theorems.                                                           *)

(* The initial state satisfies the inductive invariant.                    *)
LEMMA InitInv ==
  ASSUME Init
  PROVE  FactoryInv
<1>1. /\ \A s \in Server : /\ apc[s] = "idle" /\ erq[s] = << >> /\ stubs[s] = << >> /\ todo[s] = << >>
                           /\ up[s] /\ primary_id[s] = NoOne
      /\ \A k \in ConnId : conn[k] = FreeConn
      /\ \A c \in Customer : cpc[c] = "off"
      /\ acked = {} /\ abandoned = {}
      /\ \A s \in Server : inbox[s] = {}
  BY DEF Init
<1>2. \A s \in Server : Len(erq[s]) = 0 /\ Len(stubs[s]) = 0
  BY <1>1
<1>3. \A k \in ConnId : conn[k].eng = "free" /\ ~conn[k].sent
  BY <1>1 DEF FreeConn
<1>4. ClientInv
  BY <1>1, <1>2 DEF ClientInv, QueueOK
<1>5. StubInv
  BY <1>1, <1>2, <1>3 DEF StubInv, ConnOK
<1>6. RequestInv
  BY <1>1, <1>2, <1>3 DEF RequestInv, PendingOK, Busy
<1>7. CoverInv
  BY <1>1, FactoryAssumption DEF CoverInv, PrimaryConnected
<1>8. DurableInv
  BY <1>1 DEF DurableInv, LoopDurable, AckedDurable
<1> QED
  BY <1>4, <1>5, <1>6, <1>7, <1>8 DEF FactoryInv

(* In every reachable state of LaptopFactory.Spec, for any number of       *)
(* servers, customers, orders and crashes, the inductive invariant holds.  *)
THEOREM FactoryInvariant == Spec => [](TypeOK /\ FactoryInv)
<1>1. Init => TypeOK /\ FactoryInv
  BY InitType, InitInv
<1>2. TypeOK /\ FactoryInv /\ [Next]_vars => TypeOK' /\ FactoryInv'
  <2> SUFFICES ASSUME TypeOK, FactoryInv, [Next]_vars PROVE TypeOK' /\ FactoryInv'
    OBVIOUS
  <2>1. TypeOK'
    BY NextType
  <2>2. ClientInv' /\ StubInv' /\ RequestInv' /\ CoverInv' /\ DurableInv'
    BY NextClient, NextStub, NextRequest, NextCover, NextDurable
  <2> QED
    BY <2>1, <2>2 DEF FactoryInv
<1> QED
  BY <1>1, <1>2, PTL DEF Spec

(* Type correctness of the server, admin thread, network and client state, *)
(* and the loops of ServerThread.cpp stay inside peer_list and stubs.      *)
THEOREM FactoryTypes == Spec => []TypeOK
BY FactoryInvariant, PTL

(* An acknowledged order stays in the logs of its server and of the peers  *)
(* that the server's stubs reached when it answered, except for crashed    *)
(* ones; a peer they did not reach has crashed, unless the server's own    *)
(* socket() or connect() failed.                                           *)
THEOREM AckedOrdersDurable == Spec => []AckedDurable
<1>1. FactoryInv => AckedDurable
  BY DEF FactoryInv, DurableInv
<1> QED
  BY <1>1, FactoryInvariant, PTL

(* A server that takes an order as the primary has a stub for every peer.  *)
THEOREM PrimariesConnected == Spec => []PrimaryConnected
<1>1. FactoryInv => PrimaryConnected
  BY DEF FactoryInv, CoverInv
<1> QED
  BY <1>1, FactoryInvariant, PTL
=============================================================================
