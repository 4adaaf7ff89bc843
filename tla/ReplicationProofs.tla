-------------------------- MODULE ReplicationProofs -------------------------
(***************************************************************************)
(* What the replication of LaptopFactory means to its clients, proved for  *)
(* every value of the constants on top of the invariant of                 *)
(* LaptopFactoryProofs: no backup is brought up to date by a reconnect,    *)
(* an order gets behind a newer one only for a sender or client that died, *)
(* and, while no server crashes and all that it dials answer, the servers  *)
(* act as one replicated record with one primary.  Each section adds one   *)
(* part to the invariant.                                                  *)
(***************************************************************************)
EXTENDS LaptopReads, LaptopFactoryProofs, FiniteSetTheorems

-----------------------------------------------------------------------------
(* Stubs and connections: what a step can do to them.                      *)

(* Stub r is put at position i of the stubs of s: at the end, or in the    *)
(* place of another.                                                       *)
StubPut(s, i, r) ==
  /\ \A t \in Server \ {s} : stubs'[t] = stubs[t]
  /\ Len(stubs'[s]) \in Nat
  /\ i \in 1..Len(stubs'[s])
  /\ stubs'[s][i] = r
  /\ \A j \in 1..Len(stubs'[s]) : j # i => j \in 1..Len(stubs[s]) /\ stubs'[s][j] = stubs[s][j]
  /\ \A j \in 1..Len(stubs[s]) : j \in 1..Len(stubs'[s])

(* Stub r of s gets the unused connection k.  Only startConnection makes a *)
(* stub that is valid.                                                     *)
LinkOpens(s, i, r, k) ==
  /\ StubPut(s, i, r)
  /\ r.init /\ r.conn = k
  /\ i \in 1..Len(stubs[s]) => ~stubs[s][i].init
  /\ conn[k].eng = "free"
  /\ conn'[k].from = s /\ conn'[k].open /\ conn'[k].eng = "status" /\ ~conn'[k].ident
  /\ \A j \in ConnId \ {k} : conn'[j] = conn[j]

(* Stub r of s stays without a connection, or loses the one it had.        *)
LinkCloses(s, i, r) ==
  /\ StubPut(s, i, r)
  /\ ~r.init
  /\ \A j \in ConnId : \/ conn'[j] = conn[j]
                       \/ /\ conn'[j].eng = "free" /\ conn[j].from = s
                          /\ i \in 1..Len(stubs[s]) /\ stubs[s][i].init /\ stubs[s][i].conn = j
  /\ i \in 1..Len(stubs[s]) /\ stubs[s][i].init => conn'[stubs[s][i].conn].eng = "free"

(* Something is sent, received or done on connection k.  Where no          *)
(* identification has been sent, only a valid stub sends one.              *)
LinkMoves(k) ==
  /\ conn[k].eng # "free"
  /\ conn'[k].from = conn[k].from /\ conn'[k].to = conn[k].to
  /\ conn'[k].open <=> conn[k].open
  /\ \A j \in ConnId \ {k} : conn'[j] = conn[j]
  /\ conn[k].eng \in {"status", "dead"} /\ ~conn[k].ident =>
       \E s \in Server : \E i \in 1..Len(stubs[s]) :
         stubs[s][i].valid /\ stubs[s][i].init /\ stubs[s][i].conn = k

(* The engineer thread of k learns that the sender is gone.                *)
LinkEnds(k) ==
  /\ conn[k].eng # "free" /\ ~conn[k].open
  /\ conn'[k].eng = "free" \/ (conn'[k].from = conn[k].from /\ ~conn'[k].open)
  /\ \A j \in ConnId \ {k} : conn'[j] = conn[j]

LinkStep ==
  \/ UNCHANGED <<stubs, conn>>
  \/ \E s \in Server, i \in Nat, r \in Stub, k \in ConnId : LinkOpens(s, i, r, k)
  \/ \E s \in Server, i \in Nat, r \in Stub : LinkCloses(s, i, r)
  \/ stubs' = stubs /\ \E k \in ConnId : LinkMoves(k) \/ LinkEnds(k)

(* Dialling for stub b of s at position i.                                 *)
LEMMA DialLink ==
  ASSUME TypeOK, NEW s \in Server, NEW b \in Stub, NEW k \in Dialled(s, b), ~b.init,
         NEW i \in Nat, NEW r, r = SocketInit(b, k), StubPut(s, i, r), conn' = Dial(s, b, k),
         i \in 1..Len(stubs[s]) => ~stubs[s][i].init
  PROVE  LinkStep
<1>0. r \in Stub /\ conn \in [ConnId -> Conn]
  BY DialTypes DEF TypeOK
<1>1. CASE k \notin ConnId
  <2>0. k \in {Refused, NoSocket}
    BY <1>1, DialTypes
  <2>1. conn' = conn /\ ~r.init
    BY <1>1, <2>0 DEF Dial, SocketInit, Stub
  <2>2. LinkCloses(s, i, r)
    BY <2>1 DEF LinkCloses
  <2> QED
    BY <1>0, <2>2 DEF LinkStep
<1>2. CASE k \in ConnId
  <2>0. k # Refused /\ k # NoSocket
    BY <1>2, FactoryAssumption DEF Refused, NoSocket
  <2>1. k \in ConnId /\ conn[k].eng = "free"
    BY <1>2, <2>0 DEF Dialled, FreshConn
  <2>2. r = [b EXCEPT !.init = TRUE, !.conn = k]
    BY <2>0 DEF SocketInit
  <2>3. r.init /\ r.conn = k
    BY <2>2 DEF Stub
  <2>4. /\ conn'[k] = [FreeConn EXCEPT !.from = s, !.to = b.peer, !.open = TRUE, !.eng = "status"]
        /\ \A j \in ConnId \ {k} : conn'[j] = conn[j]
    BY <1>0, <1>2, <2>1 DEF Dial
  <2>5. conn'[k].from = s /\ conn'[k].open /\ conn'[k].eng = "status" /\ ~conn'[k].ident
    BY <2>4 DEF FreeConn
  <2>6. LinkOpens(s, i, r, k)
    BY <2>1, <2>3, <2>4, <2>5 DEF LinkOpens
  <2> QED
    BY <1>0, <2>1, <2>6 DEF LinkStep
<1> QED
  BY <1>1, <1>2

(* A stub whose peer is dead is closed.                                    *)
LEMMA CloseLink ==
  ASSUME TypeOK, StubInv, NEW s \in Server, NEW i \in 1..Len(stubs[s]), stubs[s][i].init,
         conn' = [conn EXCEPT ![stubs[s][i].conn] = FreeConn],
         stubs' = [stubs EXCEPT ![s][i] = Closed(stubs[s][i])]
  PROVE  LinkStep
<1>1. /\ stubs \in [Server -> Seq(Stub)] /\ stubs[s] \in Seq(Stub) /\ conn \in [ConnId -> Conn] /\ i \in Nat
      /\ stubs[s][i] \in Stub /\ StubOK(s, stubs[s][i])
  <2>1. stubs \in [Server -> Seq(Stub)] /\ conn \in [ConnId -> Conn]
    BY DEF TypeOK, ServerTypeOK
  <2>2. stubs[s][i] \in Stub
    BY StubPeer
  <2>3. StubOK(s, stubs[s][i])
    BY DEF StubInv
  <2> QED
    BY <2>1, <2>2, <2>3
<1>b. PICK r : r = Closed(stubs[s][i])
  OBVIOUS
<1>2. r \in Stub /\ ~r.init
  BY <1>1, <1>b DEF Closed, Stub
<1>3. StubPut(s, i, r)
  BY <1>1, <1>2, <1>b DEF StubPut
<1>k. PICK k : k = stubs[s][i].conn
  OBVIOUS
<1>4. k \in ConnId /\ conn[k].from = s
  BY <1>1, <1>k DEF StubOK
<1>5. conn'[k] = FreeConn /\ \A j \in ConnId \ {k} : conn'[j] = conn[j]
  BY <1>1, <1>4, <1>k
<1>6. conn'[k].eng = "free"
  BY <1>5 DEF FreeConn
<1>7. LinkCloses(s, i, r)
  BY <1>2, <1>3, <1>4, <1>5, <1>6, <1>k DEF LinkCloses
<1> QED
  BY <1>1, <1>2, <1>7 DEF LinkStep

(* The steps of the admin thread that touch stubs or connections.          *)
LEMMA AdminLinks ==
  ASSUME TypeOK, FactoryInv, NEW s \in Server, ProductionAdminThread(s), ~Die(s)
  PROVE  LinkStep /\ crashes' = crashes
<1>0. /\ StubInv /\ RequestInv /\ conn \in [ConnId -> Conn]
      /\ stubs \in [Server -> Seq(Stub)] /\ stubs[s] \in Seq(Stub)
  BY DEF FactoryInv, TypeOK, ServerTypeOK
<1>1. CASE \/ AdminDequeue(s) \/ ReadCommitted(s) \/ ClaimPrimary(s) \/ ReadIndex(s) \/ BuildRequest(s)
           \/ AdminPlaceOrder(s) \/ CommitOrder(s)
  BY <1>1 DEF AdminDequeue, ReadCommitted, ClaimPrimary, ReadIndex, BuildRequest, AdminPlaceOrder, CommitOrder,
              srvVars, LinkStep
<1>2. CASE ConnectPeer(s)
  <2> DEFINE new == NewStub(PeerList[s][it[s]])
             i == Len(stubs[s]) + 1
  <2>1. it[s] \in 1..Len(PeerList[s])
    BY <1>2 DEF ConnectPeer, TypeOK, PositionsOK, AdminTypeOK
  <2>2. new \in Stub /\ ~new.init
    BY <2>1, FactoryAssumption, ConstantTypes DEF NewStub
  <2>3. PICK k \in Dialled(s, new) :
          stubs' = [stubs EXCEPT ![s] = Append(stubs[s], SocketInit(new, k))] /\ conn' = Dial(s, new, k)
    BY <1>2 DEF ConnectPeer
  <2>4. PICK r : r = SocketInit(new, k)
    OBVIOUS
  <2> HIDE DEF new
  <2>5. r \in Stub
    BY <2>2, <2>4, DialTypes
  <2>6. stubs' = [stubs EXCEPT ![s] = Append(stubs[s], r)]
    BY <2>3, <2>4
  <2>7. /\ Len(stubs'[s]) = Len(stubs[s]) + 1 /\ Len(stubs[s]) \in Nat
        /\ stubs'[s][Len(stubs[s]) + 1] = r
        /\ \A j \in 1..Len(stubs[s]) : stubs'[s][j] = stubs[s][j]
        /\ \A t \in Server \ {s} : stubs'[t] = stubs[t]
    BY <1>0, <2>5, <2>6, AppendProperties
  <2>8. i \in Nat /\ StubPut(s, i, r) /\ i \notin 1..Len(stubs[s])
    BY <2>7 DEF StubPut
  <2> HIDE DEF i
  <2> QED
    BY <1>2, <2>2, <2>3, <2>4, <2>8, DialLink DEF ConnectPeer
<1>3. CASE IdentifyPeer(s)
  <2>1. apc[s] = "identify" /\ crashes' = crashes
    BY <1>3 DEF IdentifyPeer
  <2>2. PICK n : n = Len(stubs[s])
    OBVIOUS
  <2>3. n \in 1..Len(stubs[s]) /\ stubs[s][n].valid /\ StubOK(s, stubs[s][n])
    BY <1>0, <2>1, <2>2 DEF StubInv
  <2>4. PICK k : k = stubs[s][n].conn
    OBVIOUS
  <2>5. stubs[s][n].init => k \in ConnId /\ conn[k].eng # "free"
    BY <2>3, <2>4 DEF StubOK
  <2>6. CASE stubs[s][n].init /\ conn' = [conn EXCEPT ![k].ident = TRUE] /\ stubs' = stubs
    <3>1. conn'[k] = [conn[k] EXCEPT !.ident = TRUE] /\ conn[k] \in Conn /\ \A j \in ConnId \ {k} : conn'[j] = conn[j]
      BY <1>0, <2>5, <2>6
    <3>2. conn'[k].from = conn[k].from /\ conn'[k].to = conn[k].to /\ (conn'[k].open <=> conn[k].open)
      BY <3>1 DEF Conn
    <3>3. LinkMoves(k)
      BY <2>3, <2>4, <2>5, <2>6, <3>1, <3>2 DEF LinkMoves
    <3> QED
      BY <2>1, <2>5, <2>6, <3>3 DEF LinkStep
  <2>7. CASE /\ stubs[s][n].init
             /\ conn' = [conn EXCEPT ![k] = FreeConn] /\ stubs' = [stubs EXCEPT ![s][n] = Closed(stubs[s][n])]
    BY <1>0, <2>1, <2>3, <2>4, <2>5, <2>7, CloseLink
  <2>8. CASE ~stubs[s][n].init /\ conn' = conn /\ stubs' = [stubs EXCEPT ![s][n] = Closed(stubs[s][n])]
    <3>1. PICK r : r = Closed(stubs[s][n])
      OBVIOUS
    <3>2. stubs[s][n] \in Stub
      BY <2>3, StubPeer
    <3>3. r \in Stub /\ ~r.init
      BY <3>1, <3>2 DEF Closed, Stub
    <3>4. n \in Nat /\ StubPut(s, n, r)
      BY <1>0, <2>3, <2>8, <3>1, <3>3 DEF StubPut
    <3>5. LinkCloses(s, n, r)
      BY <2>8, <3>3, <3>4 DEF LinkCloses
    <3> QED
      BY <2>1, <3>3, <3>4, <3>5 DEF LinkStep
  <2> QED
    BY <1>3, <2>2, <2>4, <2>6, <2>7, <2>8 DEF IdentifyPeer
<1>4. CASE ReplicateTo(s)
  <2>1. PICK i : i = it[s]
    OBVIOUS
  <2>2. i \in 1..Len(stubs[s]) /\ i \in Nat /\ crashes' = crashes
    BY <1>0, <1>4, <2>1 DEF ReplicateTo, TypeOK, PositionsOK, AdminTypeOK
  <2>3. PICK b : b = stubs[s][i]
    OBVIOUS
  <2>4. b \in Stub /\ StubOK(s, b)
    BY <1>0, <2>2, <2>3, StubPeer DEF StubInv
  <2>5. CASE b.valid
    <3>1. conn' = Send(conn, b.conn, msg[s]) /\ stubs' = [stubs EXCEPT ![s][i] = stubs[s][i]]
      <4>1. Head(<< msg[s] >>) = msg[s]
        OBVIOUS
      <4> QED
        BY <1>4, <2>1, <2>3, <2>5, <4>1 DEF ReplicateTo
    <3>2. stubs' = stubs
      BY <1>0, <3>1
    <3>3. PICK k : k = b.conn
      OBVIOUS
    <3>i. b.init
      <4>1. apc[s] = "visit"
        BY <1>4 DEF ReplicateTo
      <4> QED
        BY <1>0, <2>2, <2>3, <2>5, <4>1 DEF StubInv
    <3>4. k \in ConnId /\ b.init /\ conn[k].eng # "free"
      BY <2>4, <3>3, <3>i DEF StubOK
    <3>5. conn'[k] = [conn[k] EXCEPT !.sent = TRUE, !.msg = msg[s]] /\ \A j \in ConnId \ {k} : conn'[j] = conn[j]
      BY <1>0, <3>1, <3>3, <3>4 DEF Send
    <3>6. conn'[k].from = conn[k].from /\ conn'[k].to = conn[k].to /\ (conn'[k].open <=> conn[k].open)
      <4>1. conn[k] \in Conn
        BY <1>0, <3>4
      <4> QED
        BY <3>5, <4>1 DEF Conn
    <3>7. LinkMoves(k)
      BY <2>2, <2>3, <2>5, <3>3, <3>4, <3>5, <3>6 DEF LinkMoves
    <3> QED
      BY <2>2, <3>2, <3>4, <3>7 DEF LinkStep
  <2>6. CASE ~b.valid
    <3>1. \A k : ~SocketInit(b, k).valid
      BY <2>4, <2>6 DEF SocketInit, Stub
    <3>2. PICK k \in Dialled(s, b) : stubs' = [stubs EXCEPT ![s][i] = SocketInit(b, k)] /\ conn' = Dial(s, b, k)
      BY <1>4, <2>1, <2>3, <2>6, <3>1 DEF ReplicateTo
    <3>3. PICK r : r = SocketInit(b, k)
      OBVIOUS
    <3>4. r \in Stub
      BY <2>4, <3>3, DialTypes
    <3>5. StubPut(s, i, r)
      BY <1>0, <2>2, <3>2, <3>3, <3>4 DEF StubPut
    <3>6. CASE b.init
      <4>1. conn' = conn /\ stubs' = [stubs EXCEPT ![s][i] = stubs[s][i]]
        BY <2>3, <3>2, <3>6 DEF Dial, SocketInit
      <4>2. stubs' = stubs
        BY <1>0, <4>1
      <4> QED
        BY <2>2, <4>1, <4>2 DEF LinkStep
    <3>7. CASE ~b.init
      BY <2>2, <2>3, <2>4, <3>2, <3>3, <3>5, <3>7, DialLink
    <3> QED
      BY <3>6, <3>7
  <2> QED
    BY <2>5, <2>6
<1>5. CASE ReplicationAcked(s) \/ ReplicationFailed(s)
  <2>1. PICK i, k : i = it[s] /\ k = stubs[s][i].conn
    OBVIOUS
  <2>2. apc[s] = "await" /\ i \in 1..Len(stubs[s]) /\ todo[s] = << >>
    <3>1. apc[s] = "await"
      BY <1>5 DEF ReplicationAcked, ReplicationFailed
    <3>2. it[s] \in Nat \ {0} /\ Len(stubs[s]) \in Nat
      BY <1>0, LenProperties DEF TypeOK, AdminTypeOK, ServerTypeOK
    <3>3. it[s] <= Len(stubs[s])
      BY <1>0, <3>1 DEF TypeOK, PositionsOK
    <3>4. i \in 1..Len(stubs[s])
      BY <2>1, <3>2, <3>3
    <3> QED
      BY <1>0, <3>1, <3>4 DEF RequestInv
  <2>3. stubs[s][i].valid /\ stubs[s][i].init /\ StubOK(s, stubs[s][i])
    BY <1>0, <2>1, <2>2 DEF RequestInv, StubInv
  <2>4. stubs[s][i].init /\ k \in ConnId /\ conn[k].eng # "free" /\ conn[k] \in Conn
    BY <1>0, <2>1, <2>3 DEF StubOK
  <2>5. CASE ReplicationAcked(s)
    <3>1. conn' = [conn EXCEPT ![k].ack = FALSE] /\ UNCHANGED <<stubs, crashes>>
      BY <2>1, <2>2, <2>5 DEF ReplicationAcked, srvVars
    <3>2. conn'[k] = [conn[k] EXCEPT !.ack = FALSE] /\ \A j \in ConnId \ {k} : conn'[j] = conn[j]
      BY <1>0, <2>4, <3>1
    <3>3. conn'[k].from = conn[k].from /\ conn'[k].to = conn[k].to /\ (conn'[k].open <=> conn[k].open)
      BY <2>4, <3>2 DEF Conn
    <3>4. LinkMoves(k)
      BY <2>1, <2>2, <2>3, <2>4, <3>2, <3>3 DEF LinkMoves
    <3> QED
      BY <2>4, <3>1, <3>4 DEF LinkStep
  <2>6. CASE ReplicationFailed(s)
    <3>1. conn' = [conn EXCEPT ![k] = FreeConn] /\ stubs' = [stubs EXCEPT ![s][i] = Closed(stubs[s][i])]
      BY <2>1, <2>6 DEF ReplicationFailed
    <3>2. crashes' = crashes
      BY <2>6 DEF ReplicationFailed
    <3> QED
      BY <1>0, <2>1, <2>2, <2>4, <3>1, <3>2, CloseLink
  <2> QED
    BY <1>5, <2>5, <2>6
<1> QED
  BY <1>1, <1>2, <1>3, <1>4, <1>5 DEF ProductionAdminThread, BrokenPipe

(* The steps of engineer threads.                                          *)
LEMMA EngineerLinks ==
  ASSUME TypeOK, NEW k \in ConnId, EngineerThread(k)
  PROVE  LinkStep /\ UNCHANGED <<crashes, stubs>>
<1>0. conn \in [ConnId -> Conn] /\ conn[k] \in Conn
  BY DEF TypeOK
<1>1. UNCHANGED <<crashes, stubs>> /\ \A j \in ConnId \ {k} : conn'[j] = conn[j]
  BY <1>0 DEF EngineerThread, ReceiveStatusInfo, StatusLost, ReceiveReplicationRequest, StoreCommittedIndex,
              StoreLastIndex, EngineerPlaceOrder, SendReplicationResult, PeerHangup, srvVars
<1>2. CASE StatusLost(k) \/ PeerHangup(k)
  <2>1. conn'[k] = FreeConn \/ conn'[k] = [conn[k] EXCEPT !.eng = "spin"]
    BY <1>0, <1>2 DEF StatusLost, PeerHangup
  <2>2. conn'[k].eng = "free" \/ (conn'[k].from = conn[k].from /\ (conn'[k].open <=> conn[k].open))
    BY <1>0, <2>1 DEF FreeConn, Conn
  <2>3. LinkEnds(k)
    BY <1>1, <1>2, <2>2 DEF LinkEnds, StatusLost, PeerHangup
  <2> QED
    BY <1>1, <2>3 DEF LinkStep
<1>3. CASE ~StatusLost(k) /\ ~PeerHangup(k)
  <2>1. /\ conn[k].eng \notin {"free", "dead"} /\ (conn[k].eng = "status" => conn[k].ident)
        /\ conn'[k].from = conn[k].from /\ conn'[k].to = conn[k].to /\ (conn'[k].open <=> conn[k].open)
    <3>1. CASE ReceiveStatusInfo(k) \/ ReceiveReplicationRequest(k) \/ StoreCommittedIndex(k) \/ StoreLastIndex(k)
      BY <1>0, <3>1 DEF ReceiveStatusInfo, ReceiveReplicationRequest, StoreCommittedIndex, StoreLastIndex, Conn
    <3>2. CASE EngineerPlaceOrder(k) \/ SendReplicationResult(k)
      BY <1>0, <3>2 DEF EngineerPlaceOrder, SendReplicationResult, Conn
    <3> QED
      BY <1>3, <3>1, <3>2 DEF EngineerThread
  <2>2. LinkMoves(k)
    BY <1>1, <2>1 DEF LinkMoves
  <2> QED
    BY <1>1, <2>2 DEF LinkStep
<1> QED
  BY <1>2, <1>3

(* Every step of the system in which nobody dies is one of these.          *)
LEMMA LinkSteps ==
  ASSUME TypeOK, FactoryInv, [Next]_vars, ~\E s \in Server : Die(s)
  PROVE  LinkStep /\ crashes' = crashes
<1>1. ASSUME NEW c \in Customer, Client(c) PROVE UNCHANGED <<stubs, conn, crashes>>
  BY <1>1 DEF Client, StartSession, SendOrder, CreateRegularLaptop, SendLaptop, ClientGone, srvVars
<1>2. ASSUME NEW s \in Server, Restart(s) PROVE UNCHANGED <<stubs, conn, crashes>>
  BY <1>2 DEF Restart
<1>3. ASSUME UNCHANGED vars PROVE UNCHANGED <<stubs, conn, crashes>>
  BY <1>3 DEF vars, srvVars
<1>4. \A s \in Server : ~Crash(s)
  BY DEF Crash
<1> QED
  BY <1>1, <1>2, <1>3, <1>4, AdminLinks, EngineerLinks DEF Next, LinkStep

(* A connection that is in use has a stub at its open end, and has lost    *)
(* that end only with the sender.                                          *)
Owned(k) ==
  conn[k].eng # "free" =>
    IF conn[k].open
    THEN \E i \in 1..Len(stubs[conn[k].from]) :
           stubs[conn[k].from][i].init /\ stubs[conn[k].from][i].conn = k
    ELSE crashes[conn[k].from] > 0

(* A reconnected stub has sent no identification and never will.           *)
Rejoined(s, i) ==
  LET b == stubs[s][i] IN
  ~b.valid /\ b.init => conn[b.conn].eng \in {"status", "dead"} /\ ~conn[b.conn].ident

LinkInv ==
  /\ \A k \in ConnId : Owned(k)
  /\ \A s \in Server : \A i \in 1..Len(stubs[s]) : Rejoined(s, i)

(* Connections keep their owners.                                          *)
LEMMA OwnedStep ==
  ASSUME TypeOK, FactoryInv, LinkInv, LinkStep, crashes' = crashes, NEW k \in ConnId
  PROVE  Owned(k)'
<1>0. StubInv /\ Owned(k) /\ ConnOK(k)
  BY DEF FactoryInv, LinkInv, StubInv
<1>1. CASE UNCHANGED <<stubs, conn>>
  BY <1>0, <1>1 DEF Owned
<1>2. ASSUME NEW s \in Server, NEW i \in Nat, NEW r \in Stub, NEW l \in ConnId, LinkOpens(s, i, r, l)
      PROVE  Owned(k)'
  <2>1. CASE k = l
    BY <1>2, <2>1 DEF LinkOpens, StubPut, Owned
  <2>2. CASE k # l
    <3>1. conn'[k] = conn[k]
      BY <1>2, <2>2 DEF LinkOpens
    <3>2. ASSUME NEW t \in Server, NEW j \in 1..Len(stubs[t]), stubs[t][j].init
          PROVE  j \in 1..Len(stubs'[t]) /\ stubs'[t][j] = stubs[t][j]
      BY <1>2, <3>2 DEF LinkOpens, StubPut
    <3> QED
      BY <1>0, <3>1, <3>2 DEF Owned, ConnOK
  <2> QED
    BY <2>1, <2>2
<1>3. ASSUME NEW s \in Server, NEW i \in Nat, NEW r \in Stub, LinkCloses(s, i, r)
      PROVE  Owned(k)'
  <2>1. CASE conn'[k].eng = "free"
    BY <2>1 DEF Owned
  <2>2. CASE conn'[k].eng # "free"
    <3>1. conn'[k] = conn[k]
      BY <1>3, <2>2 DEF LinkCloses
    <3>2. ASSUME NEW t \in Server, NEW j \in 1..Len(stubs[t]), stubs[t][j].init, stubs[t][j].conn = k
          PROVE  j \in 1..Len(stubs'[t]) /\ stubs'[t][j] = stubs[t][j]
      BY <1>3, <2>2, <3>2 DEF LinkCloses, StubPut
    <3> QED
      BY <1>0, <3>1, <3>2 DEF Owned, ConnOK
  <2> QED
    BY <2>1, <2>2
<1>4. ASSUME stubs' = stubs, NEW l \in ConnId, LinkMoves(l) \/ LinkEnds(l) PROVE Owned(k)'
  BY <1>0, <1>4 DEF LinkMoves, LinkEnds, Owned
<1> QED
  BY <1>1, <1>2, <1>3, <1>4 DEF LinkStep

(* Reconnected stubs stay silent.                                          *)
LEMMA RejoinedStep ==
  ASSUME TypeOK, FactoryInv, LinkInv, LinkStep, NEW t \in Server, NEW j \in 1..Len(stubs'[t])
  PROVE  Rejoined(t, j)'
<1>0. StubInv
  BY DEF FactoryInv
<1>1. ASSUME NEW s \in Server, NEW i \in 1..Len(stubs[s]), stubs[s][i].init
      PROVE  /\ stubs[s][i].conn \in ConnId /\ conn[stubs[s][i].conn].from = s
             /\ conn[stubs[s][i].conn].eng # "free" /\ conn[stubs[s][i].conn].open
             /\ Rejoined(s, i)
  BY <1>0, <1>1 DEF StubInv, StubOK, LinkInv
<1>2. CASE UNCHANGED <<stubs, conn>>
  BY <1>2 DEF LinkInv, Rejoined
<1>3. ASSUME NEW s \in Server, NEW i \in Nat, NEW r \in Stub, NEW l \in ConnId, LinkOpens(s, i, r, l)
      PROVE  Rejoined(t, j)'
  <2>1. CASE t = s /\ j = i
    BY <1>3, <2>1 DEF LinkOpens, StubPut, Rejoined
  <2>2. CASE ~(t = s /\ j = i)
    <3>1. j \in 1..Len(stubs[t]) /\ stubs'[t][j] = stubs[t][j]
      BY <1>3, <2>2 DEF LinkOpens, StubPut
    <3>2. stubs[t][j].init => conn'[stubs[t][j].conn] = conn[stubs[t][j].conn]
      BY <1>1, <1>3, <3>1 DEF LinkOpens
    <3> QED
      BY <1>1, <3>1, <3>2 DEF Rejoined
  <2> QED
    BY <2>1, <2>2
<1>4. ASSUME NEW s \in Server, NEW i \in Nat, NEW r \in Stub, LinkCloses(s, i, r)
      PROVE  Rejoined(t, j)'
  <2>1. CASE t = s /\ j = i
    BY <1>4, <2>1 DEF LinkCloses, StubPut, Rejoined
  <2>2. CASE ~(t = s /\ j = i)
    <3>1. j \in 1..Len(stubs[t]) /\ stubs'[t][j] = stubs[t][j]
      BY <1>4, <2>2 DEF LinkCloses, StubPut
    <3>2. ASSUME stubs[t][j].init, NEW k \in ConnId, k = stubs[t][j].conn PROVE conn'[k] = conn[k]
      <4>1. conn[k].from = t
        BY <1>1, <3>1, <3>2
      <4>2. SUFFICES ASSUME stubs[s][i].conn = k, conn[k].from = s, conn'[k] # conn[k] PROVE FALSE
        BY <1>4 DEF LinkCloses
      <4>3. j # i /\ t = s
        BY <2>2, <4>1, <4>2
      <4>4. i \in 1..Len(stubs[s]) => ~stubs[s][i].init
        BY <1>0, <3>1, <3>2, <4>2, <4>3 DEF StubInv
      <4> QED
        BY <1>4, <3>2, <4>2, <4>3, <4>4 DEF LinkCloses
    <3> QED
      BY <1>1, <3>1, <3>2 DEF Rejoined
  <2> QED
    BY <2>1, <2>2
<1>5. ASSUME stubs' = stubs, NEW l \in ConnId, LinkMoves(l) \/ LinkEnds(l) PROVE Rejoined(t, j)'
  <2>1. j \in 1..Len(stubs[t])
    BY <1>5
  <2>2. SUFFICES ASSUME ~stubs[t][j].valid, stubs[t][j].init PROVE conn'[stubs[t][j].conn] = conn[stubs[t][j].conn]
    BY <1>1, <1>5, <2>1 DEF Rejoined
  <2>3. SUFFICES ASSUME stubs[t][j].conn = l PROVE FALSE
    BY <1>1, <1>5, <2>1, <2>2 DEF LinkMoves, LinkEnds
  <2>4. conn[l].eng \in {"status", "dead"} /\ ~conn[l].ident /\ conn[l].open /\ conn[l].from = t
    BY <1>1, <2>1, <2>2, <2>3 DEF Rejoined
  <2>s. PICK s \in Server : \E i \in 1..Len(stubs[s]) : stubs[s][i].valid /\ stubs[s][i].init /\ stubs[s][i].conn = l
    BY <1>5, <2>4 DEF LinkMoves, LinkEnds
  <2>5. PICK i \in 1..Len(stubs[s]) : stubs[s][i].valid /\ stubs[s][i].init /\ stubs[s][i].conn = l
    BY <2>s
  <2>6. s = t /\ i = j
    BY <1>0, <1>1, <2>1, <2>2, <2>3, <2>4, <2>5 DEF StubInv
  <2> QED
    BY <2>2, <2>5, <2>6
<1> QED
  BY <1>2, <1>3, <1>4, <1>5 DEF LinkStep

(* What the death of s leaves of connection k.                             *)
LEMMA CrashedLink ==
  ASSUME TypeOK, NEW s \in Server, Die(s), NEW k \in ConnId
  PROVE  /\ conn[k].open /\ conn[k].from # s /\ conn[k].eng # "free" => conn'[k].eng # "free"
         /\ conn'[k].eng # "free" =>
              /\ conn[k].eng # "free" /\ conn'[k].eng \in {conn[k].eng, "dead"}
              /\ conn'[k].from = conn[k].from /\ conn'[k].to = conn[k].to
              /\ conn'[k].open <=> conn[k].open /\ conn[k].from # s
              /\ conn'[k].ident => conn[k].ident
         /\ conn'[k].eng \in Busy \/ conn'[k].sent =>
              /\ conn'[k].eng = conn[k].eng /\ conn'[k].msg = conn[k].msg
              /\ (conn'[k].sent <=> conn[k].sent) /\ conn[k].to # s
<1> DEFINE c == conn[k]
           open == c.open /\ c.from # s
<1>0. c \in Conn /\ conn'[k] = AfterCrash(c, s)
  BY DEF TypeOK, Die
<1>1. CASE c.eng = "free" \/ ((c.to = s \/ c.eng = "dead") /\ ~open)
  <2>1. conn'[k] = FreeConn
    BY <1>0, <1>1 DEF AfterCrash
  <2>2. conn'[k].eng = "free" /\ ~conn'[k].sent
    BY <2>1 DEF FreeConn
  <2> QED
    BY <1>1, <2>2 DEF Busy
<1>2. CASE c.eng # "free" /\ (c.to = s \/ c.eng = "dead") /\ open
  <2>1. conn'[k] = [FreeConn EXCEPT !.from = c.from, !.to = c.to, !.open = TRUE, !.ack = c.ack, !.eng = "dead"]
    BY <1>0, <1>2 DEF AfterCrash
  <2>2. /\ conn'[k].from = c.from /\ conn'[k].to = c.to /\ conn'[k].open /\ conn'[k].eng = "dead"
        /\ ~conn'[k].ident /\ ~conn'[k].sent
    BY <2>1 DEF FreeConn
  <2> QED
    BY <1>2, <2>2 DEF Busy
<1>3. CASE c.eng # "free" /\ ~(c.to = s \/ c.eng = "dead")
  <2>1. conn'[k] = [c EXCEPT !.open = open, !.ack = c.ack /\ open]
    BY <1>0, <1>3 DEF AfterCrash
  <2>2. conn'[k].from = c.from /\ conn'[k].to = c.to /\ conn'[k].eng = c.eng /\ conn'[k].msg = c.msg
    BY <1>0, <2>1 DEF Conn
  <2>3. conn'[k].ident = c.ident /\ conn'[k].sent = c.sent
    BY <1>0, <2>1 DEF Conn
  <2>4. conn'[k].open = open
    BY <1>0, <2>1 DEF Conn
  <2> QED
    BY <1>3, <2>2, <2>3, <2>4
<1> QED
  BY <1>1, <1>2, <1>3

(* The death of a server keeps LinkInv.                                    *)
LEMMA DieLink ==
  ASSUME TypeOK, FactoryInv, LinkInv, NEW s \in Server, Die(s)
  PROVE  LinkInv'
<1>0. /\ StubInv /\ stubs \in [Server -> Seq(Stub)] /\ crashes \in [Server -> Nat]
      /\ stubs' = [stubs EXCEPT ![s] = << >>] /\ crashes' = [crashes EXCEPT ![s] = crashes[s] + 1]
  BY DEF FactoryInv, TypeOK, ServerTypeOK, Die
<1>s. Len(stubs'[s]) = 0 /\ \A t \in Server \ {s} : stubs'[t] = stubs[t]
  BY <1>0
<1>c. crashes'[s] > 0 /\ \A t \in Server : crashes[t] > 0 => crashes'[t] > 0
  BY <1>0
<1>1. ASSUME NEW k \in ConnId, conn'[k].eng # "free" PROVE Owned(k)'
  <2>1. /\ conn[k].eng # "free" /\ conn'[k].from = conn[k].from /\ conn[k].from \in Server
        /\ conn'[k].open <=> conn[k].open /\ conn[k].from # s
        /\ Owned(k)
    BY <1>0, <1>1, CrashedLink DEF StubInv, ConnOK, LinkInv
  <2> QED
    BY <1>s, <1>c, <2>1 DEF Owned
<1>2. ASSUME NEW t \in Server, NEW i \in 1..Len(stubs'[t]) PROVE Rejoined(t, i)'
  <2>1. t # s /\ stubs'[t] = stubs[t] /\ Rejoined(t, i) /\ StubOK(t, stubs[t][i])
    BY <1>0, <1>s DEF LinkInv, StubInv
  <2>2. SUFFICES ASSUME ~stubs[t][i].valid, stubs[t][i].init,
                        NEW k \in ConnId, k = stubs[t][i].conn, conn[k].open, conn[k].from = t, conn[k].eng # "free"
                 PROVE  conn'[k].eng \in {"status", "dead"} /\ ~conn'[k].ident
    BY <2>1 DEF Rejoined, StubOK
  <2> QED
    BY <2>1, <2>2, CrashedLink DEF Rejoined
<1> QED
  BY <1>1, <1>2 DEF LinkInv, Owned

(* Every step keeps connections owned and reconnected stubs silent.        *)
LEMMA NextLink ==
  ASSUME TypeOK, FactoryInv, LinkInv, [Next]_vars
  PROVE  LinkInv'
<1>1. CASE \E s \in Server : Die(s)
  BY <1>1, DieLink
<1>2. CASE ~\E s \in Server : Die(s)
  <2>1. LinkStep /\ crashes' = crashes
    BY <1>2, LinkSteps
  <2> QED
    BY <2>1, OwnedStep, RejoinedStep DEF LinkInv
<1> QED
  BY <1>1, <1>2

(* No connection is in use and there are no stubs at the start.            *)
LEMMA InitLink == Init => LinkInv
<1> SUFFICES ASSUME Init PROVE LinkInv
  OBVIOUS
<1>1. \A s \in Server : Len(stubs[s]) = 0
  BY DEF Init
<1>2. \A k \in ConnId : conn[k].eng = "free"
  BY DEF Init, FreeConn
<1> QED
  BY <1>1, <1>2 DEF LinkInv, Owned

-----------------------------------------------------------------------------
(* Orders and the times of their customers.                                *)

(* Order o is older than the order its customer places or will place.      *)
Before(o) ==
  \/ o.sess < sess[o.cust]
  \/ o.sess = sess[o.cust] /\ o.num < cnum[o.cust]

(* Order o is older, or is the one its customer has sent.                  *)
Past(o) == Before(o) \/ (o = OrderOf(o.cust) /\ cpc[o.cust] # "ready")

(* Logs, requests, acknowledgements and what dead clients left behind are  *)
(* about orders of the past or of now, and no order was both answered and  *)
(* left behind.                                                            *)
PastInv ==
  /\ \A s \in Server : \A j \in 1..Len(log[s]) : Past(log[s][j])
  /\ \A k \in ConnId : conn[k].sent \/ conn[k].eng \in Busy => Past(conn[k].msg.ord)
  /\ \A a \in acked : Before(a.ord)
  /\ \A o \in abandoned : Past(o)
  /\ \A a \in acked : a.ord \notin abandoned

(* What a client does leaves the past the past.                            *)
LEMMA PastStays ==
  ASSUME TypeOK, FactoryInv, [Next]_vars, NEW o \in Order
  PROVE  (Past(o) => Past(o)') /\ (Before(o) => Before(o)')
<1> DEFINE c == o.cust
<1>0. /\ c \in Customer /\ o.sess \in Nat /\ o.num \in Nat
      /\ sess \in [Customer -> Nat] /\ cnum \in [Customer -> Nat] /\ cpc \in [Customer -> ClientPC]
  BY DEF Order, TypeOK, ClientTypeOK
<1>1. \/ sess'[c] = sess[c] /\ cnum'[c] = cnum[c] /\ (cpc'[c] = "ready" => cpc[c] = "ready")
      \/ sess'[c] = sess[c] + 1
      \/ sess'[c] = sess[c] /\ cnum'[c] = cnum[c] + 1
  <2>1. ASSUME NEW d \in Customer, Client(d)
        PROVE  \/ sess'[c] = sess[c] /\ cnum'[c] = cnum[c] /\ (cpc'[c] = "ready" => cpc[c] = "ready")
               \/ sess'[c] = sess[c] + 1
               \/ sess'[c] = sess[c] /\ cnum'[c] = cnum[c] + 1
    BY <1>0, <2>1 DEF Client, StartSession, SendOrder, CreateRegularLaptop, SendLaptop, ClientGone, clientVars
  <2>2. ASSUME NEW s \in Server, Die(s)
        PROVE  sess' = sess /\ cnum' = cnum /\ (cpc'[c] = "ready" => cpc[c] = "ready")
    BY <1>0, <2>2 DEF Die
  <2>3. ASSUME NEW s \in Server, ProductionAdminThread(s), ~BrokenPipe(s)
        PROVE  sess' = sess /\ cnum' = cnum /\ (cpc'[c] = "ready" => cpc[c] = "ready")
    <3>1. CASE CommitOrder(s)
      BY <1>0, <3>1 DEF CommitOrder
    <3>2. CASE ~CommitOrder(s)
      BY <2>3, <3>2 DEF ProductionAdminThread, AdminDequeue, ReadCommitted, ClaimPrimary, ConnectPeer, IdentifyPeer,
           ReadIndex, BuildRequest, ReplicateTo, ReplicationAcked, ReplicationFailed, AdminPlaceOrder, clientVars
    <3> QED
      BY <3>1, <3>2
  <2>4. ASSUME NEW k \in ConnId, EngineerThread(k) PROVE UNCHANGED clientVars
    BY <2>4 DEF EngineerThread, ReceiveStatusInfo, StatusLost, ReceiveReplicationRequest, StoreCommittedIndex,
                StoreLastIndex, EngineerPlaceOrder, SendReplicationResult, PeerHangup
  <2>5. ASSUME (\E s \in Server : Restart(s)) \/ UNCHANGED vars PROVE UNCHANGED clientVars
    BY <2>5 DEF Restart, vars
  <2> QED
    BY <2>1, <2>2, <2>3, <2>4, <2>5 DEF Next, Crash, BrokenPipe, clientVars
<1>2. ASSUME Before(o) PROVE Before(o)'
  BY <1>0, <1>1, <1>2 DEF Before
<1>3. ASSUME o = OrderOf(c), cpc[c] # "ready" PROVE Past(o)'
  <2>1. o.sess = sess[c] /\ o.num = cnum[c]
    BY <1>3 DEF OrderOf
  <2> QED
    BY <1>0, <1>1, <1>3, <2>1 DEF Past, Before, OrderOf
<1> QED
  BY <1>2, <1>3 DEF Past

(* A log gets longer when an admin thread places its order, or an engineer *)
(* thread the order of its request.                                        *)
LEMMA LogSteps ==
  ASSUME TypeOK, FactoryInv, [Next]_vars, NEW t \in Server
  PROVE  \/ log'[t] = log[t]
         \/ log'[t] = << >>
         \/ AdminPlaceOrder(t) /\ cur[t] \in Order /\ log'[t] = Append(log[t], cur[t])
         \/ \E k \in ConnId : /\ EngineerPlaceOrder(k) /\ conn[k].to = t /\ conn[k].msg.ord \in Order
                              /\ log'[t] = Append(log[t], conn[k].msg.ord)
<1>0. log \in [Server -> Seq(Order)] /\ RequestInv /\ StubInv
  BY DEF TypeOK, ServerTypeOK, FactoryInv
<1>1. ASSUME NEW c \in Customer, Client(c) PROVE log' = log
  BY <1>1 DEF Client, StartSession, SendOrder, CreateRegularLaptop, SendLaptop, ClientGone, srvVars
<1>2. ASSUME NEW s \in Server, Die(s) PROVE log'[t] = log[t] \/ log'[t] = << >>
  BY <1>0, <1>2 DEF Die
<1>3. ASSUME NEW s \in Server, ProductionAdminThread(s), ~BrokenPipe(s), ~AdminPlaceOrder(s) PROVE log' = log
  BY <1>3 DEF ProductionAdminThread, AdminDequeue, ReadCommitted, ClaimPrimary, ConnectPeer, IdentifyPeer,
       ReadIndex, BuildRequest, ReplicateTo, ReplicationAcked, ReplicationFailed, CommitOrder, srvVars
<1>4. ASSUME NEW s \in Server, AdminPlaceOrder(s)
      PROVE  cur[s] \in Order /\ log'[s] = Append(log[s], cur[s]) /\ (s # t => log'[t] = log[t])
  <2>1. cur[s] \in Order
    BY <1>4 DEF AdminPlaceOrder, FactoryInv, ClientInv, QueueOK
  <2> QED
    BY <1>0, <1>4, <2>1 DEF AdminPlaceOrder, place_order
<1>5. ASSUME NEW k \in ConnId, EngineerThread(k), ~EngineerPlaceOrder(k) PROVE log' = log
  BY <1>5 DEF EngineerThread, ReceiveStatusInfo, StatusLost, ReceiveReplicationRequest, StoreCommittedIndex,
              StoreLastIndex, SendReplicationResult, PeerHangup, srvVars
<1>6. ASSUME NEW k \in ConnId, EngineerPlaceOrder(k)
      PROVE  \/ log'[t] = log[t]
             \/ /\ conn[k].to = t /\ conn[k].msg.ord \in Order
                /\ log'[t] = Append(log[t], conn[k].msg.ord)
  <2>1. conn[k].eng = "place" /\ place_order(conn[k].to, conn[k].msg.ord)
    BY <1>6 DEF EngineerPlaceOrder
  <2>2. conn[k].to \in Server /\ conn[k].msg.ord \in Order
    BY <1>0, <2>1 DEF RequestInv, PendingOK, StubInv, ConnOK, Busy
  <2> QED
    BY <1>0, <2>1, <2>2 DEF place_order
<1>7. ASSUME (\E s \in Server : Restart(s)) \/ UNCHANGED vars PROVE log' = log
  BY <1>7 DEF Restart, vars, srvVars
<1> QED
  BY <1>1, <1>2, <1>3, <1>4, <1>5, <1>6, <1>7 DEF Next, Crash, BrokenPipe, ProductionAdminThread, EngineerThread

(* What is on its way or being handled was so before, or is the order of   *)
(* an admin thread.                                                        *)
LEMMA RequestSteps ==
  ASSUME TypeOK, FactoryInv, [Next]_vars, NEW k \in ConnId, conn'[k].sent \/ conn'[k].eng \in Busy
  PROVE  \/ (conn[k].sent \/ conn[k].eng \in Busy) /\ conn'[k].msg = conn[k].msg
         \/ \E s \in Server : apc[s] = "visit" /\ conn'[k].msg = msg[s]
<1>0. /\ conn \in [ConnId -> Conn] /\ conn[k] \in Conn /\ StubInv /\ RequestInv
      /\ stubs \in [Server -> Seq(Stub)]
  BY DEF TypeOK, ServerTypeOK, FactoryInv
<1>s. SUFFICES ASSUME conn'[k] # conn[k]
               PROVE  \/ (conn[k].sent \/ conn[k].eng \in Busy) /\ conn'[k].msg = conn[k].msg
                      \/ \E s \in Server : apc[s] = "visit" /\ conn'[k].msg = msg[s]
  OBVIOUS
<1>f. conn'[k] # FreeConn
  BY DEF FreeConn, Busy
<1>1. ASSUME NEW c \in Customer, Client(c) PROVE conn' = conn
  BY <1>1 DEF Client, StartSession, SendOrder, CreateRegularLaptop, SendLaptop, ClientGone
<1>2. ASSUME NEW s \in Server, Die(s)
      PROVE  (conn[k].sent \/ conn[k].eng \in Busy) /\ conn'[k].msg = conn[k].msg
  BY <1>2, CrashedLink
<1>3. ASSUME NEW s \in Server, ProductionAdminThread(s), ~BrokenPipe(s)
      PROVE  \/ (conn[k].sent \/ conn[k].eng \in Busy) /\ conn'[k].msg = conn[k].msg
             \/ apc[s] = "visit" /\ conn'[k].msg = msg[s]
  <2>1. CASE \/ AdminDequeue(s) \/ ReadCommitted(s) \/ ClaimPrimary(s) \/ ReadIndex(s) \/ BuildRequest(s)
             \/ AdminPlaceOrder(s) \/ CommitOrder(s)
    BY <1>s, <2>1 DEF AdminDequeue, ReadCommitted, ClaimPrimary, ReadIndex, BuildRequest, AdminPlaceOrder, CommitOrder
  <2>d. ASSUME NEW b, NEW l, conn'[k] = Dial(s, b, l)[k] PROVE FALSE
    <3>1. conn'[k] = [FreeConn EXCEPT !.from = s, !.to = b.peer, !.open = TRUE, !.eng = "status"]
      BY <1>0, <1>s, <2>d DEF Dial
    <3>2. ~conn'[k].sent /\ conn'[k].eng = "status"
      BY <3>1 DEF FreeConn
    <3> QED
      BY <3>2 DEF Busy
  <2>2. CASE ConnectPeer(s)
    BY <2>2, <2>d DEF ConnectPeer
  <2>3. CASE IdentifyPeer(s)
    <3>1. conn'[k] = [conn[k] EXCEPT !.ident = TRUE]
      BY <1>0, <1>f, <1>s, <2>3 DEF IdentifyPeer
    <3> QED
      BY <1>0, <3>1 DEF Conn
  <2>4. CASE ReplicateTo(s)
    <3> DEFINE b == stubs[s][it[s]]
    <3>1. CASE b.valid
      <4>1. conn' = Send(conn, b.conn, msg[s]) /\ apc[s] = "visit"
        <5>1. Head(<< msg[s] >>) = msg[s]
          OBVIOUS
        <5> QED
          BY <2>4, <3>1, <5>1 DEF ReplicateTo
      <4>2. conn'[k] = [conn[k] EXCEPT !.sent = TRUE, !.msg = msg[s]]
        BY <1>0, <1>s, <4>1 DEF Send
      <4> QED
        BY <1>0, <4>1, <4>2 DEF Conn
    <3>2. CASE ~b.valid
      <4>1. it[s] \in 1..Len(stubs[s])
        <5>1. apc[s] = "visit"
          BY <2>4 DEF ReplicateTo
        <5>2. it[s] \in Nat \ {0} /\ Len(stubs[s]) \in Nat
          BY <1>0, LenProperties DEF TypeOK, AdminTypeOK, ServerTypeOK
        <5>3. it[s] <= Len(stubs[s])
          BY <1>0, <5>1 DEF TypeOK, PositionsOK
        <5> QED
          BY <5>2, <5>3
      <4>2. b \in Stub
        BY <4>1, StubPeer
      <4>3. \A l : ~SocketInit(b, l).valid
        BY <3>2, <4>2 DEF SocketInit, Stub
      <4>4. \E l : conn' = Dial(s, b, l)
        BY <2>4, <3>2, <4>3 DEF ReplicateTo
      <4> QED
        BY <2>d, <4>4
    <3> QED
      BY <3>1, <3>2
  <2>5. CASE ReplicationAcked(s)
    <3>1. conn' = [conn EXCEPT ![stubs[s][it[s]].conn].ack = FALSE]
      BY <1>0, <2>5 DEF ReplicationAcked, RequestInv
    <3>2. conn'[k] = [conn[k] EXCEPT !.ack = FALSE]
      BY <1>0, <1>s, <3>1
    <3> QED
      BY <1>0, <3>2 DEF Conn
  <2>6. CASE ReplicationFailed(s)
    BY <1>0, <1>f, <1>s, <2>6 DEF ReplicationFailed
  <2> QED
    BY <1>3, <2>1, <2>2, <2>3, <2>4, <2>5, <2>6 DEF ProductionAdminThread
<1>4. ASSUME NEW j \in ConnId, EngineerThread(j)
      PROVE  (conn[k].sent \/ conn[k].eng \in Busy) /\ conn'[k].msg = conn[k].msg
  <2>1. CASE StatusLost(j) \/ PeerHangup(j)
    <3>1. conn'[k] = [conn[k] EXCEPT !.eng = "spin"]
      BY <1>0, <1>f, <1>s, <2>1 DEF StatusLost, PeerHangup
    <3> QED
      BY <1>0, <3>1 DEF Conn, Busy
  <2>2. CASE ReceiveStatusInfo(j)
    BY <1>0, <1>s, <2>2 DEF ReceiveStatusInfo, Conn, Busy
  <2>3. CASE ReceiveReplicationRequest(j) \/ StoreCommittedIndex(j) \/ StoreLastIndex(j) \/ EngineerPlaceOrder(j)
    BY <1>0, <1>s, <2>3 DEF ReceiveReplicationRequest, StoreCommittedIndex, StoreLastIndex, EngineerPlaceOrder, Conn, Busy
  <2>4. CASE SendReplicationResult(j)
    <3>1. conn'[k] = [conn[k] EXCEPT !.eng = "recv", !.ack = conn[k].open, !.msg = NoMsg] /\ conn[k].eng = "reply"
      BY <1>0, <1>s, <2>4 DEF SendReplicationResult
    <3>2. (conn'[k].sent <=> conn[k].sent) /\ conn'[k].eng = "recv"
      BY <1>0, <3>1 DEF Conn
    <3>3. ~conn[k].sent
      BY <1>0, <3>1 DEF RequestInv, PendingOK, Busy
    <3> QED
      BY <3>2, <3>3 DEF Busy
  <2> QED
    BY <1>4, <2>1, <2>2, <2>3, <2>4 DEF EngineerThread
<1>5. ASSUME (\E s \in Server : Restart(s)) \/ UNCHANGED vars PROVE conn' = conn
  BY <1>5 DEF Restart, vars
<1> QED
  BY <1>s, <1>1, <1>2, <1>3, <1>4, <1>5 DEF Next, Crash, BrokenPipe

(* Orders are acknowledged when their laptops are sent.                    *)
LEMMA AckedSteps ==
  ASSUME [Next]_vars
  PROVE  acked' = acked \/ \E c \in Customer : SendLaptop(c)
<1>1. ASSUME NEW c \in Customer, Client(c), ~SendLaptop(c) PROVE acked' = acked
  BY <1>1 DEF Client, StartSession, SendOrder, CreateRegularLaptop, ClientGone
<1>2. ASSUME NEW s \in Server, ProductionAdminThread(s) PROVE acked' = acked
  BY <1>2 DEF ProductionAdminThread, AdminDequeue, ReadCommitted, ClaimPrimary, ConnectPeer, IdentifyPeer,
       ReadIndex, BuildRequest, ReplicateTo, ReplicationAcked, ReplicationFailed, AdminPlaceOrder, CommitOrder,
       BrokenPipe, Die
<1>3. ASSUME NEW k \in ConnId, EngineerThread(k) PROVE acked' = acked
  BY <1>3 DEF EngineerThread, ReceiveStatusInfo, StatusLost, ReceiveReplicationRequest, StoreCommittedIndex,
       StoreLastIndex, EngineerPlaceOrder, SendReplicationResult, PeerHangup
<1>4. ASSUME (\E s \in Server : Crash(s) \/ Restart(s)) \/ UNCHANGED vars PROVE acked' = acked
  BY <1>4 DEF Crash, Die, Restart, vars
<1> QED
  BY <1>1, <1>2, <1>3, <1>4 DEF Next

(* Orders are abandoned by clients that die.                               *)
LEMMA AbandonedSteps ==
  ASSUME [Next]_vars
  PROVE  abandoned' = abandoned \/ \E c \in Customer : ClientGone(c)
<1>1. ASSUME NEW c \in Customer, Client(c), ~ClientGone(c) PROVE abandoned' = abandoned
  BY <1>1 DEF Client, StartSession, SendOrder, CreateRegularLaptop, SendLaptop
<1>2. ASSUME NEW s \in Server, ProductionAdminThread(s) PROVE abandoned' = abandoned
  BY <1>2 DEF ProductionAdminThread, AdminDequeue, ReadCommitted, ClaimPrimary, ConnectPeer, IdentifyPeer,
       ReadIndex, BuildRequest, ReplicateTo, ReplicationAcked, ReplicationFailed, AdminPlaceOrder, CommitOrder,
       BrokenPipe, Die
<1>3. ASSUME NEW k \in ConnId, EngineerThread(k) PROVE abandoned' = abandoned
  BY <1>3 DEF EngineerThread, ReceiveStatusInfo, StatusLost, ReceiveReplicationRequest, StoreCommittedIndex,
       StoreLastIndex, EngineerPlaceOrder, SendReplicationResult, PeerHangup
<1>4. ASSUME (\E s \in Server : Crash(s) \/ Restart(s)) \/ UNCHANGED vars PROVE abandoned' = abandoned
  BY <1>4 DEF Crash, Die, Restart, vars
<1> QED
  BY <1>1, <1>2, <1>3, <1>4 DEF Next

(* Every step keeps the past the past.                                     *)
LEMMA NextPast ==
  ASSUME TypeOK, FactoryInv, PastInv, [Next]_vars
  PROVE  PastInv'
<1>0. log \in [Server -> Seq(Order)] /\ RequestInv /\ ClientInv
  BY DEF TypeOK, ServerTypeOK, FactoryInv
<1>c. ASSUME NEW s \in Server, apc[s] # "idle" PROVE cur[s] \in Order /\ Past(cur[s])
  <2>1. cur[s] \in Order /\ cur[s] \in Expected(s)
    BY <1>0, <1>c DEF ClientInv, QueueOK
  <2>2. Outstanding(s, cur[s]) \/ cur[s] \in abandoned
    BY <2>1, ExpectedOf
  <2> QED
    BY <2>1, <2>2 DEF Outstanding, Past, PastInv
<1>k. ASSUME NEW k \in ConnId, conn[k].sent \/ conn[k].eng \in Busy
      PROVE  conn[k].msg.ord \in Order /\ Past(conn[k].msg.ord)
  BY <1>0, <1>k DEF RequestInv, PendingOK, PastInv
<1>1. ASSUME NEW s \in Server, NEW j \in 1..Len(log'[s]) PROVE Past(log[s][j])'
  <2>1. log[s] \in Seq(Order) /\ \A i \in 1..Len(log[s]) : log[s][i] \in Order /\ Past(log[s][i])
    BY <1>0, ElementOfSeq DEF PastInv
  <2>2. \E o \in Order : Past(o) /\ log'[s][j] = o
    <3>1. CASE log'[s] = log[s]
      BY <2>1, <3>1
    <3>2. CASE log'[s] = << >>
      BY <3>2
    <3>3. ASSUME NEW o \in Order, Past(o), log'[s] = Append(log[s], o) PROVE \E x \in Order : Past(x) /\ log'[s][j] = x
      <4>1. /\ Len(log'[s]) = Len(log[s]) + 1 /\ Len(log[s]) \in Nat /\ log'[s][Len(log[s]) + 1] = o
            /\ \A i \in 1..Len(log[s]) : log'[s][i] = log[s][i]
        BY <2>1, <3>3, AppendProperties
      <4>2. j \in 1..Len(log[s]) \/ j = Len(log[s]) + 1
        BY <4>1
      <4> QED
        BY <2>1, <3>3, <4>1, <4>2
    <3>4. ASSUME AdminPlaceOrder(s), cur[s] \in Order, log'[s] = Append(log[s], cur[s])
          PROVE  \E x \in Order : Past(x) /\ log'[s][j] = x
      BY <1>c, <3>3, <3>4 DEF AdminPlaceOrder
    <3>5. ASSUME NEW k \in ConnId, EngineerPlaceOrder(k), log'[s] = Append(log[s], conn[k].msg.ord)
          PROVE  \E x \in Order : Past(x) /\ log'[s][j] = x
      BY <1>k, <3>3, <3>5 DEF EngineerPlaceOrder, Busy
    <3> QED
      BY <3>1, <3>2, <3>4, <3>5, LogSteps
  <2>3. PICK o \in Order : Past(o) /\ log'[s][j] = o
    BY <2>2
  <2>4. Past(o)'
    BY <2>3, PastStays
  <2> QED
    BY <2>3, <2>4 DEF Past, Before, OrderOf
<1>2. ASSUME NEW k \in ConnId, conn'[k].sent \/ conn'[k].eng \in Busy PROVE Past(conn[k].msg.ord)'
  <2>1. \E o \in Order : Past(o) /\ conn'[k].msg.ord = o
    <3>1. ASSUME NEW s \in Server, apc[s] = "visit", conn'[k].msg = msg[s]
          PROVE  \E o \in Order : Past(o) /\ conn'[k].msg.ord = o
      BY <1>0, <1>c, <3>1 DEF RequestInv
    <3> QED
      BY <1>2, <1>k, <3>1, RequestSteps
  <2>2. PICK o \in Order : Past(o) /\ conn'[k].msg.ord = o
    BY <2>1
  <2>3. Past(o)'
    BY <2>2, PastStays
  <2> QED
    BY <2>2, <2>3 DEF Past, Before, OrderOf
<1>3. ASSUME NEW a \in acked' PROVE Before(a.ord)'
  <2>1. CASE a \in acked
    <3>1. PICK o \in Order : o = a.ord
      BY <2>1 DEF TypeOK
    <3>2. Before(o)'
      BY <2>1, <3>1, PastStays DEF PastInv
    <3> QED
      BY <3>1, <3>2 DEF Before
  <2>2. ASSUME NEW c \in Customer, SendLaptop(c), a \notin acked PROVE Before(a.ord)'
    <3>1. a.ord = OrderOf(c) /\ sess' = sess /\ cnum' = [cnum EXCEPT ![c] = cnum[c] + 1]
      BY <2>2 DEF SendLaptop
    <3>2. a.ord.cust = c /\ a.ord.sess = sess[c] /\ a.ord.num = cnum[c]
      BY <3>1 DEF OrderOf
    <3>3. cnum \in [Customer -> Nat]
      BY DEF TypeOK, ClientTypeOK
    <3> QED
      BY <3>1, <3>2, <3>3 DEF Before
  <2>3. acked' = acked \/ \E c \in Customer : SendLaptop(c)
    BY AckedSteps
  <2> QED
    BY <2>1, <2>2, <2>3
<1>4. ASSUME NEW o \in abandoned' PROVE Past(o)'
  <2>1. CASE o \in abandoned
    <3>1. o \in Order
      BY <2>1 DEF TypeOK
    <3> QED
      BY <2>1, <3>1, PastStays DEF PastInv
  <2>2. ASSUME NEW c \in Customer, ClientGone(c), o \notin abandoned PROVE Past(o)'
    <3>1. o = OrderOf(c) /\ UNCHANGED <<sess, cnum>> /\ cpc' = [cpc EXCEPT ![c] = "off"]
      BY <2>2 DEF ClientGone
    <3>2. o.cust = c
      BY <3>1 DEF OrderOf
    <3>3. cpc'[c] = "off"
      BY <3>1 DEF TypeOK, ClientTypeOK
    <3> QED
      BY <3>1, <3>2, <3>3 DEF Past, OrderOf
  <2>3. abandoned' = abandoned \/ \E c \in Customer : ClientGone(c)
    BY AbandonedSteps
  <2> QED
    BY <2>1, <2>2, <2>3
<1>5. ASSUME NEW a \in acked', a.ord \in abandoned' PROVE FALSE
  <2>0. cpc \in [Customer -> ClientPC] /\ cnum \in [Customer -> Nat] /\ sess \in [Customer -> Nat]
    BY DEF TypeOK, ClientTypeOK
  <2>1. CASE a \in acked /\ a.ord \in abandoned
    BY <2>1 DEF PastInv
  <2>2. ASSUME NEW c \in Customer, ClientGone(c), a \in acked, a.ord \notin abandoned PROVE FALSE
    <3>1. a.ord = OrderOf(c) /\ Before(a.ord)
      BY <1>5, <2>2 DEF ClientGone, PastInv
    <3>2. a.ord.cust = c /\ a.ord.sess = sess[c] /\ a.ord.num = cnum[c]
      BY <3>1 DEF OrderOf
    <3> QED
      BY <2>0, <3>1, <3>2 DEF Before
  <2>3. ASSUME NEW c \in Customer, SendLaptop(c), a \notin acked PROVE FALSE
    <3>1. a.ord = OrderOf(c) /\ abandoned' = abandoned /\ cpc[c] = "promised"
      BY <2>3 DEF SendLaptop
    <3>2. a.ord.cust = c /\ a.ord.sess = sess[c]
      BY <3>1 DEF OrderOf
    <3>3. AbandonedPast(a.ord)
      BY <1>0, <1>5, <3>1 DEF ClientInv
    <3> QED
      BY <2>0, <3>1, <3>2, <3>3 DEF AbandonedPast
  <2> QED
    BY <1>5, <2>1, <2>2, <2>3, AckedSteps, AbandonedSteps DEF ClientGone
<1> QED
  BY <1>1, <1>2, <1>3, <1>4, <1>5 DEF PastInv

(* Nothing has been sent at the start.                                     *)
LEMMA InitPast == Init => PastInv
<1> SUFFICES ASSUME Init PROVE PastInv
  OBVIOUS
<1>1. \A s \in Server : Len(log[s]) = 0
  BY DEF Init
<1>2. \A k \in ConnId : ~conn[k].sent /\ conn[k].eng \notin Busy
  BY DEF Init, FreeConn, Busy
<1>3. acked = {} /\ abandoned = {}
  BY DEF Init
<1> QED
  BY <1>1, <1>2, <1>3 DEF PastInv

-----------------------------------------------------------------------------
(* Orders behind newer ones.                                               *)

(* What travels or is handled on an open connection is what the admin      *)
(* thread at its other end waits for.                                      *)
LEMMA OpenRequest ==
  ASSUME TypeOK, FactoryInv, LinkInv, NEW k \in ConnId, conn[k].open,
         conn[k].sent \/ conn[k].eng \in Busy \/ conn[k].ack, conn[k].eng # "free"
  PROVE  \E s \in Server :
           /\ conn[k].from = s /\ apc[s] = "await"
           /\ it[s] \in 1..Len(stubs[s]) /\ stubs[s][it[s]].init /\ stubs[s][it[s]].conn = k
           /\ stubs[s][it[s]].peer = conn[k].to
           /\ conn[k].sent \/ conn[k].eng \in Busy => conn[k].msg.ord = cur[s]
<1>0. StubInv /\ RequestInv
  BY DEF FactoryInv
<1>1. PICK s \in Server : s = conn[k].from
  BY <1>0 DEF StubInv, ConnOK
<1>2. PICK i \in 1..Len(stubs[s]) : stubs[s][i].init /\ stubs[s][i].conn = k
  BY <1>1 DEF LinkInv, Owned
<1>3. apc[s] = "await" /\ i = it[s]
  BY <1>0, <1>2 DEF RequestInv, Quiet, Busy
<1>4. StubOK(s, stubs[s][i]) /\ Awaited(conn[k], cur[s])
  BY <1>0, <1>2, <1>3 DEF StubInv, RequestInv
<1> QED
  BY <1>1, <1>2, <1>3, <1>4 DEF StubOK, Awaited

(* An order that its customer waits for is older than none that is past.   *)
LEMMA NoneNewer ==
  ASSUME TypeOK, NEW s, NEW o \in Order, Outstanding(s, o), NEW p \in Order, Past(p)
  PROVE  ~Older(o, p)
<1>1. /\ o.sess = sess[o.cust] /\ o.num = cnum[o.cust] /\ o.cust \in Customer
      /\ sess[o.cust] \in Nat /\ cnum[o.cust] \in Nat /\ p.sess \in Nat /\ p.num \in Nat
  BY DEF Outstanding, OrderOf, TypeOK, ClientTypeOK, Order
<1>2. p.cust = o.cust => p.sess < sess[o.cust] \/ (p.sess = sess[o.cust] /\ p.num <= cnum[o.cust])
  BY <1>1 DEF Past, Before, OrderOf
<1> QED
  BY <1>1, <1>2 DEF Older

(* A log that gets an order gets it behind older ones of the client,       *)
(* unless the sender has died, or the client itself.                       *)
LEMMA OverwriteStep ==
  ASSUME TypeOK, FactoryInv, LinkInv, PastInv, [Next]_vars, NEW s \in Server,
         NEW n, n = Len(log'[s]), n > Len(log[s]),
         NEW j \in 1..n - 1, Older(log'[s][n], log'[s][j])
  PROVE  \/ log'[s][n] \in abandoned
         \/ \E k \in ConnId : /\ conn[k].to = s /\ conn[k].eng = "place" /\ ~conn[k].open
                              /\ conn'[k].eng = "reply"
<1>0. /\ log \in [Server -> Seq(Order)] /\ log[s] \in Seq(Order) /\ Len(log[s]) \in Nat /\ RequestInv /\ ClientInv
      /\ conn \in [ConnId -> Conn]
  BY DEF TypeOK, ServerTypeOK, FactoryInv
<1>a. SUFFICES ASSUME log'[s][n] \notin abandoned
               PROVE  \E k \in ConnId : /\ conn[k].to = s /\ conn[k].eng = "place" /\ ~conn[k].open
                                        /\ conn'[k].eng = "reply"
  OBVIOUS
<1>1. ASSUME NEW t \in Server, apc[t] # "idle", log'[s] = Append(log[s], cur[t]) PROVE FALSE
  <2>0. PICK o \in Order : o = cur[t] /\ o \in Expected(t)
    BY <1>0, <1>1 DEF ClientInv, QueueOK
  <2>1. log'[s][n] = o /\ j \in 1..Len(log[s]) /\ log'[s][j] = log[s][j]
    BY <1>0, <1>1, <2>0, AppendProperties
  <2>3. Outstanding(t, o)
    BY <1>a, <2>0, <2>1, ExpectedOf
  <2>2. log[s][j] \in Order /\ Past(log[s][j])
    BY <1>0, <2>1, ElementOfSeq DEF PastInv
  <2> QED
    BY <2>1, <2>2, <2>3, NoneNewer
<1>2. log'[s] # log[s] /\ log'[s] # << >>
  BY <1>0
<1>3. ASSUME AdminPlaceOrder(s), cur[s] \in Order, log'[s] = Append(log[s], cur[s]) PROVE FALSE
  BY <1>0, <1>1, <1>3 DEF ClientInv, AdminPlaceOrder
<1>4. PICK k \in ConnId : /\ EngineerPlaceOrder(k) /\ conn[k].to = s /\ conn[k].msg.ord \in Order
                          /\ log'[s] = Append(log[s], conn[k].msg.ord)
  BY <1>2, <1>3, LogSteps
<1>5. ASSUME conn[k].open PROVE FALSE
  <2>1. conn[k].eng = "place"
    BY <1>4 DEF EngineerPlaceOrder
  <2>2. PICK t \in Server : apc[t] = "await" /\ conn[k].msg.ord = cur[t]
    BY <1>5, <2>1, OpenRequest DEF Busy
  <2> QED
    BY <1>1, <1>4, <2>2
<1>6. conn[k].eng = "place" /\ conn'[k].eng = "reply"
  BY <1>0, <1>4 DEF EngineerPlaceOrder, Conn
<1> QED
  BY <1>4, <1>5, <1>6

(* The parts of the invariant that hold whatever crashes.                  *)
CrashInv == TypeOK /\ FactoryInv /\ LinkInv /\ PastInv

(* At the start nothing has crashed and CrashInv holds.                    *)
LEMMA InitCrashInv == Init => CrashInv
BY InitType, InitInv, InitLink, InitPast DEF CrashInv

(* Every step keeps CrashInv.                                              *)
LEMMA NextCrashInv ==
  ASSUME CrashInv, [Next]_vars
  PROVE  CrashInv'
<1>1. TypeOK'
  BY NextType DEF CrashInv
<1>2. FactoryInv'
  BY NextClient, NextStub, NextRequest, NextCover, NextDurable DEF CrashInv, FactoryInv
<1>3. LinkInv' /\ PastInv'
  BY NextLink, NextPast DEF CrashInv
<1> QED
  BY <1>1, <1>2, <1>3 DEF CrashInv

(* CrashInv is an invariant.                                               *)
LEMMA CrashInvariant == Spec => []CrashInv
<1>1. CrashInv /\ [Next]_vars => CrashInv'
  BY NextCrashInv
<1> QED
  BY InitCrashInv, <1>1, PTL DEF Spec

(* A peer that was down is never sent an identification or the log.        *)
THEOREM RejoinedPeersStayBehind == Spec => []RejoinedPeerNotCaughtUp
<1>1. CrashInv => RejoinedPeerNotCaughtUp
  BY DEF CrashInv, FactoryInv, RequestInv, LinkInv, Rejoined, RejoinedPeerNotCaughtUp
<1> QED
  BY <1>1, CrashInvariant, PTL

(* Only the request of a dead sender, or the order of a client that died   *)
(* before its answer, gets into a log behind a newer order of the client.  *)
THEOREM OrderKeptByTheLiving == Spec => OnlyTheDeadOverwriteNewer
<1> DEFINE A == \A s \in Server :
       LET n == Len(log'[s]) IN
       n > Len(log[s]) /\ (\E j \in 1..n - 1 : Older(log'[s][n], log'[s][j])) =>
         \/ log'[s][n] \in abandoned
         \/ \E k \in ConnId : /\ conn[k].to = s /\ conn[k].eng = "place" /\ ~conn[k].open
                              /\ conn'[k].eng = "reply"
<1>1. CrashInv /\ [Next]_vars => A
  BY OverwriteStep DEF CrashInv
<1>2. CrashInv /\ [Next]_vars => [A]_vars
  BY <1>1
<1>3. []CrashInv /\ [][Next]_vars => [][A]_vars
  <2> HIDE DEF A
  <2> QED
    BY <1>2, PTL
<1>4. OnlyTheDeadOverwriteNewer <=> [][A]_vars
  BY DEF OnlyTheDeadOverwriteNewer
<1> HIDE DEF A
<1> QED
  BY <1>3, <1>4, CrashInvariant, PTL DEF Spec

-----------------------------------------------------------------------------
(* The system while no server crashes and every stub that was dialled has  *)
(* its connection.  A step is then one of a client, or of the replication  *)
(* of one server s; connections matter only for how far the stub that s    *)
(* waits for has come.                                                     *)

Awaits(s, i) == apc[s] = "await" /\ i = it[s]
Link(s, i)   == conn[stubs[s][i].conn]

(* The peer of stub i has received the request of the admin thread of s,   *)
(* and has placed its order.                                               *)
Heard(s, i)  == i < it[s] \/ (Awaits(s, i) /\ (Link(s, i).eng \in Busy \/ Link(s, i).ack))
Placed(s, i) == i < it[s] \/ (Awaits(s, i) /\ (Link(s, i).eng = "reply" \/ Link(s, i).ack))

SamePlaced(s) == \A i \in 1..Len(stubs[s]) : Placed(s, i)' <=> Placed(s, i)
SameHeard(s)  == \A i \in 1..Len(stubs[s]) : Heard(s, i)' <=> Heard(s, i)
Stands(s)     == /\ stubs'[s] = stubs[s] /\ cur'[s] = cur[s]
                 /\ apc'[s] = apc[s] /\ it'[s] = it[s]
LoopSame(s)   == Stands(s) /\ SamePlaced(s) /\ SameHeard(s)
Others(s)     == \A t \in Server \ {s} : LoopSame(t)

DataSame == UNCHANGED <<primary_id, log, customer_record, clientVars, acked, abandoned, inbox, erq>>

LocalAction(s) ==
  \/ AdminDequeue(s) \/ ReadCommitted(s) \/ ClaimPrimary(s) \/ ReadIndex(s) \/ BuildRequest(s)
  \/ AdminPlaceOrder(s) \/ CommitOrder(s)

CalmConnect(s) ==
  /\ apc[s] = "connect" /\ apc'[s] = "identify" /\ it'[s] = it[s] /\ cur'[s] = cur[s]
  /\ \E r \in Stub : r.peer = PeerList[s][it[s]] /\ stubs'[s] = Append(stubs[s], r)
  /\ DataSame

CalmIdentify(s) ==
  /\ apc[s] = "identify" /\ apc'[s] = AfterPeer(s, it[s]) /\ it'[s] = it[s] + 1
  /\ stubs'[s] = stubs[s] /\ cur'[s] = cur[s]
  /\ DataSame

CalmVisit(s) ==
  /\ apc[s] = "visit" /\ apc'[s] = "await" /\ it'[s] = it[s]
  /\ stubs'[s] = stubs[s] /\ cur'[s] = cur[s]
  /\ SamePlaced(s) /\ SameHeard(s)
  /\ DataSame

CalmAcked(s) ==
  /\ apc[s] = "await" /\ apc'[s] = AfterStub(s, it[s]) /\ it'[s] = it[s] + 1
  /\ stubs'[s] = stubs[s] /\ cur'[s] = cur[s]
  /\ Placed(s, it[s]) /\ SamePlaced(s) /\ SameHeard(s)
  /\ DataSame

CalmReceive(s) ==
  /\ apc[s] = "await" /\ Stands(s) /\ SamePlaced(s)
  /\ \A i \in 1..Len(stubs[s]) : i # it[s] => (Heard(s, i)' <=> Heard(s, i))
  /\ primary_id' = [primary_id EXCEPT ![stubs[s][it[s]].peer] = s]
  /\ UNCHANGED <<log, customer_record, clientVars, acked, abandoned, inbox, erq>>

CalmPlace(s) ==
  /\ apc[s] = "await" /\ Stands(s) /\ SameHeard(s)
  /\ \A i \in 1..Len(stubs[s]) : i # it[s] => (Placed(s, i)' <=> Placed(s, i))
  /\ ~Placed(s, it[s]) /\ Placed(s, it[s])'
  /\ place_order(stubs[s][it[s]].peer, cur[s])
  /\ UNCHANGED <<primary_id, clientVars, acked, abandoned, inbox, erq>>

CalmAction(s) ==
  \/ LocalAction(s) /\ UNCHANGED <<stubs, conn>>
  \/ CalmConnect(s) \/ CalmIdentify(s) \/ CalmVisit(s) \/ CalmAcked(s) \/ CalmReceive(s) \/ CalmPlace(s)
  \/ LoopSame(s) /\ DataSame

CalmStep ==
  \/ (\A t \in Server : LoopSame(t)) /\ (DataSame \/ \E c \in Customer : Client(c))
  \/ \E s \in Server : CalmAction(s) /\ Others(s)

(* Without faults everything is up and every stub is connected.            *)
LEMMA CalmState ==
  ASSUME CrashInv, NoFault
  PROVE  /\ \A s \in Server : up[s] /\ todo[s] = << >>
         /\ \A s \in Server : \A i \in 1..Len(stubs[s]) :
              LET b == stubs[s][i] IN
              /\ b \in Stub /\ b.valid /\ b.init /\ b.conn \in ConnId /\ b.peer \in Server /\ b.peer # s
              /\ conn[b.conn].from = s /\ conn[b.conn].to = b.peer /\ conn[b.conn].open
              /\ conn[b.conn].eng # "free"
         /\ \A k \in ConnId : conn[k].eng # "dead" /\ (conn[k].eng # "free" => conn[k].open)
         /\ \A s \in Server : apc[s] \in {"visit", "await"} => it[s] \in 1..Len(stubs[s])
<1>0. /\ TypeOK /\ StubInv /\ RequestInv /\ LinkInv /\ crashes \in [Server -> Nat]
      /\ up \in [Server -> BOOLEAN] /\ it \in [Server -> Nat \ {0}] /\ PositionsOK
      /\ \A s \in Server : Len(stubs[s]) \in Nat
  BY DEF CrashInv, FactoryInv, TypeOK, ServerTypeOK, AdminTypeOK
<1>1. \A s \in Server : up[s] /\ todo[s] = << >>
  BY <1>0 DEF NoFault, NoCrash, StubInv, RequestInv
<1>2. ASSUME NEW s \in Server, NEW i \in 1..Len(stubs[s])
      PROVE  LET b == stubs[s][i] IN
              /\ b \in Stub /\ b.valid /\ b.init /\ b.conn \in ConnId /\ b.peer \in Server /\ b.peer # s
              /\ conn[b.conn].from = s /\ conn[b.conn].to = b.peer /\ conn[b.conn].open
              /\ conn[b.conn].eng # "free"
  <2>1. stubs[s][i] \in Stub /\ stubs[s][i].peer \in Server /\ StubOK(s, stubs[s][i])
    BY <1>0, StubPeer DEF StubInv
  <2>2. stubs[s][i].valid /\ stubs[s][i].init
    BY DEF NoFault
  <2> QED
    BY <2>1, <2>2 DEF StubOK
<1>3. ASSUME NEW k \in ConnId PROVE conn[k].eng # "dead" /\ (conn[k].eng # "free" => conn[k].open)
  <2>1. ConnOK(k) /\ Owned(k)
    BY <1>0 DEF StubInv, LinkInv
  <2> QED
    BY <1>0, <2>1 DEF ConnOK, Owned, NoFault, NoCrash
<1>4. \A s \in Server : apc[s] \in {"visit", "await"} => it[s] \in 1..Len(stubs[s])
  BY <1>0 DEF PositionsOK
<1> QED
  BY <1>1, <1>2, <1>3, <1>4

(* A step on connections of s, or on unused ones, leaves the loops of the  *)
(* other servers where they are.                                           *)
LEMMA LoopsApart ==
  ASSUME CrashInv, NoFault, NEW s \in Server,
         \A t \in Server \ {s} : Stands(t),
         \A j \in ConnId : conn'[j] = conn[j] \/ conn[j].from = s \/ conn[j].eng = "free"
  PROVE  Others(s)
<1>1. SUFFICES ASSUME NEW t \in Server \ {s}, NEW i \in 1..Len(stubs[t])
               PROVE  (Placed(t, i)' <=> Placed(t, i)) /\ (Heard(t, i)' <=> Heard(t, i))
  BY DEF Others, LoopSame, SamePlaced, SameHeard
<1>2. Stands(t) /\ conn'[stubs[t][i].conn] = conn[stubs[t][i].conn]
  BY CalmState
<1> QED
  BY <1>2 DEF Placed, Heard, Awaits, Link, Stands

(* Steps of the admin thread of s.                                         *)
LEMMA CalmAdmin ==
  ASSUME CrashInv, NoFault, NoFault', NEW s \in Server, ProductionAdminThread(s)
  PROVE  CalmAction(s) /\ Others(s)
<1>0. /\ TypeOK /\ conn \in [ConnId -> Conn] /\ stubs \in [Server -> Seq(Stub)] /\ apc \in [Server -> AdminPC]
      /\ it \in [Server -> Nat \ {0}] /\ cur \in [Server -> Order \cup {NoOrder}] /\ StubInv /\ RequestInv
  BY DEF CrashInv, FactoryInv, TypeOK, ServerTypeOK, AdminTypeOK
<1>i. PICK i : i = it[s]
  OBVIOUS
<1>1. CASE LocalAction(s)
  <2>1. UNCHANGED <<stubs, conn>> /\ \A t \in Server \ {s} : apc'[t] = apc[t] /\ it'[t] = it[t] /\ cur'[t] = cur[t]
    BY <1>0, <1>1 DEF LocalAction, AdminDequeue, ReadCommitted, ClaimPrimary, ReadIndex, BuildRequest,
                      AdminPlaceOrder, CommitOrder, srvVars
  <2> QED
    BY <1>1, <2>1, LoopsApart DEF CalmAction, Stands
<1>2. CASE ConnectPeer(s)
  <2> DEFINE new == NewStub(PeerList[s][it[s]])
  <2>1. it[s] \in 1..Len(PeerList[s])
    BY <1>0, <1>2 DEF ConnectPeer, TypeOK, PositionsOK
  <2>2. new \in Stub /\ ~new.init /\ new.valid /\ new.peer \in Server /\ new.peer = PeerList[s][it[s]]
    BY <2>1, FactoryAssumption, ConstantTypes DEF NewStub, Stub
  <2>3. PICK k \in Dialled(s, new) :
          /\ stubs' = [stubs EXCEPT ![s] = Append(stubs[s], SocketInit(new, k))] /\ conn' = Dial(s, new, k)
          /\ apc' = [apc EXCEPT ![s] = IF SocketInit(new, k).valid THEN "identify" ELSE AfterPeer(s, it[s])]
          /\ it' = [it EXCEPT ![s] = IF SocketInit(new, k).valid THEN it[s] ELSE it[s] + 1]
    BY <1>2 DEF ConnectPeer
  <2>4. PICK r : r = SocketInit(new, k)
    OBVIOUS
  <2> HIDE DEF new
  <2>5. r.valid /\ r.init
    <3>1. stubs'[s] = Append(stubs[s], r) /\ stubs[s] \in Seq(Stub) /\ r \in Stub
      BY <1>0, <2>2, <2>3, <2>4, DialTypes
    <3>2. Len(stubs'[s]) \in 1..Len(stubs'[s]) /\ stubs'[s][Len(stubs'[s])] = r
      BY <3>1, AppendProperties
    <3> QED
      BY <3>2 DEF NoFault
  <2>6. k \in ConnId /\ conn[k].eng = "free" /\ r \in Stub /\ r.peer = new.peer
    <3>0. k \in ConnId \cup {Refused, NoSocket}
      BY <1>0, <2>2, DialTypes
    <3>1. k \in ConnId
      BY <2>2, <2>4, <2>5, <3>0 DEF SocketInit, Stub
    <3>2. k \in FreshConn
      BY <2>2, <2>3, <3>1, FactoryAssumption DEF Dialled, Refused, NoSocket
    <3> QED
      BY <1>0, <2>2, <2>4, <3>1, <3>2, DialTypes DEF FreshConn
  <2>7. \A j \in ConnId : j # k => conn'[j] = conn[j]
    BY <1>0, <2>2, <2>3, <2>6 DEF Dial
  <2>8. apc' = [apc EXCEPT ![s] = "identify"] /\ it' = [it EXCEPT ![s] = it[s]] /\ UNCHANGED cur
        /\ stubs' = [stubs EXCEPT ![s] = Append(stubs[s], r)]
    BY <1>2, <2>3, <2>4, <2>5 DEF ConnectPeer
  <2>9. \A t \in Server \ {s} : Stands(t)
    BY <1>0, <2>8 DEF Stands
  <2>10. Others(s)
    BY <2>6, <2>7, <2>9, LoopsApart
  <2>11. CalmConnect(s)
    <3>1. /\ apc[s] = "connect" /\ apc'[s] = "identify" /\ it'[s] = it[s] /\ cur'[s] = cur[s]
          /\ stubs'[s] = Append(stubs[s], r)
      BY <1>0, <1>2, <2>8 DEF ConnectPeer
    <3>2. DataSame
      BY <1>2 DEF ConnectPeer, DataSame
    <3> QED
      BY <2>2, <2>6, <3>1, <3>2 DEF CalmConnect
  <2> QED
    BY <2>10, <2>11 DEF CalmAction
<1>3. CASE IdentifyPeer(s)
  <2>1. apc[s] = "identify" /\ UNCHANGED cur /\ DataSame
        /\ apc' = [apc EXCEPT ![s] = AfterPeer(s, it[s])] /\ it' = [it EXCEPT ![s] = it[s] + 1]
    BY <1>3 DEF IdentifyPeer, DataSame
  <2>2. PICK k : k = stubs[s][Len(stubs[s])].conn
    OBVIOUS
  <2>3. Len(stubs[s]) \in 1..Len(stubs[s])
    BY <1>0, <2>1 DEF StubInv
  <2>4. k \in ConnId /\ conn[k].from = s /\ conn[k].eng # "dead" /\ stubs[s][Len(stubs[s])].init
    BY <2>2, <2>3, CalmState
  <2>5. conn' = [conn EXCEPT ![k].ident = TRUE] /\ stubs' = stubs
    BY <1>3, <2>2, <2>4 DEF IdentifyPeer
  <2>6. \A t \in Server \ {s} : Stands(t)
    BY <1>0, <2>1, <2>5 DEF Stands
  <2>7. \A j \in ConnId : j # k => conn'[j] = conn[j]
    BY <1>0, <2>5
  <2>8. Others(s)
    BY <2>4, <2>6, <2>7, LoopsApart
  <2>9. CalmIdentify(s)
    BY <1>0, <2>1, <2>5 DEF CalmIdentify
  <2> QED
    BY <2>8, <2>9 DEF CalmAction
<1>4. CASE ReplicateTo(s)
  <2>1. apc[s] = "visit" /\ i \in 1..Len(stubs[s])
    BY <1>4, <1>i, CalmState DEF ReplicateTo
  <2>2. PICK b : b = stubs[s][i]
    OBVIOUS
  <2>3. b.valid /\ b.init /\ b.conn \in ConnId /\ conn[b.conn].from = s
    BY <2>1, <2>2, CalmState
  <2>4. /\ conn' = Send(conn, b.conn, msg[s]) /\ stubs' = [stubs EXCEPT ![s][i] = stubs[s][i]]
        /\ apc' = [apc EXCEPT ![s] = "await"] /\ it' = [it EXCEPT ![s] = it[s]] /\ UNCHANGED cur
    <3>1. Head(<< msg[s] >>) = msg[s]
      OBVIOUS
    <3> QED
      BY <1>4, <1>i, <2>2, <2>3, <3>1 DEF ReplicateTo
  <2>5. stubs' = stubs /\ it' = it
    BY <1>0, <2>4
  <2>6. \A t \in Server \ {s} : Stands(t)
    BY <1>0, <2>4, <2>5 DEF Stands
  <2>7. \A j \in ConnId : j # b.conn => conn'[j] = conn[j]
    BY <1>0, <2>4 DEF Send
  <2>8. Others(s)
    BY <2>3, <2>6, <2>7, LoopsApart
  <2>9. Quiet(conn[b.conn])
    BY <1>0, <2>1, <2>2, <2>3 DEF RequestInv
  <2>10. conn'[b.conn].eng = conn[b.conn].eng /\ (conn'[b.conn].ack <=> conn[b.conn].ack)
    <3>1. conn'[b.conn] = [conn[b.conn] EXCEPT !.sent = TRUE, !.msg = msg[s]] /\ conn[b.conn] \in Conn
      BY <1>0, <2>3, <2>4 DEF Send
    <3> QED
      BY <3>1 DEF Conn
  <2>11. SamePlaced(s) /\ SameHeard(s)
    <3>1. ASSUME NEW j \in 1..Len(stubs[s]) PROVE (Placed(s, j)' <=> Placed(s, j)) /\ (Heard(s, j)' <=> Heard(s, j))
      BY <1>i, <2>1, <2>2, <2>5, <2>9, <2>10 DEF Placed, Heard, Awaits, Link, Quiet, Busy
    <3> QED
      BY <3>1 DEF SamePlaced, SameHeard
  <2>12. DataSame
    BY <1>4 DEF ReplicateTo, DataSame
  <2>13. CalmVisit(s)
    BY <1>0, <2>1, <2>4, <2>5, <2>11, <2>12 DEF CalmVisit
  <2> QED
    BY <2>8, <2>13 DEF CalmAction
<1>5. CASE ReplicationAcked(s)
  <2>1. apc[s] = "await" /\ i \in 1..Len(stubs[s]) /\ todo[s] = << >>
    BY <1>5, <1>i, CalmState DEF ReplicationAcked
  <2>2. PICK k : k = stubs[s][i].conn
    OBVIOUS
  <2>3. k \in ConnId /\ conn[k].from = s
    BY <2>1, <2>2, CalmState
  <2>4. /\ conn[k].ack /\ conn' = [conn EXCEPT ![k].ack = FALSE] /\ UNCHANGED <<stubs, cur>> /\ DataSame
        /\ apc' = [apc EXCEPT ![s] = AfterStub(s, it[s])] /\ it' = [it EXCEPT ![s] = it[s] + 1]
    BY <1>5, <1>i, <2>1, <2>2 DEF ReplicationAcked, srvVars, DataSame
  <2>5. \A t \in Server \ {s} : Stands(t)
    BY <1>0, <2>4 DEF Stands
  <2>6. \A j \in ConnId : j # k => conn'[j] = conn[j]
    BY <1>0, <2>4
  <2>7. Others(s)
    BY <2>3, <2>5, <2>6, LoopsApart
  <2>8. Placed(s, it[s])
    BY <1>i, <2>1, <2>2, <2>4 DEF Placed, Awaits, Link
  <2>9. apc'[s] # "await" /\ it'[s] = it[s] + 1 /\ apc'[s] = AfterStub(s, it[s])
    BY <1>0, <2>4 DEF AfterStub
  <2>10. SamePlaced(s) /\ SameHeard(s)
    <3>1. ASSUME NEW j \in 1..Len(stubs[s]) PROVE (Placed(s, j)' <=> Placed(s, j)) /\ (Heard(s, j)' <=> Heard(s, j))
      <4>1. (j < it[s] + 1) <=> (j < it[s] \/ j = it[s])
        BY <1>0
      <4> QED
        BY <1>i, <2>1, <2>2, <2>4, <2>9, <4>1 DEF Placed, Heard, Awaits, Link
    <3> QED
      BY <3>1 DEF SamePlaced, SameHeard
  <2>11. CalmAcked(s)
    BY <2>1, <2>4, <2>8, <2>9, <2>10 DEF CalmAcked
  <2> QED
    BY <2>7, <2>11 DEF CalmAction
<1>6. CASE ReplicationFailed(s)
  <2>1. apc[s] = "await" /\ i \in 1..Len(stubs[s])
    BY <1>6, <1>i, CalmState DEF ReplicationFailed
  <2> QED
    BY <1>6, <1>i, <2>1, CalmState DEF ReplicationFailed
<1>7. CASE BrokenPipe(s)
  <2>1. apc[s] = "visit" /\ i \in 1..Len(stubs[s])
    BY <1>7, <1>i, CalmState DEF BrokenPipe
  <2> QED
    BY <1>7, <1>i, <2>1, CalmState DEF BrokenPipe
<1> QED
  BY <1>1, <1>2, <1>3, <1>4, <1>5, <1>6, <1>7 DEF ProductionAdminThread, LocalAction

(* Steps of an engineer thread, which serves the server s.                 *)
LEMMA CalmEngineer ==
  ASSUME CrashInv, NoFault, NEW k \in ConnId, EngineerThread(k)
  PROVE  \E s \in Server : CalmAction(s) /\ Others(s)
<1>0. /\ TypeOK /\ FactoryInv /\ LinkInv /\ conn \in [ConnId -> Conn] /\ conn[k] \in Conn
      /\ conn[k].eng # "free" => ConnOK(k) /\ conn[k].open
      /\ it \in [Server -> Nat \ {0}] /\ PendingOK(k)
  BY CalmState DEF CrashInv, FactoryInv, StubInv, RequestInv, TypeOK, AdminTypeOK
<1>1. conn[k].eng # "free" /\ ~StatusLost(k) /\ ~PeerHangup(k)
  BY <1>0 DEF EngineerThread, ReceiveStatusInfo, StatusLost, ReceiveReplicationRequest, StoreCommittedIndex,
              StoreLastIndex, EngineerPlaceOrder, SendReplicationResult, PeerHangup
<1>2. PICK s \in Server : s = conn[k].from
  BY <1>0, <1>1 DEF ConnOK
<1>3. UNCHANGED <<stubs, apc, it, cur, inbox, erq, clientVars, acked, abandoned>> /\ \A j \in ConnId : j # k => conn'[j] = conn[j]
  BY <1>0 DEF EngineerThread, ReceiveStatusInfo, StatusLost, ReceiveReplicationRequest, StoreCommittedIndex,
              StoreLastIndex, EngineerPlaceOrder, SendReplicationResult, PeerHangup, srvVars, adminVars
<1>4. Stands(s) /\ Others(s)
  BY <1>2, <1>3, LoopsApart DEF Stands
<1>w. ASSUME conn[k].sent \/ conn[k].eng \in Busy
      PROVE  /\ apc[s] = "await" /\ it[s] \in 1..Len(stubs[s]) /\ stubs[s][it[s]].conn = k
             /\ stubs[s][it[s]].peer = conn[k].to /\ conn[k].msg.ord = cur[s]
             /\ \A i \in 1..Len(stubs[s]) : i # it[s] => stubs[s][i].conn # k
  <2>1. /\ apc[s] = "await" /\ it[s] \in 1..Len(stubs[s]) /\ stubs[s][it[s]].conn = k
        /\ stubs[s][it[s]].peer = conn[k].to /\ conn[k].msg.ord = cur[s]
    BY <1>0, <1>1, <1>2, <1>w, OpenRequest
  <2>2. \A i \in 1..Len(stubs[s]) : stubs[s][i].init
    BY CalmState
  <2> QED
    BY <1>0, <2>1, <2>2 DEF FactoryInv, StubInv
<1>5. CASE ReceiveReplicationRequest(k)
  <2>1. /\ conn[k].sent /\ conn[k].eng = "recv" /\ conn[k].msg.fid = s
        /\ primary_id' = [primary_id EXCEPT ![conn[k].to] = conn[k].msg.fid]
        /\ UNCHANGED <<log, customer_record>>
    BY <1>0, <1>2, <1>5 DEF ReceiveReplicationRequest, PendingOK
  <2>2. conn'[k].eng = "committed" /\ (conn'[k].ack <=> conn[k].ack)
    BY <1>0, <1>5 DEF ReceiveReplicationRequest, Conn
  <2>3. ASSUME NEW i \in 1..Len(stubs[s])
        PROVE  (Placed(s, i)' <=> Placed(s, i)) /\ (i # it[s] => (Heard(s, i)' <=> Heard(s, i)))
    <3>1. stubs[s][i].conn \in ConnId
      BY CalmState
    <3>2. CASE i = it[s]
      BY <1>3, <1>w, <2>1, <2>2, <3>2 DEF Placed, Awaits, Link
    <3>3. CASE i # it[s]
      BY <1>3, <3>3 DEF Placed, Heard, Awaits
    <3> QED
      BY <3>2, <3>3
  <2>4. CalmReceive(s)
    BY <1>3, <1>4, <1>w, <2>1, <2>3 DEF CalmReceive, SamePlaced
  <2> QED
    BY <1>4, <2>4 DEF CalmAction
<1>6. CASE EngineerPlaceOrder(k)
  <2>1. conn[k].eng = "place" /\ place_order(conn[k].to, conn[k].msg.ord) /\ UNCHANGED primary_id
    BY <1>6 DEF EngineerPlaceOrder
  <2>2. conn'[k].eng = "reply" /\ (conn'[k].ack <=> conn[k].ack)
    BY <1>0, <1>6 DEF EngineerPlaceOrder, Conn
  <2>3. conn[k].eng \in Busy /\ conn'[k].eng \in Busy
    BY <2>1, <2>2 DEF Busy
  <2>a. ~conn[k].ack
    <3>1. Awaited(conn[k], cur[s])
      BY <1>0, <1>w, <2>3 DEF FactoryInv, RequestInv
    <3> QED
      BY <2>3, <3>1 DEF Awaited
  <2>4. ASSUME NEW i \in 1..Len(stubs[s])
        PROVE  (Heard(s, i)' <=> Heard(s, i)) /\ (i # it[s] => (Placed(s, i)' <=> Placed(s, i)))
    <3>2. CASE i = it[s]
      BY <1>3, <1>w, <2>2, <2>3, <3>2 DEF Heard, Awaits, Link
    <3>3. CASE i # it[s]
      BY <1>3, <3>3 DEF Placed, Heard, Awaits
    <3> QED
      BY <3>2, <3>3
  <2>5. ~Placed(s, it[s]) /\ Placed(s, it[s])'
    BY <1>0, <1>3, <1>w, <2>1, <2>2, <2>3, <2>a DEF Placed, Awaits, Link
  <2>6. CalmPlace(s)
    BY <1>3, <1>4, <1>w, <2>1, <2>3, <2>4, <2>5 DEF CalmPlace, SameHeard
  <2> QED
    BY <1>4, <2>6 DEF CalmAction
<1>7. CASE ~ReceiveReplicationRequest(k) /\ ~EngineerPlaceOrder(k)
  <2>1. UNCHANGED <<primary_id, log, customer_record>>
    BY <1>1, <1>7 DEF EngineerThread, ReceiveStatusInfo, StoreCommittedIndex, StoreLastIndex,
                      SendReplicationResult, srvVars
  <2>2. /\ (conn'[k].eng \in Busy \/ conn'[k].ack) <=> (conn[k].eng \in Busy \/ conn[k].ack)
        /\ (conn'[k].eng = "reply" \/ conn'[k].ack) <=> (conn[k].eng = "reply" \/ conn[k].ack)
    <3>1. CASE ReceiveStatusInfo(k) \/ StoreCommittedIndex(k) \/ StoreLastIndex(k)
      BY <1>0, <3>1 DEF ReceiveStatusInfo, StoreCommittedIndex, StoreLastIndex, Conn, Busy
    <3>2. CASE SendReplicationResult(k)
      <4>1. conn'[k].ack /\ conn[k].eng = "reply"
        BY <1>0, <1>1, <3>2 DEF SendReplicationResult, Conn
      <4> QED
        BY <4>1 DEF Busy
    <3> QED
      BY <1>1, <1>7, <3>1, <3>2 DEF EngineerThread
  <2>3. ASSUME NEW i \in 1..Len(stubs[s])
        PROVE  (Heard(s, i)' <=> Heard(s, i)) /\ (Placed(s, i)' <=> Placed(s, i))
    <3>1. CASE stubs[s][i].conn = k
      BY <1>3, <2>2, <3>1 DEF Heard, Placed, Awaits, Link
    <3>2. CASE stubs[s][i].conn # k
      <4>1. stubs[s][i].conn \in ConnId
        BY CalmState
      <4> QED
        BY <1>3, <3>2, <4>1 DEF Heard, Placed, Awaits, Link
    <3> QED
      BY <3>1, <3>2
  <2>4. LoopSame(s) /\ DataSame
    BY <1>3, <1>4, <2>1, <2>3 DEF LoopSame, SamePlaced, SameHeard, DataSame
  <2> QED
    BY <1>4, <2>4 DEF CalmAction
<1> QED
  BY <1>5, <1>6, <1>7

(* There was no fault before the step if there is none after it.           *)
LEMMA NoFaultBefore ==
  ASSUME CrashInv, [Next]_vars, NoFault'
  PROVE  NoFault /\ \A s \in Server : ~Die(s)
<1>0. /\ TypeOK /\ FactoryInv /\ StubInv /\ crashes \in [Server -> Nat]
      /\ stubs \in [Server -> Seq(Stub)] /\ apc \in [Server -> AdminPC]
  BY DEF CrashInv, FactoryInv, TypeOK, ServerTypeOK, AdminTypeOK
<1>1. \A s \in Server : ~Die(s)
  BY <1>0 DEF NoFault, NoCrash, Die
<1>2. NoCrash
  BY <1>0, <1>1, CrashesChange DEF NoFault, NoCrash
<1>3. ASSUME NEW s \in Server, NEW i \in 1..Len(stubs[s]) PROVE stubs[s][i].valid
  <2>1. StubsGrow(s)
    BY <1>0, <1>1, StubsKept
  <2>2. i \in 1..Len(stubs'[s]) /\ Len(stubs[s]) \in Nat
    BY <1>0, <2>1 DEF StubsGrow
  <2>3. stubs'[s][i].valid
    BY <2>2 DEF NoFault
  <2> QED
    BY <2>1, <2>3 DEF StubsGrow
<1>4. ASSUME NEW s \in Server, NEW i \in 1..Len(stubs[s]) PROVE stubs[s][i].init
  <2>1. SUFFICES ASSUME ~stubs[s][i].init PROVE FALSE
    OBVIOUS
  <2>2. apc[s] = "identify" /\ i = Len(stubs[s]) /\ stubs[s][i].valid
    BY <1>0, <1>3, <2>1 DEF StubInv
  <2>3. ASSUME stubs'[s] = stubs[s] PROVE FALSE
    BY <2>1, <2>3 DEF NoFault
  <2>4. ~IdentifyPeer(s)
    <3>1. SUFFICES ASSUME IdentifyPeer(s) PROVE FALSE
      OBVIOUS
    <3>2. stubs' = [stubs EXCEPT ![s][i] = Closed(stubs[s][i])]
      BY <2>1, <2>2, <3>1 DEF IdentifyPeer
    <3>3. i \in 1..Len(stubs'[s]) /\ stubs'[s][i] = Closed(stubs[s][i])
      BY <1>0, <3>2
    <3>4. stubs[s][i] \in Stub
      BY <1>0, StubPeer
    <3> QED
      BY <3>3, <3>4 DEF NoFault, Closed, Stub
  <2>5. ASSUME NEW u \in Server, ProductionAdminThread(u) PROVE stubs'[s] = stubs[s]
    <3>1. CASE u # s
      BY <1>0, <1>1, <2>5, <3>1 DEF ProductionAdminThread, AdminDequeue, ReadCommitted, ClaimPrimary, ConnectPeer,
         IdentifyPeer, ReadIndex, BuildRequest, ReplicateTo, ReplicationAcked, ReplicationFailed, AdminPlaceOrder,
         CommitOrder, BrokenPipe, srvVars
    <3>2. CASE u = s
      BY <1>1, <2>2, <2>4, <2>5, <3>2 DEF ProductionAdminThread, AdminDequeue, ReadCommitted, ClaimPrimary,
         ConnectPeer, ReadIndex, BuildRequest, ReplicateTo, ReplicationAcked, ReplicationFailed, AdminPlaceOrder,
         CommitOrder, BrokenPipe
    <3> QED
      BY <3>1, <3>2
  <2>6. ASSUME NEW c \in Customer, Client(c) PROVE stubs' = stubs
    BY <2>6 DEF Client, StartSession, SendOrder, CreateRegularLaptop, SendLaptop, ClientGone, srvVars
  <2>7. ASSUME NEW k \in ConnId, EngineerThread(k) PROVE stubs' = stubs
    BY <2>7 DEF EngineerThread, ReceiveStatusInfo, StatusLost, ReceiveReplicationRequest, StoreCommittedIndex,
       StoreLastIndex, EngineerPlaceOrder, SendReplicationResult, PeerHangup, srvVars
  <2>8. ASSUME (\E u \in Server : Restart(u)) \/ UNCHANGED vars PROVE stubs' = stubs
    BY <2>8 DEF Restart, vars, srvVars
  <2> QED
    BY <1>1, <2>3, <2>5, <2>6, <2>7, <2>8 DEF Next, Crash
<1> QED
  BY <1>1, <1>2, <1>3, <1>4 DEF NoFault

(* Every step, as long as there is no fault.                               *)
LEMMA CalmSteps ==
  ASSUME CrashInv, [Next]_vars, NoFault'
  PROVE  NoFault /\ CalmStep
<1>1. NoFault /\ \A s \in Server : ~Die(s)
  BY NoFaultBefore
<1>3. ASSUME UNCHANGED <<stubs, conn, adminVars>> PROVE \A t \in Server : LoopSame(t)
  BY <1>3 DEF adminVars, LoopSame, Stands, SamePlaced, SameHeard, Placed, Heard, Awaits, Link
<1>4. ASSUME NEW c \in Customer, Client(c) PROVE CalmStep
  <2>1. UNCHANGED <<stubs, conn, adminVars>>
    BY <1>4 DEF Client, StartSession, SendOrder, CreateRegularLaptop, SendLaptop, ClientGone, srvVars, adminVars
  <2> QED
    BY <1>3, <1>4, <2>1 DEF CalmStep
<1>5. ASSUME NEW s \in Server, ProductionAdminThread(s) PROVE CalmStep
  BY <1>1, <1>5, CalmAdmin DEF CalmStep
<1>6. ASSUME NEW k \in ConnId, EngineerThread(k) PROVE CalmStep
  BY <1>1, <1>6, CalmEngineer DEF CalmStep
<1>7. ASSUME NEW s \in Server PROVE ~Crash(s) /\ ~Restart(s)
  BY <1>1, CalmState DEF Crash, Restart
<1>8. ASSUME UNCHANGED vars PROVE CalmStep
  BY <1>3, <1>8 DEF CalmStep, DataSame, vars, srvVars, adminVars
<1> QED
  BY <1>1, <1>4, <1>5, <1>6, <1>7, <1>8 DEF Next

-----------------------------------------------------------------------------
(* One primary.                                                            *)

(* Each server lists all others, as the command lines of README.md do.     *)
AllPeers == \A s \in Server : Peers(s) = Server \ {s}

(* Server s has told t that it is the primary since it last claimed to be. *)
Told(s, t) ==
  \/ apc[s] \notin Claiming
  \/ /\ apc[s] \in {"visit", "await"}
     /\ \E i \in 1..Len(stubs[s]) : stubs[s][i].peer = t /\ Heard(s, i)

(* Of two servers that hold themselves for the primary, one has yet to     *)
(* tell the other.                                                         *)
PrimaryInv ==
  NoFault => \A s, t \in Server :
    s # t /\ primary_id[s] = s /\ primary_id[t] = t => ~(Told(s, t) /\ Told(t, s))

(* The loop over the stubs ends when it has passed a stub for every peer.  *)
LEMMA LoopEnds ==
  ASSUME CrashInv, NoFault, NEW s \in Server, NEW n \in Nat, AfterStub(s, n) = "place",
         apc[s] \in {"build", "await"}, NEW p \in Peers(s)
  PROVE  \E i \in 1..Len(stubs[s]) : stubs[s][i].peer = p /\ i <= n
<1>1. Connected(s) /\ Len(stubs[s]) \in Nat
  BY DEF CrashInv, FactoryInv, CoverInv, TypeOK, ServerTypeOK
<1>2. ~(n < Len(stubs[s]))
  BY DEF AfterStub
<1> QED
  BY <1>1, <1>2 DEF Connected

(* A peer is told only by a request it receives.                           *)
LEMMA ToldStep ==
  ASSUME CrashInv, NoFault, CalmStep, NEW s \in Server, NEW t \in Peers(s), t \in Server, Told(s, t)'
  PROVE  Told(s, t) \/ primary_id'[t] = s
<1>0. apc \in [Server -> AdminPC] /\ it[s] \in Nat /\ primary_id \in [Server -> Server \cup {NoOne}]
  BY DEF CrashInv, TypeOK, AdminTypeOK, ServerTypeOK
<1>1. CASE LoopSame(s)
  BY <1>1 DEF LoopSame, Stands, SameHeard, Told
<1>2. CASE CalmAction(s) /\ ~LoopSame(s)
  <2>0. apc[s] \notin Claiming => Told(s, t)
    BY DEF Told
  <2>1. CASE LocalAction(s) /\ UNCHANGED <<stubs, conn>>
    <3>1. CASE AdminDequeue(s) \/ ReadCommitted(s) \/ ClaimPrimary(s) \/ AdminPlaceOrder(s) \/ CommitOrder(s)
      BY <2>0, <3>1 DEF AdminDequeue, ReadCommitted, ClaimPrimary, AdminPlaceOrder, CommitOrder, Claiming
    <3>2. CASE ReadIndex(s)
      <4>1. apc'[s] = "build"
        BY <1>0, <3>2 DEF ReadIndex
      <4> QED
        BY <4>1 DEF Told, Claiming
    <3>3. CASE BuildRequest(s)
      <4>1. apc[s] = "build" /\ apc'[s] = AfterStub(s, 0) /\ it'[s] = 1
        BY <1>0, <3>3 DEF BuildRequest, CrashInv, TypeOK, AdminTypeOK
      <4>2. AfterStub(s, 0) # "place"
        BY <4>1, LoopEnds
      <4>3. apc'[s] = "visit"
        BY <4>1, <4>2 DEF AfterStub
      <4> QED
        BY <4>1, <4>3 DEF Told, Claiming, Heard, Awaits
    <3> QED
      BY <2>1, <3>1, <3>2, <3>3 DEF LocalAction
  <2>2. CASE CalmConnect(s) \/ CalmIdentify(s)
    <3>1. apc'[s] \in {"identify", "connect", "index"}
      BY <2>2 DEF CalmConnect, CalmIdentify, AfterPeer
    <3> QED
      BY <3>1 DEF Told, Claiming
  <2>3. CASE CalmVisit(s) \/ CalmPlace(s)
    BY <2>3 DEF CalmVisit, CalmPlace, Stands, SameHeard, Told, Claiming
  <2>4. CASE CalmAcked(s)
    <3>1. CASE AfterStub(s, it[s]) = "place"
      <4>1. PICK i \in 1..Len(stubs[s]) : stubs[s][i].peer = t /\ i <= it[s]
        BY <1>0, <2>4, <3>1, LoopEnds DEF CalmAcked
      <4>2. i < it[s] \/ i = it[s]
        BY <1>0, <4>1
      <4>3. Heard(s, i)
        BY <2>4, <4>2 DEF CalmAcked, Heard, Placed, Busy
      <4> QED
        BY <2>4, <4>1, <4>3 DEF CalmAcked, Told
    <3>2. CASE AfterStub(s, it[s]) # "place"
      <4>1. apc'[s] = "visit"
        BY <2>4, <3>2 DEF CalmAcked, AfterStub
      <4> QED
        BY <2>4, <4>1 DEF CalmAcked, SameHeard, Told, Claiming
    <3> QED
      BY <3>1, <3>2
  <2>5. CASE CalmReceive(s)
    <3>1. PICK i \in 1..Len(stubs[s]) : stubs[s][i].peer = t /\ Heard(s, i)'
      BY <2>5 DEF CalmReceive, Stands, Told, Claiming
    <3>2. CASE i = it[s]
      BY <1>0, <2>5, <3>1, <3>2 DEF CalmReceive
    <3>3. CASE i # it[s]
      BY <2>5, <3>1, <3>3 DEF CalmReceive, Told
    <3> QED
      BY <3>2, <3>3
  <2> QED
    BY <1>2, <2>1, <2>2, <2>3, <2>4, <2>5 DEF CalmAction
<1> QED
  BY <1>1, <1>2 DEF CalmStep, Others

(* A server holds itself for the primary from its claim on.                *)
LEMMA ClaimStep ==
  ASSUME CrashInv, NoFault, CalmStep, NEW s \in Server, primary_id'[s] = s, primary_id[s] # s
  PROVE  ClaimPrimary(s)
<1>0. primary_id \in [Server -> Server \cup {NoOne}]
  BY DEF CrashInv, TypeOK, ServerTypeOK
<1>1. ASSUME NEW c \in Customer, Client(c) PROVE FALSE
  BY <1>1 DEF Client, StartSession, SendOrder, CreateRegularLaptop, SendLaptop, ClientGone, srvVars
<1>2. PICK u \in Server : CalmAction(u)
  BY <1>1 DEF CalmStep, DataSame
<1>3. ~CalmReceive(u)
  <2>1. SUFFICES ASSUME CalmReceive(u) PROVE FALSE
    OBVIOUS
  <2>2. it[u] \in 1..Len(stubs[u])
    BY <2>1, CalmState DEF CalmReceive
  <2>3. stubs[u][it[u]].peer \in Server /\ stubs[u][it[u]].peer # u
    BY <2>2, CalmState
  <2> QED
    BY <1>0, <2>1, <2>3 DEF CalmReceive
<1>4. LocalAction(u)
  BY <1>2, <1>3 DEF CalmAction, CalmConnect, CalmIdentify, CalmVisit, CalmAcked, CalmPlace, DataSame
<1>5. ClaimPrimary(u)
  BY <1>4 DEF LocalAction, AdminDequeue, ReadCommitted, ReadIndex, BuildRequest, AdminPlaceOrder, CommitOrder, srvVars
<1> QED
  BY <1>0, <1>5 DEF ClaimPrimary

(* Every step leaves at most one settled primary.                          *)
LEMMA NextPrimary ==
  ASSUME AllPeers, CrashInv, PrimaryInv, [Next]_vars
  PROVE  PrimaryInv'
<1>1. SUFFICES ASSUME NoFault', NEW s \in Server, NEW t \in Server, s # t,
                      primary_id'[s] = s, primary_id'[t] = t, Told(s, t)', Told(t, s)'
               PROVE  FALSE
  BY DEF PrimaryInv
<1>2. NoFault /\ CalmStep
  BY <1>1, CalmSteps
<1>3. s \in Peers(t) /\ t \in Peers(s)
  BY <1>1 DEF AllPeers
<1>4. Told(s, t) /\ Told(t, s)
  BY <1>1, <1>2, <1>3, ToldStep
<1>5. ASSUME NEW u \in Server, NEW v \in Server, v \in Peers(u), ClaimPrimary(u), Told(u, v)' PROVE FALSE
  <2>0. apc \in [Server -> AdminPC]
    BY DEF CrashInv, TypeOK, AdminTypeOK
  <2>1. apc'[u] = AfterPeer(u, 0)
    BY <1>5, <2>0 DEF ClaimPrimary
  <2>2. PICK i \in 1..Len(PeerList[u]) : v = PeerList[u][i]
    BY <1>5 DEF Peers
  <2>3. Len(PeerList[u]) \in Nat
    BY FactoryAssumption
  <2>4. 0 < Len(PeerList[u])
    BY <2>2, <2>3
  <2> QED
    BY <1>5, <2>1, <2>4 DEF AfterPeer, Told, Claiming
<1>6. primary_id[s] = s /\ primary_id[t] = t
  BY <1>1, <1>2, <1>3, <1>5, ClaimStep
<1> QED
  BY <1>1, <1>2, <1>4, <1>6 DEF PrimaryInv

(* Without faults, whoever has settled as the primary is the only one.     *)
THEOREM OneSettledPrimary ==
  ASSUME AllPeers
  PROVE  Spec => []AtMostOneSettledPrimary
<1>1. Init => PrimaryInv
  BY FactoryAssumption DEF Init, PrimaryInv
<1>2. CrashInv /\ PrimaryInv /\ [Next]_vars => PrimaryInv'
  BY NextPrimary
<1>3. PrimaryInv => AtMostOneSettledPrimary
  BY DEF PrimaryInv, AtMostOneSettledPrimary, Told
<1> QED
  BY <1>1, <1>2, <1>3, CrashInvariant, PTL DEF Spec

-----------------------------------------------------------------------------
(* One replicated record.                                                  *)

(* A client that has run has placed all its orders, and its next order is  *)
(* one it still has to place.                                              *)
SessionOK(c) ==
  /\ cpc[c] = "off" => IF sess[c] = 0 THEN cnum[c] = 0 ELSE cnum[c] = NumOrders
  /\ cpc[c] # "off" => sess[c] > 0 /\ cnum[c] < NumOrders

(* What the servers know of client c.                                      *)
RecordsOf(c) ==
  /\ cpc[c] \in {"off", "ready"} => \A s \in Server : customer_record[s][IdOf[c]] = LastAcked(c)
  /\ cpc[c] = "wait" => \A s \in Server : customer_record[s][IdOf[c]] \in {LastAcked(c), cnum[c]}
  /\ cpc[c] = "promised" => \A s \in Server : customer_record[s][IdOf[c]] = cnum[c]

Learnt(p, o) == customer_record[p][IdOf[o.cust]] = o.num

(* The peers that the loop of startReplication has passed know the order.  *)
LoopKnown(s) ==
  /\ apc[s] \in {"visit", "await"} => \A i \in 1..Len(stubs[s]) :
       Placed(s, i) => Learnt(stubs[s][i].peer, cur[s])
  /\ apc[s] = "place" => \A p \in Peers(s) : Learnt(p, cur[s])
  /\ apc[s] = "commit" => \A p \in {s} \cup Peers(s) : Learnt(p, cur[s])

(* For clients that have died, and for clients that share their id, it     *)
(* says nothing: another order may have taken the place of theirs.         *)
LoopRecords(s) == apc[s] # "idle" /\ Steady(cur[s].cust) => LoopKnown(s)

RecordInv ==
  NoFault => /\ \A c \in Customer : Steady(c) => SessionOK(c) /\ RecordsOf(c)
             /\ \A s \in Server : LoopRecords(s)

(* A client that has not died had not died before the step.                *)
LEMMA SteadyBefore ==
  ASSUME [Next]_vars, NEW c \in Customer, Steady(c)'
  PROVE  Steady(c)
<1>1. abandoned \subseteq abandoned'
  BY AbandonedSteps DEF ClientGone
<1> QED
  BY <1>1 DEF Steady, Alone

(* It waits for the order of its that a server is at work on.              *)
LEMMA SteadyCur ==
  ASSUME CrashInv, NEW s \in Server, apc[s] # "idle"
  PROVE  /\ cur[s] \in Order /\ cur[s].cust \in Customer
         /\ Steady(cur[s].cust) => Outstanding(s, cur[s])
<1>1. cur[s] \in Order /\ cur[s] \in Expected(s)
  BY DEF CrashInv, FactoryInv, ClientInv, QueueOK
<1>2. Outstanding(s, cur[s]) \/ cur[s] \in abandoned
  BY <1>1, ExpectedOf
<1> QED
  BY <1>1, <1>2 DEF Order, Steady

(* A step changes records in at most one place: that of a server which     *)
(* places the order that its client waits for, if it has not died.         *)
RecordChange(p, o) ==
  /\ o \in Order /\ o.cust \in Customer /\ p \in Server
  /\ Steady(o.cust) => Outstanding(csrv[o.cust], o)
  /\ customer_record' = [customer_record EXCEPT ![p][IdOf[o.cust]] = o.num]
  /\ UNCHANGED clientVars

(* A step of the servers leaves the records alone or changes one of them.  *)
LEMMA RecordSteps ==
  ASSUME CrashInv, NoFault, CalmStep
  PROVE  customer_record' = customer_record \/ \E p \in Server, o \in Order : RecordChange(p, o)
<1>1. ASSUME NEW s \in Server, apc[s] # "idle"
      PROVE  /\ cur[s] \in Order /\ cur[s].cust \in Customer
             /\ Steady(cur[s].cust) => Outstanding(csrv[cur[s].cust], cur[s])
  BY <1>1, SteadyCur DEF Outstanding
<1>2. ASSUME NEW c \in Customer, Client(c) PROVE customer_record' = customer_record
  BY <1>2 DEF Client, StartSession, SendOrder, CreateRegularLaptop, SendLaptop, ClientGone, srvVars
<1>3. ASSUME NEW s \in Server, AdminPlaceOrder(s) PROVE \E p \in Server, o \in Order : RecordChange(p, o)
  <2>1. RecordChange(s, cur[s])
    BY <1>1, <1>3 DEF AdminPlaceOrder, place_order, RecordChange
  <2> QED
    BY <1>1, <1>3, <2>1 DEF AdminPlaceOrder
<1>4. ASSUME NEW s \in Server, CalmPlace(s) PROVE \E p \in Server, o \in Order : RecordChange(p, o)
  <2>1. it[s] \in 1..Len(stubs[s])
    BY <1>4, CalmState DEF CalmPlace
  <2>2. stubs[s][it[s]].peer \in Server
    BY <2>1, CalmState
  <2>3. RecordChange(stubs[s][it[s]].peer, cur[s])
    BY <1>1, <1>4, <2>2 DEF CalmPlace, place_order, RecordChange
  <2> QED
    BY <1>1, <1>4, <2>2, <2>3 DEF CalmPlace
<1>5. ASSUME NEW s \in Server, LocalAction(s), ~AdminPlaceOrder(s) PROVE customer_record' = customer_record
  BY <1>5 DEF LocalAction, AdminDequeue, ReadCommitted, ClaimPrimary, ReadIndex, BuildRequest, CommitOrder, srvVars
<1> QED
  BY <1>2, <1>3, <1>4, <1>5 DEF CalmStep, CalmAction, CalmConnect, CalmIdentify, CalmVisit, CalmAcked, CalmReceive,
       DataSame

(* A server that has learnt the number a client waits for keeps it.        *)
LEMMA LearntKept ==
  ASSUME CrashInv, NoFault, CalmStep, NEW s \in Server, apc[s] # "idle", Steady(cur[s].cust),
         NEW p \in Server, Learnt(p, cur[s])
  PROVE  customer_record'[p][IdOf[cur[s].cust]] = cur[s].num
<1>0. /\ customer_record \in [Server -> [CustomerId -> Int]] /\ Outstanding(s, cur[s])
      /\ cur[s].cust \in Customer
  BY SteadyCur DEF CrashInv, TypeOK, ServerTypeOK
<1>1. CASE customer_record' = customer_record
  BY <1>1 DEF Learnt
<1>2. ASSUME NEW q \in Server, NEW o \in Order, RecordChange(q, o)
      PROVE  customer_record'[p][IdOf[cur[s].cust]] = cur[s].num
  <2>1. CASE o.cust = cur[s].cust
    <3>1. o = cur[s]
      BY <1>0, <1>2, <2>1 DEF RecordChange, Outstanding
    <3>2. IdOf[o.cust] \in CustomerId
      BY <1>2 DEF RecordChange, CustomerId
    <3> QED
      BY <1>0, <1>2, <3>1, <3>2 DEF RecordChange, Learnt
  <2>2. CASE o.cust # cur[s].cust
    <3>1. IdOf[o.cust] # IdOf[cur[s].cust]
      BY <1>2, <2>2 DEF RecordChange, Steady, Alone
    <3> QED
      BY <1>0, <1>2, <3>1 DEF RecordChange, Learnt
  <2> QED
    BY <2>1, <2>2
<1> QED
  BY <1>1, <1>2, RecordSteps

(* The loop of s goes on: the peers it has passed know its order.          *)
LEMMA NextLoopRecords ==
  ASSUME CrashInv, NoFault, CalmStep, [Next]_vars, NEW s \in Server, LoopRecords(s)
  PROVE  LoopRecords(s)'
<1>s. SUFFICES ASSUME apc'[s] # "idle", Steady(cur[s].cust)' PROVE LoopKnown(s)'
  BY DEF LoopRecords
<1>a. apc \in [Server -> AdminPC] /\ it[s] \in Nat /\ customer_record \in [Server -> [CustomerId -> Int]]
  BY DEF CrashInv, TypeOK, AdminTypeOK, ServerTypeOK
<1>b. Peers(s) \subseteq Server
  <2>1. PeerList[s] \in Seq(Server)
    BY FactoryAssumption
  <2>2. \A i \in 1..Len(PeerList[s]) : PeerList[s][i] \in Server
    BY <2>1
  <2> QED
    BY <2>2 DEF Peers
<1>c. apc[s] # "idle" => cur[s] \in Order /\ cur[s].cust \in Customer /\ IdOf[cur[s].cust] \in CustomerId
  BY SteadyCur DEF CustomerId
<1>d. \A i \in 1..Len(stubs[s]) : stubs[s][i].peer \in Server
  BY CalmState
<1>0. /\ apc \in [Server -> AdminPC] /\ it[s] \in Nat /\ Peers(s) \subseteq Server
      /\ customer_record \in [Server -> [CustomerId -> Int]]
      /\ \A i \in 1..Len(stubs[s]) : stubs[s][i].peer \in Server
      /\ apc[s] # "idle" => cur[s] \in Order /\ cur[s].cust \in Customer /\ IdOf[cur[s].cust] \in CustomerId
  BY <1>a, <1>b, <1>c, <1>d
<1>p. ASSUME apc[s] # "idle", cur'[s] = cur[s] PROVE Steady(cur[s].cust) /\ LoopKnown(s)
  <2>1. PICK c \in Customer : c = cur[s].cust
    BY <1>0, <1>p
  <2>2. Steady(c)'
    BY <1>s, <1>p, <2>1 DEF Steady, Alone
  <2> QED
    BY <1>p, <2>1, <2>2, SteadyBefore DEF LoopRecords
<1>1. ASSUME apc[s] # "idle", cur'[s] = cur[s], NEW p \in Server, Learnt(p, cur[s]) PROVE Learnt(p, cur[s])'
  BY <1>1, <1>p, LearntKept DEF Learnt
<1>2. CASE LoopSame(s)
  BY <1>0, <1>1, <1>p, <1>s, <1>2 DEF LoopSame, Stands, SamePlaced, LoopKnown
<1>3. CASE CalmAction(s) /\ ~LoopSame(s)
  <2>1. CASE LocalAction(s) /\ UNCHANGED <<stubs, conn>>
    <3>1. CASE AdminDequeue(s) \/ ReadCommitted(s) \/ ClaimPrimary(s) \/ ReadIndex(s) \/ CommitOrder(s)
      <4>1. apc'[s] \notin {"visit", "await", "place", "commit"}
        BY <1>0, <3>1 DEF AdminDequeue, ReadCommitted, ClaimPrimary, ReadIndex, CommitOrder, AfterPeer
      <4> QED
        BY <4>1 DEF LoopKnown
    <3>2. CASE BuildRequest(s)
      <4>1. apc[s] = "build" /\ apc'[s] = AfterStub(s, 0) /\ it'[s] = 1
        BY <1>0, <3>2 DEF BuildRequest, CrashInv, TypeOK, AdminTypeOK
      <4>2. AfterStub(s, 0) = "place" => Peers(s) = {}
        BY <4>1, LoopEnds
      <4>3. \A i \in 1..Len(stubs'[s]) : apc'[s] # "await" => ~Placed(s, i)'
        BY <4>1 DEF Placed, Awaits
      <4> QED
        BY <4>1, <4>2, <4>3 DEF LoopKnown, AfterStub
    <3>3. CASE AdminPlaceOrder(s)
      <4>1. apc[s] = "place" /\ apc'[s] = "commit" /\ cur'[s] = cur[s] /\ place_order(s, cur[s])
        BY <1>0, <3>3 DEF AdminPlaceOrder
      <4>2. Learnt(s, cur[s])'
        BY <1>0, <4>1 DEF place_order, Learnt
      <4>3. \A p \in Peers(s) : Learnt(p, cur[s])'
        BY <1>0, <1>1, <1>p, <1>s, <4>1 DEF LoopKnown
      <4> QED
        BY <4>1, <4>2, <4>3 DEF LoopKnown
    <3> QED
      BY <2>1, <3>1, <3>2, <3>3 DEF LocalAction
  <2>2. CASE CalmConnect(s) \/ CalmIdentify(s)
    <3>1. apc'[s] \in {"identify", "connect", "index"}
      BY <2>2 DEF CalmConnect, CalmIdentify, AfterPeer
    <3> QED
      BY <3>1 DEF LoopKnown
  <2>3. CASE CalmVisit(s)
    BY <1>0, <1>1, <1>p, <1>s, <2>3 DEF CalmVisit, SamePlaced, LoopKnown
  <2>4. CASE CalmReceive(s)
    BY <1>0, <1>1, <1>p, <1>s, <2>4 DEF CalmReceive, Stands, SamePlaced, LoopKnown
  <2>5. CASE CalmAcked(s)
    <3>1. ASSUME NEW i \in 1..Len(stubs[s]), i <= it[s] PROVE Learnt(stubs[s][i].peer, cur[s])'
      <4>1. i < it[s] \/ i = it[s]
        BY <1>0, <3>1
      <4>2. Placed(s, i)
        BY <2>5, <4>1 DEF CalmAcked, Placed
      <4> QED
        BY <1>0, <1>1, <1>p, <1>s, <2>5, <4>2 DEF CalmAcked, LoopKnown, Learnt
    <3>2. CASE AfterStub(s, it[s]) = "place"
      <4>1. \A p \in Peers(s) : \E i \in 1..Len(stubs[s]) : stubs[s][i].peer = p /\ i <= it[s]
        BY <1>0, <2>5, <3>2, LoopEnds DEF CalmAcked
      <4>2. ASSUME NEW p \in Peers(s) PROVE Learnt(p, cur[s])'
        <5>1. PICK i \in 1..Len(stubs[s]) : stubs[s][i].peer = p /\ i <= it[s]
          BY <4>1
        <5> QED
          BY <2>5, <3>1, <5>1 DEF CalmAcked, Learnt
      <4>3. apc'[s] = "place" /\ UNCHANGED PeerList
        BY <2>5, <3>2 DEF CalmAcked
      <4> QED
        BY <4>2, <4>3 DEF LoopKnown, Learnt
    <3>3. CASE AfterStub(s, it[s]) # "place"
      <4>1. apc'[s] = "visit"
        BY <2>5, <3>3 DEF CalmAcked, AfterStub
      <4> QED
        BY <1>0, <1>1, <1>p, <1>s, <2>5, <4>1 DEF CalmAcked, SamePlaced, LoopKnown
    <3> QED
      BY <3>2, <3>3
  <2>6. CASE CalmPlace(s)
    <3>1. it[s] \in 1..Len(stubs[s])
      BY <2>6, CalmState DEF CalmPlace
    <3>2. Learnt(stubs[s][it[s]].peer, cur[s])'
      BY <1>0, <2>6, <3>1 DEF CalmPlace, Stands, place_order, Learnt
    <3> QED
      BY <1>0, <1>1, <1>p, <1>s, <2>6, <3>1, <3>2 DEF CalmPlace, Stands, LoopKnown
  <2> QED
    BY <1>3, <2>1, <2>2, <2>3, <2>4, <2>5, <2>6 DEF CalmAction
<1> QED
  BY <1>2, <1>3 DEF CalmStep, Others

(* The clients change only by steps of their own and by a commit.          *)
LEMMA ClientSteps ==
  ASSUME CrashInv, NoFault, CalmStep
  PROVE  \/ UNCHANGED clientVars
         \/ \E c \in Customer : Client(c) /\ customer_record' = customer_record
         \/ \E s \in Server : CommitOrder(s)
<1>1. ASSUME NEW c \in Customer, Client(c) PROVE customer_record' = customer_record
  BY <1>1 DEF Client, StartSession, SendOrder, CreateRegularLaptop, SendLaptop, ClientGone, srvVars
<1>2. ASSUME NEW s \in Server, LocalAction(s), ~CommitOrder(s) PROVE UNCHANGED clientVars
  BY <1>2 DEF LocalAction, AdminDequeue, ReadCommitted, ClaimPrimary, ReadIndex, BuildRequest, AdminPlaceOrder
<1> QED
  BY <1>1, <1>2 DEF CalmStep, CalmAction, CalmConnect, CalmIdentify, CalmVisit, CalmAcked, CalmReceive, CalmPlace,
       DataSame

(* A commit promises the order to the client that waits for it, if it is   *)
(* still there.                                                            *)
CommitPromises(s, d) ==
  /\ cpc[d] = "wait" /\ csrv[d] = s /\ cur[s] = OrderOf(d) /\ cur[s].num = cnum[d]
  /\ cpc' = [cpc EXCEPT ![d] = "promised"]

(* A commit changes the one client, or nothing of the clients.             *)
LEMMA CommitClient ==
  ASSUME CrashInv, NEW s \in Server, CommitOrder(s)
  PROVE  /\ cur[s].cust \in Customer
         /\ UNCHANGED <<csrv, cnum, sess, log, customer_record, abandoned>>
         /\ cpc' = cpc \/ CommitPromises(s, cur[s].cust)
<1>1. cur[s].cust \in Customer
  BY SteadyCur DEF CommitOrder
<1>2. CASE Outstanding(s, cur[s])
  <2>1. cur[s].num = cnum[cur[s].cust]
    BY <1>2 DEF Outstanding, OrderOf
  <2> QED
    BY <1>1, <1>2, <2>1 DEF Outstanding, CommitOrder, CommitPromises
<1>3. CASE ~Outstanding(s, cur[s])
  BY <1>1, <1>3 DEF CommitOrder
<1> QED
  BY <1>2, <1>3

(* Every step keeps what the records say of one client.                    *)
LEMMA NextRecordsOf ==
  ASSUME AllPeers, CrashInv, NoFault, CalmStep, [Next]_vars, RecordInv, NEW c \in Customer, Steady(c)'
  PROVE  SessionOK(c)' /\ RecordsOf(c)'
<1>c. Steady(c) /\ IdOf[c] \in CustomerId
  BY SteadyBefore DEF CustomerId
<1>0. /\ SessionOK(c) /\ RecordsOf(c) /\ \A s \in Server : LoopRecords(s)
      /\ csrv \in [Customer -> Server \cup {NoOne}] /\ cpc \in [Customer -> ClientPC]
      /\ cnum \in [Customer -> Nat] /\ sess \in [Customer -> Nat]
      /\ customer_record \in [Server -> [CustomerId -> Int]] /\ NumOrders \in Nat \ {0}
  BY <1>c, FactoryAssumption DEF RecordInv, CrashInv, TypeOK, ServerTypeOK, ClientTypeOK
<1>1. CASE UNCHANGED clientVars
  <2>1. SessionOK(c)' /\ UNCHANGED LastAcked(c) /\ cpc' = cpc /\ cnum' = cnum
    BY <1>0, <1>1 DEF SessionOK, LastAcked, clientVars
  <2>2. CASE customer_record' = customer_record
    BY <1>0, <2>1, <2>2 DEF RecordsOf
  <2>3. ASSUME NEW p \in Server, NEW o \in Order, RecordChange(p, o) PROVE RecordsOf(c)'
    <3>1. o.cust # c => IdOf[o.cust] # IdOf[c]
      BY <1>c, <2>3 DEF RecordChange, Steady, Alone
    <3>2. o.cust = c => cpc[c] = "wait" /\ o.num = cnum[c]
      BY <1>c, <2>3 DEF RecordChange, Outstanding, OrderOf
    <3>3. \A s \in Server : \/ customer_record'[s][IdOf[c]] = customer_record[s][IdOf[c]]
                            \/ c = o.cust /\ customer_record'[s][IdOf[c]] = o.num
      BY <1>0, <1>c, <2>3, <3>1 DEF RecordChange
    <3> QED
      BY <1>0, <2>1, <3>2, <3>3 DEF RecordsOf
  <2> QED
    BY <2>1, <2>2, <2>3, RecordSteps
<1>2. ASSUME NEW d \in Customer, Client(d), customer_record' = customer_record PROVE SessionOK(c)' /\ RecordsOf(c)'
  <2>1. CASE d # c \/ \E s \in Server : CreateRegularLaptop(s, d)
    <3>1. cpc'[c] = cpc[c] /\ cnum'[c] = cnum[c] /\ sess'[c] = sess[c]
      BY <1>0, <1>2, <2>1 DEF Client, StartSession, SendOrder, CreateRegularLaptop, SendLaptop, ClientGone, clientVars
    <3> QED
      BY <1>0, <1>2, <3>1 DEF SessionOK, RecordsOf, LastAcked
  <2>2. CASE \E s \in Server : StartSession(c, s)
    <3>1. cpc[c] = "off" /\ cpc'[c] = "ready" /\ cnum'[c] = 0 /\ sess'[c] = sess[c] + 1
      BY <1>0, <2>2 DEF StartSession
    <3>2. sess[c] \in Nat /\ cnum[c] \in Nat /\ NumOrders \in Nat \ {0}
      BY <1>0
    <3>3. IF sess[c] = 0 THEN cnum[c] = 0 ELSE cnum[c] = NumOrders
      BY <1>0, <3>1 DEF SessionOK
    <3>4. LastAcked(c)' = LastAcked(c)
      BY <3>1, <3>2, <3>3 DEF LastAcked
    <3>5. SessionOK(c)'
      BY <3>1, <3>2 DEF SessionOK
    <3> QED
      BY <1>0, <1>2, <3>1, <3>4, <3>5 DEF RecordsOf
  <2>3. CASE SendOrder(c)
    <3>1. cpc[c] = "ready" /\ cpc'[c] = "wait" /\ cnum'[c] = cnum[c] /\ sess'[c] = sess[c]
      BY <1>0, <2>3 DEF SendOrder
    <3> QED
      BY <1>0, <1>2, <3>1 DEF SessionOK, RecordsOf, LastAcked
  <2>4. CASE SendLaptop(c)
    <3>1. /\ cpc[c] = "promised" /\ cnum'[c] = cnum[c] + 1 /\ sess'[c] = sess[c]
          /\ cpc'[c] = IF cnum[c] + 1 < NumOrders THEN "ready" ELSE "off"
      BY <1>0, <2>4 DEF SendLaptop
    <3>2. sess[c] \in Nat /\ cnum[c] \in Nat /\ NumOrders \in Nat \ {0}
      BY <1>0
    <3>3. LastAcked(c)' = cnum[c]
      BY <3>1, <3>2 DEF LastAcked
    <3>4. SessionOK(c)'
      BY <1>0, <3>1, <3>2 DEF SessionOK
    <3> QED
      BY <1>0, <1>2, <3>1, <3>3, <3>4 DEF RecordsOf
  <2>5. ~ClientGone(c)
    <3>1. OrderOf(c).cust = c
      BY DEF OrderOf
    <3> QED
      BY <3>1 DEF ClientGone, Steady
  <2> QED
    BY <1>2, <2>1, <2>2, <2>3, <2>4, <2>5 DEF Client
<1>3. ASSUME NEW s \in Server, CommitOrder(s), ~UNCHANGED clientVars PROVE SessionOK(c)' /\ RecordsOf(c)'
  <2>1. PICK d \in Customer : d = cur[s].cust
    BY <1>3, CommitClient
  <2>2. /\ cpc[d] = "wait" /\ cur[s].num = cnum[d] /\ cpc' = [cpc EXCEPT ![d] = "promised"]
        /\ UNCHANGED <<cnum, sess, customer_record>>
    BY <1>3, <2>1, CommitClient DEF CommitPromises, clientVars
  <2>4. CASE c = d
    <3>1. \A p \in Server : customer_record[p][IdOf[d]] = cnum[d]
      BY <1>0, <1>3, <1>c, <2>1, <2>2, <2>4 DEF CommitOrder, LoopRecords, LoopKnown, Learnt, AllPeers
    <3> QED
      BY <1>0, <2>2, <2>4, <3>1 DEF SessionOK, RecordsOf
  <2>5. CASE c # d
    <3>1. cpc'[c] = cpc[c]
      BY <1>0, <2>2, <2>5
    <3> QED
      BY <1>0, <2>2, <3>1 DEF SessionOK, RecordsOf, LastAcked
  <2> QED
    BY <2>4, <2>5
<1> QED
  BY <1>1, <1>2, <1>3, ClientSteps

(* Every step keeps the records and the loops in step.                     *)
LEMMA NextRecords ==
  ASSUME AllPeers, CrashInv, RecordInv, [Next]_vars
  PROVE  RecordInv'
<1>1. SUFFICES ASSUME NoFault'
               PROVE  /\ \A c \in Customer : Steady(c)' => SessionOK(c)' /\ RecordsOf(c)'
                      /\ \A s \in Server : LoopRecords(s)'
  BY DEF RecordInv
<1>2. NoFault /\ CalmStep
  BY <1>1, CalmSteps
<1>3. \A s \in Server : LoopRecords(s)'
  BY <1>2, NextLoopRecords DEF RecordInv
<1> QED
  BY <1>2, <1>3, NextRecordsOf

(* At the start no order has been placed and no record set.                *)
LEMMA InitRecords == Init => RecordInv
BY FactoryAssumption DEF Init, RecordInv, SessionOK, RecordsOf, LoopRecords, LastAcked, CustomerId

(* Without faults, no server's record lags behind what a customer whose    *)
(* client lives has been told, or shows more than the order being placed.  *)
THEOREM RecordsFollowAcks ==
  ASSUME AllPeers
  PROVE  Spec => []RecordFollowsAcks
<1>1. CrashInv /\ RecordInv /\ [Next]_vars => RecordInv'
  BY NextRecords
<1>2. CrashInv /\ RecordInv => RecordFollowsAcks
  <2>1. SUFFICES ASSUME CrashInv, RecordInv, NoFault, NEW s \in Server, NEW c \in Customer, Steady(c)
                 PROVE  \/ customer_record[s][IdOf[c]] = LastAcked(c)
                        \/ cpc[c] \in {"wait", "promised"} /\ customer_record[s][IdOf[c]] = cnum[c]
    BY DEF RecordFollowsAcks
  <2>2. cpc[c] \in ClientPC /\ RecordsOf(c)
    BY <2>1 DEF CrashInv, TypeOK, ClientTypeOK, RecordInv
  <2> QED
    BY <2>1, <2>2 DEF ClientPC, RecordsOf
<1> QED
  BY <1>1, <1>2, InitRecords, CrashInvariant, PTL DEF Spec

(* A world in which no server crashes or fails to connect and no client    *)
(* dies, and in which no two clients have the same id.                     *)
FaultFree ==
  /\ \A s \in Server : MaxCrashes[s] = 0
  /\ Flaky = {} /\ Mortal = {}
  /\ \A c \in Customer : Alone(c)

Undisturbed == NoFault /\ abandoned = {}

(* Without faults allowed, none happens: a broken pipe needs a dead peer,  *)
(* a stub that failed a dead peer or a Flaky server.                       *)
LEMMA NextNoFault ==
  ASSUME FaultFree, CrashInv, Undisturbed, [Next]_vars
  PROVE  Undisturbed'
<1>0. crashes \in [Server -> Nat] /\ NoFault
  BY DEF CrashInv, TypeOK, Undisturbed
<1>1. ASSUME NEW s \in Server PROVE ~Crash(s)
  BY <1>0 DEF FaultFree, NoFault, NoCrash, Crash
<1>2. ASSUME NEW s \in Server PROVE ~BrokenPipe(s)
  <2>1. SUFFICES ASSUME BrokenPipe(s) PROVE FALSE
    OBVIOUS
  <2>2. it[s] \in 1..Len(stubs[s])
    BY <1>0, <2>1, CalmState DEF BrokenPipe
  <2> QED
    BY <1>0, <2>1, <2>2, CalmState DEF BrokenPipe
<1>3. UNCHANGED crashes
  <2>1. ASSUME NEW c \in Customer, Client(c) PROVE UNCHANGED crashes
    BY <2>1 DEF Client, StartSession, SendOrder, CreateRegularLaptop, SendLaptop, ClientGone
  <2>2. ASSUME NEW s \in Server, ProductionAdminThread(s) PROVE UNCHANGED crashes
    BY <1>2, <2>2 DEF ProductionAdminThread, AdminDequeue, ReadCommitted, ClaimPrimary, ConnectPeer, IdentifyPeer,
       ReadIndex, BuildRequest, ReplicateTo, ReplicationAcked, ReplicationFailed, AdminPlaceOrder, CommitOrder
  <2>3. ASSUME NEW k \in ConnId, EngineerThread(k) PROVE UNCHANGED crashes
    BY <2>3 DEF EngineerThread, ReceiveStatusInfo, StatusLost, ReceiveReplicationRequest, StoreCommittedIndex,
       StoreLastIndex, EngineerPlaceOrder, SendReplicationResult, PeerHangup
  <2> QED
    BY <1>1, <2>1, <2>2, <2>3 DEF Next, vars, Restart
<1>4. NoCrash'
  BY <1>0, <1>3 DEF NoFault, NoCrash
<1>5. TypeOK' /\ StubInv'
  BY NextCrashInv DEF CrashInv, FactoryInv
<1>6. ASSUME NEW s \in Server, NEW i \in 1..Len(stubs'[s]) PROVE stubs'[s][i].valid /\ stubs'[s][i].init
  <2>1. StubOK(s, stubs[s][i])' /\ (stubs'[s][i].valid /\ ~stubs'[s][i].init => s \in Flaky)
    BY <1>5, <1>6 DEF StubInv
  <2>2. stubs'[s] \in Seq(Stub)
    BY <1>5 DEF TypeOK, ServerTypeOK
  <2>3. stubs'[s][i].peer \in Server
    <3>1. stubs'[s][i] \in Stub
      BY <2>2, ElementOfSeq
    <3> QED
      BY <3>1 DEF Stub
  <2> QED
    BY <1>4, <2>1, <2>3 DEF StubOK, NoCrash, FaultFree
<1>7. abandoned' = {}
  BY AbandonedSteps DEF Undisturbed, FaultFree, ClientGone
<1> QED
  BY <1>4, <1>6, <1>7 DEF Undisturbed, NoFault

(* The state of OrderService that a state of the servers stands for.       *)
Asked(c) == IF cpc[c] \in {"wait", "promised"} THEN cnum[c] ELSE -1
AskedOf  == [c \in Customer |-> Asked(c)]
RecordOf == [s \in Server |-> [c \in Customer |-> customer_record[s][IdOf[c]]]]
ToldOf   == [c \in Customer |-> LastAcked(c)]

(* Every step of the servers is one of the service, or not seen by it.     *)
LEMMA ServiceStep ==
  ASSUME AllPeers, CrashInv, RecordInv, NoFault, CalmStep, \A c \in Customer : Steady(c) /\ Steady(c)'
  PROVE  \/ RecordOf' = RecordOf /\ AskedOf' = AskedOf /\ ToldOf' = ToldOf
         \/ \E c \in Customer, n \in 0..NumOrders - 1 :
              /\ AskedOf[c] = -1 /\ AskedOf' = [AskedOf EXCEPT ![c] = n]
              /\ RecordOf' = RecordOf /\ ToldOf' = ToldOf
         \/ \E c \in Customer, s \in Server :
              /\ AskedOf[c] # -1 /\ RecordOf' = [RecordOf EXCEPT ![s][c] = AskedOf[c]]
              /\ AskedOf' = AskedOf /\ ToldOf' = ToldOf
         \/ \E c \in Customer :
              /\ AskedOf[c] # -1 /\ \A s \in Server : RecordOf[s][c] = AskedOf[c]
              /\ ToldOf' = [ToldOf EXCEPT ![c] = AskedOf[c]] /\ AskedOf' = [AskedOf EXCEPT ![c] = -1]
              /\ RecordOf' = RecordOf
<1>0. /\ \A c \in Customer : SessionOK(c) /\ RecordsOf(c)
      /\ csrv \in [Customer -> Server \cup {NoOne}] /\ cpc \in [Customer -> ClientPC]
      /\ cnum \in [Customer -> Nat] /\ sess \in [Customer -> Nat]
      /\ customer_record \in [Server -> [CustomerId -> Int]] /\ NumOrders \in Nat \ {0}
  BY FactoryAssumption DEF RecordInv, CrashInv, TypeOK, ServerTypeOK, ClientTypeOK
<1>r. customer_record' = customer_record => RecordOf' = RecordOf
  BY DEF RecordOf
<1>1. CASE UNCHANGED clientVars
  <2>1. AskedOf' = AskedOf /\ ToldOf' = ToldOf
    BY <1>1 DEF AskedOf, ToldOf, Asked, LastAcked, clientVars
  <2>2. ASSUME NEW p \in Server, NEW o \in Order, RecordChange(p, o)
        PROVE  \E c \in Customer : AskedOf[c] # -1 /\ RecordOf' = [RecordOf EXCEPT ![p][c] = AskedOf[c]]
    <3>1. PICK d \in Customer : d = o.cust
      BY <2>2 DEF RecordChange
    <3>2. cpc[d] = "wait" /\ o.num = cnum[d]
      BY <2>2, <3>1 DEF RecordChange, Outstanding, OrderOf
    <3>3. AskedOf[d] = o.num /\ o.num # -1
      BY <1>0, <3>2 DEF AskedOf, Asked
    <3>4. customer_record' = [customer_record EXCEPT ![p][IdOf[d]] = o.num]
      BY <2>2, <3>1 DEF RecordChange
    <3>5. ASSUME NEW s \in Server, NEW c \in Customer
          PROVE  customer_record'[s][IdOf[c]] = IF s = p /\ c = d THEN o.num ELSE customer_record[s][IdOf[c]]
      <4>1. IdOf[c] \in CustomerId /\ (c # d => IdOf[c] # IdOf[d])
        BY DEF CustomerId, Steady, Alone
      <4> QED
        BY <1>0, <3>4, <4>1
    <3>6. RecordOf' = [RecordOf EXCEPT ![p][d] = o.num]
      <4>1. ASSUME NEW s \in Server
            PROVE  [c \in Customer |-> customer_record'[s][IdOf[c]]]
                     = IF s = p THEN [[c \in Customer |-> customer_record[s][IdOf[c]]] EXCEPT ![d] = o.num]
                                ELSE [c \in Customer |-> customer_record[s][IdOf[c]]]
        BY <3>5
      <4> QED
        BY <4>1 DEF RecordOf
    <3> QED
      BY <3>3, <3>6
  <2> QED
    BY <1>r, <2>1, <2>2, RecordSteps
<1>2. ASSUME NEW d \in Customer, NEW s \in Server, StartSession(d, s)
      PROVE  AskedOf' = AskedOf /\ ToldOf' = ToldOf
  <2>1. ASSUME NEW c \in Customer PROVE Asked(c)' = Asked(c) /\ LastAcked(c)' = LastAcked(c)
    <3>1. CASE c # d
      <4>1. cpc'[c] = cpc[c] /\ cnum'[c] = cnum[c] /\ sess'[c] = sess[c]
        BY <1>0, <1>2, <3>1 DEF StartSession
      <4> QED
        BY <4>1 DEF Asked, LastAcked
    <3>2. CASE c = d
      <4>1. cpc[c] = "off" /\ cpc'[c] = "ready" /\ cnum'[c] = 0 /\ sess'[c] = sess[c] + 1
        BY <1>0, <1>2, <3>2 DEF StartSession
      <4>2. sess[c] \in Nat /\ cnum[c] \in Nat /\ NumOrders \in Nat \ {0}
        BY <1>0
      <4> QED
        BY <1>0, <4>1, <4>2 DEF Asked, LastAcked, SessionOK
    <3> QED
      BY <3>1, <3>2
  <2> QED
    BY <2>1 DEF AskedOf, ToldOf
<1>3. ASSUME NEW d \in Customer, SendOrder(d)
      PROVE  /\ AskedOf[d] = -1 /\ AskedOf' = [AskedOf EXCEPT ![d] = cnum[d]] /\ ToldOf' = ToldOf
             /\ cnum[d] \in 0..NumOrders - 1
  <2>1. cpc[d] = "ready" /\ cpc' = [cpc EXCEPT ![d] = "wait"] /\ UNCHANGED <<cnum, sess>>
    BY <1>3 DEF SendOrder
  <2>2. ToldOf' = ToldOf
    BY <2>1 DEF ToldOf, LastAcked
  <2>3. cnum[d] \in 0..NumOrders - 1
    BY <1>0, <2>1 DEF SessionOK
  <2>4. Asked(d)' = cnum[d] /\ \A c \in Customer : c # d => Asked(c)' = Asked(c)
    BY <1>0, <2>1 DEF Asked
  <2> QED
    BY <2>1, <2>2, <2>3, <2>4 DEF AskedOf, Asked
<1>4. ASSUME NEW d \in Customer, SendLaptop(d)
      PROVE  /\ AskedOf[d] # -1 /\ \A s \in Server : RecordOf[s][d] = AskedOf[d]
             /\ ToldOf' = [ToldOf EXCEPT ![d] = AskedOf[d]] /\ AskedOf' = [AskedOf EXCEPT ![d] = -1]
  <2>1. /\ cpc[d] = "promised" /\ cnum' = [cnum EXCEPT ![d] = cnum[d] + 1] /\ UNCHANGED sess
        /\ cpc' = [cpc EXCEPT ![d] = IF cnum[d] + 1 < NumOrders THEN "ready" ELSE "off"]
    BY <1>4 DEF SendLaptop
  <2>2. AskedOf[d] = cnum[d] /\ cnum[d] \in Nat
    BY <1>0, <2>1 DEF AskedOf, Asked
  <2>3. ASSUME NEW c \in Customer
        PROVE  IF c = d THEN Asked(c)' = -1 /\ LastAcked(c)' = cnum[d]
                        ELSE Asked(c)' = Asked(c) /\ LastAcked(c)' = LastAcked(c)
    BY <1>0, <2>1, <2>2 DEF Asked, LastAcked
  <2>4. \A s \in Server : RecordOf[s][d] = AskedOf[d]
    BY <1>0, <2>1, <2>2 DEF RecordsOf, RecordOf
  <2>5. AskedOf' = [AskedOf EXCEPT ![d] = -1]
    BY <2>3 DEF AskedOf
  <2>6. ToldOf' = [ToldOf EXCEPT ![d] = cnum[d]]
    BY <2>3 DEF ToldOf
  <2>7. AskedOf[d] # -1
    BY <2>2
  <2> QED
    BY <2>2, <2>4, <2>5, <2>6, <2>7
<1>5. ASSUME NEW s \in Server, CommitOrder(s), ~UNCHANGED clientVars
      PROVE  AskedOf' = AskedOf /\ ToldOf' = ToldOf /\ customer_record' = customer_record
  <2>1. PICK d \in Customer : d = cur[s].cust
    BY <1>5, CommitClient
  <2>2. cpc[d] = "wait" /\ cpc' = [cpc EXCEPT ![d] = "promised"] /\ UNCHANGED <<cnum, sess, customer_record>>
    BY <1>5, <2>1, CommitClient DEF CommitPromises, clientVars
  <2>3. ASSUME NEW c \in Customer PROVE Asked(c)' = Asked(c)
    BY <1>0, <2>2 DEF Asked
  <2>4. ToldOf' = ToldOf
    BY <2>2 DEF ToldOf, LastAcked
  <2> QED
    BY <2>2, <2>3, <2>4 DEF AskedOf
<1>6. ASSUME NEW d \in Customer, NEW s \in Server, CreateRegularLaptop(s, d) PROVE UNCHANGED clientVars
  BY <1>6 DEF CreateRegularLaptop
<1>7. ASSUME NEW d \in Customer PROVE ~ClientGone(d)
  <2>1. OrderOf(d).cust = d
    BY DEF OrderOf
  <2> QED
    BY <2>1 DEF ClientGone, Steady
<1> QED
  BY <1>r, <1>1, <1>2, <1>3, <1>4, <1>5, <1>6, <1>7, ClientSteps DEF Client

(* The replicated record: what the servers do, seen through their records  *)
(* and what the clients wait for and were told, is what OrderService does, *)
(* when no server crashes or fails to connect, and clients live and have   *)
(* ids of their own.                                                       *)
THEOREM ServersAreOneService ==
  ASSUME AllPeers, FaultFree
  PROVE  Spec => ImplementsOrderService
<1>1. Init => Undisturbed
  BY DEF Init, Undisturbed, NoFault, NoCrash
<1>2. CrashInv /\ Undisturbed /\ [Next]_vars => Undisturbed'
  BY NextNoFault
<1>3. CrashInv /\ RecordInv /\ [Next]_vars => RecordInv'
  BY NextRecords
<1>4. Init => Service!Init
  <2>1. ASSUME NEW c \in Customer PROVE IdOf[c] \in CustomerId
    BY DEF CustomerId
  <2> QED
    BY <2>1 DEF Init, Service!Init, LastAcked
<1>5. CrashInv /\ RecordInv /\ Undisturbed /\ Undisturbed' /\ [Next]_vars
        => [Service!Next]_<<RecordOf, AskedOf, ToldOf>>
  <2>1. SUFFICES ASSUME CrashInv, RecordInv, Undisturbed, Undisturbed', [Next]_vars
                 PROVE  [Service!Next]_<<RecordOf, AskedOf, ToldOf>>
    OBVIOUS
  <2>2. NoFault /\ CalmStep
    BY <2>1, CalmSteps DEF Undisturbed
  <2>3. \A c \in Customer : Steady(c) /\ Steady(c)'
    BY <2>1 DEF Undisturbed, FaultFree, Steady, Alone
  <2> QED
    BY <2>1, <2>2, <2>3, ServiceStep
       DEF Service!Next, Service!Ask, Service!Learn, Service!Tell, RecordOf, AskedOf, ToldOf, Asked
<1>6. Spec => []CrashInv /\ []RecordInv /\ []Undisturbed
  BY <1>1, <1>2, <1>3, InitRecords, CrashInvariant, PTL DEF Spec
<1>7. Service!Spec <=> Service!Init /\ [][Service!Next]_<<RecordOf, AskedOf, ToldOf>>
  BY DEF Service!Spec, RecordOf, AskedOf, ToldOf, Asked
<1> QED
  BY <1>4, <1>5, <1>6, <1>7, PTL DEF Spec, ImplementsOrderService

-----------------------------------------------------------------------------
(* The copies of an order.                                                 *)

(* How often log q has order o, how many stubs of list q are for peer p,   *)
(* and how many of those of s the order it places has been placed through. *)
Times(q, o)     == Cardinality({j \in 1..Len(q) : q[j] = o})
StubCount(q, p) == Cardinality({i \in 1..Len(q) : q[i].peer = p})
SentCount(s, p) == Cardinality({i \in 1..Len(stubs[s]) : stubs[s][i].peer = p /\ Placed(s, i)})

(* The positions of a sequence can be counted.                             *)
LEMMA Countable ==
  ASSUME NEW n \in Nat, NEW T \in SUBSET (1..n), NEW U \in SUBSET T
  PROVE  /\ IsFiniteSet(T) /\ IsFiniteSet(U)
         /\ Cardinality(T) \in Nat /\ Cardinality(U) \in Nat /\ Cardinality(U) <= Cardinality(T)
<1>1. IsFiniteSet(1..n)
  BY FS_Interval
<1>2. IsFiniteSet(T)
  BY <1>1, FS_Subset
<1>3. IsFiniteSet(U) /\ Cardinality(U) <= Cardinality(T)
  BY <1>2, FS_Subset
<1> QED
  BY <1>2, <1>3, FS_CardinalityType

(* How often a log has an order is a number.                               *)
LEMMA TimesType ==
  ASSUME NEW q \in Seq(Order), NEW o
  PROVE  Times(q, o) \in Nat
<1>1. {j \in 1..Len(q) : q[j] = o} \subseteq 1..Len(q) /\ Len(q) \in Nat
  OBVIOUS
<1> QED
  BY <1>1, Countable DEF Times

(* An order appended to a log is there once more, every other as before.   *)
LEMMA TimesAppend ==
  ASSUME NEW q \in Seq(Order), NEW o, NEW x \in Order
  PROVE  /\ Times(q, o) \in Nat
         /\ (\A j \in 1..Len(q) : q[j] # o) => Times(q, o) = 0
         /\ Times(Append(q, x), o) = IF x = o THEN Times(q, o) + 1 ELSE Times(q, o)
<1> DEFINE T == {j \in 1..Len(q) : q[j] = o}
           T2 == {j \in 1..Len(Append(q, x)) : Append(q, x)[j] = o}
<1>1. Len(q) \in Nat /\ T \subseteq 1..Len(q)
  OBVIOUS
<1>2. IsFiniteSet(T) /\ Cardinality(T) \in Nat
  BY <1>1, Countable
<1>3. (\A j \in 1..Len(q) : q[j] # o) => T = {}
  OBVIOUS
<1>4. Len(Append(q, x)) = Len(q) + 1 /\ Append(q, x)[Len(q) + 1] = x
      /\ \A j \in 1..Len(q) : Append(q, x)[j] = q[j]
  BY AppendProperties
<1>5. T2 = IF x = o THEN T \cup {Len(q) + 1} ELSE T
  BY <1>1, <1>4
<1>6. Len(q) + 1 \notin T
  BY <1>1
<1>7. Cardinality(T \cup {Len(q) + 1}) = Cardinality(T) + 1
  BY <1>2, <1>6, FS_AddElement
<1> HIDE DEF T, T2
<1>8. Cardinality(T2) = IF x = o THEN Cardinality(T) + 1 ELSE Cardinality(T)
  BY <1>5, <1>7
<1>9. (\A j \in 1..Len(q) : q[j] # o) => Cardinality(T) = 0
  BY <1>3, FS_EmptySet
<1> QED
  BY <1>2, <1>8, <1>9 DEF Times, T, T2

(* A new stub does not lower the number of stubs for a peer.               *)
LEMMA StubCountAppend ==
  ASSUME NEW q \in Seq(Stub), NEW p, NEW r \in Stub
  PROVE  /\ StubCount(q, p) \in Nat /\ StubCount(Append(q, r), p) \in Nat
         /\ StubCount(q, p) <= StubCount(Append(q, r), p)
<1> DEFINE T == {i \in 1..Len(q) : q[i].peer = p}
           T2 == {i \in 1..Len(Append(q, r)) : Append(q, r)[i].peer = p}
<1>1. Len(Append(q, r)) = Len(q) + 1 /\ Len(q) \in Nat /\ \A i \in 1..Len(q) : Append(q, r)[i] = q[i]
  BY AppendProperties
<1>2. T \subseteq T2 /\ T2 \subseteq 1..(Len(q) + 1) /\ Len(q) + 1 \in Nat
  BY <1>1
<1> HIDE DEF T, T2
<1>3. Cardinality(T) \in Nat /\ Cardinality(T2) \in Nat /\ Cardinality(T) <= Cardinality(T2)
  BY <1>2, Countable
<1> QED
  BY <1>3 DEF StubCount, T, T2

(* No more copies are sent than there are stubs.                           *)
LEMMA SentBelowStubs ==
  ASSUME NEW s \in Server, stubs[s] \in Seq(Stub), NEW p
  PROVE  /\ SentCount(s, p) \in Nat /\ StubCount(stubs[s], p) \in Nat
         /\ SentCount(s, p) <= StubCount(stubs[s], p)
<1> DEFINE T == {i \in 1..Len(stubs[s]) : stubs[s][i].peer = p}
           U == {i \in 1..Len(stubs[s]) : stubs[s][i].peer = p /\ Placed(s, i)}
<1>1. T \subseteq 1..Len(stubs[s]) /\ U \subseteq T /\ Len(stubs[s]) \in Nat
  OBVIOUS
<1> HIDE DEF T, U
<1>2. Cardinality(T) \in Nat /\ Cardinality(U) \in Nat /\ Cardinality(U) <= Cardinality(T)
  BY <1>1, Countable
<1> QED
  BY <1>2 DEF SentCount, StubCount, T, U

(* The order s places is at its peers only as often as it has been placed  *)
(* through a stub, and in its own log only after the loop.                 *)
CopiesOfCur(s) ==
  /\ Times(log[s], cur[s]) = IF apc[s] = "commit" THEN 1 ELSE 0
  /\ \A p \in Server \ {s} :
       Times(log[p], cur[s]) <= IF apc[s] \in {"place", "commit"} THEN StubCount(stubs[s], p)
                                ELSE IF apc[s] \in {"visit", "await"} THEN SentCount(s, p)
                                ELSE 0

CopiesBelow(s, o) ==
  /\ Times(log[s], o) = 1
  /\ \A p \in Server \ {s} : Times(log[p], o) <= StubCount(stubs[s], p)

(* The orders on their way to the admin thread of s.                       *)
Queued(s) == inbox[s] \cup {erq[s][i] : i \in 1..Len(erq[s])}

(* An order whose client has died may be sent again by the client's next   *)
(* run at another server, so only those that a client waits for count.     *)
CopiesInv ==
  NoFault =>
    /\ \A s \in Server : apc[s] # "idle" /\ Outstanding(s, cur[s]) => CopiesOfCur(s)
    /\ \A s \in Server : \A o \in Queued(s) : Outstanding(s, o) => \A p \in Server : Times(log[p], o) = 0
    /\ \A c \in Customer : cpc[c] = "promised" => CopiesBelow(csrv[c], OrderOf(c))
    /\ \A a \in acked : CopiesBelow(a.by, a.ord)

(* A step appends to at most one log: the order of the server that places  *)
(* it, at that server or at the peer it waits for.                         *)
LEMMA CalmLogs ==
  ASSUME CrashInv, NoFault, CalmStep
  PROVE  \/ log' = log
         \/ \E s \in Server : /\ AdminPlaceOrder(s) /\ cur[s] \in Order
                              /\ log' = [log EXCEPT ![s] = Append(log[s], cur[s])]
         \/ \E s \in Server : /\ CalmPlace(s) /\ cur[s] \in Order /\ stubs[s][it[s]].peer \in Server \ {s}
                              /\ log' = [log EXCEPT ![stubs[s][it[s]].peer] = Append(@, cur[s])]
<1>1. ASSUME NEW s \in Server, apc[s] # "idle" PROVE cur[s] \in Order
  BY <1>1, SteadyCur
<1>2. ASSUME NEW c \in Customer, Client(c) PROVE log' = log
  BY <1>2 DEF Client, StartSession, SendOrder, CreateRegularLaptop, SendLaptop, ClientGone, srvVars
<1>3. ASSUME NEW s \in Server, AdminPlaceOrder(s)
      PROVE  cur[s] \in Order /\ log' = [log EXCEPT ![s] = Append(log[s], cur[s])]
  BY <1>1, <1>3 DEF AdminPlaceOrder, place_order
<1>4. ASSUME NEW s \in Server, CalmPlace(s)
      PROVE  /\ cur[s] \in Order /\ stubs[s][it[s]].peer \in Server \ {s}
             /\ log' = [log EXCEPT ![stubs[s][it[s]].peer] = Append(@, cur[s])]
  <2>1. it[s] \in 1..Len(stubs[s])
    BY <1>4, CalmState DEF CalmPlace
  <2>2. stubs[s][it[s]].peer \in Server \ {s}
    BY <2>1, CalmState
  <2> QED
    BY <1>1, <1>4, <2>2 DEF CalmPlace, place_order
<1>5. ASSUME NEW s \in Server, LocalAction(s), ~AdminPlaceOrder(s) PROVE log' = log
  BY <1>5 DEF LocalAction, AdminDequeue, ReadCommitted, ClaimPrimary, ReadIndex, BuildRequest, CommitOrder, srvVars
<1> QED
  BY <1>2, <1>3, <1>4, <1>5 DEF CalmStep, CalmAction, CalmConnect, CalmIdentify, CalmVisit, CalmAcked, CalmReceive,
       DataSame

(* An order that is not being placed stays as often in each log.           *)
LEMMA TimesKept ==
  ASSUME CrashInv, NoFault, CalmStep, NEW o,
         \A s \in Server : AdminPlaceOrder(s) \/ CalmPlace(s) => cur[s] # o,
         NEW p \in Server
  PROVE  Times(log'[p], o) = Times(log[p], o)
<1>0. log \in [Server -> Seq(Order)]
  BY DEF CrashInv, TypeOK, ServerTypeOK
<1>1. log'[p] = log[p] \/ \E x \in Order : x # o /\ log'[p] = Append(log[p], x)
  BY <1>0, CalmLogs
<1>2. PICK q \in Seq(Order) : q = log[p]
  BY <1>0
<1>3. ASSUME NEW x \in Order, x # o, log'[p] = Append(q, x) PROVE Times(log'[p], o) = Times(q, o)
  BY <1>3, TimesAppend
<1> QED
  BY <1>1, <1>2, <1>3

(* Stubs are only ever added.                                              *)
LEMMA CalmStubs ==
  ASSUME CrashInv, NoFault, CalmStep, NEW s \in Server
  PROVE  stubs'[s] = stubs[s] \/ \E r \in Stub : stubs'[s] = Append(stubs[s], r)
BY DEF CalmStep, CalmAction, CalmConnect, CalmIdentify, CalmVisit, CalmAcked, CalmReceive, CalmPlace, Others, LoopSame,
       Stands

(* What holds for an order that is not being placed goes on to hold.       *)
LEMMA BelowKept ==
  ASSUME CrashInv, NoFault, CalmStep, NEW o,
         \A s \in Server : AdminPlaceOrder(s) \/ CalmPlace(s) => cur[s] # o,
         NEW s \in Server, CopiesBelow(s, o)
  PROVE  /\ Times(log'[s], o) = 1
         /\ \A p \in Server \ {s} : Times(log'[p], o) <= StubCount(stubs'[s], p)
<1>0. log[s] \in Seq(Order) /\ stubs[s] \in Seq(Stub) /\ \A p \in Server : log[p] \in Seq(Order)
  BY DEF CrashInv, TypeOK, ServerTypeOK
<1>1. Times(log'[s], o) = 1
  BY TimesKept DEF CopiesBelow
<1>2. ASSUME NEW p \in Server \ {s} PROVE Times(log'[p], o) <= StubCount(stubs'[s], p)
  <2>1. Times(log'[p], o) = Times(log[p], o)
    BY TimesKept
  <2>2. StubCount(stubs[s], p) \in Nat /\ StubCount(stubs'[s], p) \in Nat
        /\ StubCount(stubs[s], p) <= StubCount(stubs'[s], p)
    <3>1. PICK q \in Seq(Stub) : q = stubs[s]
      BY <1>0
    <3>2. StubCount(q, p) \in Nat
      BY <1>0, <3>1, SentBelowStubs
    <3>3. CASE stubs'[s] = q
      BY <3>1, <3>2, <3>3
    <3>4. ASSUME NEW r \in Stub, stubs'[s] = Append(q, r)
          PROVE  StubCount(stubs'[s], p) \in Nat /\ StubCount(q, p) <= StubCount(stubs'[s], p)
      BY <3>4, StubCountAppend
    <3> QED
      BY <3>1, <3>2, <3>3, <3>4, CalmStubs
  <2>3. Times(log[p], o) \in Nat
    BY <1>0, TimesType
  <2> QED
    BY <2>1, <2>2, <2>3 DEF CopiesBelow
<1> QED
  BY <1>1, <1>2

(* What a server holds is waited for now if it will be after the step: the *)
(* order of a client that died is never waited for again.                  *)
LEMMA WaitedBefore ==
  ASSUME CrashInv, [Next]_vars, NEW s \in Server, NEW o \in Order, o \in Expected(s), Outstanding(s, o)'
  PROVE  Outstanding(s, o)
<1>1. SUFFICES ASSUME o \in abandoned PROVE FALSE
  BY ExpectedOf
<1>2. o \in abandoned'
  BY <1>1, AbandonedSteps DEF ClientGone
<1>3. AbandonedPast(o)' /\ sess' \in [Customer -> Nat] /\ o.cust \in Customer
  BY <1>2, NextCrashInv DEF CrashInv, FactoryInv, ClientInv, TypeOK, ClientTypeOK, Order
<1>4. cpc'[o.cust] = "wait" /\ o.sess = sess'[o.cust]
  BY DEF Outstanding, OrderOf
<1> QED
  BY <1>3, <1>4 DEF AbandonedPast

(* Queued orders are expected.                                             *)
LEMMA QueuedExpected ==
  ASSUME CrashInv, NEW s \in Server, NEW o \in Queued(s)
  PROVE  o \in Order /\ o \in Expected(s) /\ (apc[s] # "idle" => o # cur[s])
<1>1. QueueOK(s) /\ inbox[s] \subseteq Order /\ erq[s] \in Seq(Order)
  BY DEF CrashInv, FactoryInv, ClientInv, TypeOK, ServerTypeOK
<1> QED
  BY <1>1, ElementOfSeq DEF Queued, QueueOK

(* The order that a server places is not one that a client waits for at    *)
(* another server or in a queue, nor one promised or acknowledged.         *)
LEMMA CurApart ==
  ASSUME CrashInv, NEW s \in Server, AdminPlaceOrder(s) \/ CalmPlace(s)
  PROVE  /\ \A t \in Server : t # s /\ apc[t] # "idle" /\ Outstanding(t, cur[t]) => cur[t] # cur[s]
         /\ \A t \in Server : \A o \in Queued(t) : Outstanding(t, o) => o # cur[s]
         /\ \A c \in Customer : cpc[c] = "promised" => OrderOf(c) # cur[s]
         /\ \A a \in acked : a.ord # cur[s]
<1>0. /\ ClientInv /\ PastInv /\ TypeOK /\ apc[s] # "idle" /\ sess \in [Customer -> Nat] /\ cnum \in [Customer -> Nat]
  BY DEF CrashInv, FactoryInv, AdminPlaceOrder, CalmPlace, TypeOK, ClientTypeOK
<1>1. cur[s] \in Order /\ cur[s].cust \in Customer /\ (Outstanding(s, cur[s]) \/ cur[s] \in abandoned)
  <2>1. cur[s] \in Order /\ cur[s] \in Expected(s)
    BY <1>0 DEF ClientInv, QueueOK
  <2> QED
    BY <2>1, ExpectedOf DEF Order
<1>2. ASSUME NEW c \in Customer, cpc[c] # "off", OrderOf(c) = cur[s] PROVE Outstanding(s, cur[s])
  <2>1. cur[s].cust = c /\ cur[s].sess = sess[c]
    BY <1>2 DEF OrderOf
  <2>2. cur[s] \in abandoned => sess[c] < sess[c]
    BY <1>0, <1>2, <2>1 DEF ClientInv, AbandonedPast
  <2> QED
    BY <1>0, <1>1, <2>2
<1>3. ASSUME NEW t \in Server, NEW o, Outstanding(t, o), o = cur[s] PROVE t = s
  <2>1. PICK c \in Customer : c = o.cust
    BY <1>1, <1>3
  <2>2. OrderOf(c) = cur[s] /\ cpc[c] = "wait" /\ csrv[c] = t
    BY <1>3, <2>1 DEF Outstanding
  <2>3. Outstanding(s, cur[s])
    BY <1>2, <2>2
  <2> QED
    BY <1>3, <2>1, <2>2, <2>3 DEF Outstanding
<1>4. ASSUME NEW t \in Server, NEW o \in Queued(t), Outstanding(t, o) PROVE o # cur[s]
  BY <1>0, <1>3, <1>4, QueuedExpected
<1>5. ASSUME NEW c \in Customer, cpc[c] = "promised" PROVE OrderOf(c) # cur[s]
  <2>1. SUFFICES ASSUME OrderOf(c) = cur[s] PROVE FALSE
    OBVIOUS
  <2>2. cpc[cur[s].cust] = "wait" /\ cur[s].cust = c
    BY <1>2, <1>5, <2>1 DEF Outstanding, OrderOf
  <2> QED
    BY <1>5, <2>2
<1>6. ASSUME NEW a \in acked PROVE a.ord # cur[s]
  <2>1. Before(a.ord) /\ a.ord \notin abandoned
    BY <1>0 DEF PastInv
  <2>2. SUFFICES ASSUME a.ord = cur[s] PROVE FALSE
    OBVIOUS
  <2>3. cur[s].sess = sess[cur[s].cust] /\ cur[s].num = cnum[cur[s].cust] /\ cur[s].cust \in Customer
    BY <1>1, <2>1, <2>2 DEF Outstanding, OrderOf
  <2>4. sess[cur[s].cust] \in Nat /\ cnum[cur[s].cust] \in Nat
    BY <1>0, <2>3
  <2> QED
    BY <2>1, <2>2, <2>3, <2>4 DEF Before
<1> QED
  BY <1>3, <1>4, <1>5, <1>6

(* The order of s, while s does not place it.                              *)
LEMMA SentKept ==
  ASSUME NEW s \in Server, stubs'[s] = stubs[s], SamePlaced(s), NEW p
  PROVE  SentCount(s, p)' = SentCount(s, p)
<1>1. {i \in 1..Len(stubs'[s]) : stubs'[s][i].peer = p /\ Placed(s, i)'}
        = {i \in 1..Len(stubs[s]) : stubs[s][i].peer = p /\ Placed(s, i)}
  BY DEF SamePlaced
<1> QED
  BY <1>1 DEF SentCount

(* One placing through a stub for peer p counts for p, and for no other.   *)
LEMMA SentOnce ==
  ASSUME CrashInv, NoFault, NEW s \in Server, CalmPlace(s), NEW p \in Server
  PROVE  SentCount(s, p)' = IF p = stubs[s][it[s]].peer THEN SentCount(s, p) + 1 ELSE SentCount(s, p)
<1> DEFINE U == {i \in 1..Len(stubs[s]) : stubs[s][i].peer = p /\ Placed(s, i)}
           V == {i \in 1..Len(stubs'[s]) : stubs'[s][i].peer = p /\ Placed(s, i)'}
<1>1. /\ it[s] \in 1..Len(stubs[s]) /\ stubs'[s] = stubs[s] /\ it'[s] = it[s]
      /\ ~Placed(s, it[s]) /\ Placed(s, it[s])'
      /\ \A i \in 1..Len(stubs[s]) : i # it[s] => (Placed(s, i)' <=> Placed(s, i))
  BY CalmState DEF CalmPlace, Stands
<1>2. PICK n : n = it[s]
  OBVIOUS
<1>3. Placed(s, n)'
  BY <1>1, <1>2 DEF Placed, Awaits, Link
<1>4. V = IF p = stubs[s][n].peer THEN U \cup {n} ELSE U
  BY <1>1, <1>2, <1>3
<1>5. n \notin U /\ U \subseteq 1..Len(stubs[s]) /\ Len(stubs[s]) \in Nat
  BY <1>1, <1>2 DEF CrashInv, TypeOK, ServerTypeOK
<1> HIDE DEF U, V
<1>6. IsFiniteSet(U)
  BY <1>5, Countable
<1>7. Cardinality(U \cup {n}) = Cardinality(U) + 1
  BY <1>5, <1>6, FS_AddElement
<1>8. Cardinality(V) = IF p = stubs[s][n].peer THEN Cardinality(U) + 1 ELSE Cardinality(U)
  BY <1>4, <1>7
<1> QED
  BY <1>2, <1>8 DEF SentCount, U, V

(* Every step keeps the bound on the copies of the order that s places.    *)
LEMMA NextCopiesOfCur ==
  ASSUME CrashInv, NoFault, CalmStep, [Next]_vars, NEW s \in Server, apc'[s] # "idle", Outstanding(s, cur[s])',
         apc[s] # "idle" /\ Outstanding(s, cur[s]) => CopiesOfCur(s),
         \A o \in Queued(s) : Outstanding(s, o) => \A p \in Server : Times(log[p], o) = 0
  PROVE  CopiesOfCur(s)'
<1>0. /\ apc \in [Server -> AdminPC] /\ it[s] \in Nat /\ log \in [Server -> Seq(Order)]
      /\ stubs[s] \in Seq(Stub) /\ erq[s] \in Seq(Order) /\ cur \in [Server -> Order \cup {NoOrder}]
  BY DEF CrashInv, TypeOK, AdminTypeOK, ServerTypeOK
<1>1. \A p \in Server : SentCount(s, p) \in Nat /\ StubCount(stubs[s], p) \in Nat
                        /\ SentCount(s, p) <= StubCount(stubs[s], p)
  BY <1>0, SentBelowStubs
<1>2. \A p \in Server : Times(log[p], cur[s]) \in Nat
  BY <1>0, TimesType
<1>w. ASSUME NEW o \in Order, o \in Expected(s), o = cur'[s] PROVE Outstanding(s, o)
  <2>1. Outstanding(s, o)'
    BY <1>w DEF Outstanding, OrderOf
  <2> QED
    BY <1>w, <2>1, WaitedBefore
<1>o. ASSUME apc[s] # "idle", cur'[s] = cur[s] PROVE Outstanding(s, cur[s]) /\ CopiesOfCur(s) /\ cur[s] \in Order
  <2>1. cur[s] \in Order /\ cur[s] \in Expected(s)
    BY <1>o DEF CrashInv, FactoryInv, ClientInv, QueueOK
  <2>2. Outstanding(s, cur[s])
    BY <1>o, <1>w, <2>1
  <2> QED
    BY <1>o, <2>1, <2>2
<1>3. CASE ~AdminPlaceOrder(s) /\ ~CalmPlace(s) /\ apc[s] # "idle" /\ cur'[s] = cur[s]
  <2>1. \A t \in Server : AdminPlaceOrder(t) \/ CalmPlace(t) => cur[t] # cur[s]
    BY <1>3, <1>o, CurApart
  <2>2. \A p \in Server : Times(log'[p], cur'[s]) = Times(log[p], cur[s])
    BY <1>3, <2>1, TimesKept
  <2>3. ASSUME stubs'[s] = stubs[s], SamePlaced(s),
               \/ apc'[s] = apc[s]
               \/ apc[s] \in {"visit", "await"} /\ apc'[s] \in {"visit", "await", "place"}
        PROVE  CopiesOfCur(s)'
    <3>1. \A p \in Server : SentCount(s, p)' = SentCount(s, p)
      BY <2>3, SentKept
    <3> QED
      BY <1>1, <1>2, <1>3, <1>o, <2>2, <2>3, <3>1 DEF CopiesOfCur
  <2>4. ASSUME apc[s] \notin {"visit", "await", "place", "commit"}, apc'[s] \notin {"visit", "await", "place", "commit"}
        PROVE  CopiesOfCur(s)'
    BY <1>3, <1>o, <2>2, <2>4 DEF CopiesOfCur
  <2>5. CASE LoopSame(s)
    BY <2>3, <2>5 DEF LoopSame, Stands
  <2>6. CASE CalmAction(s) /\ ~LoopSame(s)
    <3>1. CASE ReadCommitted(s) \/ ClaimPrimary(s) \/ ReadIndex(s)
      <4>1. apc[s] \in {"bump", "claim", "index"} /\ apc'[s] \in {"claim", "connect", "index", "build"}
        BY <1>0, <3>1 DEF ReadCommitted, ClaimPrimary, ReadIndex, AfterPeer
      <4> QED
        BY <2>4, <4>1
    <3>2. CASE BuildRequest(s)
      <4>1. apc[s] = "build" /\ apc'[s] = AfterStub(s, 0) /\ stubs'[s] = stubs[s]
        BY <1>0, <3>2 DEF BuildRequest, srvVars
      <4>2. \A p \in Server : SentCount(s, p)' \in Nat
        <5>1. stubs'[s] \in Seq(Stub)
          BY <1>0, <4>1
        <5>2. ASSUME NEW p \in Server PROVE SentCount(s, p)' \in Nat
          <6>1. {i \in 1..Len(stubs'[s]) : stubs'[s][i].peer = p /\ Placed(s, i)'} \subseteq 1..Len(stubs'[s])
                /\ Len(stubs'[s]) \in Nat
            BY <5>1
          <6> QED
            BY <6>1, Countable DEF SentCount
        <5> QED
          BY <5>2
      <4>3. apc'[s] \in {"visit", "place"}
        BY <4>1 DEF AfterStub
      <4> QED
        BY <1>1, <1>2, <1>3, <1>o, <2>2, <4>1, <4>2, <4>3 DEF CopiesOfCur
    <3>3. CASE AdminDequeue(s) \/ CommitOrder(s)
      <4>1. apc[s] = "idle" \/ apc'[s] = "idle"
        BY <1>0, <3>3 DEF AdminDequeue, CommitOrder
      <4> QED
        BY <1>3, <4>1
    <3>4. CASE CalmConnect(s) \/ CalmIdentify(s)
      <4>1. apc[s] \in {"connect", "identify"} /\ apc'[s] \in {"identify", "connect", "index"}
        BY <3>4 DEF CalmConnect, CalmIdentify, AfterPeer
      <4> QED
        BY <2>4, <4>1
    <3>5. CASE CalmVisit(s) \/ CalmAcked(s) \/ CalmReceive(s)
      <4>1. /\ stubs'[s] = stubs[s] /\ SamePlaced(s) /\ apc[s] \in {"visit", "await"}
            /\ apc'[s] \in {"visit", "await", "place"}
        BY <3>5 DEF CalmVisit, CalmAcked, CalmReceive, Stands, AfterStub
      <4> QED
        BY <2>3, <4>1
    <3> QED
      BY <1>3, <2>6, <3>1, <3>2, <3>3, <3>4, <3>5 DEF CalmAction, LocalAction
  <2> QED
    BY <2>5, <2>6 DEF CalmStep, Others
<1>4. CASE AdminPlaceOrder(s)
  <2>1. /\ apc[s] = "place" /\ apc'[s] = "commit" /\ cur'[s] = cur[s] /\ stubs'[s] = stubs[s]
        /\ log' = [log EXCEPT ![s] = Append(@, cur[s])] /\ cur[s] \in Order
    <3>1. cur[s] \in Order
      BY <1>4, SteadyCur DEF AdminPlaceOrder
    <3> QED
      BY <1>0, <1>4, <3>1 DEF AdminPlaceOrder, place_order
  <2>2. Times(Append(log[s], cur[s]), cur[s]) = Times(log[s], cur[s]) + 1
    BY <1>0, <2>1, TimesAppend
  <2>3. log'[s] = Append(log[s], cur[s]) /\ \A p \in Server \ {s} : log'[p] = log[p]
    BY <1>0, <2>1
  <2>4. CopiesOfCur(s)
    BY <1>o, <2>1
  <2> QED
    BY <1>1, <1>2, <2>1, <2>2, <2>3, <2>4 DEF CopiesOfCur
<1>5. CASE CalmPlace(s)
  <2>1. PICK q : q = stubs[s][it[s]].peer
    OBVIOUS
  <2>2. /\ apc[s] = "await" /\ apc'[s] = "await" /\ cur'[s] = cur[s] /\ q \in Server /\ q # s
        /\ log' = [log EXCEPT ![q] = Append(@, cur[s])] /\ cur[s] \in Order
    <3>1. cur[s] \in Order
      BY <1>5, SteadyCur DEF CalmPlace
    <3>2. it[s] \in 1..Len(stubs[s])
      BY <1>5, CalmState DEF CalmPlace
    <3>3. q \in Server /\ q # s
      BY <2>1, <3>2, CalmState
    <3> QED
      BY <1>5, <2>1, <3>1, <3>3 DEF CalmPlace, Stands, place_order
  <2>3. Times(Append(log[q], cur[s]), cur[s]) = Times(log[q], cur[s]) + 1
    BY <1>0, <2>2, TimesAppend
  <2>4. log'[q] = Append(log[q], cur[s]) /\ \A p \in Server \ {q} : log'[p] = log[p]
    BY <1>0, <2>2
  <2>5. \A p \in Server : SentCount(s, p)' = IF p = q THEN SentCount(s, p) + 1 ELSE SentCount(s, p)
    BY <1>5, <2>1, SentOnce
  <2>6. CopiesOfCur(s)
    BY <1>o, <2>2
  <2> QED
    BY <1>1, <1>2, <2>2, <2>3, <2>4, <2>5, <2>6 DEF CopiesOfCur
<1>6. CASE apc[s] = "idle" \/ cur'[s] # cur[s]
  <2>1. AdminDequeue(s)
    <3>1. ~LoopSame(s)
      BY <1>6 DEF LoopSame, Stands
    <3>2. CalmAction(s)
      BY <3>1 DEF CalmStep, Others
    <3>3. ~(CalmConnect(s) \/ CalmIdentify(s) \/ CalmVisit(s) \/ CalmAcked(s) \/ CalmReceive(s) \/ CalmPlace(s))
      BY <1>6 DEF CalmConnect, CalmIdentify, CalmVisit, CalmAcked, CalmReceive, CalmPlace, Stands
    <3>4. ~(ReadCommitted(s) \/ ClaimPrimary(s) \/ ReadIndex(s) \/ BuildRequest(s) \/ AdminPlaceOrder(s) \/ CommitOrder(s))
      BY <1>0, <1>6 DEF ReadCommitted, ClaimPrimary, ReadIndex, BuildRequest, AdminPlaceOrder, CommitOrder
    <3> QED
      BY <3>1, <3>2, <3>3, <3>4 DEF CalmAction, LocalAction
  <2>2. /\ cur'[s] = Head(erq[s]) /\ erq[s] # << >> /\ apc'[s] \in {"bump", "index"} /\ log' = log
    BY <1>0, <2>1 DEF AdminDequeue
  <2>3. Head(erq[s]) = erq[s][1] /\ 1 \in 1..Len(erq[s])
    BY <1>0, <2>2, EmptySeq
  <2>4. cur'[s] \in Queued(s)
    BY <2>2, <2>3 DEF Queued
  <2>5. \A p \in Server : Times(log[p], cur'[s]) = 0
    BY <1>w, <2>4, QueuedExpected
  <2> QED
    BY <2>2, <2>5 DEF CopiesOfCur
<1> QED
  BY <1>3, <1>4, <1>5, <1>6

(* A queued order was queued before, or is the one a client just sent.     *)
LEMMA CalmQueues ==
  ASSUME CrashInv, NoFault, CalmStep, NEW s \in Server, NEW o \in Queued(s)'
  PROVE  o \in Queued(s) \/ \E c \in Customer : SendOrder(c) /\ o = OrderOf(c)
<1>0. /\ erq \in [Server -> Seq(Order)] /\ erq[s] \in Seq(Order) /\ inbox \in [Server -> SUBSET Order]
      /\ \A c \in Customer : cpc[c] # "off" => csrv[c] \in Server
  BY DEF CrashInv, TypeOK, ServerTypeOK, FactoryInv, ClientInv
<1>1. CASE UNCHANGED <<erq, inbox>>
  BY <1>1 DEF Queued
<1>2. ASSUME NEW c \in Customer, SendOrder(c) PROVE o \in Queued(s) \/ o = OrderOf(c)
  <2>1. erq' = erq /\ inbox'[s] \subseteq inbox[s] \cup {OrderOf(c)}
    BY <1>0, <1>2 DEF SendOrder
  <2> QED
    BY <2>1 DEF Queued
<1>3. ASSUME NEW c \in Customer, NEW t \in Server, CreateRegularLaptop(t, c) PROVE o \in Queued(s)
  <2>1. PICK x \in inbox[t] : /\ inbox' = [inbox EXCEPT ![t] = inbox[t] \ {x}]
                              /\ erq' = [erq EXCEPT ![t] = Append(erq[t], x)]
    BY <1>3 DEF CreateRegularLaptop
  <2>2. CASE t # s
    <3>1. erq'[s] = erq[s] /\ inbox'[s] = inbox[s]
      BY <1>0, <2>1, <2>2
    <3> QED
      BY <3>1 DEF Queued
  <2>3. CASE t = s
    <3>1. erq'[s] = Append(erq[s], x) /\ inbox'[s] = inbox[s] \ {x} /\ x \in Order
      BY <1>0, <2>1, <2>3
    <3>2. /\ Len(erq'[s]) = Len(erq[s]) + 1 /\ Len(erq[s]) \in Nat /\ erq'[s][Len(erq[s]) + 1] = x
          /\ \A j \in 1..Len(erq[s]) : erq'[s][j] = erq[s][j]
      BY <1>0, <3>1, AppendProperties
    <3>3. \A i \in 1..Len(erq'[s]) : i \in 1..Len(erq[s]) \/ erq'[s][i] = x
      BY <3>2
    <3> QED
      BY <2>1, <2>3, <3>1, <3>2, <3>3 DEF Queued
  <2> QED
    BY <2>2, <2>3
<1>4. ASSUME NEW c \in Customer, Client(c), ~SendOrder(c), \A t \in Server : ~CreateRegularLaptop(t, c)
      PROVE  UNCHANGED <<erq, inbox>>
  BY <1>4 DEF Client, StartSession, SendLaptop, ClientGone, srvVars
<1>5. ASSUME NEW t \in Server, AdminDequeue(t) PROVE o \in Queued(s)
  <2>1. inbox' = inbox
    BY <1>5 DEF AdminDequeue
  <2>2. CASE t # s
    <3>1. erq'[s] = erq[s]
      BY <1>0, <1>5, <2>2 DEF AdminDequeue
    <3> QED
      BY <2>1, <3>1 DEF Queued
  <2>3. CASE t = s
    <3>1. erq[s] # << >> /\ erq'[s] = Tail(erq[s])
      BY <1>0, <1>5, <2>3 DEF AdminDequeue
    <3>2. Len(erq'[s]) = Len(erq[s]) - 1 /\ \A j \in 1..Len(Tail(erq[s])) : Tail(erq[s])[j] = erq[s][j + 1]
      BY <1>0, <3>1, HeadTailProperties
    <3>3. \A i \in 1..Len(erq'[s]) : i + 1 \in 1..Len(erq[s]) /\ erq'[s][i] = erq[s][i + 1]
      BY <1>0, <3>1, <3>2
    <3> QED
      BY <2>1, <3>3 DEF Queued
  <2> QED
    BY <2>2, <2>3
<1>6. ASSUME NEW t \in Server, LocalAction(t), ~AdminDequeue(t) PROVE UNCHANGED <<erq, inbox>>
  BY <1>6 DEF LocalAction, ReadCommitted, ClaimPrimary, ReadIndex, BuildRequest, AdminPlaceOrder, CommitOrder, srvVars
<1> QED
  BY <1>1, <1>2, <1>3, <1>4, <1>5, <1>6 DEF CalmStep, CalmAction, CalmConnect, CalmIdentify, CalmVisit, CalmAcked,
       CalmReceive, CalmPlace, DataSame

(* An order is promised by a commit, and acknowledged when promised.       *)
LEMMA CalmAnswers ==
  ASSUME CrashInv, NoFault, CalmStep
  PROVE  /\ \A c \in Customer : cpc'[c] = "promised" =>
              \/ cpc[c] = "promised" /\ csrv'[c] = csrv[c] /\ cnum'[c] = cnum[c] /\ sess'[c] = sess[c]
              \/ \E s \in Server : CommitOrder(s) /\ CommitPromises(s, c)
         /\ \A a \in acked' : \/ a \in acked
                              \/ \E c \in Customer : SendLaptop(c) /\ a.ord = OrderOf(c) /\ a.by = csrv[c]
<1>0. cpc \in [Customer -> ClientPC] /\ csrv \in [Customer -> Server \cup {NoOne}]
      /\ cnum \in [Customer -> Nat] /\ sess \in [Customer -> Nat]
  BY DEF CrashInv, TypeOK, ClientTypeOK
<1>1. ASSUME NEW c \in Customer, cpc'[c] = "promised"
      PROVE  \/ cpc[c] = "promised" /\ csrv'[c] = csrv[c] /\ cnum'[c] = cnum[c] /\ sess'[c] = sess[c]
             \/ \E s \in Server : CommitOrder(s) /\ CommitPromises(s, c)
  <2>1. CASE UNCHANGED clientVars
    BY <1>1, <2>1 DEF clientVars
  <2>2. ASSUME NEW d \in Customer, Client(d)
        PROVE  cpc[c] = "promised" /\ csrv'[c] = csrv[c] /\ cnum'[c] = cnum[c] /\ sess'[c] = sess[c]
    <3>1. CASE \E s \in Server : StartSession(d, s)
      BY <1>0, <1>1, <3>1 DEF StartSession
    <3>2. CASE SendOrder(d) \/ ClientGone(d) \/ \E s \in Server : CreateRegularLaptop(s, d)
      BY <1>0, <1>1, <3>2 DEF SendOrder, ClientGone, CreateRegularLaptop, clientVars
    <3>3. CASE SendLaptop(d)
      <4>1. c # d
        BY <1>0, <1>1, <3>3 DEF SendLaptop
      <4> QED
        BY <1>0, <1>1, <3>3, <4>1 DEF SendLaptop
    <3> QED
      BY <2>2, <3>1, <3>2, <3>3 DEF Client
  <2>3. ASSUME NEW s \in Server, CommitOrder(s), ~CommitPromises(s, c)
        PROVE  cpc[c] = "promised" /\ csrv'[c] = csrv[c] /\ cnum'[c] = cnum[c] /\ sess'[c] = sess[c]
    <3>1. cpc'[c] = cpc[c] /\ UNCHANGED <<csrv, cnum, sess>>
      BY <1>0, <2>3, CommitClient DEF CommitPromises
    <3> QED
      BY <1>1, <3>1
  <2> QED
    BY <2>1, <2>2, <2>3, ClientSteps
<1>2. ASSUME NEW a \in acked', a \notin acked
      PROVE  \E c \in Customer : SendLaptop(c) /\ a.ord = OrderOf(c) /\ a.by = csrv[c]
  <2>1. ASSUME NEW s \in Server, LocalAction(s) PROVE acked' = acked
    BY <2>1 DEF LocalAction, AdminDequeue, ReadCommitted, ClaimPrimary, ReadIndex, BuildRequest, AdminPlaceOrder, CommitOrder
  <2>2. PICK c \in Customer : Client(c)
    BY <1>2, <2>1 DEF CalmStep, CalmAction, CalmConnect, CalmIdentify, CalmVisit, CalmAcked, CalmReceive, CalmPlace,
       DataSame
  <2>3. SendLaptop(c)
    BY <1>2, <2>2 DEF Client, StartSession, SendOrder, CreateRegularLaptop, ClientGone
  <2>4. a.ord = OrderOf(c) /\ a.by = csrv[c]
    BY <1>2, <2>3 DEF SendLaptop
  <2> QED
    BY <2>3, <2>4
<1> QED
  BY <1>1, <1>2

(* Every step keeps the bounds on copies.                                  *)
LEMMA NextCopies ==
  ASSUME CrashInv, CopiesInv, [Next]_vars
  PROVE  CopiesInv'
<1>1. SUFFICES ASSUME NoFault' PROVE CopiesInv'
  BY DEF CopiesInv
<1>2. NoFault /\ CalmStep
  BY <1>1, CalmSteps
<1>0. /\ \A s \in Server : apc[s] # "idle" /\ Outstanding(s, cur[s]) => CopiesOfCur(s)
      /\ \A s \in Server : \A o \in Queued(s) : Outstanding(s, o) => \A p \in Server : Times(log[p], o) = 0
      /\ \A c \in Customer : cpc[c] = "promised" => CopiesBelow(csrv[c], OrderOf(c))
      /\ \A a \in acked : CopiesBelow(a.by, a.ord)
      /\ log \in [Server -> Seq(Order)] /\ acked \subseteq [ord : Order, by : Server, at : SUBSET Server]
      /\ \A c \in Customer : OrderOf(c) \in Order
      /\ \A c \in Customer : cpc[c] # "off" => csrv[c] \in Server
  BY <1>2 DEF CopiesInv, CrashInv, TypeOK, ServerTypeOK, ClientTypeOK, FactoryInv, ClientInv, Order, OrderOf
<1>3. \A s \in Server : apc'[s] # "idle" /\ Outstanding(s, cur[s])' => CopiesOfCur(s)'
  BY <1>0, <1>2, NextCopiesOfCur
<1>4. ASSUME NEW s \in Server, NEW o \in Queued(s)', Outstanding(s, o)', NEW p \in Server PROVE Times(log'[p], o) = 0
  <2>1. CASE o \in Queued(s)
    <3>1. o \in Order /\ o \in Expected(s)
      BY <2>1, QueuedExpected
    <3>2. Outstanding(s, o)
      BY <1>4, <3>1, WaitedBefore
    <3>3. \A t \in Server : AdminPlaceOrder(t) \/ CalmPlace(t) => cur[t] # o
      BY <2>1, <3>2, CurApart
    <3>4. Times(log'[p], o) = Times(log[p], o)
      BY <1>2, <3>3, TimesKept
    <3> QED
      BY <1>0, <2>1, <3>2, <3>4
  <2>2. ASSUME NEW c \in Customer, SendOrder(c), o = OrderOf(c) PROVE Times(log'[p], o) = 0
    <3>1. log'[p] = log[p] /\ cpc[c] = "ready"
      BY <2>2 DEF SendOrder
    <3>2. ASSUME NEW j \in 1..Len(log[p]) PROVE log[p][j] # OrderOf(c)
      <4>1. Past(log[p][j])
        BY DEF CrashInv, PastInv
      <4>2. OrderOf(c).cust = c /\ OrderOf(c).sess = sess[c] /\ OrderOf(c).num = cnum[c]
            /\ sess[c] \in Nat /\ cnum[c] \in Nat
        BY DEF OrderOf, CrashInv, TypeOK, ClientTypeOK
      <4> QED
        BY <3>1, <4>1, <4>2 DEF Past, Before
    <3>3. PICK q \in Seq(Order) : q = log[p]
      BY <1>0
    <3>4. o \in Order
      BY <1>0, <2>2
    <3>5. Times(q, o) = 0
      BY <2>2, <3>2, <3>3, <3>4, TimesAppend
    <3> QED
      BY <3>1, <3>3, <3>5
  <2> QED
    BY <1>2, <2>1, <2>2, CalmQueues
<1>5. ASSUME NEW c \in Customer, cpc'[c] = "promised" PROVE CopiesBelow(csrv[c], OrderOf(c))'
  <2>1. ASSUME cpc[c] = "promised", csrv'[c] = csrv[c], cnum'[c] = cnum[c], sess'[c] = sess[c]
        PROVE  CopiesBelow(csrv[c], OrderOf(c))'
    <3>1. \A t \in Server : AdminPlaceOrder(t) \/ CalmPlace(t) => cur[t] # OrderOf(c)
      BY <2>1, CurApart
    <3>2. OrderOf(c)' = OrderOf(c) /\ csrv[c] \in Server /\ CopiesBelow(csrv[c], OrderOf(c))
      BY <1>0, <2>1 DEF OrderOf
    <3> QED
      BY <1>2, <2>1, <3>1, <3>2, BelowKept DEF CopiesBelow
  <2>2. ASSUME NEW s \in Server, CommitOrder(s), CommitPromises(s, c) PROVE CopiesBelow(csrv[c], OrderOf(c))'
    <3>1. apc[s] = "commit" /\ log' = log /\ stubs' = stubs /\ csrv'[c] = s
      BY <2>2, CommitClient DEF CommitOrder, CommitPromises
    <3>2. OrderOf(c)' = cur[s]
      BY <2>2, CommitClient DEF OrderOf, CommitPromises
    <3>3. cur[s] \in Order /\ cur[s].cust = c
      BY <1>0, <2>2 DEF CommitPromises, OrderOf
    <3>4. Outstanding(s, cur[s])
      BY <2>2, <3>3 DEF CommitPromises, Outstanding
    <3>5. CopiesOfCur(s)
      BY <1>0, <3>1, <3>4
    <3> QED
      BY <3>1, <3>2, <3>5 DEF CopiesOfCur, CopiesBelow
  <2> QED
    BY <1>2, <1>5, <2>1, <2>2, CalmAnswers
<1>6. ASSUME NEW a \in acked' PROVE /\ Times(log'[a.by], a.ord) = 1
                                    /\ \A p \in Server \ {a.by} : Times(log'[p], a.ord) <= StubCount(stubs'[a.by], p)
  <2>1. CASE a \in acked
    <3>1. \A t \in Server : AdminPlaceOrder(t) \/ CalmPlace(t) => cur[t] # a.ord
      BY <2>1, CurApart
    <3>2. a.by \in Server /\ CopiesBelow(a.by, a.ord)
      BY <1>0, <2>1
    <3> QED
      BY <1>2, <3>1, <3>2, BelowKept
  <2>2. ASSUME NEW c \in Customer, SendLaptop(c), a.ord = OrderOf(c), a.by = csrv[c]
        PROVE  /\ Times(log'[a.by], a.ord) = 1
               /\ \A p \in Server \ {a.by} : Times(log'[p], a.ord) <= StubCount(stubs'[a.by], p)
    <3>1. log' = log /\ stubs' = stubs /\ cpc[c] = "promised" /\ a.ord = OrderOf(c) /\ a.by = csrv[c]
      BY <2>2 DEF SendLaptop, srvVars
    <3> QED
      BY <1>0, <3>1 DEF CopiesBelow
  <2> QED
    BY <1>2, <2>1, <2>2, CalmAnswers
<1>7. \A a \in acked' : CopiesBelow(a.by, a.ord)'
  BY <1>6 DEF CopiesBelow
<1> QED
  BY <1>3, <1>4, <1>5, <1>7 DEF CopiesInv

(* At the start no server has a log.                                       *)
LEMMA InitCopies == Init => CopiesInv
BY DEF Init, CopiesInv, Queued

(* Without faults, an acknowledged order is once in the log of the server  *)
(* that took it, and at a peer at most once per stub of that server.       *)
THEOREM CopiesBounded == Spec => []CopiesBoundedByStubs
<1>1. CrashInv /\ CopiesInv /\ [Next]_vars => CopiesInv'
  BY NextCopies
<1>2. CrashInv /\ CopiesInv => CopiesBoundedByStubs
  <2>1. SUFFICES ASSUME CrashInv, CopiesInv, NoFault, NEW a \in acked
                 PROVE  /\ Cardinality(Copies(a.by, a.ord)) = 1
                        /\ \A p \in Peers(a.by) : Cardinality(Copies(p, a.ord)) <= Cardinality(StubsTo(a.by, p))
    BY DEF CopiesBoundedByStubs
  <2>2. CopiesBelow(a.by, a.ord)
    BY <2>1 DEF CopiesInv
  <2>3. a.by \in Server
    BY <2>1 DEF CrashInv, TypeOK
  <2>4. \A p \in Peers(a.by) : p \in Server \ {a.by}
    <3>1. PeerList[a.by] \in Seq(Server) /\ \A i \in 1..Len(PeerList[a.by]) : PeerList[a.by][i] # a.by
      BY <2>3, FactoryAssumption
    <3>2. \A i \in 1..Len(PeerList[a.by]) : PeerList[a.by][i] \in Server
      BY <3>1
    <3> QED
      BY <3>1, <3>2 DEF Peers
  <2> QED
    BY <2>2, <2>4 DEF CopiesBelow, Times, StubCount, Copies, StubsTo
<1> QED
  BY <1>1, <1>2, InitCopies, CrashInvariant, PTL DEF Spec

-----------------------------------------------------------------------------
(* The only primary and its backups.                                       *)

(* No server is named twice on a command line.                             *)
DistinctPeers ==
  \A s \in Server : \A i, j \in 1..Len(PeerList[s]) : PeerList[s][i] = PeerList[s][j] => i = j

(* How many stubs the only primary has built: one per peer, in order.      *)
Built(s) ==
  IF apc[s] = "connect" THEN it[s] - 1 ELSE
  IF apc[s] = "identify" THEN it[s] ELSE
  IF apc[s] \in {"idle", "bump", "claim"} /\ primary_id[s] # s THEN 0
  ELSE Len(PeerList[s])

(* Stub i is for peer i, and the log of peer i is that of s, with the      *)
(* order that s places once that has been placed there.                    *)
Follows(s) ==
  /\ Len(stubs[s]) = Built(s)
  /\ apc[s] \in {"bump", "claim"} => primary_id[s] # s
  /\ apc[s] \notin {"idle", "bump", "claim"} => primary_id[s] = s
  /\ \A i \in 1..Len(stubs[s]) : stubs[s][i].peer = PeerList[s][i]
  /\ \A i \in 1..Len(PeerList[s]) :
       log[PeerList[s][i]] = IF apc[s] = "place" \/ (apc[s] \in {"visit", "await"} /\ Placed(s, i))
                             THEN Append(log[s], cur[s]) ELSE log[s]

FollowInv == \A s \in Server : OnlyPrimary(s) => Follows(s)

(* Who has done something as a primary has stubs ever after.               *)
LEMMA OnlyOne ==
  ASSUME AllPeers, CrashInv, NoFault, CalmStep, NEW s \in Server, OnlyPrimary(s)'
  PROVE  /\ OnlyPrimary(s)
         /\ CalmAction(s) \/ (LoopSame(s) /\ (DataSame \/ \E c \in Customer : Client(c)))
<1>0. apc \in [Server -> AdminPC] /\ stubs \in [Server -> Seq(Stub)]
  BY DEF CrashInv, TypeOK, ServerTypeOK, AdminTypeOK
<1>1. ASSUME NEW t \in Server \ {s} PROVE stubs[t] = << >>
  <2>1. stubs'[t] = << >>
    BY DEF OnlyPrimary
  <2>2. ASSUME NEW r \in Stub PROVE Append(stubs[t], r) # << >>
    <3>1. Len(Append(stubs[t], r)) = Len(stubs[t]) + 1 /\ Len(stubs[t]) \in Nat
      BY <1>0, AppendProperties
    <3>2. Len(stubs[t]) + 1 # 0
      BY <3>1
    <3>3. Len(<< >>) = 0
      BY EmptySeq
    <3> QED
      BY <3>1, <3>2, <3>3
  <2> QED
    BY <2>1, <2>2, CalmStubs
<1>2. ASSUME NEW t \in Server \ {s}, apc[t] # "idle" PROVE FALSE
  <2>1. apc'[t] = "idle"
    BY DEF OnlyPrimary
  <2>2. CommitOrder(t)
    <3>1. ~LoopSame(t)
      BY <1>2, <2>1 DEF LoopSame, Stands
    <3>2. CalmAction(t)
      BY <3>1 DEF CalmStep, Others
    <3>3. ~(CalmConnect(t) \/ CalmIdentify(t) \/ CalmVisit(t) \/ CalmAcked(t) \/ CalmReceive(t) \/ CalmPlace(t))
      BY <1>2, <2>1 DEF CalmConnect, CalmIdentify, CalmVisit, CalmAcked, CalmReceive, CalmPlace, Stands, AfterPeer, AfterStub
    <3>4. ~(AdminDequeue(t) \/ ReadCommitted(t) \/ ClaimPrimary(t) \/ ReadIndex(t) \/ BuildRequest(t) \/ AdminPlaceOrder(t))
      BY <1>0, <2>1 DEF AdminDequeue, ReadCommitted, ClaimPrimary, ReadIndex, BuildRequest, AdminPlaceOrder, AfterPeer, AfterStub
    <3> QED
      BY <3>1, <3>2, <3>3, <3>4 DEF CalmAction, LocalAction
  <2>3. Connected(t)
    BY <2>2 DEF CrashInv, FactoryInv, CoverInv, CommitOrder
  <2>4. s \in Peers(t) /\ Len(stubs[t]) = 0
    BY <1>1, EmptySeq DEF AllPeers
  <2> QED
    BY <2>3, <2>4 DEF Connected
<1>3. OnlyPrimary(s)
  BY <1>1, <1>2 DEF OnlyPrimary
<1>4. ASSUME NEW t \in Server \ {s}, CalmAction(t) PROVE DataSame
  <2>1. apc[t] = "idle" /\ apc'[t] = "idle"
    BY <1>3 DEF OnlyPrimary
  <2>2. ~LocalAction(t)
    BY <1>0, <2>1 DEF LocalAction, AdminDequeue, ReadCommitted, ClaimPrimary, ReadIndex, BuildRequest, AdminPlaceOrder,
       CommitOrder
  <2> QED
    BY <1>4, <2>1, <2>2 DEF CalmAction, CalmConnect, CalmIdentify, CalmVisit, CalmAcked, CalmReceive, CalmPlace
<1> QED
  BY <1>3, <1>4 DEF CalmStep, Others

(* Every step of the only primary keeps its backups behind it.             *)
LEMMA FollowStep ==
  ASSUME DistinctPeers, CrashInv, NoFault, NEW s \in Server, Follows(s),
         CalmAction(s) \/ (LoopSame(s) /\ (DataSame \/ \E c \in Customer : Client(c)))
  PROVE  Follows(s)'
<1>0. /\ apc \in [Server -> AdminPC] /\ it \in [Server -> Nat \ {0}] /\ it[s] \in Nat \ {0}
      /\ log \in [Server -> Seq(Order)]
      /\ stubs[s] \in Seq(Stub) /\ primary_id \in [Server -> Server \cup {NoOne}] /\ PositionsOK
  BY DEF CrashInv, TypeOK, AdminTypeOK, ServerTypeOK
<1>1. /\ PeerList[s] \in Seq(Server) /\ Len(PeerList[s]) \in Nat
      /\ \A i \in 1..Len(PeerList[s]) : PeerList[s][i] \in Server /\ PeerList[s][i] # s
  BY FactoryAssumption, ElementOfSeq
<1>2. \A c \in Customer : Client(c) => UNCHANGED <<primary_id, log>>
  BY DEF Client, StartSession, SendOrder, CreateRegularLaptop, SendLaptop, ClientGone, srvVars
<1>3. ASSUME UNCHANGED log, stubs'[s] = stubs[s], primary_id'[s] = primary_id[s], cur'[s] = cur[s], SamePlaced(s),
             \/ apc'[s] = apc[s] /\ it'[s] = it[s]
             \/ apc[s] \in {"visit", "await"} /\ apc'[s] \in {"visit", "await"}
      PROVE  Follows(s)'
  <2>1. Built(s)' = Built(s)
    BY <1>3 DEF Built
  <2>2. apc[s] \in {"visit", "await"} => Len(stubs[s]) = Len(PeerList[s])
    BY DEF Follows, Built
  <2> QED
    BY <1>3, <2>1, <2>2 DEF Follows, SamePlaced
<1>4. CASE LoopSame(s) /\ (DataSame \/ \E c \in Customer : Client(c))
  <2>1. UNCHANGED <<primary_id, log>>
    BY <1>2, <1>4 DEF DataSame
  <2> QED
    BY <1>3, <1>4, <2>1 DEF LoopSame, Stands
<1>5. CASE CalmAction(s)
  <2>1. ASSUME UNCHANGED log, stubs'[s] = stubs[s], Built(s)' = Built(s),
               apc[s] \notin {"visit", "await", "place"}, apc'[s] \notin {"visit", "await", "place"},
               apc'[s] \in {"bump", "claim"} => primary_id'[s] # s,
               apc'[s] \notin {"idle", "bump", "claim"} => primary_id'[s] = s
        PROVE  Follows(s)'
    BY <2>1 DEF Follows
  <2>2. CASE AdminDequeue(s) /\ stubs' = stubs
    <3>1. /\ apc[s] = "idle" /\ apc'[s] = IF primary_id[s] # s THEN "bump" ELSE "index"
          /\ UNCHANGED <<log, primary_id>>
      BY <1>0, <2>2 DEF AdminDequeue
    <3> QED
      BY <2>1, <2>2, <3>1 DEF Built
  <2>3. CASE ReadCommitted(s) /\ stubs' = stubs
    <3>1. apc[s] = "bump" /\ apc'[s] = "claim" /\ UNCHANGED <<log, primary_id>>
      BY <1>0, <2>3 DEF ReadCommitted, srvVars
    <3> QED
      BY <2>1, <2>3, <3>1 DEF Built, Follows
  <2>4. CASE ClaimPrimary(s) /\ stubs' = stubs
    <3>1. /\ apc[s] = "claim" /\ apc'[s] = AfterPeer(s, 0) /\ it'[s] = 1 /\ primary_id'[s] = s
          /\ UNCHANGED log
      BY <1>0, <2>4 DEF ClaimPrimary
    <3>2. primary_id[s] # s
      BY <3>1 DEF Follows
    <3>3. Built(s)' = Built(s)
      BY <1>1, <3>1, <3>2 DEF Built, AfterPeer
    <3>4. apc'[s] \in {"connect", "index"}
      BY <3>1 DEF AfterPeer
    <3> QED
      BY <2>1, <2>4, <3>1, <3>3, <3>4
  <2>5. CASE ReadIndex(s) /\ stubs' = stubs
    <3>1. apc[s] = "index" /\ apc'[s] = "build" /\ UNCHANGED <<log, primary_id>>
      BY <1>0, <2>5 DEF ReadIndex
    <3> QED
      BY <2>1, <2>5, <3>1 DEF Built, Follows
  <2>6. CASE BuildRequest(s) /\ stubs' = stubs
    <3>1. /\ apc[s] = "build" /\ apc'[s] = AfterStub(s, 0) /\ it'[s] = 1 /\ cur' = cur
          /\ UNCHANGED <<log, primary_id>>
      BY <1>0, <2>6 DEF BuildRequest, srvVars
    <3>2. Len(stubs[s]) = Len(PeerList[s])
      BY <3>1 DEF Follows, Built
    <3>3. apc'[s] # "await" => \A i \in 1..Len(PeerList[s]) : ~Placed(s, i)'
      BY <1>1, <3>1 DEF Placed, Awaits
    <3>4. apc'[s] = "visit" \/ (apc'[s] = "place" /\ Len(PeerList[s]) = 0)
      BY <1>1, <3>1, <3>2 DEF AfterStub
    <3> QED
      BY <2>6, <3>1, <3>2, <3>3, <3>4 DEF Follows, Built
  <2>7. CASE AdminPlaceOrder(s) /\ stubs' = stubs
    <3>1. /\ apc[s] = "place" /\ apc'[s] = "commit" /\ cur' = cur /\ UNCHANGED primary_id
          /\ log' = [log EXCEPT ![s] = Append(@, cur[s])]
      BY <1>0, <2>7 DEF AdminPlaceOrder, place_order
    <3>2. log'[s] = Append(log[s], cur[s]) /\ \A i \in 1..Len(PeerList[s]) : log'[PeerList[s][i]] = log[PeerList[s][i]]
      BY <1>0, <1>1, <3>1
    <3> QED
      BY <2>7, <3>1, <3>2 DEF Follows, Built
  <2>8. CASE CommitOrder(s) /\ stubs' = stubs
    <3>1. apc[s] = "commit" /\ apc'[s] = "idle" /\ UNCHANGED <<log, primary_id>>
      BY <1>0, <2>8 DEF CommitOrder
    <3> QED
      BY <2>1, <2>8, <3>1 DEF Built, Follows
  <2>9. CASE CalmConnect(s)
    <3>1. PICK r \in Stub : r.peer = PeerList[s][it[s]] /\ stubs'[s] = Append(stubs[s], r)
      BY <2>9 DEF CalmConnect
    <3>2. /\ apc[s] = "connect" /\ apc'[s] = "identify" /\ it'[s] = it[s] /\ UNCHANGED <<log, primary_id>>
      BY <2>9 DEF CalmConnect, DataSame
    <3>3. /\ Len(stubs'[s]) = Len(stubs[s]) + 1 /\ stubs'[s][Len(stubs[s]) + 1] = r
          /\ \A i \in 1..Len(stubs[s]) : stubs'[s][i] = stubs[s][i]
      BY <1>0, <3>1, AppendProperties
    <3>4. Len(stubs[s]) = it[s] - 1 /\ Len(stubs[s]) \in Nat
      BY <1>0, <3>2 DEF Follows, Built
    <3>5. \A i \in 1..Len(stubs'[s]) : stubs'[s][i].peer = PeerList[s][i]
      BY <1>0, <3>1, <3>3, <3>4 DEF Follows
    <3>6. Len(stubs'[s]) = Built(s)'
      BY <1>0, <3>2, <3>3, <3>4 DEF Built
    <3> QED
      BY <3>2, <3>5, <3>6 DEF Follows
  <2>10. CASE CalmIdentify(s)
    <3>1. /\ apc[s] = "identify" /\ apc'[s] = AfterPeer(s, it[s]) /\ it'[s] = it[s] + 1 /\ stubs'[s] = stubs[s]
          /\ UNCHANGED <<log, primary_id>>
      BY <2>10 DEF CalmIdentify, DataSame
    <3>2. it[s] <= Len(PeerList[s])
      BY <1>0, <3>1 DEF PositionsOK
    <3>3. Built(s)' = Built(s)
      <4>1. PICK n \in Nat : n = it[s]
        BY <1>0
      <4>2. CASE n < Len(PeerList[s])
        <5>1. apc'[s] = "connect" /\ it'[s] - 1 = n
          BY <3>1, <4>1, <4>2 DEF AfterPeer
        <5> QED
          BY <3>1, <4>1, <5>1 DEF Built
      <4>3. CASE ~(n < Len(PeerList[s]))
        <5>1. apc'[s] = "index" /\ n = Len(PeerList[s])
          BY <1>1, <3>1, <3>2, <4>1, <4>3 DEF AfterPeer
        <5> QED
          BY <3>1, <4>1, <5>1 DEF Built
      <4> QED
        BY <4>2, <4>3
    <3>4. apc'[s] \in {"connect", "index"}
      BY <3>1 DEF AfterPeer
    <3> QED
      BY <2>1, <3>1, <3>3, <3>4 DEF Follows
  <2>11. CASE CalmVisit(s)
    BY <1>3, <2>11 DEF CalmVisit, DataSame
  <2>12. CASE CalmAcked(s)
    <3>1. CASE AfterStub(s, it[s]) = "visit"
      BY <1>3, <2>12, <3>1 DEF CalmAcked, DataSame
    <3>2. CASE AfterStub(s, it[s]) # "visit"
      <4>1. /\ apc[s] = "await" /\ apc'[s] = "place" /\ ~(it[s] < Len(stubs[s])) /\ stubs'[s] = stubs[s]
            /\ cur'[s] = cur[s] /\ UNCHANGED <<log, primary_id>> /\ Placed(s, it[s])
        BY <2>12, <3>2 DEF CalmAcked, DataSame, AfterStub
      <4>2. Len(stubs[s]) = Len(PeerList[s])
        BY <4>1 DEF Follows, Built
      <4>3. ASSUME NEW i \in 1..Len(PeerList[s]) PROVE Placed(s, i)
        <5>1. i < it[s] \/ i = it[s]
          BY <1>0, <1>1, <4>1, <4>2
        <5> QED
          BY <4>1, <5>1 DEF Placed
      <4> QED
        BY <4>1, <4>2, <4>3 DEF Follows, Built
    <3> QED
      BY <3>1, <3>2
  <2>13. CASE CalmReceive(s)
    <3>1. it[s] \in 1..Len(stubs[s])
      BY <2>13, CalmState DEF CalmReceive
    <3>2. primary_id'[s] = primary_id[s]
      BY <1>0, <2>13, <3>1, CalmState DEF CalmReceive
    <3> QED
      BY <1>3, <2>13, <3>2 DEF CalmReceive, Stands
  <2>14. CASE CalmPlace(s)
    <3>1. PICK n : n = it[s]
      OBVIOUS
    <3>2. /\ apc[s] = "await" /\ apc'[s] = "await" /\ it'[s] = n /\ stubs'[s] = stubs[s] /\ cur'[s] = cur[s]
          /\ UNCHANGED primary_id /\ ~Placed(s, n) /\ Placed(s, it[s])'
          /\ \A i \in 1..Len(stubs[s]) : i # n => (Placed(s, i)' <=> Placed(s, i))
          /\ log' = [log EXCEPT ![stubs[s][n].peer] = Append(@, cur[s])]
      BY <2>14, <3>1 DEF CalmPlace, Stands, place_order
    <3>3. Len(stubs[s]) = Len(PeerList[s]) /\ n \in 1..Len(stubs[s])
      <4>1. Built(s) = Len(PeerList[s])
        BY <3>2 DEF Built
      <4>2. it[s] \in 1..Len(stubs[s])
        BY <3>2, CalmState
      <4> QED
        BY <3>1, <4>1, <4>2 DEF Follows
    <3>4. stubs[s][n].peer = PeerList[s][n] /\ log[PeerList[s][n]] = log[s]
      BY <3>2, <3>3 DEF Follows
    <3>5. Placed(s, n)'
      BY <3>1, <3>2 DEF Placed, Awaits, Link
    <3>6. /\ log'[PeerList[s][n]] = Append(log[s], cur[s]) /\ log'[s] = log[s]
          /\ \A i \in 1..Len(PeerList[s]) : i # n => log'[PeerList[s][i]] = log[PeerList[s][i]]
      BY <1>0, <1>1, <3>2, <3>3, <3>4 DEF DistinctPeers
    <3>7. ASSUME NEW i \in 1..Len(PeerList[s])
          PROVE  log'[PeerList[s][i]] = IF Placed(s, i)' THEN Append(log'[s], cur'[s]) ELSE log'[s]
      <4>1. CASE i = n
        BY <3>2, <3>5, <3>6, <4>1
      <4>2. CASE i # n
        BY <3>2, <3>3, <3>6, <4>2 DEF Follows
      <4> QED
        BY <4>1, <4>2
    <3> QED
      BY <3>2, <3>3, <3>7 DEF Follows, Built
  <2>15. CASE LoopSame(s) /\ DataSame
    BY <1>4, <2>15
  <2> QED
    BY <1>5, <2>2, <2>3, <2>4, <2>5, <2>6, <2>7, <2>8, <2>9, <2>10, <2>11, <2>12, <2>13, <2>14, <2>15
       DEF CalmAction, LocalAction
<1> QED
  BY <1>4, <1>5

(* Every step keeps FollowInv.                                             *)
LEMMA NextFollow ==
  ASSUME AllPeers, DistinctPeers, CrashInv, FollowInv, [Next]_vars
  PROVE  FollowInv'
<1>1. SUFFICES ASSUME NEW s \in Server, OnlyPrimary(s)' PROVE Follows(s)'
  BY DEF FollowInv
<1>2. NoFault'
  BY <1>1 DEF OnlyPrimary
<1>3. NoFault /\ CalmStep
  BY <1>2, CalmSteps
<1>4. Follows(s)
  BY <1>1, <1>3, OnlyOne DEF FollowInv
<1> QED
  BY <1>1, <1>3, <1>4, OnlyOne, FollowStep

(* At the start no backup has anything to follow.                          *)
LEMMA InitFollow == Init => FollowInv
<1>1. ASSUME Init, NEW s \in Server PROVE Follows(s)
  <2>1. primary_id[s] # s
    BY <1>1, FactoryAssumption DEF Init
  <2>2. \A i \in 1..Len(PeerList[s]) : PeerList[s][i] \in Server
    BY FactoryAssumption, ElementOfSeq
  <2>3. /\ apc[s] = "idle" /\ Len(stubs[s]) = 0 /\ log[s] = << >>
        /\ \A i \in 1..Len(PeerList[s]) : log[PeerList[s][i]] = << >>
    BY <1>1, <2>2 DEF Init
  <2> QED
    BY <2>1, <2>3 DEF Follows, Built
<1> QED
  BY <1>1 DEF FollowInv

(* While only one server has been primary, none has crashed and it has     *)
(* reached all its peers, the log of each peer is that of the primary, at  *)
(* most one order ahead.                                                   *)
THEOREM BackupsFollow ==
  ASSUME AllPeers, DistinctPeers
  PROVE  Spec => []BackupsFollowPrimary
<1>1. CrashInv /\ FollowInv /\ [Next]_vars => FollowInv'
  BY NextFollow
<1>2. FollowInv => BackupsFollowPrimary
  <2>1. ASSUME FollowInv, NEW s \in Server, OnlyPrimary(s), NEW p \in Peers(s)
        PROVE  log[p] = log[s] \/ log[p] = Append(log[s], cur[s])
    <3>1. PICK i \in 1..Len(PeerList[s]) : p = PeerList[s][i]
      BY DEF Peers
    <3> QED
      BY <2>1, <3>1 DEF FollowInv, Follows
  <2> QED
    BY <2>1 DEF BackupsFollowPrimary
<1> QED
  BY <1>1, <1>2, InitFollow, CrashInvariant, PTL DEF Spec

-----------------------------------------------------------------------------
(* What reading clients see.                                               *)

(* A step places an order somewhere, is the end of a server, or leaves the *)
(* storage of every server alone.                                          *)
LEMMA StoreSteps ==
  ASSUME TypeOK, FactoryInv, [Next]_vars
  PROVE  \/ UNCHANGED <<log, customer_record, crashes>>
         \/ \E p \in Server, o \in Order : place_order(p, o) /\ UNCHANGED crashes
         \/ \E s \in Server : Die(s)
<1>0. RequestInv /\ StubInv /\ ClientInv
  BY DEF FactoryInv
<1>1. ASSUME NEW c \in Customer, Client(c) PROVE UNCHANGED <<log, customer_record, crashes>>
  BY <1>1 DEF Client, StartSession, SendOrder, CreateRegularLaptop, SendLaptop, ClientGone, srvVars
<1>2. ASSUME NEW s \in Server, ProductionAdminThread(s), ~BrokenPipe(s), ~AdminPlaceOrder(s)
      PROVE  UNCHANGED <<log, customer_record, crashes>>
  BY <1>2 DEF ProductionAdminThread, AdminDequeue, ReadCommitted, ClaimPrimary, ConnectPeer, IdentifyPeer,
       ReadIndex, BuildRequest, ReplicateTo, ReplicationAcked, ReplicationFailed, CommitOrder, srvVars
<1>3. ASSUME NEW s \in Server, AdminPlaceOrder(s)
      PROVE  \E p \in Server, o \in Order : place_order(p, o) /\ UNCHANGED crashes
  <2>1. cur[s] \in Order
    BY <1>0, <1>3 DEF AdminPlaceOrder, ClientInv, QueueOK
  <2> QED
    BY <1>3, <2>1 DEF AdminPlaceOrder
<1>4. ASSUME NEW k \in ConnId, EngineerThread(k), ~EngineerPlaceOrder(k)
      PROVE  UNCHANGED <<log, customer_record, crashes>>
  BY <1>4 DEF EngineerThread, ReceiveStatusInfo, StatusLost, ReceiveReplicationRequest, StoreCommittedIndex,
              StoreLastIndex, SendReplicationResult, PeerHangup, srvVars
<1>5. ASSUME NEW k \in ConnId, EngineerPlaceOrder(k)
      PROVE  \E p \in Server, o \in Order : place_order(p, o) /\ UNCHANGED crashes
  <2>1. conn[k].eng = "place" /\ place_order(conn[k].to, conn[k].msg.ord) /\ UNCHANGED crashes
    BY <1>5 DEF EngineerPlaceOrder
  <2>2. conn[k].to \in Server /\ conn[k].msg.ord \in Order
    BY <1>0, <2>1 DEF RequestInv, PendingOK, StubInv, ConnOK, Busy
  <2> QED
    BY <2>1, <2>2
<1>6. ASSUME NEW s \in Server, Restart(s) PROVE UNCHANGED <<log, customer_record, crashes>>
  BY <1>6 DEF Restart
<1>7. ASSUME UNCHANGED vars PROVE UNCHANGED <<log, customer_record, crashes>>
  BY <1>7 DEF vars, srvVars
<1> QED
  BY <1>1, <1>2, <1>3, <1>4, <1>5, <1>6, <1>7 DEF Next, Crash, BrokenPipe, ProductionAdminThread, EngineerThread

(* A server knows the customers of its log.                                *)
KnownInv == \A s \in Server : \A j \in 1..Len(log[s]) : customer_record[s][IdOf[log[s][j].cust]] # -1

(* An entry stays as long as its server does.                              *)
LEMMA EntryKept ==
  ASSUME TypeOK, FactoryInv, [Next]_vars, NEW s \in Server, NEW x \in CustomerId,
         customer_record[s][x] # -1, ~Die(s)
  PROVE  customer_record'[s][x] # -1 /\ crashes'[s] = crashes[s]
<1>0. customer_record \in [Server -> [CustomerId -> Int]] /\ crashes \in [Server -> Nat]
  BY DEF TypeOK, ServerTypeOK
<1>1. ASSUME NEW p \in Server, NEW o \in Order, place_order(p, o) PROVE customer_record'[s][x] # -1
  BY <1>0, <1>1 DEF place_order, Order
<1>2. ASSUME NEW t \in Server, Die(t) PROVE customer_record'[s][x] # -1 /\ crashes'[s] = crashes[s]
  BY <1>0, <1>2 DEF Die
<1> QED
  BY <1>1, <1>2, StoreSteps

(* Every step keeps KnownInv.                                              *)
LEMMA NextKnown ==
  ASSUME TypeOK, FactoryInv, KnownInv, [Next]_vars
  PROVE  KnownInv'
<1>0. /\ customer_record \in [Server -> [CustomerId -> Int]] /\ log \in [Server -> Seq(Order)]
      /\ \A s \in Server : log[s] \in Seq(Order)
  BY DEF TypeOK, ServerTypeOK
<1>1. SUFFICES ASSUME NEW s \in Server, NEW j \in 1..Len(log'[s]) PROVE customer_record'[s][IdOf[log'[s][j].cust]] # -1
  BY DEF KnownInv
<1>2. CASE UNCHANGED <<log, customer_record>>
  BY <1>2 DEF KnownInv
<1>3. ASSUME NEW p \in Server, NEW o \in Order, place_order(p, o) PROVE customer_record'[s][IdOf[log'[s][j].cust]] # -1
  <2>1. o.cust \in Customer /\ IdOf[o.cust] \in CustomerId /\ o.num \in Nat
    BY DEF Order, CustomerId
  <2>2. log' = [log EXCEPT ![p] = Append(@, o)] /\ customer_record' = [customer_record EXCEPT ![p][IdOf[o.cust]] = o.num]
    BY <1>3 DEF place_order
  <2>3. CASE s # p
    BY <1>0, <2>1, <2>2, <2>3 DEF KnownInv
  <2>4. CASE s = p
    <3>1. /\ Len(log'[s]) = Len(log[s]) + 1 /\ Len(log[s]) \in Nat /\ log'[s][Len(log[s]) + 1] = o
          /\ \A i \in 1..Len(log[s]) : log'[s][i] = log[s][i]
      BY <1>0, <2>2, <2>4, AppendProperties
    <3>2. CASE j = Len(log[s]) + 1
      BY <1>0, <2>1, <2>2, <2>4, <3>1, <3>2
    <3>3. CASE j # Len(log[s]) + 1
      <4>1. j \in 1..Len(log[s]) /\ log'[s][j] = log[s][j]
        BY <3>1, <3>3
      <4>2. IdOf[log[s][j].cust] \in CustomerId
        <5>1. log[s][j] \in Order
          BY <1>0, <4>1, ElementOfSeq
        <5> QED
          BY <5>1 DEF Order, CustomerId
      <4>3. customer_record[s][IdOf[log[s][j].cust]] # -1
        BY <4>1 DEF KnownInv
      <4> QED
        BY <1>0, <2>1, <2>2, <2>4, <4>1, <4>2, <4>3
    <3> QED
      BY <3>2, <3>3
  <2> QED
    BY <2>3, <2>4
<1>4. ASSUME NEW t \in Server, Die(t) PROVE customer_record'[s][IdOf[log'[s][j].cust]] # -1
  <2>1. s # t
    <3>1. SUFFICES ASSUME s = t PROVE FALSE
      OBVIOUS
    <3>2. log'[s] = << >>
      BY <1>0, <1>4, <3>1 DEF Die
    <3> QED
      BY <3>2
  <2> QED
    BY <1>0, <1>4, <2>1 DEF Die, KnownInv
<1> QED
  BY <1>2, <1>3, <1>4, StoreSteps

(* What a reading client remembers.                                        *)
Reading == [at : {"off", "ready", "asked", "answered"}, srv : Server \cup {NoOne}, todo : Seq(CustomerId),
            record : [customer_id : CustomerId \cup {NoOne}, last_order : Int]]

ReadsTypeOK ==
  /\ reader \in [Reader -> Reading]
  /\ regular \in [Reader -> SUBSET Int]
  /\ known \in [Reader -> BOOLEAN]
  /\ \A r \in Reader : /\ reader[r].at # "off" => reader[r].srv \in Server
                       /\ reader[r].at \in {"asked", "answered"} => reader[r].todo # << >>

(* The customer whose record r asks for.                                   *)
Subject(r) == Head(reader[r].todo)

(* A server that had to know the customer has not crashed and knows it.    *)
KnownOK(r) ==
  known[r] => /\ reader[r].at \in {"asked", "answered"}
              /\ crashes[reader[r].srv] = 0
              /\ customer_record[reader[r].srv][Subject(r)] # -1
              /\ reader[r].at = "answered" => reader[r].record.last_order # -1

(* No client with customer id x has died, and only one has the id.         *)
SteadyId(x) == \A c \in Owners(x) : Steady(c)

(* What the clients with customer id x have been told.                     *)
ToldId(x) == {LastAcked(c) : c \in Owners(x)}

(* The numbers that a read may return grow with those on their way, and    *)
(* what the customer was told of was once on its way.                      *)
RegularOK(r) ==
  /\ reader[r].at = "asked" /\ SteadyId(Subject(r)) => ToldId(Subject(r)) \cup Outgoing(Subject(r)) \subseteq regular[r]
  /\ reader[r].at = "answered" /\ SteadyId(reader[r].record.customer_id) => reader[r].record.last_order \in regular[r]

(* For the servers and the customers a step is one of Next.                *)
LEMMA ReadsSteps ==
  ASSUME [ReadsNext]_<<vars, readVars>>
  PROVE  [Next]_vars
BY DEF ReadsNext, FactoryStep, ReadingClient, StartReader, ReadRecord, GetCustomerRecord, RecordRead

(* Reading clients change nothing of the system they read from.            *)
LEMMA ReadsImplySpec == ReadsSpec => Spec
<1>1. ReadsInit => Init
  BY DEF ReadsInit
<1>2. [ReadsNext]_<<vars, readVars>> => [Next]_vars
  BY ReadsSteps
<1> QED
  BY <1>1, <1>2, PTL DEF ReadsSpec, Spec

(* Numbers of orders are integers.                                         *)
LEMMA OrderNumbers ==
  ASSUME TypeOK, NEW x
  PROVE  ToldId(x) \subseteq Int /\ Outgoing(x) \subseteq Int
<1>1. \A c \in Customer : cnum[c] \in Nat /\ NumOrders \in Nat
  BY FactoryAssumption DEF TypeOK, ClientTypeOK
<1>2. \A c \in Customer : LastAcked(c) \in Int
  BY <1>1 DEF LastAcked
<1> QED
  BY <1>1, <1>2 DEF ToldId, Outgoing, Owners

(* What a client that does not die was told of is what it was told of      *)
(* before the step, or was on its way.                                     *)
LEMMA ToldBefore ==
  ASSUME TypeOK, RecordInv, NoFault, [Next]_vars, NEW c \in Customer, Steady(c)'
  PROVE  LastAcked(c)' = LastAcked(c) \/ (cpc[c] \in {"wait", "promised"} /\ LastAcked(c)' = cnum[c])
<1>0. /\ SessionOK(c) /\ cnum \in [Customer -> Nat] /\ sess \in [Customer -> Nat] /\ NumOrders \in Nat \ {0}
  BY SteadyBefore, FactoryAssumption DEF RecordInv, TypeOK, ClientTypeOK
<1>1. ASSUME cnum'[c] = cnum[c], sess'[c] = sess[c] PROVE LastAcked(c)' = LastAcked(c)
  BY <1>1 DEF LastAcked
<1>2. ASSUME NEW s \in Server, StartSession(c, s) PROVE LastAcked(c)' = LastAcked(c)
  <2>1. cpc[c] = "off" /\ cnum'[c] = 0 /\ sess'[c] = sess[c] + 1
    BY <1>0, <1>2 DEF StartSession
  <2>2. CASE sess[c] = 0
    BY <1>0, <2>1, <2>2 DEF LastAcked, SessionOK
  <2>3. CASE sess[c] # 0
    BY <1>0, <2>1, <2>3 DEF LastAcked, SessionOK
  <2> QED
    BY <2>2, <2>3
<1>3. ASSUME SendLaptop(c) PROVE cpc[c] = "promised" /\ LastAcked(c)' = cnum[c]
  <2>1. cpc[c] = "promised" /\ cnum'[c] = cnum[c] + 1
    BY <1>0, <1>3 DEF SendLaptop
  <2> QED
    BY <1>0, <2>1 DEF LastAcked
<1>4. ASSUME NEW d \in Customer, Client(d), ~SendLaptop(c), \A s \in Server : ~StartSession(c, s)
      PROVE  cnum'[c] = cnum[c] /\ sess'[c] = sess[c]
  <2>1. CASE d = c
    BY <1>4, <2>1 DEF Client, SendOrder, CreateRegularLaptop, ClientGone, clientVars
  <2>2. CASE d # c
    BY <1>0, <1>4, <2>2 DEF Client, StartSession, SendLaptop, SendOrder, CreateRegularLaptop, ClientGone, clientVars
  <2> QED
    BY <2>1, <2>2
<1>5. ASSUME NEW s \in Server, ProductionAdminThread(s) PROVE cnum' = cnum /\ sess' = sess
  BY <1>5 DEF ProductionAdminThread, AdminDequeue, ReadCommitted, ClaimPrimary, ConnectPeer, IdentifyPeer,
       ReadIndex, BuildRequest, ReplicateTo, ReplicationAcked, ReplicationFailed, AdminPlaceOrder, CommitOrder,
       BrokenPipe, Die, clientVars
<1>6. ASSUME NEW k \in ConnId, EngineerThread(k) PROVE cnum' = cnum /\ sess' = sess
  BY <1>6 DEF EngineerThread, ReceiveStatusInfo, StatusLost, ReceiveReplicationRequest, StoreCommittedIndex,
              StoreLastIndex, EngineerPlaceOrder, SendReplicationResult, PeerHangup, clientVars
<1>7. ASSUME NEW s \in Server, Crash(s) \/ Restart(s) PROVE cnum' = cnum /\ sess' = sess
  BY <1>7 DEF Crash, Die, Restart, clientVars
<1>8. UNCHANGED vars => cnum' = cnum /\ sess' = sess
  BY DEF vars, clientVars
<1> QED
  BY <1>1, <1>2, <1>3, <1>4, <1>5, <1>6, <1>7, <1>8 DEF Next

(* What the rest of the system does to a reading client.                   *)
LEMMA FactoryReader ==
  ASSUME ReadsTypeOK, FactoryStep, NEW r \in Reader
  PROVE  /\ reader'[r] = IF reader[r].at # "off" /\ ~up'[reader[r].srv] THEN Off ELSE reader[r]
         /\ reader'[r].at = "asked" => regular'[r] = regular[r] \cup Outgoing(Subject(r))'
         /\ reader'[r].at = "answered" => regular'[r] = regular[r]
         /\ known'[r] <=> known[r] /\ reader'[r].at # "off"
<1>1. reader'[r] = IF reader[r].at # "off" /\ ~up'[reader[r].srv] THEN Off ELSE reader[r]
  BY DEF FactoryStep
<1>2. regular'[r] = IF reader'[r].at = "asked" THEN regular[r] \cup Outgoing(Head(reader[r].todo))' ELSE
                    IF reader'[r].at = "answered" THEN regular[r] ELSE {}
  BY DEF FactoryStep
<1>3. known'[r] = (known[r] /\ reader'[r].at # "off")
  BY DEF FactoryStep
<1> QED
  BY <1>1, <1>2, <1>3 DEF Subject

(* The readers have their types.                                           *)
LEMMA ReadsType ==
  ASSUME ReadsTypeOK, TypeOK, TypeOK', [ReadsNext]_<<vars, readVars>>
  PROVE  ReadsTypeOK'
<1>0. /\ reader \in [Reader -> Reading] /\ regular \in [Reader -> SUBSET Int] /\ known \in [Reader -> BOOLEAN]
      /\ customer_record \in [Server -> [CustomerId -> Int]] /\ ReadList \in Seq(CustomerId)
  BY ReadsAssumption DEF ReadsTypeOK, TypeOK, ServerTypeOK
<1>1. Off \in Reading /\ Off.at = "off"
  <2>1. << >> \in Seq(CustomerId)
    OBVIOUS
  <2> QED
    BY <2>1 DEF Off, NoRecord, Reading
<1>2. ASSUME NEW r \in Reader, NEW s \in Server, NEW q \in Seq(CustomerId), StartReader(r, s, q) PROVE ReadsTypeOK'
  <2>1. [Off EXCEPT !.at = "ready", !.srv = s, !.todo = q] \in Reading
    BY <1>1 DEF Off, Reading
  <2>2. reader' = [reader EXCEPT ![r] = [Off EXCEPT !.at = "ready", !.srv = s, !.todo = q]]
        /\ UNCHANGED <<regular, known>>
    BY <1>2 DEF StartReader
  <2>3. \A v \in Reader : v # r => reader'[v] = reader[v]
    BY <1>0, <2>2
  <2>4. reader'[r].at = "ready" /\ reader'[r].srv = s
    BY <1>0, <1>1, <2>2 DEF Reading, Off
  <2>5. reader' \in [Reader -> Reading]
    BY <1>0, <2>1, <2>2
  <2> QED
    BY <2>2, <2>3, <2>4, <2>5 DEF ReadsTypeOK
<1>3. ASSUME NEW r \in Reader, ReadRecord(r) PROVE ReadsTypeOK'
  <2>1. /\ reader[r].at = "ready" /\ reader[r].todo # << >> /\ reader' = [reader EXCEPT ![r].at = "asked"]
        /\ regular' = [regular EXCEPT ![r] = ToldId(Subject(r)) \cup Outgoing(Subject(r))]
        /\ known' = [known EXCEPT ![r] = MustKnow(reader[r].srv, Subject(r))]
    BY <1>3 DEF ReadRecord, Subject, ToldId
  <2>2. PICK x \in Reading : x = reader[r]
    BY <1>0
  <2>3. reader'[r] = [x EXCEPT !.at = "asked"] /\ [x EXCEPT !.at = "asked"] \in Reading
    BY <1>0, <2>1, <2>2 DEF Reading
  <2>4. Subject(r) \in CustomerId
    <3>1. x.todo \in Seq(CustomerId) /\ x.todo # << >>
      BY <2>1, <2>2 DEF Reading
    <3> QED
      BY <2>2, <3>1 DEF Subject
  <2>5. ToldId(Subject(r)) \cup Outgoing(Subject(r)) \in SUBSET Int
    BY <2>4, OrderNumbers
  <2>6. MustKnow(reader[r].srv, Subject(r)) \in BOOLEAN
    BY DEF MustKnow
  <2>7. regular' \in [Reader -> SUBSET Int] /\ known' \in [Reader -> BOOLEAN] /\ reader' \in [Reader -> Reading]
    BY <1>0, <2>1, <2>3, <2>5, <2>6
  <2>8. reader'[r].srv = reader[r].srv /\ reader'[r].todo = reader[r].todo
    BY <2>2, <2>3 DEF Reading
  <2>9. \A v \in Reader : v # r => reader'[v] = reader[v]
    BY <1>0, <2>1
  <2> QED
    BY <2>1, <2>7, <2>8, <2>9 DEF ReadsTypeOK
<1>4. ASSUME NEW r \in Reader, GetCustomerRecord(r) PROVE ReadsTypeOK'
  <2>1. PICK x \in Reading : x = reader[r]
    BY <1>0
  <2>2. PICK v \in [customer_id : CustomerId \cup {NoOne}, last_order : Int] :
          v = [customer_id |-> Head(x.todo), last_order |-> customer_record[x.srv][Head(x.todo)]]
    <3>1. x.todo \in Seq(CustomerId) /\ x.todo # << >> /\ x.srv \in Server
      BY <1>4, <2>1 DEF Reading, GetCustomerRecord, ReadsTypeOK
    <3>2. Head(x.todo) \in CustomerId
      BY <3>1
    <3> QED
      BY <1>0, <3>1, <3>2
  <2>3. /\ reader' = [reader EXCEPT ![r].at = "answered", ![r].record = v]
        /\ UNCHANGED <<regular, known>> /\ reader[r].at = "asked"
    BY <1>4, <2>1, <2>2 DEF GetCustomerRecord
  <2>4. reader'[r] = [x EXCEPT !.at = "answered", !.record = v]
        /\ [x EXCEPT !.at = "answered", !.record = v] \in Reading
    BY <1>0, <2>1, <2>3 DEF Reading
  <2>5. reader' \in [Reader -> Reading] /\ \A u \in Reader : u # r => reader'[u] = reader[u]
    BY <1>0, <2>3, <2>4
  <2>6. reader'[r].srv = reader[r].srv /\ reader'[r].todo = reader[r].todo
    BY <2>1, <2>4 DEF Reading
  <2> QED
    BY <2>3, <2>5, <2>6 DEF ReadsTypeOK
<1>5. ASSUME NEW r \in Reader, RecordRead(r) PROVE ReadsTypeOK'
  <2>1. PICK x \in Reading : x = reader[r]
    BY <1>0
  <2>2. PICK y : y = IF Len(x.todo) > 1 THEN [x EXCEPT !.at = "ready", !.todo = Tail(x.todo), !.record = NoRecord]
                                         ELSE Off
    OBVIOUS
  <2>3. y \in Reading /\ (y.at # "off" => y.at = "ready" /\ y.srv = x.srv)
    <3>1. CASE Len(x.todo) > 1
      <4>1. Tail(x.todo) \in Seq(CustomerId)
        <5>1. x.todo \in Seq(CustomerId) /\ x.todo # << >>
          BY <3>1, EmptySeq DEF Reading
        <5> QED
          BY <5>1
      <4>2. NoRecord \in [customer_id : CustomerId \cup {NoOne}, last_order : Int]
        BY DEF NoRecord
      <4>3. y = [x EXCEPT !.at = "ready", !.todo = Tail(x.todo), !.record = NoRecord]
        BY <2>2, <3>1
      <4> QED
        BY <4>1, <4>2, <4>3 DEF Reading
    <3>2. CASE ~(Len(x.todo) > 1)
      BY <1>1, <2>2, <3>2
    <3> QED
      BY <3>1, <3>2
  <2>4. /\ reader' = [reader EXCEPT ![r] = y] /\ regular' = [regular EXCEPT ![r] = {}]
        /\ known' = [known EXCEPT ![r] = FALSE] /\ reader[r].at = "answered"
    BY <1>5, <2>1, <2>2 DEF RecordRead
  <2>5. /\ reader' \in [Reader -> Reading] /\ reader'[r] = y
        /\ \A u \in Reader : u # r => reader'[u] = reader[u]
    BY <1>0, <2>3, <2>4
  <2>6. regular' \in [Reader -> SUBSET Int] /\ known' \in [Reader -> BOOLEAN]
    BY <1>0, <2>4
  <2> QED
    BY <2>1, <2>3, <2>4, <2>5, <2>6 DEF ReadsTypeOK
<1>6. CASE FactoryStep
  <2>1. ASSUME NEW r \in Reader
        PROVE  /\ reader'[r] = Off \/ reader'[r] = reader[r]
               /\ regular'[r] \in SUBSET Int /\ known'[r] \in BOOLEAN
    <3>1. reader'[r] = Off \/ reader'[r] = reader[r]
      BY <1>6, FactoryReader
    <3>2. known'[r] = (known[r] /\ reader'[r].at # "off")
      BY <1>6 DEF FactoryStep
    <3>3. regular'[r] \in SUBSET Int
      <4>1. regular'[r] = IF reader'[r].at = "asked" THEN regular[r] \cup Outgoing(Head(reader[r].todo))' ELSE
                          IF reader'[r].at = "answered" THEN regular[r] ELSE {}
        BY <1>6 DEF FactoryStep
      <4>2. ASSUME reader'[r].at = "asked" PROVE Outgoing(Head(reader[r].todo))' \subseteq Int
        <5>1. reader'[r] = reader[r]
          BY <1>1, <3>1, <4>2
        <5>2. reader[r].todo \in Seq(CustomerId) /\ reader[r].todo # << >>
          BY <1>0, <4>2, <5>1 DEF ReadsTypeOK, Reading
        <5>3. \A c \in Customer : cnum'[c] \in Int
          BY DEF TypeOK, ClientTypeOK
        <5> QED
          BY <5>3 DEF Outgoing, Owners
      <4> QED
        BY <1>0, <4>1, <4>2
    <3> QED
      BY <3>1, <3>2, <3>3
  <2>2. reader' \in [Reader -> Reading] /\ regular' \in [Reader -> SUBSET Int] /\ known' \in [Reader -> BOOLEAN]
    <3>1. DOMAIN reader' = Reader /\ DOMAIN regular' = Reader /\ DOMAIN known' = Reader
          /\ reader' = [r \in Reader |-> reader'[r]] /\ regular' = [r \in Reader |-> regular'[r]]
          /\ known' = [r \in Reader |-> known'[r]]
      BY <1>6 DEF FactoryStep
    <3>2. \A r \in Reader : reader'[r] \in Reading
      BY <1>0, <1>1, <2>1
    <3> QED
      BY <2>1, <3>1, <3>2
  <2> QED
    BY <1>1, <2>1, <2>2 DEF ReadsTypeOK
<1>7. CASE UNCHANGED <<vars, readVars>>
  BY <1>7 DEF ReadsTypeOK, readVars
<1>8. \A x \in CustomerId : <<x>> \in Seq(CustomerId)
  OBVIOUS
<1> QED
  BY <1>0, <1>2, <1>3, <1>4, <1>5, <1>6, <1>7, <1>8 DEF ReadsNext, ReadingClient

(* One reader's own step: the others and the system stay as they are.      *)
LEMMA OneReader ==
  ASSUME ReadsTypeOK, NEW r \in Reader, ReadingClient(r), NEW u \in Reader \ {r}
  PROVE  reader'[u] = reader[u] /\ regular'[u] = regular[u] /\ known'[u] = known[u] /\ UNCHANGED vars
<1>0. reader \in [Reader -> Reading] /\ regular \in [Reader -> SUBSET Int] /\ known \in [Reader -> BOOLEAN]
  BY DEF ReadsTypeOK
<1>1. ASSUME NEW t \in Server, NEW q, StartReader(r, t, q)
      PROVE  reader'[u] = reader[u] /\ regular'[u] = regular[u] /\ known'[u] = known[u] /\ UNCHANGED vars
  BY <1>0, <1>1 DEF StartReader
<1>2. CASE ReadRecord(r)
  BY <1>0, <1>2 DEF ReadRecord
<1>3. CASE GetCustomerRecord(r)
  BY <1>0, <1>3 DEF GetCustomerRecord
<1>4. CASE RecordRead(r)
  BY <1>0, <1>4 DEF RecordRead
<1> QED
  BY <1>1, <1>2, <1>3, <1>4 DEF ReadingClient

(* What one reader's own step does to itself.                              *)
LEMMA ReaderActs ==
  ASSUME ReadsTypeOK, NEW r \in Reader, ReadingClient(r)
  PROVE  /\ UNCHANGED vars
         /\ \/ reader[r].at = "off" /\ reader'[r].at = "ready" /\ known'[r] = known[r]
            \/ /\ reader'[r].at = "asked" /\ reader'[r].srv = reader[r].srv /\ reader[r].srv \in Server
               /\ Subject(r)' = Subject(r) /\ Subject(r) \in CustomerId
               /\ regular'[r] = ToldId(Subject(r)) \cup Outgoing(Subject(r))
               /\ known'[r] = MustKnow(reader[r].srv, Subject(r))
            \/ /\ reader[r].at = "asked" /\ reader'[r].at = "answered" /\ reader'[r].srv = reader[r].srv
               /\ reader[r].srv \in Server /\ Subject(r)' = Subject(r) /\ Subject(r) \in CustomerId
               /\ reader'[r].record.last_order = customer_record[reader[r].srv][Subject(r)]
             /\ reader'[r].record.customer_id = Subject(r)
               /\ regular'[r] = regular[r] /\ known'[r] = known[r]
            \/ reader'[r].at \in {"off", "ready"} /\ known'[r] = FALSE
<1>0. /\ reader \in [Reader -> Reading] /\ regular \in [Reader -> SUBSET Int] /\ known \in [Reader -> BOOLEAN]
  BY DEF ReadsTypeOK
<1>1. PICK x \in Reading : x = reader[r]
  BY <1>0
<1>2. UNCHANGED vars
  BY DEF ReadingClient, StartReader, ReadRecord, GetCustomerRecord, RecordRead
<1>3. ASSUME NEW s \in Server, NEW q, StartReader(r, s, q)
      PROVE  reader[r].at = "off" /\ reader'[r].at = "ready" /\ known'[r] = known[r]
  BY <1>0, <1>3 DEF StartReader, Off
<1>4. ASSUME reader[r].at # "off", reader[r].todo # << >> PROVE reader[r].srv \in Server /\ Subject(r) \in CustomerId
  <2>1. x.todo \in Seq(CustomerId) /\ x.todo # << >>
    BY <1>1, <1>4 DEF Reading
  <2> QED
    BY <1>1, <1>4, <2>1 DEF ReadsTypeOK, Subject
<1>5. ASSUME ReadRecord(r)
      PROVE  /\ reader'[r].at = "asked" /\ reader'[r].srv = reader[r].srv /\ reader[r].srv \in Server
             /\ Subject(r)' = Subject(r) /\ Subject(r) \in CustomerId
             /\ regular'[r] = ToldId(Subject(r)) \cup Outgoing(Subject(r))
             /\ known'[r] = MustKnow(reader[r].srv, Subject(r))
  <2>1. reader[r].at = "ready" /\ reader[r].todo # << >> /\ reader' = [reader EXCEPT ![r].at = "asked"]
    BY <1>5 DEF ReadRecord
  <2>2. reader'[r] = [x EXCEPT !.at = "asked"]
    BY <1>0, <1>1, <2>1
  <2>3. reader'[r].at = "asked" /\ reader'[r].srv = x.srv /\ reader'[r].todo = x.todo
    BY <2>2 DEF Reading
  <2>4. reader[r].srv \in Server /\ Subject(r) \in CustomerId
    BY <1>4, <2>1
  <2>5. Subject(r)' = Subject(r)
    BY <1>1, <2>3 DEF Subject
  <2>6. regular'[r] = ToldId(Subject(r)) \cup Outgoing(Subject(r))
    BY <1>0, <1>5 DEF ReadRecord, Subject, ToldId
  <2>7. known'[r] = MustKnow(reader[r].srv, Subject(r))
    BY <1>0, <1>5 DEF ReadRecord, Subject
  <2> QED
    BY <1>1, <2>3, <2>4, <2>5, <2>6, <2>7
<1>6. ASSUME GetCustomerRecord(r)
      PROVE  /\ reader[r].at = "asked" /\ reader'[r].at = "answered" /\ reader'[r].srv = reader[r].srv
             /\ reader[r].srv \in Server /\ Subject(r)' = Subject(r) /\ Subject(r) \in CustomerId
             /\ reader'[r].record.last_order = customer_record[reader[r].srv][Subject(r)]
             /\ reader'[r].record.customer_id = Subject(r)
             /\ regular'[r] = regular[r] /\ known'[r] = known[r]
  <2>1. PICK v : v = [customer_id |-> Subject(r), last_order |-> customer_record[reader[r].srv][Subject(r)]]
    OBVIOUS
  <2>2. /\ reader[r].at = "asked" /\ reader' = [reader EXCEPT ![r].at = "answered", ![r].record = v]
        /\ UNCHANGED <<regular, known>>
    BY <1>6, <2>1 DEF GetCustomerRecord, Subject
  <2>3. reader'[r] = [x EXCEPT !.at = "answered", !.record = v]
    BY <1>0, <1>1, <2>2
  <2>4. /\ reader'[r].at = "answered" /\ reader'[r].srv = x.srv /\ reader'[r].todo = x.todo
        /\ reader'[r].record = v
    BY <2>3 DEF Reading
  <2>5. reader[r].srv \in Server /\ Subject(r) \in CustomerId
    BY <1>4, <2>2 DEF ReadsTypeOK
  <2>6. Subject(r)' = Subject(r)
    BY <1>1, <2>4 DEF Subject
  <2> QED
    BY <1>1, <2>1, <2>2, <2>4, <2>5, <2>6
<1>7. ASSUME RecordRead(r) PROVE reader'[r].at \in {"off", "ready"} /\ known'[r] = FALSE
  <2>1. known'[r] = FALSE
    BY <1>0, <1>7 DEF RecordRead
  <2>2. reader'[r] = IF Len(x.todo) > 1 THEN [x EXCEPT !.at = "ready", !.todo = Tail(x.todo), !.record = NoRecord]
                                        ELSE Off
    BY <1>0, <1>1, <1>7 DEF RecordRead
  <2> QED
    BY <2>1, <2>2 DEF Reading, Off
<1> QED
  BY <1>2, <1>3, <1>5, <1>6, <1>7 DEF ReadingClient

(* A read that must return some order does.                                *)
LEMMA NextKnownOK ==
  ASSUME CrashInv, KnownInv, ReadsTypeOK, \A r \in Reader : KnownOK(r), [ReadsNext]_<<vars, readVars>>, NEW r \in Reader
  PROVE  KnownOK(r)'
<1>0. TypeOK /\ FactoryInv /\ crashes \in [Server -> Nat] /\ acked \subseteq [ord : Order, by : Server, at : SUBSET Server]
  BY DEF CrashInv, TypeOK
<1>1. CASE FactoryStep
  <2>1. SUFFICES ASSUME known'[r] PROVE KnownOK(r)'
    BY DEF KnownOK
  <2>2. reader'[r] = IF reader[r].at # "off" /\ ~up'[reader[r].srv] THEN Off ELSE reader[r]
    BY <1>1, FactoryReader
  <2>3. known[r] /\ reader'[r].at # "off"
    BY <1>1, <2>1, FactoryReader
  <2>4. KnownOK(r) /\ reader'[r] = reader[r] /\ up'[reader[r].srv] /\ reader[r].srv \in Server
    BY <2>2, <2>3 DEF Off, ReadsTypeOK
  <2>5. PICK s \in Server : s = reader[r].srv
    BY <2>4
  <2>6. Subject(r) \in CustomerId
    <3>1. reader[r] \in Reading /\ reader[r].todo # << >>
      BY <2>3, <2>4 DEF KnownOK, ReadsTypeOK
    <3>2. reader[r].todo \in Seq(CustomerId)
      BY <3>1 DEF Reading
    <3> QED
      BY <3>1, <3>2 DEF Subject
  <2>7. PICK c \in CustomerId : c = Subject(r)
    BY <2>6
  <2>8. ~Die(s)
    <3>1. up \in [Server -> BOOLEAN]
      BY <1>0 DEF TypeOK, ServerTypeOK
    <3> QED
      BY <2>4, <2>5, <3>1 DEF Die
  <2>9. customer_record[s][c] # -1 /\ crashes[s] = 0
    BY <2>3, <2>4, <2>5, <2>7 DEF KnownOK
  <2>10. [Next]_vars
    BY <1>1 DEF FactoryStep
  <2>11. customer_record'[s][c] # -1 /\ crashes'[s] = 0
    BY <1>0, <2>8, <2>9, <2>10, EntryKept
  <2>12. Subject(r)' = c
    BY <2>4, <2>7 DEF Subject
  <2> QED
    BY <2>3, <2>4, <2>5, <2>11, <2>12 DEF KnownOK
<1>2. ASSUME NEW u \in Reader, ReadingClient(u), u # r PROVE KnownOK(r)'
  <2>1. reader'[r] = reader[r] /\ known'[r] = known[r] /\ UNCHANGED <<crashes, customer_record>>
    BY <1>2, OneReader DEF vars, srvVars
  <2>2. KnownOK(r)
    OBVIOUS
  <2> QED
    BY <2>1, <2>2 DEF KnownOK, Subject
<1>3. CASE ReadingClient(r)
  <2>0. KnownOK(r) /\ UNCHANGED <<crashes, customer_record>>
    BY <1>3, ReaderActs DEF vars, srvVars
  <2>1. CASE reader[r].at = "off" /\ reader'[r].at = "ready" /\ known'[r] = known[r]
    BY <2>0, <2>1 DEF KnownOK
  <2>2. CASE /\ reader'[r].at = "asked" /\ reader'[r].srv = reader[r].srv /\ reader[r].srv \in Server
             /\ Subject(r)' = Subject(r) /\ Subject(r) \in CustomerId
             /\ known'[r] = MustKnow(reader[r].srv, Subject(r))
    <3>1. PICK s \in Server : s = reader[r].srv
      BY <2>2
    <3>2. ASSUME MustKnow(s, Subject(r)) PROVE crashes[s] = 0 /\ customer_record[s][Subject(r)] # -1
      <4>1. PICK a \in acked : IdOf[a.ord.cust] = Subject(r) /\ s \in a.at
        BY <3>2 DEF MustKnow
      <4>2. crashes[s] = 0
        BY <3>2 DEF MustKnow
      <4>3. Holds(s, a.ord)
        BY <1>0, <4>1, <4>2 DEF FactoryInv, DurableInv, AckedDurable, Durable
      <4> QED
        BY <4>1, <4>2, <4>3 DEF Holds, KnownInv
    <3> QED
      BY <2>0, <2>2, <3>1, <3>2 DEF KnownOK
  <2>3. CASE /\ reader[r].at = "asked" /\ reader'[r].at = "answered" /\ reader'[r].srv = reader[r].srv
             /\ Subject(r)' = Subject(r) /\ known'[r] = known[r]
             /\ reader'[r].record.last_order = customer_record[reader[r].srv][Subject(r)]
             /\ reader'[r].record.customer_id = Subject(r)
    BY <2>0, <2>3 DEF KnownOK
  <2>4. CASE known'[r] = FALSE
    BY <2>4 DEF KnownOK
  <2> QED
    BY <1>3, <2>1, <2>2, <2>3, <2>4, ReaderActs
<1>4. CASE UNCHANGED <<vars, readVars>>
  <2>1. KnownOK(r)
    OBVIOUS
  <2> QED
    BY <1>4, <2>1 DEF KnownOK, Subject, vars, srvVars, readVars
<1> QED
  BY <1>1, <1>2, <1>3, <1>4 DEF ReadsNext

(* What a read may return is kept with what is on its way.                 *)
LEMMA NextRegularOK ==
  ASSUME AllPeers, CrashInv, RecordInv, ReadsTypeOK, NoFault => \A r \in Reader : RegularOK(r),
         [ReadsNext]_<<vars, readVars>>, NoFault', NEW r \in Reader
  PROVE  RegularOK(r)'
<1>0. TypeOK /\ [Next]_vars
  BY ReadsSteps DEF CrashInv
<1>1. NoFault /\ CalmStep
  BY <1>0, CalmSteps
<1>2. RegularOK(r)
  BY <1>1
<1>3. CASE FactoryStep
  <2>1. reader'[r] = IF reader[r].at # "off" /\ ~up'[reader[r].srv] THEN Off ELSE reader[r]
    BY <1>3, FactoryReader
  <2>2. CASE reader'[r] # reader[r]
    BY <2>1, <2>2 DEF RegularOK, Off
  <2>3. CASE reader'[r] = reader[r] /\ reader[r].at = "asked"
    <3>1. PICK x : x = Subject(r)
      OBVIOUS
    <3>2. Subject(r)' = x
      BY <2>3, <3>1 DEF Subject
    <3>3. regular'[r] = regular[r] \cup Outgoing(x)'
      <4>1. regular'[r] = regular[r] \cup Outgoing(Subject(r))'
        BY <1>3, <2>3, FactoryReader
      <4> QED
        BY <3>2, <4>1 DEF Outgoing
    <3>4. SUFFICES ASSUME SteadyId(x)' PROVE ToldId(x)' \subseteq regular[r]
      BY <2>3, <3>2, <3>3 DEF RegularOK, SteadyId, ToldId, Outgoing
    <3>5. SteadyId(x) /\ ToldId(x) \cup Outgoing(x) \subseteq regular[r]
      <4>1. SteadyId(x)
        BY <1>0, <3>4, SteadyBefore DEF SteadyId, Owners
      <4> QED
        BY <1>2, <2>3, <3>1, <4>1 DEF RegularOK
    <3>6. ASSUME NEW c \in Owners(x) PROVE LastAcked(c)' \in regular[r]
      <4>1. c \in Customer /\ Steady(c)'
        BY <3>4 DEF SteadyId, Owners
      <4>2. LastAcked(c)' = LastAcked(c) \/ (cpc[c] \in {"wait", "promised"} /\ LastAcked(c)' = cnum[c])
        BY <1>0, <1>1, <4>1, ToldBefore
      <4>3. LastAcked(c) \in ToldId(x) /\ (cpc[c] \in {"wait", "promised"} => cnum[c] \in Outgoing(x))
        BY DEF ToldId, Outgoing
      <4> QED
        BY <3>5, <4>2, <4>3
    <3> QED
      BY <3>6 DEF ToldId, Owners
  <2>4. CASE reader'[r] = reader[r] /\ reader[r].at # "asked"
    <3>1. reader[r].at = "answered" => regular'[r] = regular[r]
      BY <1>3, <2>4, FactoryReader
    <3> QED
      BY <1>0, <1>2, <2>4, <3>1, SteadyBefore DEF RegularOK, SteadyId, Owners
  <2> QED
    BY <2>2, <2>3, <2>4
<1>4. ASSUME NEW u \in Reader, ReadingClient(u), u # r PROVE RegularOK(r)'
  <2>1. reader'[r] = reader[r] /\ regular'[r] = regular[r] /\ UNCHANGED <<clientVars, abandoned>>
    BY <1>4, OneReader DEF vars
  <2> QED
    BY <1>2, <2>1 DEF RegularOK, Subject, LastAcked, ToldId, Outgoing, SteadyId, Owners, Steady, clientVars
<1>5. CASE ReadingClient(r)
  <2>0. UNCHANGED <<clientVars, abandoned>>
    BY <1>5, ReaderActs DEF vars
  <2>1. CASE reader'[r].at \in {"off", "ready"}
    BY <2>1 DEF RegularOK
  <2>2. CASE /\ reader'[r].at = "asked" /\ Subject(r)' = Subject(r)
             /\ regular'[r] = ToldId(Subject(r)) \cup Outgoing(Subject(r))
    <3>1. ToldId(Subject(r))' = ToldId(Subject(r)) /\ Outgoing(Subject(r))' = Outgoing(Subject(r))
      BY <2>0, <2>2 DEF LastAcked, ToldId, Outgoing, Owners, clientVars
    <3> QED
      BY <2>2, <3>1 DEF RegularOK
  <2>3. CASE /\ reader[r].at = "asked" /\ reader'[r].at = "answered" /\ reader[r].srv \in Server
             /\ Subject(r) \in CustomerId /\ regular'[r] = regular[r]
             /\ reader'[r].record.last_order = customer_record[reader[r].srv][Subject(r)]
             /\ reader'[r].record.customer_id = Subject(r)
    <3>1. PICK s \in Server, x \in CustomerId : s = reader[r].srv /\ x = Subject(r)
      BY <2>3
    <3>2. reader'[r].record.customer_id = x /\ reader'[r].record.last_order = customer_record[s][x]
      BY <2>3, <3>1
    <3>3. SUFFICES ASSUME SteadyId(x)' PROVE customer_record[s][x] \in regular[r]
      BY <2>3, <3>2 DEF RegularOK, SteadyId, Owners, Steady
    <3>4. PICK c \in Customer : IdOf[c] = x
      BY DEF CustomerId
    <3>5. c \in Owners(x)
      BY <3>4 DEF Owners
    <3>6. SteadyId(x)
      BY <1>0, <3>3, SteadyBefore DEF SteadyId, Owners
    <3>7. customer_record[s][x] = LastAcked(c) \/ customer_record[s][x] \in Outgoing(x)
      <4>1. RecordsOf(c) /\ cpc[c] \in ClientPC
        BY <1>0, <1>1, <3>5, <3>6 DEF RecordInv, SteadyId, TypeOK, ClientTypeOK
      <4> QED
        BY <3>4, <3>5, <4>1 DEF RecordsOf, ClientPC, Outgoing
    <3>8. ToldId(x) \cup Outgoing(x) \subseteq regular[r]
      BY <1>2, <2>3, <3>1, <3>6 DEF RegularOK
    <3> QED
      BY <3>5, <3>7, <3>8 DEF ToldId
  <2> QED
    BY <1>5, <2>1, <2>2, <2>3, ReaderActs
<1>6. CASE UNCHANGED <<vars, readVars>>
  BY <1>2, <1>6 DEF RegularOK, Subject, LastAcked, ToldId, Outgoing, SteadyId, Owners, Steady, vars, clientVars, readVars
<1> QED
  BY <1>3, <1>4, <1>5, <1>6 DEF ReadsNext

(* The readers at the start.                                               *)
LEMMA InitReads ==
  ASSUME ReadsInit
  PROVE  ReadsTypeOK /\ KnownInv /\ \A r \in Reader : KnownOK(r) /\ RegularOK(r)
<1>1. Off \in Reading /\ Off.at = "off"
  <2>1. << >> \in Seq(CustomerId) /\ NoRecord \in [customer_id : CustomerId \cup {NoOne}, last_order : Int]
    BY DEF NoRecord
  <2> QED
    BY <2>1 DEF Off, Reading
<1>2. ReadsTypeOK
  BY <1>1 DEF ReadsInit, ReadsTypeOK
<1>3. KnownInv
  BY DEF ReadsInit, Init, KnownInv
<1> QED
  BY <1>1, <1>2, <1>3 DEF ReadsInit, KnownOK, RegularOK

(* A server that has not crashed knows every customer with an order that   *)
(* was acknowledged by it, or by a server whose stubs reached it then.     *)
THEOREM AckedStayKnown == ReadsSpec => []AckedNeverUnknown
<1> DEFINE Inv == ReadsTypeOK /\ KnownInv /\ \A r \in Reader : KnownOK(r)
<1>1. ReadsInit => Inv
  BY InitReads
<1>2. CrashInv /\ CrashInv' /\ Inv /\ [ReadsNext]_<<vars, readVars>> => Inv'
  <2>1. SUFFICES ASSUME CrashInv, CrashInv', Inv, [ReadsNext]_<<vars, readVars>> PROVE Inv'
    OBVIOUS
  <2>2. TypeOK /\ TypeOK' /\ FactoryInv /\ [Next]_vars
    BY <2>1, ReadsSteps DEF CrashInv
  <2> QED
    BY <2>1, <2>2, ReadsType, NextKnown, NextKnownOK
<1>3. Inv => AckedNeverUnknown
  BY DEF KnownOK, AckedNeverUnknown
<1> HIDE DEF Inv
<1> QED
  BY <1>1, <1>2, <1>3, ReadsImplySpec, CrashInvariant, PTL DEF ReadsSpec

(* Without crashes and failed connects, a read from any server of a        *)
(* customer whose only client lives returns the last order that client was *)
(* told of when the read began, or one on its way since.                   *)
THEOREM ReadsAreRegular ==
  ASSUME AllPeers
  PROVE  ReadsSpec => []ReadsRegular
<1> DEFINE Inv == ReadsTypeOK /\ (NoFault => \A r \in Reader : RegularOK(r))
<1>1. ReadsInit => Inv
  BY InitReads
<1>2. CrashInv /\ CrashInv' /\ RecordInv /\ Inv /\ [ReadsNext]_<<vars, readVars>> => Inv'
  <2>1. SUFFICES ASSUME CrashInv, CrashInv', RecordInv, Inv, [ReadsNext]_<<vars, readVars>> PROVE Inv'
    OBVIOUS
  <2>2. ReadsTypeOK'
    BY <2>1, ReadsType DEF CrashInv
  <2>3. ASSUME NoFault', NEW r \in Reader PROVE RegularOK(r)'
    BY <2>1, <2>3, NextRegularOK
  <2> QED
    BY <2>2, <2>3
<1>3. Inv => ReadsRegular
  BY DEF RegularOK, ReadsRegular, SteadyId
<1>4. Init => RecordInv
  BY InitRecords
<1>5. CrashInv /\ RecordInv /\ [Next]_vars => RecordInv'
  BY NextRecords
<1>6. Spec => []RecordInv
  BY <1>4, <1>5, CrashInvariant, PTL DEF Spec
<1> HIDE DEF Inv
<1> QED
  BY <1>1, <1>2, <1>3, <1>6, ReadsImplySpec, CrashInvariant, PTL DEF ReadsSpec

=============================================================================
