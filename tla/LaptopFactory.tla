---------------------------- MODULE LaptopFactory ---------------------------
(***************************************************************************)
(* The replicated laptop factory of ServerMain.cpp and ServerThread.cpp.   *)
(*                                                                         *)
(* Every server process runs one ProductionAdminThread, which takes orders *)
(* from the queue erq, and one EngineerThread per accepted connection.     *)
(* The server a client orders from makes itself the primary, connects a    *)
(* stub to each peer, sends the order over every stub and waits for each   *)
(* peer's answer, applies the order to its own log and record map, and     *)
(* answers the client.  Nothing is persisted: a crashed server restarts    *)
(* empty, with the same id and peer list.                                  *)
(*                                                                         *)
(* One action is one access to what other threads or processes can see:    *)
(* primary_id, committed_index and last_index are plain ints that the      *)
(* admin thread and the engineer threads read and write without a lock, so *)
(* the accesses of a handler are separate steps.  The storage calls and    *)
(* the queue operations run under their locks and are single steps here.   *)
(*                                                                         *)
(* Server processes and clients die at any step, and are run again; calls  *)
(* of socket() and connect() fail.  Not in the model: a connection that    *)
(* breaks while the processes at both ends live, and a peer that accepts a *)
(* connection and never answers on it.                                     *)
(***************************************************************************)
EXTENDS Integers, Sequences, FiniteSets

CONSTANTS
  Server,       \* the unique factory ids
  PeerList,     \* PeerList[s]: the peers on the command line of server s
  Customer,     \* client threads, each started with the arguments of ClientMain
  IdOf,         \* IdOf[c]: the customer id of client thread c
  ConnId,       \* bound: identities of simultaneously open connections
  NoOne,        \* the id -1: no server, no client, no customer
  TornIdx,      \* what getIdx() returns when it races with a push_back
  NumOrders,    \* orders a client thread places in one run
  MaxSessions,  \* bound: MaxSessions[c] runs of the client thread of c
  Mortal,       \* bound: clients that may die, or lose their connection
  Flaky,        \* bound: servers whose socket() or connect() may fail
  MaxCrashes    \* bound: MaxCrashes[s] crashes of server process s

(* The ids in use.  Every client process counts its threads from 0, so two *)
(* processes have clients with the same ids.                               *)
CustomerId == {IdOf[c] : c \in Customer}

ASSUME FactoryAssumption ==
  /\ PeerList \in [Server -> Seq(Server)]
  /\ \A s \in Server : \A i \in 1..Len(PeerList[s]) : PeerList[s][i] # s
  /\ ConnId \subseteq Nat \ {0}
  /\ IdOf = [c \in Customer |-> IdOf[c]]
  /\ NoOne \notin Server \cup Customer \cup CustomerId
  /\ TornIdx \in Int
  /\ NumOrders \in Nat \ {0}
  /\ MaxSessions \in [Customer -> Nat]
  /\ Mortal \subseteq Customer
  /\ Flaky \subseteq Server
  /\ MaxCrashes \in [Server -> Nat]

VARIABLES
  (* Each server process. *)
  up,               \* the process runs
  primary_id,       \* LaptopFactory::primary_id
  committed_index,  \* LaptopFactory::committed_index
  last_index,       \* LaptopFactory::last_index
  log,              \* ServerStorage::state_machine_log
  customer_record,  \* ServerStorage::customer_record, -1 for no entry
  inbox,            \* orders on their way to the engineer threads of clients
  erq,              \* orders of the queued AdminRequests
  stubs,            \* LaptopFactory::stubs
  (* Its ProductionAdminThread. *)
  apc,              \* what the thread does next
  cur,              \* the order of the AdminRequest it took from erq
  bump,             \* value it computed for committed_index, or -1
  msg,              \* the ReplicationRequest it built
  it,               \* position in peer_list, then in stubs
  todo,             \* requests still to send over the current stub
  (* The network, with the EngineerThread at the far end. *)
  conn,
  (* The clients. *)
  csrv,             \* the server a client thread is connected to
  cpc,              \* what the client waits for
  cnum,             \* number of its next or outstanding order
  sess,             \* how many times the client has been run
  (* History, read by no action. *)
  acked,            \* orders whose laptop reached the client: see SendLaptop
  abandoned,        \* orders that clients had sent, or would have, as they died
  crashes           \* how often each server has crashed

srvVars    == <<up, primary_id, committed_index, last_index, log, customer_record, inbox, erq, stubs>>
adminVars  == <<apc, cur, bump, msg, it, todo>>
clientVars == <<csrv, cpc, cnum, sess>>
vars == <<srvVars, adminVars, conn, clientVars, acked, abandoned, crashes>>

-----------------------------------------------------------------------------
(* An order is what MapOp carries, the id of a client thread standing for  *)
(* the thread.  sess is auxiliary: it tells apart the equal order numbers  *)
(* of two runs of the same client.                                         *)
Order   == [cust : Customer, sess : Nat, num : Nat]
NoOrder == [cust |-> NoOne, sess |-> 0, num |-> -1]

Request == [fid : Server \cup {NoOne}, committed : Int, last : Int, ord : Order \cup {NoOrder}]
NoMsg   == [fid |-> NoOne, committed |-> -1, last |-> -1, ord |-> NoOrder]

(* A ClientStub: its socket's valid and is_initialized_ flags, and the     *)
(* connection fd_ names (0 for none).                                      *)
Stub == [peer : Server, valid : BOOLEAN, init : BOOLEAN, conn : ConnId \cup {0}]

(* A TCP connection from a stub to an engineer thread.                     *)
(*   open    the stub's end is open                                        *)
(*   ident   an identification is on its way to the engineer               *)
(*   sent    the request msg is on its way to the engineer                 *)
(*   ack     an answer is on its way to the stub                           *)
(*   eng     what the engineer thread does next; msg is its request:       *)
(*           "status" waits for the identification, "recv" for a request,  *)
(*           "committed", "last", "place", "reply" are the steps of the    *)
(*           handler, "spin" loops in EngineerThread doing nothing, "dead" *)
(*           its process or thread has ended, "free" the id is unused      *)
Conn == [from : Server \cup {NoOne}, to : Server \cup {NoOne}, open : BOOLEAN,
         ident : BOOLEAN, sent : BOOLEAN, ack : BOOLEAN, msg : Request,
         eng : {"free", "status", "recv", "committed", "last", "place", "reply", "spin", "dead"}]

FreeConn == [from |-> NoOne, to |-> NoOne, open |-> FALSE, ident |-> FALSE, sent |-> FALSE,
             ack |-> FALSE, msg |-> NoMsg, eng |-> "free"]

AdminPC == {"idle", "bump", "claim", "connect", "identify", "index", "build",
            "visit", "await", "place", "commit"}

ClientPC == {"off", "ready", "wait", "promised"}

Init ==
  /\ up = [s \in Server |-> TRUE]
  /\ primary_id = [s \in Server |-> NoOne]
  /\ committed_index = [s \in Server |-> -1]
  /\ last_index = [s \in Server |-> -1]
  /\ log = [s \in Server |-> << >>]
  /\ customer_record = [s \in Server |-> [x \in CustomerId |-> -1]]
  /\ inbox = [s \in Server |-> {}]
  /\ erq = [s \in Server |-> << >>]
  /\ stubs = [s \in Server |-> << >>]
  /\ apc = [s \in Server |-> "idle"]
  /\ cur = [s \in Server |-> NoOrder]
  /\ bump = [s \in Server |-> -1]
  /\ msg = [s \in Server |-> NoMsg]
  /\ it = [s \in Server |-> 1]
  /\ todo = [s \in Server |-> << >>]
  /\ conn = [k \in ConnId |-> FreeConn]
  /\ csrv = [c \in Customer |-> NoOne]
  /\ cpc = [c \in Customer |-> "off"]
  /\ cnum = [c \in Customer |-> 0]
  /\ sess = [c \in Customer |-> 0]
  /\ acked = {}
  /\ abandoned = {}
  /\ crashes = [s \in Server |-> 0]
-----------------------------------------------------------------------------
(* Helpers.                                                                *)

Peers(s) == {PeerList[s][i] : i \in 1..Len(PeerList[s])}

(* A place_order that inserts the entry only when the customer has none.   *)
place_order_KeepsFirst(s, o) ==
  /\ log' = [log EXCEPT ![s] = Append(@, o)]
  /\ customer_record' = [customer_record EXCEPT ![s][IdOf[o.cust]] = IF @ = -1 THEN o.num ELSE @]

(* place_order: append to the log and overwrite the customer's entry, both *)
(* under the write lock.                                                   *)
place_order(s, o) ==
  /\ log' = [log EXCEPT ![s] = Append(@, o)]
  /\ customer_record' = [customer_record EXCEPT ![s][IdOf[o.cust]] = o.num]

(* getIdx() reads the vector's size without the lock.  An engineer thread  *)
(* that is about to push_back may be in the middle of it: the two pointers *)
(* the size is computed from need not belong together.                     *)
getIdx(s) ==
  {Len(log[s]) - 1} \cup
  {TornIdx : k \in {k \in ConnId : conn[k].to = s /\ conn[k].eng = "place"}}

(* The least unused connection identity.                                   *)
FreshConn == {k \in ConnId : /\ conn[k].eng = "free"
                             /\ \A j \in ConnId : conn[j].eng = "free" => k <= j}

NewStub(p) == [peer |-> p, valid |-> TRUE, init |-> FALSE, conn |-> 0]

(* What a call of ClientSocket::Init comes to: the id of a connection, or  *)
Refused  == 0     \* connect() fails
NoSocket == -1    \* socket() fails

(* A ClientSocket::Init that would also clear the failure of an earlier    *)
(* connection.                                                             *)
SocketInit_ClearsFailure(b, k) ==
  IF b.init \/ k = NoSocket THEN b
  ELSE IF k = Refused THEN [b EXCEPT !.valid = FALSE]
  ELSE [b EXCEPT !.init = TRUE, !.valid = TRUE, !.conn = k]

(* A ClientSocket::Init that leaves valid as it is when connect() fails.   *)
SocketInit_KeepsValid(b, k) ==
  IF b.init \/ k \notin ConnId THEN b ELSE [b EXCEPT !.init = TRUE, !.conn = k]

(* ClientSocket::Init on the socket of stub b: nothing when it is already  *)
(* initialized.  A failed socket() returns and leaves valid as it is, a    *)
(* failed connect() clears it, and success does not set it.                *)
SocketInit(b, k) ==
  IF b.init \/ k = NoSocket THEN b
  ELSE IF k = Refused THEN [b EXCEPT !.valid = FALSE]
  ELSE [b EXCEPT !.init = TRUE, !.conn = k]

(* What a call of SocketInit on stub b of server s can come to: connect()  *)
(* fails when the peer's process is down, and either call may fail on its  *)
(* own when s is Flaky.                                                    *)
Dialled(s, b) ==
  IF b.init THEN {b.conn}
  ELSE (IF up[b.peer] THEN FreshConn ELSE {Refused})
       \cup (IF s \in Flaky THEN {Refused, NoSocket} ELSE {})

(* The connections after it: the peer's main loop accepts and starts an    *)
(* engineer thread.                                                        *)
Dial(s, b, k) ==
  IF b.init \/ k \notin ConnId THEN conn
  ELSE [conn EXCEPT ![k] = [FreeConn EXCEPT !.from = s, !.to = b.peer,
                                            !.open = TRUE, !.eng = "status"]]

(* Socket::Close after a failed Send or Recv of a stub.                    *)
Closed(b) == [b EXCEPT !.valid = FALSE, !.init = FALSE, !.conn = 0]

(* Loops that stop before the last element, or run past it.                *)
AfterPeer_SkipsLast(s, i) == IF i + 1 < Len(PeerList[s]) THEN "connect" ELSE "index"
AfterStub_SkipsLast(s, i) == IF i + 1 < Len(stubs[s]) THEN "visit" ELSE "place"
AfterStub_OneTooMany(s, i) == IF i <= Len(stubs[s]) THEN "visit" ELSE "place"

(* The admin thread's next statement after peer i of peer_list and after   *)
(* stub i of stubs.                                                        *)
AfterPeer(s, i) == IF i < Len(PeerList[s]) THEN "connect" ELSE "index"
AfterStub(s, i) == IF i < Len(stubs[s]) THEN "visit" ELSE "place"

-----------------------------------------------------------------------------
(* Clients (ClientThread.cpp) and the engineer threads that serve them.    *)

(* A client thread starts, connects to server s and identifies itself.     *)
StartSession(c, s) ==
  /\ cpc[c] = "off"
  /\ sess[c] < MaxSessions[c]
  /\ up[s]
  /\ csrv' = [csrv EXCEPT ![c] = s]
  /\ cpc' = [cpc EXCEPT ![c] = "ready"]
  /\ cnum' = [cnum EXCEPT ![c] = 0]
  /\ sess' = [sess EXCEPT ![c] = @ + 1]
  /\ UNCHANGED <<srvVars, adminVars, conn, acked, abandoned, crashes>>

OrderOf(c) == [cust |-> c, sess |-> sess[c], num |-> cnum[c]]

(* Order o is the one its client waits for, at server s.                   *)
Outstanding(s, o) ==
  /\ o \in Order
  /\ csrv[o.cust] = s
  /\ cpc[o.cust] = "wait"
  /\ o = OrderOf(o.cust)

(* ClientStub::Order sends the order and waits for the laptop.             *)
SendOrder(c) ==
  /\ cpc[c] = "ready"
  /\ inbox' = [inbox EXCEPT ![csrv[c]] = @ \cup {OrderOf(c)}]
  /\ cpc' = [cpc EXCEPT ![c] = "wait"]
  /\ UNCHANGED <<up, primary_id, committed_index, last_index, log, customer_record, erq, stubs,
                 adminVars, conn, csrv, cnum, sess, acked, abandoned, crashes>>

(* The engineer thread of a connection of client c receives its order,     *)
(* pushes an AdminRequest onto erq under erq_lock, notifies the admin      *)
(* thread and waits for the future.                                        *)
CreateRegularLaptop(s, c) ==
  \E o \in inbox[s] :
    /\ o.cust = c
    /\ inbox' = [inbox EXCEPT ![s] = @ \ {o}]
    /\ erq' = [erq EXCEPT ![s] = Append(@, o)]
    /\ UNCHANGED <<up, primary_id, committed_index, last_index, log, customer_record, stubs,
                   adminVars, conn, clientVars, acked, abandoned, crashes>>

(* Peers of s with a stub of s that has failed, and the others.            *)
Missed(s) == {stubs[s][i].peer : i \in {i \in 1..Len(stubs[s]) : ~stubs[s][i].valid}}
Reached(s) == Peers(s) \ Missed(s)

(* The future is ready: SendLaptop answers the client, whose loop places   *)
(* the next order or ends.  acked notes the server that answers, and the   *)
(* servers its stubs still reach.                                          *)
SendLaptop(c) ==
  /\ cpc[c] = "promised"
  /\ acked' = acked \cup {[ord |-> OrderOf(c), by |-> csrv[c], at |-> {csrv[c]} \cup Reached(csrv[c])]}
  /\ cnum' = [cnum EXCEPT ![c] = @ + 1]
  /\ cpc' = [cpc EXCEPT ![c] = IF cnum[c] + 1 < NumOrders THEN "ready" ELSE "off"]
  /\ UNCHANGED <<srvVars, adminVars, conn, csrv, sess, abandoned, crashes>>

(* The client process is killed, or its connection is lost.  The order it  *)
(* has sent stays where it is in the server, which works it off and        *)
(* answers nobody.                                                         *)
ClientGone(c) ==
  /\ c \in Mortal
  /\ cpc[c] # "off"
  /\ cpc' = [cpc EXCEPT ![c] = "off"]
  /\ abandoned' = abandoned \cup {OrderOf(c)}
  /\ UNCHANGED <<srvVars, adminVars, conn, csrv, cnum, sess, acked, crashes>>
-----------------------------------------------------------------------------
(* ProductionAdminThread of server s.                                      *)

(* A thread that takes the front of erq and forgets to pop it.             *)
AdminDequeue_NoPop(s) ==
  /\ up[s]
  /\ apc[s] = "idle"
  /\ erq[s] # << >>
  /\ cur' = [cur EXCEPT ![s] = Head(erq[s])]
  /\ apc' = [apc EXCEPT ![s] = IF primary_id[s] # s THEN "bump" ELSE "index"]
  /\ UNCHANGED <<srvVars, bump, msg, it, todo, conn, clientVars, acked, abandoned, crashes>>

(* Pop the front of erq under erq_lock, then read primary_id: a server     *)
(* that is not the primary calls startConnection.                          *)
AdminDequeue(s) ==
  /\ up[s]
  /\ apc[s] = "idle"
  /\ erq[s] # << >>
  /\ cur' = [cur EXCEPT ![s] = Head(erq[s])]
  /\ erq' = [erq EXCEPT ![s] = Tail(@)]
  /\ apc' = [apc EXCEPT ![s] = IF primary_id[s] # s THEN "bump" ELSE "index"]
  /\ UNCHANGED <<up, primary_id, committed_index, last_index, log, customer_record, inbox, stubs,
                 bump, msg, it, todo, conn, clientVars, acked, abandoned, crashes>>

(* startConnection: the load half of committed_index++, guarded by >= 0.   *)
ReadCommitted(s) ==
  /\ apc[s] = "bump"
  /\ bump' = [bump EXCEPT ![s] = IF committed_index[s] >= 0 THEN committed_index[s] + 1 ELSE -1]
  /\ apc' = [apc EXCEPT ![s] = "claim"]
  /\ UNCHANGED <<srvVars, cur, msg, it, todo, conn, clientVars, acked, abandoned, crashes>>

(* startConnection: the store half of committed_index++, primary_id =      *)
(* factory_id, and the loop over peer_list begins.                         *)
ClaimPrimary(s) ==
  /\ apc[s] = "claim"
  /\ committed_index' = [committed_index EXCEPT ![s] = IF bump[s] # -1 THEN bump[s] ELSE @]
  /\ primary_id' = [primary_id EXCEPT ![s] = s]
  /\ bump' = [bump EXCEPT ![s] = -1]
  /\ it' = [it EXCEPT ![s] = 1]
  /\ apc' = [apc EXCEPT ![s] = AfterPeer(s, 0)]
  /\ UNCHANGED <<up, last_index, log, customer_record, inbox, erq, stubs, cur, msg, todo,
                 conn, clientVars, acked, abandoned, crashes>>

(* startConnection: a new stub for the next peer; stubs is only ever       *)
(* appended to.                                                            *)
ConnectPeer(s) ==
  /\ apc[s] = "connect"
  /\ LET new == NewStub(PeerList[s][it[s]]) IN
     \E k \in Dialled(s, new) :
       LET b == SocketInit(new, k) IN
       /\ stubs' = [stubs EXCEPT ![s] = Append(@, b)]
       /\ conn' = Dial(s, new, k)
       /\ apc' = [apc EXCEPT ![s] = IF b.valid THEN "identify" ELSE AfterPeer(s, it[s])]
       /\ it' = [it EXCEPT ![s] = IF b.valid THEN @ ELSE @ + 1]
  /\ UNCHANGED <<up, primary_id, committed_index, last_index, log, customer_record, inbox, erq,
                 cur, bump, msg, todo, clientVars, acked, abandoned, crashes>>

(* startConnection: SendIdentification(2).  To a peer that has crashed     *)
(* since the connect, the send may still succeed locally; on the           *)
(* descriptor -1 of a failed socket() it fails.                            *)
IdentifyPeer(s) ==
  /\ apc[s] = "identify"
  /\ LET n == Len(stubs[s])
         b == stubs[s][n]
     IN \/ /\ b.init
           /\ conn' = [conn EXCEPT ![b.conn].ident = TRUE]
           /\ UNCHANGED stubs
        \/ /\ b.init /\ conn[b.conn].eng = "dead"
           /\ conn' = [conn EXCEPT ![b.conn] = FreeConn]
           /\ stubs' = [stubs EXCEPT ![s][n] = Closed(@)]
        \/ /\ ~b.init
           /\ stubs' = [stubs EXCEPT ![s][n] = Closed(@)]
           /\ UNCHANGED conn
  /\ apc' = [apc EXCEPT ![s] = AfterPeer(s, it[s])]
  /\ it' = [it EXCEPT ![s] = @ + 1]
  /\ UNCHANGED <<up, primary_id, committed_index, last_index, log, customer_record, inbox, erq,
                 cur, bump, msg, todo, clientVars, acked, abandoned, crashes>>

(* last_index = getIdx(), and the load of committed_index for the request. *)
ReadIndex(s) ==
  /\ apc[s] = "index"
  /\ \E idx \in getIdx(s) : last_index' = [last_index EXCEPT ![s] = idx]
  /\ msg' = [msg EXCEPT ![s] = [fid |-> s, committed |-> committed_index[s], last |-> -1,
                                ord |-> cur[s]]]
  /\ apc' = [apc EXCEPT ![s] = "build"]
  /\ UNCHANGED <<up, primary_id, committed_index, log, customer_record, inbox, erq, stubs,
                 cur, bump, it, todo, conn, clientVars, acked, abandoned, crashes>>

(* The load of last_index for the request; startReplication begins.        *)
BuildRequest(s) ==
  /\ apc[s] = "build"
  /\ msg' = [msg EXCEPT ![s].last = last_index[s]]
  /\ it' = [it EXCEPT ![s] = 1]
  /\ apc' = [apc EXCEPT ![s] = AfterStub(s, 0)]
  /\ UNCHANGED <<srvVars, cur, bump, todo, conn, clientVars, acked, abandoned, crashes>>

(* One ReplicationRequest per entry of the log, for a stub that has just   *)
(* been reconnected.                                                       *)
Replay(s) == [j \in 1..Len(log[s]) |->
                [fid |-> s, committed |-> committed_index[s], last |-> last_index[s],
                 ord |-> log[s][j]]]

Send(cn, k, m) == [cn EXCEPT ![k].sent = TRUE, ![k].msg = m]

(* The loop of startReplication reaches stub it[s].  A valid stub is sent  *)
(* the request.  An invalid one is reconnected: if it were valid then, it  *)
(* would be sent an identification, the whole log and the request;         *)
(* otherwise the loop goes on to the next stub.                            *)
ReplicateTo(s) ==
  /\ apc[s] = "visit"
  /\ LET b == stubs[s][it[s]] IN
     \E k \in IF b.valid THEN {b.conn} ELSE Dialled(s, b) :
       LET r   == IF b.valid THEN b ELSE SocketInit(b, k)
           out == IF b.valid THEN << msg[s] >> ELSE Append(Replay(s), msg[s])
           cn  == IF b.valid THEN conn ELSE Dial(s, b, k)
           cni == IF b.valid THEN conn ELSE [cn EXCEPT ![k].ident = TRUE]
       IN /\ stubs' = [stubs EXCEPT ![s][it[s]] = r]
          /\ conn' = IF r.valid THEN Send(cni, k, Head(out)) ELSE cn
          /\ todo' = [todo EXCEPT ![s] = IF r.valid THEN Tail(out) ELSE << >>]
          /\ apc' = [apc EXCEPT ![s] = IF r.valid THEN "await" ELSE AfterStub(s, it[s])]
          /\ it' = [it EXCEPT ![s] = IF r.valid THEN @ ELSE @ + 1]
  /\ UNCHANGED <<up, primary_id, committed_index, last_index, log, customer_record, inbox, erq,
                 cur, bump, msg, clientVars, acked, abandoned, crashes>>

(* A startReplication that goes on without waiting for the answer.         *)
ReplicationAcked_NoWait(s) ==
  /\ apc[s] = "await"
  /\ todo[s] = << >>
  /\ apc' = [apc EXCEPT ![s] = AfterStub(s, it[s])]
  /\ it' = [it EXCEPT ![s] = @ + 1]
  /\ UNCHANGED <<srvVars, cur, bump, msg, todo, conn, clientVars, acked, abandoned, crashes>>

(* ClientStub::startReplication receives the peer's answer; the next       *)
(* request of a replay is sent, or the loop goes on.                       *)
ReplicationAcked(s) ==
  /\ apc[s] = "await"
  /\ LET k == stubs[s][it[s]].conn
         c == [conn EXCEPT ![k].ack = FALSE]
     IN /\ conn[k].ack
        /\ conn' = IF todo[s] = << >> THEN c ELSE Send(c, k, Head(todo[s]))
  /\ todo' = [todo EXCEPT ![s] = IF @ = << >> THEN @ ELSE Tail(@)]
  /\ apc' = [apc EXCEPT ![s] = IF todo[s] = << >> THEN AfterStub(s, it[s]) ELSE "await"]
  /\ it' = [it EXCEPT ![s] = IF todo[s] = << >> THEN @ + 1 ELSE @]
  /\ UNCHANGED <<srvVars, cur, bump, msg, clientVars, acked, abandoned, crashes>>

(* A loop that ends at the first peer that does not answer.                *)
ReplicationFailed_Breaks(s) ==
  /\ apc[s] = "await"
  /\ LET i == it[s]
         k == stubs[s][i].conn
     IN /\ conn[k].eng = "dead" /\ ~conn[k].ack
        /\ conn' = [conn EXCEPT ![k] = FreeConn]
        /\ stubs' = [stubs EXCEPT ![s][i] = Closed(@)]
        /\ apc' = [apc EXCEPT ![s] = "place"]
  /\ UNCHANGED <<up, primary_id, committed_index, last_index, log, customer_record, inbox, erq,
                 cur, bump, msg, it, todo, clientVars, acked, abandoned, crashes>>

(* The peer is gone and no answer is left to read: Send or Recv fails and  *)
(* closes the socket, further sends of a replay fail at once, the loop     *)
(* goes on to the next stub.                                               *)
ReplicationFailed(s) ==
  /\ apc[s] = "await"
  /\ LET i == it[s]
         k == stubs[s][i].conn
     IN /\ conn[k].eng = "dead" /\ ~conn[k].ack
        /\ conn' = [conn EXCEPT ![k] = FreeConn]
        /\ stubs' = [stubs EXCEPT ![s][i] = Closed(@)]
        /\ apc' = [apc EXCEPT ![s] = AfterStub(s, i)]
        /\ it' = [it EXCEPT ![s] = i + 1]
        /\ todo' = [todo EXCEPT ![s] = << >>]
  /\ UNCHANGED <<up, primary_id, committed_index, last_index, log, customer_record, inbox, erq,
                 cur, bump, msg, clientVars, acked, abandoned, crashes>>

(* server_storage.place_order of the admin thread.                         *)
AdminPlaceOrder(s) ==
  /\ apc[s] = "place"
  /\ place_order(s, cur[s])
  /\ apc' = [apc EXCEPT ![s] = "commit"]
  /\ UNCHANGED <<up, primary_id, committed_index, last_index, inbox, erq, stubs, cur, bump, msg, it,
                 todo, conn, clientVars, acked, abandoned, crashes>>

(* committed_index = last_index, and the promise of the order is set; if   *)
(* its client is gone, nobody reads the answer.                            *)
CommitOrder(s) ==
  /\ apc[s] = "commit"
  /\ committed_index' = [committed_index EXCEPT ![s] = last_index[s]]
  /\ cpc' = IF Outstanding(s, cur[s]) THEN [cpc EXCEPT ![cur[s].cust] = "promised"] ELSE cpc
  /\ cur' = [cur EXCEPT ![s] = NoOrder]
  /\ msg' = [msg EXCEPT ![s] = NoMsg]
  /\ it' = [it EXCEPT ![s] = 1]
  /\ apc' = [apc EXCEPT ![s] = "idle"]
  /\ UNCHANGED <<up, primary_id, last_index, log, customer_record, inbox, erq, stubs, bump, todo,
                 conn, csrv, cnum, sess, acked, abandoned, crashes>>

-----------------------------------------------------------------------------
(* EngineerThread of the server conn[k].to, serving a peer's stub.         *)

(* ReceiveStatusInfo returns 2.                                            *)
ReceiveStatusInfo(k) ==
  /\ conn[k].eng = "status"
  /\ conn[k].ident
  /\ conn' = [conn EXCEPT ![k].ident = FALSE, ![k].eng = "recv"]
  /\ UNCHANGED <<srvVars, adminVars, clientVars, acked, abandoned, crashes>>

(* The connection ends before an identification: ReceiveStatusInfo returns *)
(* an uninitialized int.  If that is 2 the next receive fails and the      *)
(* thread resets primary_id; if it is 1 the thread just ends; with any     *)
(* other value the loop of EngineerThread runs forever without a receive.  *)
StatusLost(k) ==
  /\ conn[k].eng = "status"
  /\ ~conn[k].ident /\ ~conn[k].open
  /\ \/ /\ primary_id' = [primary_id EXCEPT ![conn[k].to] = NoOne]
        /\ conn' = [conn EXCEPT ![k] = FreeConn]
     \/ /\ conn' = [conn EXCEPT ![k] = FreeConn]
        /\ UNCHANGED primary_id
     \/ /\ conn' = [conn EXCEPT ![k].eng = "spin"]
        /\ UNCHANGED primary_id
  /\ UNCHANGED <<up, committed_index, last_index, log, customer_record, inbox, erq, stubs,
                 adminVars, clientVars, acked, abandoned, crashes>>

(* An engineer thread that does not record who the primary is.             *)
ReceiveReplicationRequest_NoPrimary(k) ==
  /\ conn[k].eng = "recv"
  /\ conn[k].sent
  /\ conn' = [conn EXCEPT ![k].sent = FALSE, ![k].eng = "committed"]
  /\ UNCHANGED <<srvVars, adminVars, clientVars, acked, abandoned, crashes>>

(* ReceiveReplicationRequest succeeds: primary_id = req.getFactoryId().    *)
ReceiveReplicationRequest(k) ==
  /\ conn[k].eng = "recv"
  /\ conn[k].sent
  /\ primary_id' = [primary_id EXCEPT ![conn[k].to] = conn[k].msg.fid]
  /\ conn' = [conn EXCEPT ![k].sent = FALSE, ![k].eng = "committed"]
  /\ UNCHANGED <<up, committed_index, last_index, log, customer_record, inbox, erq, stubs,
                 adminVars, clientVars, acked, abandoned, crashes>>

(* committed_index = req.getCommittedIndex().                              *)
StoreCommittedIndex(k) ==
  /\ conn[k].eng = "committed"
  /\ committed_index' = [committed_index EXCEPT ![conn[k].to] = conn[k].msg.committed]
  /\ conn' = [conn EXCEPT ![k].eng = "last"]
  /\ UNCHANGED <<up, primary_id, last_index, log, customer_record, inbox, erq, stubs,
                 adminVars, clientVars, acked, abandoned, crashes>>

(* last_index = req.getLastIndex().                                        *)
StoreLastIndex(k) ==
  /\ conn[k].eng = "last"
  /\ last_index' = [last_index EXCEPT ![conn[k].to] = conn[k].msg.last]
  /\ conn' = [conn EXCEPT ![k].eng = "place"]
  /\ UNCHANGED <<up, primary_id, committed_index, log, customer_record, inbox, erq, stubs,
                 adminVars, clientVars, acked, abandoned, crashes>>

(* An engineer thread that shares a lock with an admin thread which holds  *)
(* it while it replicates.                                                 *)
EngineerPlaceOrder_AdminLock(k) ==
  /\ conn[k].eng = "place"
  /\ apc[conn[k].to] \notin {"visit", "await"}
  /\ place_order(conn[k].to, conn[k].msg.ord)
  /\ conn' = [conn EXCEPT ![k].eng = "reply"]
  /\ UNCHANGED <<up, primary_id, committed_index, last_index, inbox, erq, stubs,
                 adminVars, clientVars, acked, abandoned, crashes>>

(* server_storage.place_order of the engineer thread.                      *)
EngineerPlaceOrder(k) ==
  /\ conn[k].eng = "place"
  /\ place_order(conn[k].to, conn[k].msg.ord)
  /\ conn' = [conn EXCEPT ![k].eng = "reply"]
  /\ UNCHANGED <<up, primary_id, committed_index, last_index, inbox, erq, stubs,
                 adminVars, clientVars, acked, abandoned, crashes>>

(* SendReplicationResult: the answer travels if the stub is still there.   *)
SendReplicationResult(k) ==
  /\ conn[k].eng = "reply"
  /\ conn' = [conn EXCEPT ![k].eng = "recv", ![k].ack = conn[k].open, ![k].msg = NoMsg]
  /\ UNCHANGED <<srvVars, adminVars, clientVars, acked, abandoned, crashes>>

(* The stub's process is gone and nothing is left to read: the receive     *)
(* fails, primary_id = -1 whoever the primary is, and the thread ends.     *)
PeerHangup(k) ==
  /\ conn[k].eng = "recv"
  /\ ~conn[k].sent /\ ~conn[k].open
  /\ primary_id' = [primary_id EXCEPT ![conn[k].to] = NoOne]
  /\ conn' = [conn EXCEPT ![k] = FreeConn]
  /\ UNCHANGED <<up, committed_index, last_index, log, customer_record, inbox, erq, stubs,
                 adminVars, clientVars, acked, abandoned, crashes>>
-----------------------------------------------------------------------------
(* The environment: a server process dies, and is started again.           *)

(* What the crash of s leaves of a connection: its ends in s are gone,     *)
(* what was sent before can still be read by the other end.                *)
AfterCrash(c, s) ==
  LET open == c.open /\ c.from # s
      dead == c.to = s \/ c.eng = "dead"
  IN IF c.eng = "free" \/ (dead /\ ~open) THEN FreeConn
     ELSE IF dead THEN [FreeConn EXCEPT !.from = c.from, !.to = c.to, !.open = TRUE,
                                        !.ack = c.ack, !.eng = "dead"]
     ELSE [c EXCEPT !.open = open, !.ack = @ /\ open]

(* All of the server's state is in memory; Init of the new process sets it *)
(* as at the start.  Its clients see the connection end: the orders they   *)
(* have left all fail and the client threads end.                          *)
Die(s) ==
  /\ up' = [up EXCEPT ![s] = FALSE]
  /\ primary_id' = [primary_id EXCEPT ![s] = NoOne]
  /\ committed_index' = [committed_index EXCEPT ![s] = -1]
  /\ last_index' = [last_index EXCEPT ![s] = -1]
  /\ log' = [log EXCEPT ![s] = << >>]
  /\ customer_record' = [customer_record EXCEPT ![s] = [x \in CustomerId |-> -1]]
  /\ inbox' = [inbox EXCEPT ![s] = {}]
  /\ erq' = [erq EXCEPT ![s] = << >>]
  /\ stubs' = [stubs EXCEPT ![s] = << >>]
  /\ apc' = [apc EXCEPT ![s] = "idle"]
  /\ cur' = [cur EXCEPT ![s] = NoOrder]
  /\ bump' = [bump EXCEPT ![s] = -1]
  /\ msg' = [msg EXCEPT ![s] = NoMsg]
  /\ it' = [it EXCEPT ![s] = 1]
  /\ todo' = [todo EXCEPT ![s] = << >>]
  /\ conn' = [k \in ConnId |-> AfterCrash(conn[k], s)]
  /\ cpc' = [c \in Customer |-> IF csrv[c] = s THEN "off" ELSE cpc[c]]
  /\ crashes' = [crashes EXCEPT ![s] = @ + 1]
  /\ UNCHANGED <<csrv, cnum, sess, acked, abandoned>>

Crash(s) ==
  /\ up[s]
  /\ crashes[s] < MaxCrashes[s]
  /\ Die(s)

(* A peer died between the connect and SendIdentification, which was then  *)
(* sent to a closed socket and answered by a reset.  The next send on that *)
(* connection, the request's, raises SIGPIPE: send is called without       *)
(* MSG_NOSIGNAL and nothing handles the signal, so the sender dies too.    *)
BrokenPipe(s) ==
  /\ apc[s] = "visit"
  /\ LET b == stubs[s][it[s]] IN b.valid /\ conn[b.conn].eng = "dead" /\ conn[b.conn].ident
  /\ Die(s)

Restart(s) ==
  /\ ~up[s]
  /\ up' = [up EXCEPT ![s] = TRUE]
  /\ UNCHANGED <<primary_id, committed_index, last_index, log, customer_record, inbox, erq, stubs,
                 adminVars, conn, clientVars, acked, abandoned, crashes>>
-----------------------------------------------------------------------------
(* A client thread and the engineer threads of its connections.            *)
Client(c) ==
  \/ \E s \in Server : StartSession(c, s)
  \/ SendOrder(c)
  \/ \E s \in Server : CreateRegularLaptop(s, c)
  \/ SendLaptop(c)
  \/ ClientGone(c)

ProductionAdminThread(s) ==
  \/ AdminDequeue(s)
  \/ ReadCommitted(s)
  \/ ClaimPrimary(s)
  \/ ConnectPeer(s)
  \/ IdentifyPeer(s)
  \/ ReadIndex(s)
  \/ BuildRequest(s)
  \/ ReplicateTo(s)
  \/ ReplicationAcked(s)
  \/ ReplicationFailed(s)
  \/ AdminPlaceOrder(s)
  \/ CommitOrder(s)
  \/ BrokenPipe(s)

EngineerThread(k) ==
  \/ ReceiveStatusInfo(k)
  \/ StatusLost(k)
  \/ ReceiveReplicationRequest(k)
  \/ StoreCommittedIndex(k)
  \/ StoreLastIndex(k)
  \/ EngineerPlaceOrder(k)
  \/ SendReplicationResult(k)
  \/ PeerHangup(k)

Next ==
  \/ \E c \in Customer : Client(c)
  \/ \E s \in Server : ProductionAdminThread(s)
  \/ \E k \in ConnId : EngineerThread(k)
  \/ \E s \in Server : Crash(s)
  \/ \E s \in Server : Restart(s)

Spec == Init /\ [][Next]_vars

(* The operating system runs every thread that can run and delivers what   *)
(* was sent; a client that got its laptop sends its next order.  Nobody    *)
(* has to start a client, crash a server or restart one.                   *)
FairSpec ==
  /\ Spec
  /\ \A c \in Customer : WF_vars(SendOrder(c)) /\ WF_vars(SendLaptop(c))
  /\ \A s \in Server, c \in Customer : WF_vars(CreateRegularLaptop(s, c))
  /\ \A s \in Server : WF_vars(ProductionAdminThread(s))
  /\ \A k \in ConnId : WF_vars(EngineerThread(k))
-----------------------------------------------------------------------------
(* Properties.                                                             *)

ServerTypeOK ==
  /\ up \in [Server -> BOOLEAN]
  /\ primary_id \in [Server -> Server \cup {NoOne}]
  /\ committed_index \in [Server -> Int]
  /\ last_index \in [Server -> Int]
  /\ log \in [Server -> Seq(Order)]
  /\ customer_record \in [Server -> [CustomerId -> Int]]
  /\ inbox \in [Server -> SUBSET Order]
  /\ erq \in [Server -> Seq(Order)]
  /\ stubs \in [Server -> Seq(Stub)]

AdminTypeOK ==
  /\ apc \in [Server -> AdminPC]
  /\ cur \in [Server -> Order \cup {NoOrder}]
  /\ bump \in [Server -> Int]
  /\ msg \in [Server -> Request]
  /\ it \in [Server -> Nat \ {0}]
  /\ todo \in [Server -> Seq(Request)]

ClientTypeOK ==
  /\ csrv \in [Customer -> Server \cup {NoOne}]
  /\ cpc \in [Customer -> ClientPC]
  /\ cnum \in [Customer -> Nat]
  /\ sess \in [Customer -> Nat]

PositionsOK ==
  \A s \in Server :
    /\ apc[s] \in {"connect", "identify"} => it[s] <= Len(PeerList[s])
    /\ apc[s] \in {"visit", "await"} => it[s] <= Len(stubs[s])

(* Types, and the loop positions of startConnection and startReplication   *)
(* stay inside peer_list and stubs.                                        *)
TypeOK ==
  /\ ServerTypeOK
  /\ AdminTypeOK
  /\ conn \in [ConnId -> Conn]
  /\ ClientTypeOK
  /\ acked \subseteq [ord : Order, by : Server, at : SUBSET Server]
  /\ abandoned \subseteq Order
  /\ crashes \in [Server -> Nat]
  /\ PositionsOK

Holds(s, o) == \E j \in 1..Len(log[s]) : log[s][j] = o

Durable(p, o) == crashes[p] = 0 => Holds(p, o)
Everywhere(s, o) == \A p \in {s} \cup Reached(s) : Durable(p, o)

(* An order whose laptop reached the client is in the log of the server    *)
(* that took it and of every peer that the server's stubs reach, except    *)
(* for servers that have crashed since the start, however connections,     *)
(* takeovers and crashes interleave.  A peer that they do not reach has    *)
(* crashed, unless a socket() or connect() of the server itself failed:    *)
(* then the peer, which runs, is skipped and the order acknowledged        *)
(* without it.                                                             *)
AckedDurable ==
  \A a \in acked :
    /\ \A p \in a.at : Durable(p, a.ord)
    /\ a.by \notin Flaky => \A p \in Peers(a.by) \ a.at : crashes[p] > 0

NoCrash == \A s \in Server : crashes[s] = 0

(* No server has crashed and no socket() or connect() of one has failed.   *)
NoFault ==
  /\ NoCrash
  /\ \A s \in Server : \A i \in 1..Len(stubs[s]) : stubs[s][i].valid /\ stubs[s][i].init

(* Client c has not died, and no other client uses its id.                 *)
Alone(c) == \A d \in Customer : IdOf[d] = IdOf[c] => d = c
Steady(c) == Alone(c) /\ \A o \in abandoned : o.cust # c

(* number of the latest order of c that was acknowledged, -1 for none      *)
LastAcked(c) ==
  IF cnum[c] > 0 THEN cnum[c] - 1 ELSE IF sess[c] > 1 THEN NumOrders - 1 ELSE -1

(* Without faults of the servers, the record any server returns for a      *)
(* customer whose only client has not died either is the last acknowledged *)
(* order or the one being placed: no server lags behind what the client    *)
(* has been told, and copies of an order sent twice never overwrite a      *)
(* later one, also when the client moves to another server.                *)
RecordFollowsAcks ==
  NoFault => \A s \in Server, c \in Customer :
    Steady(c) => \/ customer_record[s][IdOf[c]] = LastAcked(c)
                 \/ cpc[c] \in {"wait", "promised"} /\ customer_record[s][IdOf[c]] = cnum[c]

Service == INSTANCE OrderService WITH
  Number <- 0..NumOrders - 1,
  record <- [s \in Server |-> [c \in Customer |-> customer_record[s][IdOf[c]]]],
  asked <- [c \in Customer |-> IF cpc[c] \in {"wait", "promised"} THEN cnum[c] ELSE -1],
  told <- [c \in Customer |-> LastAcked(c)]

(* When all servers are each other's peers, none of them crashes or fails  *)
(* to connect, every client has an id of its own and lives until it has    *)
(* its answers, takeovers, duplicated stubs and deliveries cannot be told  *)
(* from one replicated record: no record changes but to the order on its   *)
(* way, none ever goes back, and a customer is told only when every server *)
(* has its order.                                                          *)
ImplementsOrderService == Service!Spec

Claiming == {"connect", "identify", "index", "build", "visit", "await"}

(* Without crashes and failed connects, two servers can both hold          *)
(* primary_id = factory_id only while one of them is still on its way from *)
(* startConnection through startReplication: whoever claims last tells the *)
(* others before it answers a client.                                      *)
AtMostOneSettledPrimary ==
  NoFault => \A s, t \in Server :
    primary_id[s] = s /\ primary_id[t] = t /\ s # t => apc[s] \in Claiming \/ apc[t] \in Claiming

Connected(s) == \A p \in Peers(s) : \E i \in 1..Len(stubs[s]) : stubs[s][i].peer = p

(* A server that skips startConnection because it is the primary has a     *)
(* stub for every peer, connected or not: primary_id = factory_id is never *)
(* left behind by a takeover that did not build the stubs.                 *)
PrimaryConnected ==
  \A s \in Server : primary_id[s] = s /\ apc[s] \notin {"connect", "identify"} => Connected(s)

OnlyPrimary(s) == NoFault /\ \A t \in Server \ {s} : stubs[t] = << >> /\ apc[t] = "idle"

(* As long as only one server has ever been primary, none has crashed and  *)
(* it has reached all its peers, the log of every peer is the primary's    *)
(* log, at most the order being placed ahead of it.                        *)
BackupsFollowPrimary ==
  \A s \in Server : OnlyPrimary(s) => \A p \in Peers(s) :
    log[p] = log[s] \/ log[p] = Append(log[s], cur[s])

Copies(s, o) == {j \in 1..Len(log[s]) : log[s][j] = o}
StubsTo(s, p) == {i \in 1..Len(stubs[s]) : stubs[s][i].peer = p}

(* Without crashes and failed connects, an acknowledged order is in its    *)
(* primary's log exactly once, and in a peer's log at most once per stub   *)
(* the primary has for that peer.  stubs grows with every takeover and is  *)
(* never cleared, so this bound, not one copy, is what the code gives.     *)
CopiesBoundedByStubs ==
  NoFault => \A a \in acked :
    /\ Cardinality(Copies(a.by, a.ord)) = 1
    /\ \A p \in Peers(a.by) : Cardinality(Copies(p, a.ord)) <= Cardinality(StubsTo(a.by, p))

(* A peer that was not reached once is never brought up to date:           *)
(* startReplication reconnects its stub, but Init leaves valid FALSE, so   *)
(* no identification is sent on that connection, the peer's engineer       *)
(* thread waits for one, and the code that replays the log is never        *)
(* reached.                                                                *)
RejoinedPeerNotCaughtUp ==
  \A s \in Server :
    /\ todo[s] = << >>
    /\ \A i \in 1..Len(stubs[s]) :
         LET b == stubs[s][i] IN
         ~b.valid /\ b.init => conn[b.conn].eng \in {"status", "dead"} /\ ~conn[b.conn].ident

Older(o, p) == o.cust = p.cust /\ (o.sess < p.sess \/ (o.sess = p.sess /\ o.num < p.num))

(* A log gets an order behind a newer one of the same client (and the      *)
(* record goes back to the older number) only when an engineer thread      *)
(* still works on the request of a server that has died, or when the       *)
(* client died itself before it had the answer: no other client can send   *)
(* its next order while a server is at work on the one before.             *)
OnlyTheDeadOverwriteNewer ==
  [][\A s \in Server :
       LET n == Len(log'[s]) IN
       n > Len(log[s]) /\ (\E j \in 1..n - 1 : Older(log'[s][n], log'[s][j])) =>
         \/ log'[s][n] \in abandoned
         \/ \E k \in ConnId : /\ conn[k].to = s /\ conn[k].eng = "place" /\ ~conn[k].open
                              /\ conn'[k].eng = "reply"]_vars

(* Every order a client sent is answered, or its server crashes or it dies *)
(* itself: primaries that replicate to each other at the same time do not  *)
(* block each other, and a dead peer does not stop the loop over the       *)
(* stubs.                                                                  *)
OrderAnswered == \A c \in Customer : cpc[c] = "wait" ~> cpc[c] # "wait"

AtRest(t) == apc[t] = "idle" /\ \A k \in ConnId : conn[k].from = t => conn[k].eng = "recv" /\ ~conn[k].sent

(* startConnection "handle[s] the subtle index change based on the change  *)
(* of primary node": a server that takes over from a primary at rest has   *)
(* the committed_index the old primary had.                                *)
TakeoverAlignsCommittedIndex ==
  \A s, t \in Server :
    s # t /\ apc[s] = "connect" /\ it[s] = 1 /\ stubs[s] = << >> /\ primary_id[t] = t /\ AtRest(t)
      => committed_index[s] = committed_index[t]
=============================================================================
