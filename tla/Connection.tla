----------------------------- MODULE Connection -----------------------------
(***************************************************************************)
(* One TCP connection from a ClientStub to the ServerStub of an engineer   *)
(* thread, byte by byte: Socket.cpp, ClientStub.cpp, ServerStub.cpp, the   *)
(* loop of EngineerThread and those of the callers.                        *)
(*                                                                         *)
(* The caller is a client thread of laptop type 1, 2 or 3, or the admin    *)
(* thread of a primary.  send and recv move any number of bytes from one   *)
(* up to what is asked; either process may die at any moment.              *)
(***************************************************************************)
EXTENDS Messages

CONSTANTS
  Kinds,        \* kinds of callers: "orders", "read", "reads" or "primary"
  Machines,     \* pairs of byte orders of caller and engineer
  NumRequests   \* bound: orders, reads or replication requests of the caller

Side == {"caller", "engineer"}

ASSUME ConnectionAssumption ==
  /\ Kinds \subseteq {"orders", "read", "reads", "primary"}
  /\ Machines \subseteq [Side -> ByteOrder]
  /\ NumRequests \in Nat \ {0}

VARIABLES
  kind,      \* who the caller is
  machine,   \* byte order of each side
  sock,      \* Socket of each side: fd_ is open, is_initialized_, valid
  io,        \* what the side's Socket is doing: call "send" or "recv",
             \* afterwards "ok" or "failed"; its buffer; the size still to do
  pc,        \* where the thread of each side is
  n,         \* requests the caller has made
  got,       \* the caller's last request and what its call returned
  status,    \* EngineerThread: status, an int on the engineer's machine
  job,       \* EngineerThread: order or req
  wire,      \* bytes sent by each side and not received yet
  reset,     \* the other side has answered a send with a reset
  lost,      \* the engineer's descriptor is open, and no Socket knows it
  (* History, read by no action. *)
  flight,    \* messages completely sent by each side, not completely received
  last       \* the last message each side has received

threads == <<pc, n, got, status, job>>
vars == <<kind, machine, sock, io, threads, wire, reset, lost, flight, last>>

Other(s) == IF s = "caller" THEN "engineer" ELSE "caller"

NoObject == << >>
Idle == [call |-> "ok", buffer |-> << >>, size |-> 0]

Init ==
  /\ kind \in Kinds
  /\ machine \in Machines
  /\ sock = [s \in Side |-> [open |-> FALSE, is_initialized |-> FALSE, valid |-> TRUE]]
  /\ io = [s \in Side |-> Idle]
  /\ pc = [s \in Side |-> IF s = "caller" THEN "init" ELSE "accept"]
  /\ n = 0
  /\ got = [asked |-> NoObject, answer |-> NoObject]
  /\ status = WordOf(0)
  /\ job = NoObject
  /\ wire = [s \in Side |-> << >>]
  /\ reset = [s \in Side |-> FALSE]
  /\ lost = FALSE
  /\ flight = [s \in Side |-> << >>]
  /\ last = [s \in Side |-> << >>]
-----------------------------------------------------------------------------
(* Socket::Send and Socket::Recv.                                          *)

Sending(bytes) == [call |-> "send", buffer |-> bytes, size |-> Len(bytes)]
Receiving(size) == [call |-> "recv", buffer |-> << >>, size |-> size]

(* The next k bytes send is given: it starts at offset, which has kept     *)
(* step with size.  And a slip that always starts at the buffer's begin.   *)
Chunk_NoOffset(b, k) == SubSeq(b.buffer, 1, k)
Chunk(b, k) ==
  LET offset == Len(b.buffer) - b.size IN SubSeq(b.buffer, offset + 1, offset + k)

(* The loop of Recv ends when this is 0.                                   *)
Left(size, k) == size - k

(* One send that takes k bytes.  The socket of an ended side gets them and *)
(* answers with a reset, sooner or later; a lost descriptor gets them for  *)
(* nobody to read.                                                         *)
SendSome(s, k) ==
  /\ io[s].call = "send" /\ k <= io[s].size
  /\ sock[s].open /\ ~reset[s]
  /\ io' = [io EXCEPT ![s].size = @ - k, ![s].call = IF k = io[s].size THEN "ok" ELSE @]
  /\ IF sock[Other(s)].open
     THEN /\ wire' = [wire EXCEPT ![s] = @ \o Chunk(io[s], k)]
          /\ flight' = IF k = io[s].size THEN [flight EXCEPT ![s] = Append(@, io[s].buffer)] ELSE flight
          /\ UNCHANGED reset
     ELSE /\ \E r \in IF lost THEN {FALSE} ELSE BOOLEAN : reset' = [reset EXCEPT ![s] = r]
          /\ UNCHANGED <<wire, flight>>
  /\ UNCHANGED <<kind, machine, sock, threads, lost, last>>

(* One recv that returns k bytes.                                          *)
RecvSome(s, k) ==
  /\ io[s].call = "recv" /\ k <= io[s].size
  /\ sock[s].open
  /\ k <= Len(wire[Other(s)])
  /\ LET bytes == io[s].buffer \o SubSeq(wire[Other(s)], 1, k)
         left == Left(io[s].size, k)
     IN /\ io' = [io EXCEPT ![s] = [call |-> IF left = 0 THEN "ok" ELSE "recv", buffer |-> bytes, size |-> left]]
        /\ wire' = [wire EXCEPT ![Other(s)] = SubSeq(@, k + 1, Len(@))]
        /\ IF left = 0
           THEN /\ last' = [last EXCEPT ![s] = bytes]
                /\ flight' = [flight EXCEPT ![Other(s)] = IF @ = << >> THEN @ ELSE Tail(@)]
           ELSE UNCHANGED <<last, flight>>
  /\ UNCHANGED <<kind, machine, sock, threads, reset, lost>>

(* Socket::Close and the end of a process, as the other side sees it: what *)
(* it has sent can still be read, what was sent to it is lost and, if it   *)
(* had not been read, answered by a reset.                                 *)
Shutdown(s) ==
  /\ wire' = [wire EXCEPT ![Other(s)] = << >>]
  /\ reset' = [reset EXCEPT ![Other(s)] = @ \/ (sock[s].open /\ wire[Other(s)] # << >>)]
  /\ flight' = [flight EXCEPT ![Other(s)] = << >>]

(* Socket::Close.                                                          *)
Closed(b) == [b EXCEPT !.open = FALSE, !.is_initialized = FALSE]

(* send or recv returns an error, or recv returns 0 because the other side *)
(* has ended: valid = false, Close(), return 0.  fd_ is -1 after a Close.  *)
Fails(s) ==
  /\ sock' = [sock EXCEPT ![s] = [Closed(@) EXCEPT !.valid = FALSE]]
  /\ io' = [io EXCEPT ![s] = [Idle EXCEPT !.call = "failed"]]
  /\ Shutdown(s)
  /\ UNCHANGED <<kind, machine, threads, lost, last>>

SendFails(s) ==
  /\ io[s].call = "send"
  /\ ~sock[s].open \/ reset[s]
  /\ Fails(s)

(* A Recv that does not take 0 for the end of the connection.              *)
RecvFails_NotAtEnd(s) ==
  /\ io[s].call = "recv"
  /\ ~sock[s].open \/ reset[s]
  /\ Fails(s)

RecvFails(s) ==
  /\ io[s].call = "recv"
  /\ \/ ~sock[s].open
     \/ reset[s]
     \/ ~sock[Other(s)].open /\ ~lost /\ wire[Other(s)] = << >>
  /\ Fails(s)

(* A thread ends, and its stub's destructor closes the socket; or its      *)
(* process does, which closes all it has open.                             *)
Ends(s) ==
  /\ sock' = [sock EXCEPT ![s] = Closed(@)]
  /\ io' = [io EXCEPT ![s] = Idle]
  /\ pc' = [pc EXCEPT ![s] = "done"]
  /\ Shutdown(s)
  /\ UNCHANGED <<kind, machine, n, got, status, job, lost, last>>

(* send after a reset raises SIGPIPE, which nothing handles.               *)
BrokenPipe(s) ==
  /\ io[s].call = "send"
  /\ reset[s]
  /\ Ends(s)

Die(s) ==
  /\ pc[s] \notin {"init", "accept", "done"}
  /\ s = "engineer" => ~lost
  /\ Ends(s)

(* The process of an engineer thread that has lost its descriptor, and may *)
(* have returned, dies.  Only now the connection ends; bytes that nobody   *)
(* has read are answered by a reset.                                       *)
DieAfterLoss ==
  /\ lost
  /\ lost' = FALSE
  /\ \E r \in BOOLEAN : reset' = [reset EXCEPT !["caller"] = r]
  /\ sock' = [sock EXCEPT !["engineer"] = Closed(@)]
  /\ io' = [io EXCEPT !["engineer"] = Idle]
  /\ pc' = [pc EXCEPT !["engineer"] = "done"]
  /\ UNCHANGED <<kind, machine, n, got, status, job, wire, flight, last>>
-----------------------------------------------------------------------------
(* The caller: ThreadBody over the calls of ClientStub, or startConnection *)
(* and startReplication.                                                   *)

(* The type sent by SendIdentification: 1 for a client, 2 for a server.    *)
(* And a slip that counts from 0.                                          *)
Announced_FromZero == IF kind = "primary" THEN 1 ELSE 0
Announced == IF kind = "primary" THEN 2 ELSE 1

(* A NagleOn that does not clear valid when setsockopt fails.              *)
Accepted_KeepsValid(fails) == [open |-> ~fails, is_initialized |-> TRUE, valid |-> TRUE]

(* The Socket of an engineer thread after the constructor of ServerSocket, *)
(* which calls NagleOn.  When setsockopt fails, fd_ is -1 and the          *)
(* descriptor stays open without a Socket; is_initialized stays.           *)
Accepted(fails) == [open |-> ~fails, is_initialized |-> TRUE, valid |-> ~fails]

SendsStatus == Sending(StatusBytes(machine["caller"], WordOf(Announced)))

(* stub.Init.  connect succeeds when the server runs: its main accepts and *)
(* starts an engineer thread, which waits for the status.  Identification  *)
(* is the first thing sent.                                                *)
Connect ==
  /\ pc["caller"] = "init"
  /\ \E fails \in BOOLEAN :
       /\ sock' = [s \in Side |-> Accepted(s = "engineer" /\ fails)]
       /\ lost' = fails
  /\ pc' = [s \in Side |-> IF s = "caller" THEN "identify" ELSE "status"]
  /\ io' = [s \in Side |-> IF s = "caller" THEN SendsStatus ELSE Receiving(Width)]
  /\ UNCHANGED <<kind, machine, n, got, status, job, wire, reset, flight, last>>

(* connect fails: a client thread returns, a primary leaves out the        *)
(* identification.  The descriptor stays open.                             *)
ConnectFails ==
  /\ pc["caller"] = "init"
  /\ sock' = [sock EXCEPT !["caller"].open = TRUE, !["caller"].valid = FALSE]
  /\ pc' = [pc EXCEPT !["caller"] = "done"]
  /\ UNCHANGED <<kind, machine, io, n, got, status, job, wire, reset, lost, flight, last>>

(* socket fails: a client thread returns.  The stub is still valid, so a   *)
(* primary sends its identification, on descriptor -1.                     *)
SocketFails ==
  /\ pc["caller"] = "init"
  /\ IF kind = "primary"
     THEN /\ pc' = [pc EXCEPT !["caller"] = "identify"]
          /\ io' = [io EXCEPT !["caller"] = SendsStatus]
     ELSE /\ pc' = [pc EXCEPT !["caller"] = "done"]
          /\ UNCHANGED io
  /\ UNCHANGED <<kind, machine, sock, n, got, status, job, wire, reset, lost, flight, last>>

(* SendIdentification returns nothing: the caller goes on either way.      *)
Identified ==
  /\ pc["caller"] = "identify"
  /\ io["caller"].call \in {"ok", "failed"}
  /\ pc' = [pc EXCEPT !["caller"] = "next"]
  /\ UNCHANGED <<kind, machine, sock, io, n, got, status, job, wire, reset, lost, flight, last>>

(* The caller's request number i: orders of customer 5, a read of customer *)
(* 5, reads of the customers 0, 1, ...; replications by factory 3.         *)
Request(k, i) ==
  CASE k = "orders"  -> SetOrder(5, i, 1)
    [] k = "read"    -> SetOrder(5, -1, 2)
    [] k = "reads"   -> SetOrder(i, -1, 3)
    [] k = "primary" -> MakeReplicationRequest(3, i - 2, i - 1,
                          [opcode |-> WordOf(1), arg1 |-> WordOf(5), arg2 |-> WordOf(i)])

RequestClass(k) == IF k = "primary" THEN "ReplicationRequest" ELSE "LaptopOrder"

AnswerClass(k) ==
  CASE k = "orders" -> "LaptopInfo" [] k = "primary" -> "LaptopOrder" [] OTHER -> "CustomerRecord"

NewAnswer(k) ==
  CASE k = "orders" -> NewLaptopInfo [] k = "primary" -> NewLaptopOrder [] OTHER -> NewCustomerRecord

(* The loops: so many orders or reads, one read; a primary has no end, but *)
(* skips a stub that is not valid.                                         *)
Wanted == IF kind = "read" THEN 1 ELSE NumRequests

MayAsk == n < Wanted /\ (kind = "primary" => sock["caller"].valid)

(* Order, ReadRecord and startReplication: marshal and send ...            *)
Ask ==
  /\ pc["caller"] = "next" /\ MayAsk
  /\ pc' = [pc EXCEPT !["caller"] = "ask"]
  /\ io' = [io EXCEPT !["caller"] =
              Sending(Marshal(machine["caller"], RequestClass(kind), Request(kind, n)))]
  /\ UNCHANGED <<kind, machine, sock, n, got, status, job, wire, reset, lost, flight, last>>

(* ... receive if the send succeeded ...                                   *)
Await ==
  /\ pc["caller"] = "ask" /\ io["caller"].call = "ok"
  /\ pc' = [pc EXCEPT !["caller"] = "await"]
  /\ io' = [io EXCEPT !["caller"] = Receiving(Size(AnswerClass(kind)))]
  /\ UNCHANGED <<kind, machine, sock, n, got, status, job, wire, reset, lost, flight, last>>

(* ... and return what came, or the object as it was constructed.  After   *)
(* that the loop of type 3 stops at an invalid record, the others go on.   *)
CallReturns ==
  /\ \/ pc["caller"] = "await" /\ io["caller"].call \in {"ok", "failed"}
     \/ pc["caller"] = "ask" /\ io["caller"].call = "failed"
  /\ LET answer == IF io["caller"].call = "failed" THEN NewAnswer(kind)
                   ELSE Unmarshal(machine["caller"], AnswerClass(kind), io["caller"].buffer)
     IN /\ got' = [asked |-> Request(kind, n), answer |-> answer]
        /\ pc' = [pc EXCEPT !["caller"] = IF kind = "reads" /\ ~IsValid(answer) THEN "end" ELSE "next"]
  /\ n' = n + 1
  /\ UNCHANGED <<kind, machine, sock, io, status, job, wire, reset, lost, flight, last>>

(* The client thread ends and its stub's destructor closes the socket.     *)
ClientEnds ==
  /\ kind # "primary"
  /\ pc["caller"] = "end" \/ (pc["caller"] = "next" /\ ~MayAsk)
  /\ Ends("caller")
-----------------------------------------------------------------------------
(* EngineerThread over the calls of ServerStub.                            *)

Garbage == WordOf(77)    \* an uninitialized int that is neither 1 nor 2

(* The head of while (true): receive what the status says, or, for any     *)
(* other status, go round without doing anything.                          *)
Loop(st) ==
  /\ pc' = [pc EXCEPT !["engineer"] = IF st \in {WordOf(1), WordOf(2)} THEN "receive" ELSE "spin"]
  /\ io' = [io EXCEPT !["engineer"] =
              IF st = WordOf(2) THEN Receiving(Size("ReplicationRequest"))
              ELSE IF st = WordOf(1) THEN Receiving(Size("LaptopOrder")) ELSE Idle]

(* ReceiveStatusInfo returns the int, or an uninitialized one.             *)
ReceiveStatusInfo ==
  /\ pc["engineer"] = "status"
  /\ io["engineer"].call \in {"ok", "failed"}
  /\ status' \in IF io["engineer"].call = "ok"
                 THEN {StatusOf(machine["engineer"], io["engineer"].buffer)}
                 ELSE {WordOf(1), WordOf(2), Garbage}
  /\ Loop(status')
  /\ UNCHANGED <<kind, machine, sock, n, got, job, wire, reset, lost, flight, last>>

(* What ReceiveReplicationRequest or ReceiveOrderRequest returns, and the  *)
(* test that follows it; a slip makes the test for one of them only.       *)
Received ==
  IF io["engineer"].call = "failed" THEN NewLaptopOrder
  ELSE Unmarshal(machine["engineer"],
                 IF status = WordOf(2) THEN "ReplicationRequest" ELSE "LaptopOrder",
                 io["engineer"].buffer)

Stops_ServersOnly == status = WordOf(2) /\ ~sock["engineer"].valid
Stops == IF status = WordOf(2) THEN ~sock["engineer"].valid ELSE ~IsValid(Received)

ReceiveRequest ==
  /\ pc["engineer"] = "receive"
  /\ io["engineer"].call \in {"ok", "failed"}
  /\ ~Stops
  /\ job' = Received
  /\ pc' = [pc EXCEPT !["engineer"] = "serve"]
  /\ UNCHANGED <<kind, machine, sock, io, n, got, status, wire, reset, lost, flight, last>>

(* EngineerThread returns and its stub's destructor closes the socket.     *)
EngineerReturns ==
  /\ pc["engineer"] = "receive"
  /\ io["engineer"].call \in {"ok", "failed"}
  /\ Stops
  /\ Ends("engineer")

(* The order is done: a laptop, a record with some last order, or the      *)
(* order number as it was replicated.  Any other laptop_type is not        *)
(* answered.                                                               *)
Answers(lastOrder) ==
  LET me == machine["engineer"] IN
  IF status = WordOf(2)
  THEN Marshal(me, "LaptopOrder",
               [customer_id |-> job.arg1, order_number |-> job.arg2, laptop_type |-> WordOf(4)])
  ELSE IF job.laptop_type = WordOf(1)
  THEN Marshal(me, "LaptopInfo", CopyOrder(job, 0, 1))
  ELSE IF job.laptop_type \in {WordOf(2), WordOf(3)}
  THEN Marshal(me, "CustomerRecord",
               [customer_id |-> job.customer_id, last_order |-> WordOf(lastOrder)])
  ELSE << >>

Serve ==
  /\ pc["engineer"] = "serve"
  /\ \E lastOrder \in {-1, 0} :
       IF Answers(lastOrder) = << >> THEN Loop(status)
       ELSE /\ pc' = [pc EXCEPT !["engineer"] = "reply"]
            /\ io' = [io EXCEPT !["engineer"] = Sending(Answers(lastOrder))]
  /\ UNCHANGED <<kind, machine, sock, n, got, status, job, wire, reset, lost, flight, last>>

(* Whether SendLaptop, ReturnRecord or SendReplicationResult succeeded is  *)
(* not looked at.                                                          *)
Replied ==
  /\ pc["engineer"] = "reply"
  /\ io["engineer"].call \in {"ok", "failed"}
  /\ Loop(status)
  /\ UNCHANGED <<kind, machine, sock, n, got, status, job, wire, reset, lost, flight, last>>
-----------------------------------------------------------------------------
Bytes == 1..Size("ReplicationRequest")

Socket(s) ==
  \/ \E k \in Bytes : SendSome(s, k)
  \/ \E k \in Bytes : RecvSome(s, k)
  \/ SendFails(s)
  \/ RecvFails(s)
  \/ BrokenPipe(s)

Caller == Connect \/ ConnectFails \/ SocketFails \/ Identified \/ Ask \/ Await \/ CallReturns \/ ClientEnds
EngineerThread == ReceiveStatusInfo \/ ReceiveRequest \/ EngineerReturns \/ Serve \/ Replied

Next ==
  \/ \E s \in Side : Socket(s)
  \/ Caller
  \/ EngineerThread
  \/ \E s \in Side : Die(s)
  \/ DieAfterLoss

Spec == Init /\ [][Next]_vars

(* Threads that can run do, and TCP moves what was sent.  The order of an  *)
(* engineer thread is done some time: OrderAnswered of LaptopFactory.      *)
(* Nobody has to connect, to ask or to die.                                *)
FairSpec ==
  /\ Spec
  /\ \A s \in Side : WF_vars(Socket(s))
  /\ WF_vars(Identified \/ Await \/ CallReturns)
  /\ WF_vars(EngineerThread)
-----------------------------------------------------------------------------
(* Properties.                                                             *)

(* The char arrays of the stubs.                                           *)
Capacity(s) ==
  IF s = "engineer" THEN 32
  ELSE IF pc[s] = "identify" THEN 256 ELSE IF kind = "primary" THEN 128 ELSE 32

(* Types; no read or write of a buffer goes past its end; and the three    *)
(* members of a Socket agree, but for the failures that leave them in      *)
(* disagreement: an initialized socket is open and valid, unless           *)
(* setsockopt failed when it was accepted; only a failed connect leaves a  *)
(* descriptor without initialization; and the socket of a thread at work   *)
(* is open if it is valid, unless socket failed, which only a primary      *)
(* notices, and no later than when it has sent its identification.         *)
TypeOK ==
  /\ kind \in Kinds /\ machine \in Machines
  /\ n \in 0..NumRequests
  /\ status \in Word
  /\ \A s \in Side :
       /\ wire[s] \in Seq(Byte)
       /\ reset[s] \in BOOLEAN /\ lost \in BOOLEAN
       /\ io[s].call \in {"send", "recv", "ok", "failed"}
       /\ io[s].buffer \in Seq(Byte)
       /\ io[s].size >= 0
       /\ Len(io[s].buffer) + (IF io[s].call = "recv" THEN io[s].size ELSE 0) <= Capacity(s)
       /\ sock[s].is_initialized => (sock[s].open /\ sock[s].valid) \/ (s = "engineer" /\ lost)
       /\ sock[s].open /\ ~sock[s].is_initialized => s = "caller" /\ n = 0 /\ ~sock[s].valid
       /\ sock[s].valid /\ pc[s] \notin {"init", "accept", "done"} =>
            sock[s].open \/ (kind = "primary" /\ pc[s] = "identify" /\ ~sock[s].is_initialized)

(* What an engineer thread acts on is a request its caller has sent, and   *)
(* the thread is in the role the caller announced: no order is placed      *)
(* after a lost identification or for a request of which only a part came. *)
ServedAsMeant ==
  pc["engineer"] \in {"serve", "reply"} =>
    /\ status = WordOf(Announced)
    /\ \E i \in 0..n : job = Request(kind, i)

(* An engineer thread goes round in its loop without end only if no        *)
(* identification can come any more, if its machine has the other byte     *)
(* order than the caller's, or if it has lost the connection's descriptor  *)
(* because setsockopt failed.                                              *)
SpinsOnlyUnidentified ==
  pc["engineer"] = "spin" => ~sock["caller"].open \/ machine["caller"] # machine["engineer"] \/ lost

(* The identification is sent in the byte order of the caller's machine,   *)
(* so between machines that differ nothing is ever served, although every  *)
(* other message would be understood (RoundTrip).                          *)
ForeignNeverServed ==
  machine["caller"] # machine["engineer"] =>
    /\ pc["engineer"] \notin {"serve", "reply"}
    /\ got.answer = NoObject \/ got.answer = NewAnswer(kind)

(* The answer a call returns is the answer to the request it sent, or is   *)
(* not valid: the customer, and the number of the order, are its own.      *)
AnswerIsForRequest ==
  LET a == got.answer  r == got.asked IN
  a # NoObject /\ IsValid(a) =>
    CASE kind = "orders"  -> a.customer_id = r.customer_id /\ a.order_number = r.order_number
      [] kind = "primary" -> a.customer_id = r.arg1 /\ a.order_number = r.arg2
      [] OTHER            -> a.customer_id = r.customer_id

Sockets == INSTANCE WholeMessages WITH
  Message <- Seq(Byte),
  NoMessage <- << >>,
  over <- [s \in Side |-> pc[s] # "init" /\ pc[s] # "accept" /\ ~sock[s].open]

(* Send and Recv move whole messages in order, although send and recv move *)
(* any part of them and either side may end in the middle of one: what a   *)
(* successful Recv has in its buffer is the oldest message that the other  *)
(* side's Send has finished.                                               *)
ImplementsWholeMessages == Sockets!Spec

(* Between machines of one byte order, every call of a stub returns as     *)
(* long as the threads of the other side run, also when the other process  *)
(* dies in the middle of it: Send and Recv have no timeout, but a          *)
(* connection that ends wakes them up.  (Otherwise it is never answered.)  *)
(* Who waits for an answer is not woken up when the other side has lost    *)
(* the descriptor: the engineer thread returns or goes round in its loop,  *)
(* and the connection stays open.                                          *)
CallsReturn ==
  machine["caller"] = machine["engineer"] =>
  \A p \in {"identify", "ask", "await"} :
    pc["caller"] = p ~> pc["caller"] # p \/ (p = "await" /\ lost)
=============================================================================
