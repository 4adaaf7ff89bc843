---------------------------- MODULE LaptopReads -----------------------------
(***************************************************************************)
(* LaptopFactory with the clients that read: laptop type 2 asks one server *)
(* for the record of one customer, type 3 for the records of all customers *)
(* in turn.  GetCustomerRecord answers from the server's own storage,      *)
(* without the admin thread and without asking whether the server is the   *)
(* primary or in the middle of a replication.                              *)
(***************************************************************************)
EXTENDS LaptopFactory

CONSTANTS
  Reader,     \* reading client threads
  ReadList,   \* the customer ids 0, 1, ... that type 3 goes through
  MaxReads    \* bound: runs of a reading client thread

ASSUME ReadsAssumption ==
  /\ ReadList \in Seq(CustomerId)
  /\ MaxReads \in Nat

VARIABLES
  reader,     \* what each reader does and its server
  runs,       \* how many times it has been run
  (* History, read by no action. *)
  regular,    \* order numbers that its read may return: see ReadsRegular
  known       \* a server that must have an order of the customer is asked

readVars == <<reader, runs, regular, known>>

(* at is "ready" to ask, "asked", or "answered" with the record; todo are  *)
(* the customers still to read, the one asked for first.                   *)
NoRecord == [customer_id |-> NoOne, last_order |-> -1]
Off == [at |-> "off", srv |-> NoOne, todo |-> << >>, record |-> NoRecord]

ReadsInit ==
  /\ Init
  /\ reader = [r \in Reader |-> Off]
  /\ runs = [r \in Reader |-> 0]
  /\ regular = [r \in Reader |-> {}]
  /\ known = [r \in Reader |-> FALSE]
-----------------------------------------------------------------------------
(* A client of type 2 or 3 starts, connects and identifies itself.         *)
StartReader(r, s, ids) ==
  /\ reader[r].at = "off"
  /\ runs[r] < MaxReads
  /\ up[s]
  /\ reader' = [reader EXCEPT ![r] = [Off EXCEPT !.at = "ready", !.srv = s, !.todo = ids]]
  /\ runs' = [runs EXCEPT ![r] = @ + 1]
  /\ UNCHANGED <<vars, regular, known>>

(* The clients with customer id x, and the numbers of their orders that    *)
(* are on their way.                                                       *)
Owners(x) == {c \in Customer : IdOf[c] = x}
Outgoing(x) == {cnum[c] : c \in {c \in Owners(x) : cpc[c] \in {"wait", "promised"}}}

MustKnow(s, x) ==
  crashes[s] = 0 /\ \E a \in acked : IdOf[a.ord.cust] = x /\ s \in a.at

(* ClientStub::ReadRecord sends the request.                               *)
ReadRecord(r) ==
  /\ reader[r].at = "ready"
  /\ reader[r].todo # << >>
  /\ reader' = [reader EXCEPT ![r].at = "asked"]
  /\ LET x == Head(reader[r].todo) IN
     /\ regular' = [regular EXCEPT ![r] = {LastAcked(c) : c \in Owners(x)} \cup Outgoing(x)]
     /\ known' = [known EXCEPT ![r] = MustKnow(reader[r].srv, x)]
  /\ UNCHANGED <<vars, runs>>

(* The engineer thread of the connection: read_record, and a record made   *)
(* of the customer id of the request and the answer.                       *)
GetCustomerRecord(r) ==
  /\ reader[r].at = "asked"
  /\ LET x == Head(reader[r].todo)
         record == [customer_id |-> x, last_order |-> customer_record[reader[r].srv][x]]
     IN reader' = [reader EXCEPT ![r].at = "answered", ![r].record = record]
  /\ UNCHANGED <<vars, runs, regular, known>>

(* The record arrives and is printed; the next one, or the end.            *)
RecordRead(r) ==
  /\ reader[r].at = "answered"
  /\ LET next == [reader[r] EXCEPT !.at = "ready", !.todo = Tail(reader[r].todo), !.record = NoRecord]
     IN reader' = [reader EXCEPT ![r] = IF Len(reader[r].todo) > 1 THEN next ELSE Off]
  /\ regular' = [regular EXCEPT ![r] = {}]
  /\ known' = [known EXCEPT ![r] = FALSE]
  /\ UNCHANGED <<vars, runs>>

ReadingClient(r) ==
  \/ \E s \in Server : \/ \E x \in CustomerId : StartReader(r, s, <<x>>)
                       \/ StartReader(r, s, ReadList)
  \/ ReadRecord(r)
  \/ GetCustomerRecord(r)
  \/ RecordRead(r)

(* A step of everything else.  When a server dies, the reads of its        *)
(* clients fail and the clients return, those of type 3 too.               *)
FactoryStep ==
  /\ Next
  /\ reader' = [r \in Reader |->
       IF reader[r].at # "off" /\ ~up'[reader[r].srv] THEN Off ELSE reader[r]]
  /\ regular' = [r \in Reader |->
       IF reader'[r].at = "asked" THEN regular[r] \cup Outgoing(Head(reader[r].todo))' ELSE
       IF reader'[r].at = "answered" THEN regular[r] ELSE {}]
  /\ known' = [r \in Reader |-> known[r] /\ reader'[r].at # "off"]
  /\ UNCHANGED runs

ReadsNext == FactoryStep \/ \E r \in Reader : ReadingClient(r)

ReadsSpec == ReadsInit /\ [][ReadsNext]_<<vars, readVars>>
-----------------------------------------------------------------------------
(* Properties.                                                             *)

(* Without faults of the servers, a read from any server returns the last  *)
(* order its customer had been told of when the read began, or one that    *)
(* was on its way during the read, if the customer's only client has not   *)
(* died: a backup does not lag behind an acknowledgement by another        *)
(* server.  (Two reads one after the other from different servers may see  *)
(* such an order and then not: a backup has it before the primary.)        *)
ReadsRegular ==
  NoFault => \A r \in Reader :
    reader[r].at = "answered" /\ (\A c \in Owners(reader[r].record.customer_id) : Steady(c)) =>
      reader[r].record.last_order \in regular[r]

(* Whatever crashes or fails to connect, a server that has not crashed     *)
(* itself knows every customer with an order acknowledged by it, or by a   *)
(* server whose stubs reached it then: a read that begins after the        *)
(* acknowledgement returns some order.                                     *)
AckedNeverUnknown ==
  \A r \in Reader :
    reader[r].at = "answered" /\ known[r] => reader[r].record.last_order # -1

(* CustomerRecord::customer_id is "copied from the read request, -1 if     *)
(* customer_id is not found in the map", and type 3 prints no record with  *)
(* customer_id -1.                                                         *)
UnknownCustomerIsMinusOne ==
  \A r \in Reader :
    reader[r].at = "answered" /\ reader[r].record.last_order = -1 =>
      reader[r].record.customer_id = NoOne
=============================================================================
