------------------------------ MODULE Messages ------------------------------
(***************************************************************************)
(* Messages.h and Messages.cpp: what an object looks like on the wire.     *)
(*                                                                         *)
(* An int is a word of four bytes, written here with the most significant  *)
(* byte first.  In memory a little-endian machine has them the other way   *)
(* round: memcpy moves memory, htonl and ntohl return the int whose memory *)
(* (respectively value) has the bytes of the argument's value              *)
(* (respectively memory).  An object is a function from its fields to      *)
(* words.                                                                  *)
(***************************************************************************)
EXTENDS Integers, Sequences, SequencesExt

Byte == 0..255
Width == 4                        \* sizeof(int)
Word == [1..Width -> Byte]

(* The word of an int, in two's complement.                                *)
WordOf(n) == [i \in 1..Width |-> (n \div 256^(Width - i)) % 256]

ByteOrder == {"little", "big"}

(* The memory of a word on a machine, and the word in a piece of memory.   *)
Memory(machine, word) == IF machine = "big" THEN word ELSE Reverse(word)
FromMemory(machine, bytes) == IF machine = "big" THEN bytes ELSE Reverse(bytes)

htonl(machine, word) == FromMemory(machine, word)
ntohl(machine, word) == Memory(machine, word)
-----------------------------------------------------------------------------
(* The members of each class.                                              *)

MapOp == {"opcode", "arg1", "arg2"}

LaptopOrder == {"customer_id", "order_number", "laptop_type"}
LaptopInfo == {"customer_id", "order_number", "laptop_type", "engineer_id", "admin_id"}
CustomerRecord == {"customer_id", "last_order"}
ReplicationRequest == {"vid", "factory_id", "committed_index", "last_index"} \cup MapOp

Class == {"LaptopOrder", "LaptopInfo", "CustomerRecord", "ReplicationRequest"}

Members(class) ==
  CASE class = "LaptopOrder"        -> LaptopOrder
    [] class = "LaptopInfo"         -> LaptopInfo
    [] class = "CustomerRecord"     -> CustomerRecord
    [] class = "ReplicationRequest" -> ReplicationRequest

Object(class) == [Members(class) -> Word]

(* What the default constructors make.  A ReplicationRequest stays         *)
(* uninitialized.                                                          *)
NewLaptopOrder == [f \in LaptopOrder |-> WordOf(-1)]
NewLaptopInfo == [f \in LaptopInfo |-> WordOf(-1)]
NewCustomerRecord == [f \in CustomerRecord |-> WordOf(-1)]

SetOrder(id, number, type) ==
  [customer_id |-> WordOf(id), order_number |-> WordOf(number), laptop_type |-> WordOf(type)]

(* CopyOrder, SetEngineerId and SetAdminId on a new LaptopInfo.            *)
CopyOrder(order, engineer, admin) ==
  [f \in LaptopInfo |-> IF f = "engineer_id" THEN WordOf(engineer)
                        ELSE IF f = "admin_id" THEN WordOf(admin) ELSE order[f]]

(* ReplicationRequest(...) and the vid that its Marshal sets.              *)
MakeReplicationRequest(factory, committed, last, op) ==
  [vid |-> WordOf(1), factory_id |-> WordOf(factory), committed_index |-> WordOf(committed),
   last_index |-> WordOf(last), opcode |-> op.opcode, arg1 |-> op.arg1, arg2 |-> op.arg2]

(* IsValid of a LaptopOrder, a LaptopInfo or a CustomerRecord.             *)
IsValid(object) == object.customer_id # WordOf(-1)
-----------------------------------------------------------------------------
(* The order in which each Marshal writes the members, and the order in    *)
(* which each Unmarshal reads them.  Nothing but these two lists makes the *)
(* two ends agree.                                                         *)

MarshalLaptopOrder == <<"customer_id", "order_number", "laptop_type">>
MarshalLaptopInfo == <<"customer_id", "order_number", "laptop_type", "engineer_id", "admin_id">>
MarshalCustomerRecord == <<"customer_id", "last_order">>
MarshalReplicationRequest ==
  <<"vid", "factory_id", "committed_index", "last_index", "opcode", "arg1", "arg2">>

Written(class) ==
  CASE class = "LaptopOrder"        -> MarshalLaptopOrder
    [] class = "LaptopInfo"         -> MarshalLaptopInfo
    [] class = "CustomerRecord"     -> MarshalCustomerRecord
    [] class = "ReplicationRequest" -> MarshalReplicationRequest

(* In a slip, two members have changed places.                             *)
UnmarshalLaptopOrder_Swapped == <<"customer_id", "laptop_type", "order_number">>
UnmarshalLaptopOrder == <<"customer_id", "order_number", "laptop_type">>
UnmarshalLaptopInfo == <<"customer_id", "order_number", "laptop_type", "engineer_id", "admin_id">>
UnmarshalCustomerRecord == <<"customer_id", "last_order">>
UnmarshalReplicationRequest ==
  <<"vid", "factory_id", "committed_index", "last_index", "opcode", "arg1", "arg2">>

Read(class) ==
  CASE class = "LaptopOrder"        -> UnmarshalLaptopOrder
    [] class = "LaptopInfo"         -> UnmarshalLaptopInfo
    [] class = "CustomerRecord"     -> UnmarshalCustomerRecord
    [] class = "ReplicationRequest" -> UnmarshalReplicationRequest

(* The Size methods: so many bytes are sent and received.                  *)
Size(class) == Width * Len(Written(class))

(* memcpy of htonl of member after member.                                 *)
Marshal(machine, class, object) ==
  [k \in 1..Size(class) |->
     LET net == htonl(machine, object[Written(class)[(k - 1) \div Width + 1]])
     IN Memory(machine, net)[((k - 1) % Width) + 1]]

(* ntohl of member after member, each copied from its offset.              *)
Unmarshal(machine, class, bytes) ==
  [f \in Members(class) |->
     LET i == CHOOSE i \in 1..Len(Read(class)) : Read(class)[i] = f
     IN ntohl(machine, FromMemory(machine, [k \in 1..Width |-> bytes[Width * (i - 1) + k]]))]

(* SendIdentification and ReceiveStatusInfo copy the int as it is.  And a  *)
(* SendIdentification with an htonl of its own.                            *)
StatusBytes_Network(machine, status) == Memory(machine, htonl(machine, status))
StatusBytes(machine, status) == Memory(machine, status)
StatusOf(machine, bytes) == FromMemory(machine, bytes)
=============================================================================
