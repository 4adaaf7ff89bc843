-------------------------- MODULE ConnectionProofs --------------------------
(***************************************************************************)
(* Proofs about Messages and about Connection, which carries them.         *)
(*                                                                         *)
(* About messages: whatever machines the two ends run on, an object        *)
(* arrives as it was sent, and the int of an identification does exactly   *)
(* between machines of the same byte order.                                *)
(*                                                                         *)
(* About connections, for any set of callers and machines and any number   *)
(* of requests:                                                            *)
(*                                                                         *)
(* ConnectionInv, the inductive invariant, has six parts.  LocalInv says   *)
(* what one side knows by itself: where its thread is, what its Socket is  *)
(* doing and whether it is open.  TurnInv says whose turn it is: caller    *)
(* and engineer take turns, so at most the identification and one request, *)
(* or one answer, are under way.  EngineerKnows and CallerKnows say what   *)
(* each has learned from what it received.  StreamInv relates the bytes to *)
(* the messages: what a Recv has in its buffer, followed by what is on the *)
(* wire, are the messages in flight, followed by the bytes of the Send     *)
(* that has not finished.  ClosedInv says that nothing is under way to a   *)
(* closed side.                                                            *)
(***************************************************************************)
EXTENDS Connection, SequenceTheorems, TLAPS

-----------------------------------------------------------------------------
(* Messages.                                                               *)

(* A word is a sequence of four bytes, and so is its reverse.              *)
LEMMA ReverseWord ==
  ASSUME NEW w \in Word
  PROVE  /\ Len(w) = 4
         /\ Reverse(w) \in Word
         /\ \A k \in 1..4 : Reverse(w)[k] = w[5 - k]
<1>1. w \in [1..4 -> Byte]
  BY DEF Word, Width
<1>2. w \in Seq(Byte)
  <2>1. \E j \in Nat : w \in [1..j -> Byte]
    BY <1>1
  <2> QED
    BY <2>1, SeqDef, Zenon
<1>3. Len(w) \in Nat /\ DOMAIN w = 1..Len(w)
  BY <1>2, LenProperties
<1>4. Len(w) = 4
  BY <1>1, <1>3
<1>5. Reverse(w) = [i \in 1..4 |-> w[(4 - i) + 1]]
  BY <1>4 DEF Reverse
<1> QED
  BY <1>1, <1>4, <1>5 DEF Word, Width

(* Reversing twice gives the word back.                                    *)
LEMMA ReverseTwice ==
  ASSUME NEW w \in Word
  PROVE  Reverse(Reverse(w)) = w
<1>1. Reverse(w) \in Word
  BY ReverseWord
<1>2. Reverse(Reverse(w)) \in Word
  BY <1>1, ReverseWord
<1>3. \A k \in 1..4 : Reverse(Reverse(w))[k] = Reverse(w)[5 - k]
  BY <1>1, ReverseWord
<1>4. \A k \in 1..4 : Reverse(w)[5 - k] = w[k]
  <2> TAKE k \in 1..4
  <2>1. 5 - k \in 1..4 /\ 5 - (5 - k) = k
    OBVIOUS
  <2> QED
    BY <2>1, ReverseWord
<1> QED
  BY <1>2, <1>3, <1>4 DEF Word, Width

(* htonl and the memory of the machine cancel out.                         *)
LEMMA NetworkOrder ==
  ASSUME NEW mach \in ByteOrder, NEW w \in Word
  PROVE  /\ Memory(mach, htonl(mach, w)) = w
         /\ ntohl(mach, FromMemory(mach, w)) = w
BY ReverseTwice DEF Memory, FromMemory, htonl, ntohl

(* Byte k of member i of a buffer is where Marshal looks for it.           *)
LEMMA Division ==
  ASSUME NEW i \in 1..7, NEW k \in 1..4
  PROVE  /\ (4 * (i - 1) + k - 1) \div 4 = i - 1
         /\ (4 * (i - 1) + k - 1) % 4 = k - 1
OBVIOUS

(* Both lists of a class name every member once and in the same order.     *)
LEMMA SameOrder ==
  ASSUME NEW class \in Class
  PROVE  /\ Read(class) = Written(class)
         /\ Len(Written(class)) \in 1..7
         /\ \A f \in Members(class) : \E i \in 1..Len(Read(class)) : Read(class)[i] = f
         /\ \A i \in 1..Len(Written(class)) : Written(class)[i] \in Members(class)
<1>1. CASE class = "LaptopOrder"
  BY <1>1 DEF Read, Written, Members, LaptopOrder, MarshalLaptopOrder, UnmarshalLaptopOrder
<1>2. CASE class = "LaptopInfo"
  BY <1>2 DEF Read, Written, Members, LaptopInfo, MarshalLaptopInfo, UnmarshalLaptopInfo
<1>3. CASE class = "CustomerRecord"
  BY <1>3 DEF Read, Written, Members, CustomerRecord, MarshalCustomerRecord, UnmarshalCustomerRecord
<1>4. CASE class = "ReplicationRequest"
  BY <1>4 DEF Read, Written, Members, ReplicationRequest, MapOp,
              MarshalReplicationRequest, UnmarshalReplicationRequest
<1> QED
  BY <1>1, <1>2, <1>3, <1>4 DEF Class

(* Byte k of member i of a marshalled object is byte k of its value.       *)
LEMMA MarshalledByte ==
  ASSUME NEW mach \in ByteOrder, NEW class \in Class, NEW object \in Object(class),
         NEW i \in 1..Len(Written(class)), NEW k \in 1..4
  PROVE  Marshal(mach, class, object)[4 * (i - 1) + k] = object[Written(class)[i]][k]
<1> DEFINE at == 4 * (i - 1) + k
<1>1. i \in 1..7
  BY SameOrder
<1>2. (at - 1) \div Width + 1 = i /\ ((at - 1) % Width) + 1 = k
  BY <1>1, Division DEF Width
<1>3. at \in 1..Size(class)
  BY SameOrder DEF Size, Width
<1>4. object[Written(class)[i]] \in Word
  BY SameOrder DEF Object
<1>5. Marshal(mach, class, object)[at] =
        Memory(mach, htonl(mach, object[Written(class)[i]]))[k]
  BY <1>2, <1>3 DEF Marshal
<1> QED
  BY <1>4, <1>5, NetworkOrder

(* An object of any of the four classes, marshalled on one machine and     *)
(* unmarshalled on another of either byte order, is the same object: the   *)
(* two lists of members, the offsets and the conversions agree.            *)
THEOREM RoundTrip ==
  ASSUME NEW sender \in ByteOrder, NEW receiver \in ByteOrder,
         NEW class \in Class, NEW object \in Object(class)
  PROVE  Unmarshal(receiver, class, Marshal(sender, class, object)) = object
<1> DEFINE bytes == Marshal(sender, class, object)
           at(f) == CHOOSE i \in 1..Len(Read(class)) : Read(class)[i] = f
           word(f) == [k \in 1..Width |-> bytes[Width * (at(f) - 1) + k]]
<1>1. \A f \in Members(class) : word(f) = object[f]
  <2> TAKE f \in Members(class)
  <2>1. at(f) \in 1..Len(Read(class)) /\ Read(class)[at(f)] = f
    BY SameOrder
  <2>2. at(f) \in 1..Len(Written(class)) /\ Written(class)[at(f)] = f
    BY <2>1, SameOrder
  <2>3. PICK i : i = at(f) /\ i \in 1..Len(Written(class)) /\ Written(class)[i] = f
    BY <2>2
  <2>4. \A k \in 1..4 : bytes[4 * (i - 1) + k] = object[f][k]
    <3> TAKE k \in 1..4
    <3>1. Marshal(sender, class, object)[4 * (i - 1) + k] = object[Written(class)[i]][k]
      BY <2>3, MarshalledByte, Zenon
    <3> QED
      BY <2>3, <3>1
  <2>5. word(f) = [k \in 1..4 |-> bytes[4 * (i - 1) + k]]
    BY <2>3 DEF Width
  <2>6. object[f] \in [1..4 -> Byte]
    BY DEF Object, Word, Width
  <2> HIDE DEF bytes, word
  <2> QED
    BY <2>4, <2>5, <2>6
<1>2. \A f \in Members(class) : object[f] \in Word
  BY DEF Object
<1>3. Unmarshal(receiver, class, bytes) =
        [f \in Members(class) |-> ntohl(receiver, FromMemory(receiver, word(f)))]
  BY DEF Unmarshal
<1>4. \A f \in Members(class) : ntohl(receiver, FromMemory(receiver, word(f))) = object[f]
  <2> TAKE f \in Members(class)
  <2> HIDE DEF word
  <2>1. word(f) = object[f] /\ object[f] \in Word
    BY <1>1, <1>2
  <2> QED
    BY <2>1, NetworkOrder
<1>5. object = [f \in Members(class) |-> object[f]]
  BY DEF Object
<1>6. [f \in Members(class) |-> ntohl(receiver, FromMemory(receiver, word(f)))] =
        [f \in Members(class) |-> object[f]]
  BY <1>4
<1> QED
  BY <1>3, <1>5, <1>6
-----------------------------------------------------------------------------
(* The last byte of the word of an int tells small ints apart.             *)
LEMMA WordOfInt ==
  ASSUME NEW i \in Int
  PROVE  /\ WordOf(i) \in Word
         /\ WordOf(i)[4] = i % 256
<1>1. 256^0 = 1 /\ 256^1 = 256 /\ 256^2 = 65536 /\ 256^3 = 16777216
  OBVIOUS
<1>2. \A k \in 1..4 : (i \div 256^(4 - k)) % 256 \in 0..255
  <2> TAKE k \in 1..4
  <2>1. k = 1 \/ k = 2 \/ k = 3 \/ k = 4
    OBVIOUS
  <2> QED
    BY <1>1, <2>1
<1>3. WordOf(i) = [k \in 1..4 |-> (i \div 256^(4 - k)) % 256]
  BY DEF WordOf, Width
<1>4. WordOf(i)[4] = (i \div 1) % 256
  BY <1>1, <1>3
<1>5. i \div 1 = i
  OBVIOUS
<1> QED
  BY <1>2, <1>3, <1>4, <1>5 DEF Word, Byte, Width

(* The identification 1 or 2 is the same int on the engineer's machine     *)
(* exactly when both machines have the same byte order: SendIdentification *)
(* has no htonl and ReceiveStatusInfo no ntohl.                            *)
THEOREM StatusNeedsSameOrder ==
  ASSUME NEW sender \in ByteOrder, NEW receiver \in ByteOrder, NEW id \in {1, 2}
  PROVE  StatusOf(receiver, StatusBytes(sender, WordOf(id))) = WordOf(id)
           <=> sender = receiver
<1> DEFINE w == WordOf(id)
<1>1. w \in Word /\ w[4] = id % 256 /\ id % 256 = id
  BY WordOfInt
<1>2. w[1] = 0
  <2>1. 256^3 = 16777216 /\ id \div 16777216 = 0
    OBVIOUS
  <2>2. w[1] = (id \div 256^3) % 256
    BY DEF WordOf, Width
  <2> QED
    BY <2>1, <2>2
<1> HIDE DEF w
<1>3. Reverse(Reverse(w)) = w
  BY <1>1, ReverseTwice
<1>4. Reverse(w)[4] # w[4]
  BY <1>1, <1>2, ReverseWord
<1>5. StatusOf(receiver, StatusBytes(sender, w)) = w <=> sender = receiver
  BY <1>3, <1>4 DEF StatusOf, StatusBytes, Memory, FromMemory, ByteOrder
<1> QED
  BY <1>5 DEF w

-----------------------------------------------------------------------------
(* Bytes and messages.                                                     *)

(* The ints that callers and engineers compare are different words.        *)
LEMMA SmallWords ==
  /\ WordOf(-1) \notin {WordOf(0), WordOf(1), WordOf(2), WordOf(3), WordOf(4), WordOf(5), WordOf(77)}
  /\ WordOf(1) \notin {WordOf(2), WordOf(3), WordOf(77)}
  /\ WordOf(2) \notin {WordOf(3), WordOf(77)}
BY WordOfInt

(* How many bytes an object of each class takes.                           *)
LEMMA Sizes ==
  /\ Size("LaptopOrder") = 12 /\ Size("LaptopInfo") = 20
  /\ Size("CustomerRecord") = 8 /\ Size("ReplicationRequest") = 28
BY DEF Size, Width, Written, MarshalLaptopOrder, MarshalLaptopInfo, MarshalCustomerRecord,
       MarshalReplicationRequest

(* Marshal fills so many bytes.                                            *)
LEMMA Marshalled ==
  ASSUME NEW m \in ByteOrder, NEW class \in Class, NEW object \in Object(class)
  PROVE  /\ Marshal(m, class, object) \in Seq(Byte)
         /\ Len(Marshal(m, class, object)) = Size(class)
<1>1. Size(class) \in Nat
  BY SameOrder DEF Size, Width
<1>2. \A k \in 1..Size(class) : Marshal(m, class, object)[k] \in Byte
  <2> TAKE k \in 1..Size(class)
  <2>1. PICK i : i = (k - 1) \div Width + 1
    OBVIOUS
  <2>2. i \in 1..Len(Written(class)) /\ ((k - 1) % Width) + 1 \in 1..4
    BY <2>1, SameOrder DEF Size, Width
  <2>3. PICK w : w = object[Written(class)[i]]
    OBVIOUS
  <2>4. w \in Word
    BY <2>2, <2>3, SameOrder DEF Object
  <2>5. Marshal(m, class, object)[k] = Memory(m, htonl(m, w))[((k - 1) % Width) + 1]
    BY <2>1, <2>3 DEF Marshal
  <2>6. Marshal(m, class, object)[k] = w[((k - 1) % Width) + 1]
    BY <2>4, <2>5, NetworkOrder
  <2> QED
    BY <2>2, <2>4, <2>6 DEF Word, Width
<1>3. Marshal(m, class, object) = [k \in 1..Size(class) |-> Marshal(m, class, object)[k]]
  BY DEF Marshal
<1>4. Marshal(m, class, object) \in [1..Size(class) -> Byte]
  BY <1>2, <1>3
<1>5. Marshal(m, class, object) \in Seq(Byte)
  <2>1. \E j \in Nat : Marshal(m, class, object) \in [1..j -> Byte]
    BY <1>1, <1>4, Zenon
  <2> QED
    BY <2>1, SeqDef, Zenon
<1> QED
  BY <1>1, <1>4, <1>5, LenProperties

(* A word is four bytes, in the memory of a machine too.                   *)
LEMMA MemoryOfWord ==
  ASSUME NEW m \in ByteOrder, NEW w \in Word
  PROVE  /\ Memory(m, w) \in Word /\ FromMemory(m, w) \in Word
         /\ FromMemory(m, Memory(m, w)) = w
         /\ w \in Seq(Byte) /\ Len(w) = 4
<1>1. w \in [1..4 -> Byte]
  BY DEF Word, Width
<1>2. w \in Seq(Byte)
  <2>1. \E j \in Nat : w \in [1..j -> Byte]
    BY <1>1
  <2> QED
    BY <2>1, SeqDef, Zenon
<1> QED
  BY <1>2, ReverseWord, ReverseTwice DEF Memory, FromMemory

(* Four bytes are a word.                                                  *)
LEMMA FourBytes ==
  ASSUME NEW b \in Seq(Byte), Len(b) = 4
  PROVE  b \in Word
BY LenProperties DEF Word, Width

(* An int that a machine of the other byte order has announced is neither  *)
(* 1 nor 2 for the engineer's machine.                                     *)
LEMMA ForeignStatus ==
  ASSUME NEW sender \in ByteOrder, NEW receiver \in ByteOrder, sender # receiver,
         NEW i \in {1, 2}
  PROVE  StatusOf(receiver, StatusBytes(sender, WordOf(i))) \notin {WordOf(1), WordOf(2)}
<1>1. WordOf(i) \in Word /\ WordOf(i)[1] = 0
  <2>1. 256^3 = 16777216 /\ (i \div 16777216) % 256 = 0
    OBVIOUS
  <2>2. WordOf(i)[1] = (i \div 256^(4 - 1)) % 256
    BY DEF WordOf, Width
  <2> QED
    BY <2>1, <2>2, WordOfInt
<1>2. StatusOf(receiver, StatusBytes(sender, WordOf(i))) = Reverse(WordOf(i))
  BY DEF StatusOf, StatusBytes, Memory, FromMemory, ByteOrder
<1>3. Reverse(WordOf(i))[4] = 0
  BY <1>1, ReverseWord
<1>4. WordOf(1)[4] = 1 /\ WordOf(2)[4] = 2
  BY WordOfInt
<1> QED
  BY <1>2, <1>3, <1>4

(* What comes out of Unmarshal is an object of the class.                  *)
LEMMA Unmarshalled ==
  ASSUME NEW m \in ByteOrder, NEW class \in Class, NEW b \in Seq(Byte), Len(b) = Size(class)
  PROVE  Unmarshal(m, class, b) \in Object(class)
<1> DEFINE at(f) == CHOOSE i \in 1..Len(Read(class)) : Read(class)[i] = f
           word(f) == [k \in 1..Width |-> b[Width * (at(f) - 1) + k]]
<1>1. \A f \in Members(class) : at(f) \in 1..Len(Written(class))
  BY SameOrder
<1>2. \A f \in Members(class) : word(f) \in Word
  <2> TAKE f \in Members(class)
  <2>1. PICK i : i = at(f) /\ i \in 1..Len(Written(class))
    BY <1>1
  <2>2. \A k \in 1..4 : 4 * (i - 1) + k \in 1..Len(b)
    BY <2>1, SameOrder DEF Size, Width
  <2>3. \A k \in 1..4 : b[4 * (i - 1) + k] \in Byte
    BY <2>2, ElementOfSeq
  <2>4. word(f) = [k \in 1..4 |-> b[4 * (i - 1) + k]]
    BY <2>1 DEF Width
  <2> QED
    BY <2>3, <2>4 DEF Word, Width
<1>3. Unmarshal(m, class, b) = [f \in Members(class) |-> ntohl(m, FromMemory(m, word(f)))]
  BY DEF Unmarshal
<1> HIDE DEF word
<1>4. \A f \in Members(class) : ntohl(m, FromMemory(m, word(f))) \in Word
  BY <1>2, MemoryOfWord DEF ntohl
<1> QED
  BY <1>3, <1>4 DEF Object

-----------------------------------------------------------------------------
(* Requests and answers.                                                   *)

(* The answer to request i of a caller of kind k, with some last order.    *)
Answer(k, i, lastOrder) ==
  CASE k = "orders"  -> CopyOrder(Request(k, i), 0, 1)
    [] k = "primary" -> [customer_id |-> WordOf(5), order_number |-> WordOf(i), laptop_type |-> WordOf(4)]
    [] OTHER -> [customer_id |-> Request(k, i).customer_id, last_order |-> WordOf(lastOrder)]

Kind == {"orders", "read", "reads", "primary"}

(* Requests and answers are objects of their classes.                      *)
LEMMA RequestTyped ==
  ASSUME NEW k \in Kind, NEW i \in Int
  PROVE  /\ RequestClass(k) \in Class
         /\ Request(k, i) \in Object(RequestClass(k))
<1>1. \A a, b, c \in Int : SetOrder(a, b, c) \in Object("LaptopOrder")
  BY WordOfInt DEF SetOrder, Object, Members, LaptopOrder
<1>2. ASSUME k = "primary"
      PROVE  Request(k, i) \in Object("ReplicationRequest")
  BY <1>2, WordOfInt DEF Request, MakeReplicationRequest, Object, Members, ReplicationRequest, MapOp
<1>3. ASSUME k # "primary"
      PROVE  Request(k, i) \in Object("LaptopOrder")
  <2>1. 5 \in Int /\ -1 \in Int /\ 1 \in Int /\ 2 \in Int /\ 3 \in Int
    OBVIOUS
  <2>2. Request(k, i) \in {SetOrder(5, i, 1), SetOrder(5, -1, 2), SetOrder(i, -1, 3)}
    BY <1>3 DEF Request, Kind
  <2> QED
    BY <1>1, <2>1, <2>2
<1> QED
  BY <1>2, <1>3 DEF RequestClass, Class

(* What an engineer answers to request i is the answer to it, and it is    *)
(* marshalled as the class that the caller unmarshals.                     *)
LEMMA AnswerTyped ==
  ASSUME NEW k \in Kind, NEW i \in Int, NEW lo \in Int
  PROVE  /\ AnswerClass(k) \in Class
         /\ Answer(k, i, lo) \in Object(AnswerClass(k))
<1>1. CASE k = "orders"
  <2>1. Request(k, i) \in [LaptopOrder -> Word]
    BY <1>1, RequestTyped DEF RequestClass, Object, Members
  <2>2. \A f \in LaptopInfo : f \in LaptopOrder \cup {"engineer_id", "admin_id"}
    BY DEF LaptopInfo, LaptopOrder
  <2>3. CopyOrder(Request(k, i), 0, 1) \in [LaptopInfo -> Word]
    BY <2>1, <2>2, WordOfInt DEF CopyOrder
  <2> QED
    BY <1>1, <2>3 DEF Answer, AnswerClass, Class, Object, Members
<1>2. CASE k = "primary"
  BY <1>2, WordOfInt DEF Answer, AnswerClass, Class, Object, Members, LaptopOrder
<1>3. CASE k \in {"read", "reads"}
  <2>1. Request(k, i) \in [LaptopOrder -> Word]
    BY <1>3, RequestTyped DEF RequestClass, Object, Members
  <2>2. Request(k, i).customer_id \in Word
    BY <2>1 DEF LaptopOrder
  <2> QED
    BY <1>3, <2>2, WordOfInt DEF Answer, AnswerClass, Class, Object, Members, CustomerRecord
<1> QED
  BY <1>1, <1>2, <1>3 DEF Kind

(* A new answer is not valid.                                              *)
LEMMA NewAnswerInvalid ==
  ASSUME NEW k \in Kind
  PROVE  ~IsValid(NewAnswer(k))
BY DEF IsValid, NewAnswer, NewLaptopInfo, NewLaptopOrder, NewCustomerRecord, Kind,
       LaptopInfo, LaptopOrder, CustomerRecord

(* The answer to a request names what the request named.                   *)
LEMMA AnswerNames ==
  ASSUME NEW k \in Kind, NEW i \in Int, NEW lo \in Int
  PROVE  LET a == Answer(k, i, lo)  r == Request(k, i) IN
         CASE k = "orders"  -> a.customer_id = r.customer_id /\ a.order_number = r.order_number
           [] k = "primary" -> a.customer_id = r.arg1 /\ a.order_number = r.arg2
           [] OTHER         -> a.customer_id = r.customer_id
BY DEF Answer, Request, CopyOrder, SetOrder, MakeReplicationRequest, Kind, LaptopInfo

-----------------------------------------------------------------------------
(* Sequences of bytes.                                                     *)

(* Two sequences with beginnings of the same length.                       *)
LEMMA SamePrefix ==
  ASSUME NEW a \in Seq(Byte), NEW b \in Seq(Byte), NEW c \in Seq(Byte), NEW d \in Seq(Byte),
         a \o b = c \o d, Len(a) = Len(c)
  PROVE  a = c /\ b = d
<1>1. \A i \in 1..Len(a) : a[i] = c[i]
  <2> TAKE i \in 1..Len(a)
  <2>1. Len(a) \in Nat /\ Len(b) \in Nat /\ Len(d) \in Nat
    BY LenProperties
  <2>2. (a \o b)[i] = a[i]
    BY <2>1, ConcatProperties
  <2>3. (c \o d)[i] = c[i]
    BY <2>1, ConcatProperties
  <2> QED
    BY <2>2, <2>3
<1>2. a = c
  BY <1>1, SeqEqual
<1>3. c \o b = c \o d
  BY <1>2
<1> QED
  BY <1>2, <1>3, ConcatSimplifications

(* What recv takes and what it leaves.                                     *)
LEMMA TakeBytes ==
  ASSUME NEW w \in Seq(Byte), NEW k \in 1..Len(w)
  PROVE  /\ SubSeq(w, 1, k) \in Seq(Byte) /\ Len(SubSeq(w, 1, k)) = k
         /\ SubSeq(w, k + 1, Len(w)) \in Seq(Byte)
         /\ SubSeq(w, 1, k) \o SubSeq(w, k + 1, Len(w)) = w
<1>1. Len(w) \in Nat
  BY LenProperties
<1>2. \A i \in 1..Len(w) : w[i] \in Byte
  BY ElementOfSeq
<1>3. SubSeq(w, 1, k) \in Seq(Byte) /\ Len(SubSeq(w, 1, k)) = k
  BY <1>1, <1>2, SubSeqProperties
<1>4. SubSeq(w, k + 1, Len(w)) \in Seq(Byte)
  BY <1>1, <1>2, SubSeqProperties
<1>5. SubSeq(w, 1, k) \o SubSeq(w, k + 1, Len(w)) = SubSeq(w, 1, Len(w))
  BY <1>1, ConcatAdjacentSubSeq
<1>6. SubSeq(w, 1, Len(w)) = w
  BY SubSeqFull
<1> QED
  BY <1>3, <1>4, <1>5, <1>6

(* send sends k bytes of the j that are left of b.                         *)
Sends(b, j, k) == b \in Seq(Byte) /\ j \in 1..Len(b) /\ k \in 1..j

(* What send has sent when it has sent k bytes more.                       *)
LEMMA SendBytes ==
  ASSUME NEW b, NEW j, NEW k, Sends(b, j, k)
  PROVE  /\ SubSeq(b, 1, Len(b) - j) \in Seq(Byte) /\ Len(SubSeq(b, 1, Len(b) - j)) = Len(b) - j
         /\ SubSeq(b, Len(b) - j + 1, Len(b) - j + k) \in Seq(Byte)
         /\ Len(SubSeq(b, Len(b) - j + 1, Len(b) - j + k)) = k
         /\ SubSeq(b, 1, Len(b) - j) \o SubSeq(b, Len(b) - j + 1, Len(b) - j + k)
              = SubSeq(b, 1, Len(b) - (j - k))
         /\ k = j => SubSeq(b, 1, Len(b) - j) \o SubSeq(b, Len(b) - j + 1, Len(b) - j + k) = b
<1>0. b \in Seq(Byte) /\ j \in 1..Len(b) /\ k \in 1..j
  BY DEF Sends
<1>1. Len(b) \in Nat
  BY <1>0, LenProperties
<1>2. \A i \in 1..Len(b) : b[i] \in Byte
  BY <1>0, ElementOfSeq
<1>3. PICK o \in 0..(Len(b) - 1) : o = Len(b) - j
  <2>1. PICK z \in Nat : z = Len(b)
    BY <1>1
  <2>2. j \in 1..z
    BY <1>0, <2>1
  <2>3. z - j \in 0..(z - 1)
    BY <2>2
  <2> QED
    BY <2>1, <2>3
<1>4. SubSeq(b, 1, o) \in Seq(Byte) /\ Len(SubSeq(b, 1, o)) = o
  BY <1>0, <1>1, <1>2, SubSeqProperties
<1>5. SubSeq(b, o + 1, o + k) \in Seq(Byte) /\ Len(SubSeq(b, o + 1, o + k)) = k
  BY <1>0, <1>1, <1>2, <1>3, SubSeqProperties
<1>6. SubSeq(b, 1, o) \o SubSeq(b, o + 1, o + k) = SubSeq(b, 1, o + k)
  <2>1. 1 \in 1..(Len(b) + 1) /\ o \in (1 - 1)..Len(b) /\ o + k \in o..Len(b)
    BY <1>0, <1>1, <1>3
  <2> QED
    BY <1>0, <2>1, ConcatAdjacentSubSeq
<1>7. k = j => SubSeq(b, 1, o + k) = b
  BY <1>0, <1>1, <1>3, SubSeqFull
<1>8. Len(b) - (j - k) = o + k
  BY <1>0, <1>1, <1>3
<1> QED
  BY <1>3, <1>4, <1>5, <1>6, <1>7, <1>8

-----------------------------------------------------------------------------
(* What one side knows by itself.                                          *)

At(s, p, calls) == pc[s] = p /\ io[s].call \in calls

CallerPc == {"init", "identify", "next", "ask", "await", "end", "done"}
EngineerPc == {"accept", "status", "receive", "serve", "reply", "spin", "done"}
SocketRec == [open : BOOLEAN, is_initialized : BOOLEAN, valid : BOOLEAN]
IoRec == [call : {"send", "recv", "ok", "failed"}, buffer : Seq(Byte), size : Nat]

Types ==
  /\ kind \in Kinds /\ machine \in Machines
  /\ n \in 0..NumRequests
  /\ status \in Word
  /\ sock \in [Side -> SocketRec]
  /\ io \in [Side -> IoRec]
  /\ pc \in [Side -> CallerPc \cup EngineerPc]
  /\ pc["caller"] \in CallerPc /\ pc["engineer"] \in EngineerPc
  /\ wire \in [Side -> Seq(Byte)]
  /\ reset \in [Side -> BOOLEAN]
  /\ flight \in [Side -> Seq(Seq(Byte))]

(* The messages of the caller, on the wire.                                *)
IdentOf(k, m) == StatusBytes(m["caller"], WordOf(IF k = "primary" THEN 2 ELSE 1))
RequestOf(k, m, i) == Marshal(m["caller"], RequestClass(k), Request(k, i))

(* What a call has done and has left to do for a message of some size.     *)
Transfer(s, size) ==
  /\ io[s].call = "send" => io[s].size \in 1..Len(io[s].buffer)
  /\ io[s].call = "recv" => io[s].size >= 1 /\ Len(io[s].buffer) + io[s].size = size
  /\ io[s].call \in {"send", "ok"} => Len(io[s].buffer) = size

CallerIO ==
  /\ pc["caller"] = "identify" =>
       /\ io["caller"].call # "recv"
       /\ io["caller"].call \in {"send", "ok"} => io["caller"].buffer = IdentOf(kind, machine)
       /\ Transfer("caller", 4)
  /\ pc["caller"] = "ask" =>
       /\ io["caller"].call # "recv"
       /\ io["caller"].call \in {"send", "ok"} => io["caller"].buffer = RequestOf(kind, machine, n)
       /\ Transfer("caller", Size(RequestClass(kind)))
  /\ pc["caller"] = "await" =>
       /\ io["caller"].call # "send"
       /\ Transfer("caller", Size(AnswerClass(kind)))
  /\ pc["caller"] \in {"ask", "await"} => n < NumRequests
  /\ pc["caller"] \in {"init", "next", "end", "done"} => io["caller"].call \in {"ok", "failed"}
  /\ Len(io["caller"].buffer) <= IF kind = "primary" THEN 28 ELSE 20

(* The class of the requests that an engineer with status st receives.     *)
ServedClass(st) == IF st = WordOf(2) THEN "ReplicationRequest" ELSE "LaptopOrder"

EngineerIO ==
  /\ pc["engineer"] = "status" => io["engineer"].call # "send" /\ Transfer("engineer", 4)
  /\ pc["engineer"] = "receive" =>
       io["engineer"].call # "send" /\ Transfer("engineer", Size(ServedClass(status)))
  /\ pc["engineer"] = "serve" => io["engineer"].call = "ok" /\ job \in Object(ServedClass(status))
  /\ pc["engineer"] = "reply" =>
       /\ io["engineer"].call # "recv"
       /\ io["engineer"].call = "send" => io["engineer"].size \in 1..Len(io["engineer"].buffer)
  /\ pc["engineer"] \in {"receive", "serve", "reply"} => status \in {WordOf(1), WordOf(2)}
  /\ pc["engineer"] \in {"accept", "spin", "done"} => io["engineer"].call = "ok"
  /\ Len(io["engineer"].buffer) <= 28

Resting == {"init", "accept", "done"}

(* A primary that got no socket is about to send its identification.       *)
NoSocket(s) ==
  /\ s = "caller" /\ pc[s] = "identify" /\ pc["engineer"] = "accept" /\ kind = "primary"
  /\ ~sock[s].open /\ ~sock[s].is_initialized

(* The engineer thread has lost its descriptor.                            *)
Lost(s) == s = "engineer" /\ lost

SocketOK(s) ==
  /\ sock[s].is_initialized => (sock[s].open /\ sock[s].valid) \/ Lost(s)
  /\ Lost(s) => ~sock[s].open /\ pc[s] # "accept"
  /\ sock[s].open /\ ~sock[s].is_initialized =>
       s = "caller" /\ pc[s] = "done" /\ n = 0 /\ ~sock[s].valid /\ pc["engineer"] = "accept"
  /\ pc[s] \in {"init", "accept"} => ~sock[s].open
  /\ pc[s] = "done" /\ sock[s].open => pc["engineer"] = "accept"
  /\ pc[s] \notin Resting /\ sock[s].valid => sock[s].open \/ NoSocket(s)
  /\ pc[s] \notin Resting /\ pc[s] # "spin" =>
       (io[s].call = "ok" => sock[s].open) /\ (io[s].call = "failed" => ~sock[s].open /\ ~sock[s].valid)
  /\ pc[s] \in {"identify", "status"} /\ io[s].call # "failed" => sock[s].open \/ Lost(s) \/ NoSocket(s)
  /\ reset[s] => ~sock[Other(s)].open /\ pc[Other(s)] \notin {"init", "accept"}

SocketsInv ==
  /\ pc["caller"] = "init" => pc["engineer"] = "accept" /\ n = 0 /\ \A s \in Side : ~sock[s].is_initialized
  /\ pc["engineer"] = "accept" /\ pc["caller"] \notin {"init", "done"} =>
       pc["caller"] \in {"identify", "next"} /\ ~sock["caller"].open /\ n = 0 /\ kind = "primary"
  /\ \A s \in Side : SocketOK(s)

LocalInv == Types /\ CallerIO /\ EngineerIO /\ SocketsInv

(* What the constants are.                                                 *)
LEMMA Constants ==
  /\ Kinds \subseteq Kind
  /\ \A m \in Machines : m["caller"] \in ByteOrder /\ m["engineer"] \in ByteOrder
  /\ NumRequests \in Nat /\ NumRequests >= 1
  /\ Bytes = 1..28
  /\ Width = 4
BY ConnectionAssumption, Sizes DEF Kind, Side, Bytes, Width

(* The sizes that an honest call asks for.                                 *)
LEMMA CallSizes ==
  ASSUME Types
  PROVE  /\ IdentOf(kind, machine) \in Seq(Byte) /\ Len(IdentOf(kind, machine)) = 4
         /\ \A i \in Int : /\ RequestOf(kind, machine, i) \in Seq(Byte)
                           /\ Len(RequestOf(kind, machine, i)) = Size(RequestClass(kind))
         /\ Size(RequestClass(kind)) = IF kind = "primary" THEN 28 ELSE 12
         /\ Size(AnswerClass(kind)) \in {8, 12, 20}
         /\ \A st : Size(ServedClass(st)) \in {12, 28}
<1>1. kind \in Kind /\ machine["caller"] \in ByteOrder
  BY Constants DEF Types
<1>2. IdentOf(kind, machine) \in Seq(Byte) /\ Len(IdentOf(kind, machine)) = 4
  BY <1>1, WordOfInt, MemoryOfWord DEF IdentOf, StatusBytes
<1>3. \A i \in Int : RequestOf(kind, machine, i) \in Seq(Byte) /\ Len(RequestOf(kind, machine, i)) = Size(RequestClass(kind))
  BY <1>1, RequestTyped, Marshalled DEF RequestOf
<1>4. Size(RequestClass(kind)) = IF kind = "primary" THEN 28 ELSE 12
  BY <1>1, Sizes DEF RequestClass
<1>5. Size(AnswerClass(kind)) \in {8, 12, 20}
  BY <1>1, Sizes DEF AnswerClass, Kind
<1>6. \A st : Size(ServedClass(st)) \in {12, 28}
  BY Sizes DEF ServedClass
<1> QED
  BY <1>2, <1>3, <1>4, <1>5, <1>6

(* LocalInv holds at the start.                                            *)
LEMMA InitLocal == Init => LocalInv
<1> SUFFICES ASSUME Init PROVE LocalInv
  OBVIOUS
<1>1. << >> \in Seq(Byte) /\ << >> \in Seq(Seq(Byte)) /\ Len(<< >>) = 0
  BY EmptySeq
<1>2. Types
  BY <1>1, WordOfInt, Constants
     DEF Init, Types, SocketRec, IoRec, CallerPc, EngineerPc, Side, Idle
<1>3. CallerIO /\ EngineerIO
  BY <1>1 DEF Init, CallerIO, EngineerIO, Side, Idle
<1>4. SocketsInv
  BY DEF Init, SocketsInv, SocketOK, Lost, NoSocket, Side, Idle, Resting, Other
<1> QED
  BY <1>2, <1>3, <1>4 DEF LocalInv

(* The sockets: LocalInv is kept.                                          *)

(* A send that takes some bytes.                                           *)
LEMMA SendLocal ==
  ASSUME LocalInv, NEW s \in Side, NEW k \in Bytes, SendSome(s, k)
  PROVE  LocalInv'
<1>0. /\ Types /\ CallerIO /\ EngineerIO /\ SocketsInv /\ k \in 1..28
      /\ s \in {"caller", "engineer"}
  BY Constants DEF LocalInv, Side
<1>1. /\ io[s].call = "send" /\ k <= io[s].size /\ sock[s].open /\ ~reset[s]
      /\ UNCHANGED <<kind, machine, sock, pc, n, got, status, job, lost, last>>
  BY DEF SendSome, threads
<1>2. io[s] \in IoRec /\ io[s].buffer \in Seq(Byte) /\ io[s].size \in 1..Len(io[s].buffer)
      /\ pc[s] \notin Resting /\ pc[s] # "spin"
  BY <1>0, <1>1 DEF CallerIO, EngineerIO, Transfer, Types, IoRec, Resting, CallerPc, EngineerPc
<1>3. /\ io' \in [Side -> IoRec] /\ \A t \in Side : t # s => io'[t] = io[t]
      /\ io'[s].call = (IF k = io[s].size THEN "ok" ELSE "send")
      /\ io'[s].size = io[s].size - k /\ io'[s].buffer = io[s].buffer
  <2>1. io \in [Side -> IoRec]
    BY <1>0 DEF Types
  <2>2. PICK r : r = [io[s] EXCEPT !.size = @ - k, !.call = IF k = io[s].size THEN "ok" ELSE @]
    OBVIOUS
  <2>5. PICK j : j = io[s].size - k
    OBVIOUS
  <2>6. j \in Nat
    <3>1. \A x, y \in Nat : y <= x => x - y \in Nat
      OBVIOUS
    <3>2. io[s].size \in Nat
      BY <1>2 DEF IoRec
    <3>3. k \in Nat /\ k <= io[s].size
      BY <1>0, <1>1
    <3> QED
      BY <2>5, <3>1, <3>2, <3>3, Zenon
  <2>9. PICK r0 : r0 = io[s] /\ r0 \in IoRec
    BY <1>2
  <2>10. r0 = [call |-> r0.call, buffer |-> r0.buffer, size |-> r0.size]
    BY <2>9 DEF IoRec
  <2>11. [r0 EXCEPT !.size = j] = [call |-> r0.call, buffer |-> r0.buffer, size |-> j]
    BY <2>10
  <2>7. [io[s] EXCEPT !.size = j] = [call |-> "send", buffer |-> io[s].buffer, size |-> j]
    BY <1>1, <2>9, <2>11
  <2>8. r = [call |-> IF k = io[s].size THEN "ok" ELSE "send", buffer |-> io[s].buffer, size |-> j]
    BY <1>1, <2>2, <2>5, <2>7
  <2>3. /\ r \in IoRec /\ r.size = io[s].size - k /\ r.buffer = io[s].buffer
        /\ r.call = IF k = io[s].size THEN "ok" ELSE "send"
    BY <1>2, <2>5, <2>6, <2>8 DEF IoRec
  <2>4. io' = [io EXCEPT ![s] = r]
    BY <2>1, <2>2 DEF SendSome
  <2> QED
    BY <2>1, <2>3, <2>4
<1>4. wire' \in [Side -> Seq(Byte)]
  <2>1. wire \in [Side -> Seq(Byte)] /\ wire[s] \in Seq(Byte)
    BY <1>0 DEF Types
  <2>2. Chunk(io[s], k) \in Seq(Byte)
    <3>1. PICK b, j : b = io[s].buffer /\ j = io[s].size
      OBVIOUS
    <3>2. b \in Seq(Byte) /\ j \in 1..Len(b) /\ k \in 1..28 /\ k <= j
      BY <1>0, <1>1, <1>2, <3>1
    <3>3. Len(b) \in Nat
      BY <3>2, LenProperties
    <3>4. Sends(b, j, k)
      BY <3>2, <3>3 DEF Sends
    <3>5. SubSeq(b, Len(b) - j + 1, Len(b) - j + k) \in Seq(Byte)
      BY <3>4, SendBytes
    <3> QED
      BY <3>1, <3>5, Zenon DEF Chunk
  <2>3. wire[s] \o Chunk(io[s], k) \in Seq(Byte)
    BY <2>1, <2>2, ConcatProperties
  <2> QED
    BY <2>1, <2>3 DEF SendSome
<1>5. flight' \in [Side -> Seq(Seq(Byte))]
  <2>1. flight \in [Side -> Seq(Seq(Byte))] /\ flight[s] \in Seq(Seq(Byte))
    BY <1>0 DEF Types
  <2>2. Append(flight[s], io[s].buffer) \in Seq(Seq(Byte))
    BY <1>2, <2>1, AppendProperties
  <2> QED
    BY <2>1, <2>2 DEF SendSome
<1>6. reset' \in [Side -> BOOLEAN] /\ \A t \in Side : reset'[t] => reset[t] \/ (t = s /\ ~sock[Other(s)].open)
  BY <1>0 DEF SendSome, Types
<1>7. Types'
  BY <1>0, <1>1, <1>3, <1>4, <1>5, <1>6 DEF Types
<1>8. CallerIO' /\ EngineerIO'
  <2>1. io[s].call = "send" /\ Len(io'[s].buffer) = Len(io[s].buffer) /\ io'[s].buffer = io[s].buffer
    BY <1>1, <1>3
  <2>4. /\ k # io[s].size => io'[s].call = "send" /\ io'[s].size \in 1..Len(io[s].buffer)
        /\ k = io[s].size => io'[s].call = "ok"
    <3>1. \A x \in Nat : \A y \in 1..x : \A z \in 1..28 : z <= y /\ z # y => y - z \in 1..x
      OBVIOUS
    <3>2. Len(io[s].buffer) \in Nat
      BY <1>2, LenProperties
    <3>3. k # io[s].size => io[s].size - k \in 1..Len(io[s].buffer)
      BY <1>0, <1>1, <1>2, <3>1, <3>2, Zenon
    <3> QED
      BY <1>3, <3>3
  <2>2. CASE s = "caller"
    <3>1. io'["engineer"] = io["engineer"]
      BY <1>3, <2>2 DEF Side
    <3>2. EngineerIO'
      BY <1>0, <1>1, <3>1 DEF EngineerIO, Transfer
    <3>3. CallerIO'
      BY <1>0, <1>1, <2>1, <2>2, <2>4 DEF CallerIO, Transfer
    <3> QED
      BY <3>2, <3>3
  <2>3. CASE s = "engineer"
    <3>1. io'["caller"] = io["caller"]
      BY <1>3, <2>3 DEF Side
    <3>2. CallerIO'
      BY <1>0, <1>1, <3>1 DEF CallerIO, Transfer
    <3>3. EngineerIO'
      BY <1>0, <1>1, <2>1, <2>3, <2>4 DEF EngineerIO, Transfer
    <3> QED
      BY <3>2, <3>3
  <2> QED
    BY <1>0, <2>2, <2>3
<1>9. SocketsInv'
  <2>2. \A t \in Side : SocketOK(t)
    BY <1>0 DEF SocketsInv
  <2>1. pc[Other(s)] \notin {"init", "accept"}
    <3>1. s = "caller" => pc["engineer"] # "accept" /\ pc["engineer"] # "init"
      BY <1>0, <1>1, <1>2 DEF SocketsInv, Resting, Types, EngineerPc
    <3>2. s = "engineer" => pc["caller"] # "init" /\ pc["caller"] # "accept"
      BY <1>0, <1>2 DEF SocketsInv, Resting, Types, CallerPc
    <3> QED
      BY <1>0, <3>1, <3>2 DEF Other
  <2>3. ASSUME NEW t \in Side PROVE SocketOK(t)'
    <3>1. /\ io'[t].call = "failed" => io[t].call = "failed"
          /\ io'[t].call = "ok" => io[t].call = "ok" \/ sock[t].open
          /\ io'[t].call # "failed" => io[t].call # "failed"
      BY <1>1, <1>3
    <3> QED
      BY <1>0, <1>1, <1>6, <2>1, <2>2, <3>1 DEF SocketOK, Lost, NoSocket
  <2> QED
    BY <1>0, <1>1, <2>3 DEF SocketsInv
<1> QED
  BY <1>7, <1>8, <1>9 DEF LocalInv

(* After a step of recv: part of size bytes has come, or all of them.      *)
RecvStep(s, size) ==
  \/ io'[s].call = "recv" /\ io'[s].size >= 1 /\ Len(io'[s].buffer) + io'[s].size = size
  \/ io'[s].call = "ok" /\ Len(io'[s].buffer) = size

(* A recv that returns some bytes.                                         *)
LEMMA RecvLocal ==
  ASSUME LocalInv, NEW s \in Side, NEW k \in Bytes, RecvSome(s, k)
  PROVE  LocalInv'
<1>0. /\ Types /\ CallerIO /\ EngineerIO /\ SocketsInv /\ k \in 1..28
      /\ s \in {"caller", "engineer"} /\ io \in [Side -> IoRec] /\ Other(s) \in Side
      /\ wire \in [Side -> Seq(Byte)] /\ flight \in [Side -> Seq(Seq(Byte))]
  <2>1. s \in {"caller", "engineer"} /\ Other(s) \in Side
    BY DEF Side, Other
  <2> QED
    BY <2>1, Constants DEF LocalInv, Types
<1>1. /\ io[s].call = "recv" /\ k <= io[s].size /\ sock[s].open /\ k <= Len(wire[Other(s)])
      /\ UNCHANGED <<kind, machine, sock, pc, n, got, status, job, lost, reset>>
  BY DEF RecvSome, threads
<1>2. PICK w : w = wire[Other(s)] /\ w \in Seq(Byte) /\ k \in 1..Len(w)
  <2>1. wire[Other(s)] \in Seq(Byte) /\ Len(wire[Other(s)]) \in Nat
    BY <1>0, LenProperties
  <2>2. k \in 1..Len(wire[Other(s)])
    BY <1>0, <1>1, <2>1
  <2> QED
    BY <2>1, <2>2
<1>3. PICK b : b = io[s].buffer \o SubSeq(w, 1, k)
  OBVIOUS
<1>4. /\ b \in Seq(Byte) /\ Len(b) = Len(io[s].buffer) + k
      /\ SubSeq(w, k + 1, Len(w)) \in Seq(Byte) /\ Len(io[s].buffer) \in Nat /\ io[s].size \in Nat
  <2>1. io[s] \in IoRec /\ io[s].buffer \in Seq(Byte) /\ io[s].size \in Nat
    BY <1>0 DEF IoRec
  <2>2. Len(io[s].buffer) \in Nat
    BY <2>1, LenProperties
  <2> QED
    BY <1>2, <1>3, <2>1, <2>2, TakeBytes, ConcatProperties
<1>5. /\ io' = [io EXCEPT ![s] = [call |-> IF io[s].size - k = 0 THEN "ok" ELSE "recv", buffer |-> b, size |-> io[s].size - k]]
      /\ wire' = [wire EXCEPT ![Other(s)] = SubSeq(w, k + 1, Len(w))]
  BY <1>0, <1>2, <1>3 DEF RecvSome, Left
<1>6. /\ io' \in [Side -> IoRec] /\ \A t \in Side : t # s => io'[t] = io[t]
      /\ io'[s].call = (IF k = io[s].size THEN "ok" ELSE "recv")
      /\ io'[s].size = io[s].size - k /\ io'[s].buffer = b
  <2>1. \A x \in Nat : k <= x => x - k \in Nat /\ (x - k = 0 <=> k = x)
    BY <1>0
  <2>2. PICK j : j = io[s].size - k
    OBVIOUS
  <2>3. j \in Nat /\ (j = 0 <=> k = io[s].size)
    BY <1>1, <1>4, <2>1, <2>2
  <2>4. PICK r : r = [call |-> IF j = 0 THEN "ok" ELSE "recv", buffer |-> b, size |-> j]
    OBVIOUS
  <2>5. r \in IoRec
    BY <1>4, <2>3, <2>4 DEF IoRec
  <2>6. io' = [io EXCEPT ![s] = r]
    BY <1>5, <2>2, <2>4
  <2>7. io' \in [Side -> IoRec] /\ io'[s] = r /\ \A t \in Side : t # s => io'[t] = io[t]
    BY <1>0, <2>5, <2>6
  <2> QED
    BY <2>2, <2>3, <2>4, <2>7
<1>7. wire' \in [Side -> Seq(Byte)]
  BY <1>0, <1>4, <1>5
<1>8. flight' \in [Side -> Seq(Seq(Byte))]
  <2>1. flight[Other(s)] # << >> => Tail(flight[Other(s)]) \in Seq(Seq(Byte))
    BY <1>0, HeadTailProperties
  <2> QED
    BY <1>0, <2>1 DEF RecvSome
<1>9. Types'
  BY <1>0, <1>1, <1>6, <1>7, <1>8 DEF Types
<1>10. CallerIO' /\ EngineerIO'
  <2>1. Size(AnswerClass(kind)) \in {8, 12, 20} /\ \A st : Size(ServedClass(st)) \in {12, 28}
    BY <1>0, CallSizes
  <2>4. ASSUME NEW z \in {4, 8, 12, 20, 28}, Len(io[s].buffer) + io[s].size = z
        PROVE  RecvStep(s, z) /\ Len(io'[s].buffer) <= z
    <3>1. PICK x \in Nat, y \in Nat : x = Len(io[s].buffer) /\ y = io[s].size
      BY <1>4
    <3>2. x + y = z /\ k <= y /\ k \in Nat /\ k >= 1
      BY <1>0, <1>1, <2>4, <3>1
    <3>3. (x + k) + (y - k) = z /\ x + k <= z /\ (k # y => y - k >= 1) /\ (k = y => x + k = z)
      BY <3>1, <3>2
    <3>4. Len(io'[s].buffer) = x + k /\ io'[s].size = y - k
      BY <1>4, <1>6, <3>1
    <3>5. io'[s].call = IF k = y THEN "ok" ELSE "recv"
      BY <1>6, <3>1
    <3> QED
      BY <3>3, <3>4, <3>5 DEF RecvStep
  <2>2. CASE s = "caller"
    <3>1. io'["engineer"] = io["engineer"]
      BY <1>6, <2>2 DEF Side
    <3>2. EngineerIO'
      BY <1>0, <1>1, <3>1 DEF EngineerIO, Transfer
    <3>3. pc["caller"] = "await"
      BY <1>0, <1>1, <2>2 DEF CallerIO, Types, CallerPc
    <3>4. Transfer("caller", Size(AnswerClass(kind)))
      BY <1>0, <3>3 DEF CallerIO
    <3>7. Len(io[s].buffer) + io[s].size = Size(AnswerClass(kind))
      BY <1>1, <2>2, <3>4 DEF Transfer
    <3>8. RecvStep("caller", Size(AnswerClass(kind))) /\ Len(io'["caller"].buffer) <= 20
      BY <2>1, <2>2, <2>4, <3>7
    <3>9. UNCHANGED Size(AnswerClass(kind))
      BY <1>1
    <3>5. Transfer("caller", Size(AnswerClass(kind)))' /\ Len(b) <= 20
      BY <1>6, <2>2, <3>8, <3>9 DEF RecvStep, Transfer
    <3>6. CallerIO'
      BY <1>0, <1>1, <1>6, <2>2, <3>3, <3>5 DEF CallerIO
    <3> QED
      BY <3>2, <3>6
  <2>3. CASE s = "engineer"
    <3>1. io'["caller"] = io["caller"]
      BY <1>6, <2>3 DEF Side
    <3>2. CallerIO'
      BY <1>0, <1>1, <3>1 DEF CallerIO, Transfer
    <3>3. pc["engineer"] \in {"status", "receive"}
      BY <1>0, <1>1, <2>3 DEF EngineerIO, Types, EngineerPc
    <3>4. PICK size : /\ size \in {4, 12, 28} /\ Transfer("engineer", size)
                      /\ pc["engineer"] = "status" => size = 4
                      /\ pc["engineer"] = "receive" => size = Size(ServedClass(status))
      BY <1>0, <2>1, <3>3 DEF EngineerIO
    <3>7. Len(io[s].buffer) + io[s].size = size
      BY <1>1, <2>3, <3>4 DEF Transfer
    <3>8. RecvStep("engineer", size) /\ Len(io'["engineer"].buffer) <= 28
      BY <2>3, <2>4, <3>4, <3>7
    <3>5. Transfer("engineer", size)' /\ Len(b) <= 28
      BY <1>6, <2>3, <3>8 DEF RecvStep, Transfer
    <3>6. EngineerIO'
      BY <1>0, <1>1, <1>6, <2>3, <3>3, <3>4, <3>5 DEF EngineerIO
    <3> QED
      BY <3>2, <3>6
  <2> QED
    BY <1>0, <2>2, <2>3
<1>11. SocketsInv'
  <2>1. pc[s] \notin Resting /\ pc[s] # "spin"
    BY <1>0, <1>1 DEF CallerIO, EngineerIO, Types, Resting, CallerPc, EngineerPc
  <2>2. \A t \in Side : SocketOK(t)
    BY <1>0 DEF SocketsInv
  <2>4. \A t \in Side : /\ io'[t].call = "failed" => io[t].call = "failed"
                        /\ io'[t].call = "ok" => io[t].call = "ok" \/ sock[t].open
                        /\ io'[t].call # "failed" => io[t].call # "failed"
    BY <1>1, <1>6
  <2>3. ASSUME NEW t \in Side PROVE SocketOK(t)'
    BY <1>1, <2>2, <2>4 DEF SocketOK, Lost, NoSocket
  <2> QED
    BY <1>0, <1>1, <2>3 DEF SocketsInv
<1> QED
  BY <1>9, <1>10, <1>11 DEF LocalInv

(* What the other side sees of the end of a side.                          *)
LEMMA ShutdownTypes ==
  ASSUME Types, NEW s \in Side, Shutdown(s)
  PROVE  /\ wire' \in [Side -> Seq(Byte)] /\ flight' \in [Side -> Seq(Seq(Byte))]
         /\ reset' \in [Side -> BOOLEAN]
         /\ \A t \in Side : reset'[t] => reset[t] \/ (t = Other(s) /\ sock[s].open)
<1>1. << >> \in Seq(Byte) /\ << >> \in Seq(Seq(Byte))
  BY EmptySeq
<1> QED
  BY <1>1 DEF Shutdown, Types, SocketRec

(* A send or recv that fails.                                              *)
LEMMA FailLocal ==
  ASSUME LocalInv, NEW s \in Side, io[s].call \in {"send", "recv"}, Fails(s)
  PROVE  LocalInv'
<1>0. /\ Types /\ CallerIO /\ EngineerIO /\ SocketsInv /\ Shutdown(s)
      /\ s \in {"caller", "engineer"} /\ io \in [Side -> IoRec] /\ sock \in [Side -> SocketRec]
  BY DEF LocalInv, Side, Types, Fails
<1>1. UNCHANGED <<kind, machine, pc, n, got, status, job, lost, last>>
  BY DEF Fails, threads
<1>2. /\ io' \in [Side -> IoRec] /\ \A t \in Side : t # s => io'[t] = io[t]
      /\ io'[s].call = "failed" /\ io'[s].buffer = << >>
  BY <1>0, EmptySeq DEF Fails, Idle, IoRec
<1>3. /\ sock' \in [Side -> SocketRec] /\ \A t \in Side : t # s => sock'[t] = sock[t]
      /\ ~sock'[s].open /\ ~sock'[s].is_initialized /\ ~sock'[s].valid
  BY <1>0 DEF Fails, Closed, SocketRec
<1>4. pc[s] \notin Resting /\ pc[s] # "spin"
  BY <1>0 DEF CallerIO, EngineerIO, Types, Resting, CallerPc, EngineerPc
<1>5. Types'
  BY <1>0, <1>1, <1>2, <1>3, ShutdownTypes DEF Types
<1>6. CallerIO' /\ EngineerIO'
  <2>1. Len(<< >>) = 0
    OBVIOUS
  <2>2. CallerIO'
    BY <1>0, <1>1, <1>2, <1>4, <2>1 DEF CallerIO, Transfer, Side, Resting
  <2>3. /\ s = "engineer" => pc["engineer"] \in {"status", "receive", "reply"}
        /\ s = "caller" => io'["engineer"] = io["engineer"]
    BY <1>0, <1>2, <1>4 DEF EngineerIO, Types, EngineerPc, Resting, Side
  <2>4. EngineerIO'
    BY <1>0, <1>1, <1>2, <2>1, <2>3 DEF EngineerIO, Transfer
  <2> QED
    BY <2>2, <2>4
<1>7. SocketsInv'
  <2>1. \A t \in Side : SocketOK(t)
    BY <1>0 DEF SocketsInv
  <2>2. ASSUME NEW t \in Side PROVE SocketOK(t)'
    BY <1>0, <1>1, <1>2, <1>3, <1>4, <2>1, ShutdownTypes DEF SocketOK, Lost, NoSocket, Other, Side, Resting
  <2>3. pc["caller"] # "init"
    BY <1>0, <1>4 DEF SocketsInv, Resting
  <2>4. ~sock["caller"].open => ~sock'["caller"].open
    BY <1>0, <1>3 DEF Side
  <2> QED
    BY <1>0, <1>1, <2>2, <2>3, <2>4 DEF SocketsInv
<1> QED
  BY <1>5, <1>6, <1>7 DEF LocalInv

(* A side that ends.                                                       *)
LEMMA EndLocal ==
  ASSUME LocalInv, NEW s \in Side, pc[s] \notin Resting, Ends(s)
  PROVE  LocalInv'
<1>0. /\ Types /\ CallerIO /\ EngineerIO /\ SocketsInv /\ Shutdown(s)
      /\ s \in {"caller", "engineer"} /\ io \in [Side -> IoRec] /\ sock \in [Side -> SocketRec]
  BY DEF LocalInv, Side, Types, Ends
<1>1. UNCHANGED <<kind, machine, n, got, status, job, lost, last>>
  BY DEF Ends
<1>2. /\ io' \in [Side -> IoRec] /\ \A t \in Side : t # s => io'[t] = io[t]
      /\ io'[s].call = "ok" /\ io'[s].buffer = << >>
  BY <1>0, EmptySeq DEF Ends, Idle, IoRec
<1>3. /\ sock' \in [Side -> SocketRec] /\ \A t \in Side : t # s => sock'[t] = sock[t]
      /\ ~sock'[s].open /\ ~sock'[s].is_initialized
  BY <1>0 DEF Ends, Closed, SocketRec
<1>4. pc' = [pc EXCEPT ![s] = "done"]
  BY DEF Ends
<1>5. Types'
  BY <1>0, <1>1, <1>2, <1>3, <1>4, ShutdownTypes DEF Types, CallerPc, EngineerPc
<1>6. CallerIO' /\ EngineerIO'
  <2>1. Len(<< >>) = 0
    OBVIOUS
  <2>2. \A t \in Side : pc'[t] = IF t = s THEN "done" ELSE pc[t]
    BY <1>0, <1>4 DEF Types
  <2> QED
    BY <1>0, <1>1, <1>2, <2>1, <2>2 DEF CallerIO, EngineerIO, Transfer, Side
<1>7. SocketsInv'
  <2>1. (\A t \in Side : SocketOK(t)) /\ \A t \in Side : pc'[t] = IF t = s THEN "done" ELSE pc[t]
    BY <1>0, <1>4 DEF SocketsInv, Types
  <2>2. (s = "engineer" => pc["engineer"] # "accept") /\ pc["caller"] # "init"
    BY <1>0 DEF SocketsInv, Resting
  <2>3. ASSUME NEW t \in Side PROVE SocketOK(t)'
    BY <1>0, <1>1, <1>2, <1>3, <2>1, <2>2, ShutdownTypes DEF SocketOK, Lost, NoSocket, Other, Side, Resting
  <2> QED
    BY <1>0, <2>1, <2>2, <2>3 DEF SocketsInv, Side
<1> QED
  BY <1>5, <1>6, <1>7 DEF LocalInv

(* A step of one side leaves the other side's calls alone.                 *)
LEMMA EngineerUntouched ==
  ASSUME EngineerIO, pc'["engineer"] = pc["engineer"], io'["engineer"] = io["engineer"],
         status' = status, job' = job
  PROVE  EngineerIO'
BY DEF EngineerIO, Transfer

(* What is known of the caller when only the engineer moves.               *)
LEMMA CallerUntouched ==
  ASSUME CallerIO, pc'["caller"] = pc["caller"], io'["caller"] = io["caller"],
         kind' = kind, machine' = machine, n' = n
  PROVE  CallerIO'
BY DEF CallerIO, Transfer

(* Sockets of which none opens or closes, while no thread starts or ends.  *)
LEMMA SocketsUntouched ==
  ASSUME SocketsInv, sock' = sock, reset' = reset, lost' = lost, kind' = kind,
         pc["caller"] \in Resting => n' = n,
         pc["engineer"] = "accept" /\ pc["caller"] \notin Resting =>
           pc'["caller"] \in {"identify", "next"} /\ n' = n /\
           (pc'["caller"] = "next" => io'["caller"].call \in {"ok", "failed"}),
         \A s \in Side : /\ pc[s] \in Resting \/ pc'[s] \in Resting => pc'[s] = pc[s]
                         /\ pc'[s] \in {"identify", "status"} => pc'[s] = pc[s] /\ io'[s] = io[s]
                         /\ pc'[s] \notin Resting /\ pc'[s] # "spin" =>
                              /\ io'[s].call = "ok" => sock[s].open
                              /\ io'[s].call = "failed" => ~sock[s].open /\ ~sock[s].valid
  PROVE  SocketsInv'
<1>1. \A s \in Side : SocketOK(s) /\ Other(s) \in Side
  BY DEF SocketsInv, Other, Side
<1>2. ASSUME NEW s \in Side PROVE SocketOK(s)'
  <2>1. pc'[Other(s)] \in {"init", "accept"} => pc'[Other(s)] = pc[Other(s)]
    BY <1>1 DEF Resting
  <2>2. pc'["engineer"] = "accept" <=> pc["engineer"] = "accept"
    BY DEF Resting, Side
  <2>3. NoSocket(s) => s = "caller" /\ pc[s] = "identify"
    BY DEF NoSocket
  <2>4. NoSocket(s) /\ pc'[s] = pc[s] => NoSocket(s)'
    BY <2>2 DEF NoSocket
  <2>5. Lost(s)' <=> Lost(s)
    BY DEF Lost
  <2>6. SocketOK(s) /\ Other(s) \in Side
    BY <1>1
  <2>7. NoSocket(s) => NoSocket(s)' \/ (pc'[s] = "next" /\ ~sock[s].open /\ io'[s].call \in {"ok", "failed"})
    BY <2>4 DEF NoSocket, Resting
  <2>8. pc'[s] = "next" /\ ~sock[s].open /\ io'[s].call \in {"ok", "failed"} => ~sock[s].valid
    BY DEF Resting
  <2> QED
    BY <2>1, <2>2, <2>3, <2>4, <2>5, <2>6, <2>7, <2>8 DEF SocketOK, Resting
<1>3. pc'["caller"] = "init" => pc["caller"] = "init"
  BY DEF Side, Resting
<1>4. pc'["engineer"] = "accept" <=> pc["engineer"] = "accept"
  BY DEF Side, Resting
<1>5. pc["caller"] \in {"init", "done"} => pc'["caller"] = pc["caller"]
  BY DEF Side, Resting
<1> QED
  BY <1>2, <1>3, <1>4, <1>5 DEF SocketsInv, Resting

(* The steps of the caller.                                                *)
LEMMA CallerLocal ==
  ASSUME LocalInv, Caller
  PROVE  LocalInv'
<1>0. /\ Types /\ CallerIO /\ EngineerIO /\ SocketsInv /\ kind \in Kind
      /\ io \in [Side -> IoRec] /\ sock \in [Side -> SocketRec] /\ n \in Nat
      /\ pc \in [Side -> CallerPc \cup EngineerPc] /\ NumRequests \in Nat /\ NumRequests >= 1
      /\ pc["engineer"] \in EngineerPc
  BY Constants DEF LocalInv, Types
<1>1. /\ << >> \in Seq(Byte) /\ Len(<< >>) = 0
      /\ IdentOf(kind, machine) \in Seq(Byte) /\ Len(IdentOf(kind, machine)) = 4 /\ RequestOf(kind, machine, n) \in Seq(Byte)
      /\ Len(RequestOf(kind, machine, n)) = Size(RequestClass(kind))
      /\ Size(RequestClass(kind)) = IF kind = "primary" THEN 28 ELSE 12
      /\ Size(AnswerClass(kind)) \in {8, 12, 20}
  BY <1>0, EmptySeq, CallSizes
<1>2. \A t \in {"caller", "engineer"} : t \in Side
  BY DEF Side
<1>3. CASE Connect
  <2>12. StatusBytes(machine["caller"], WordOf(Announced)) = IdentOf(kind, machine)
    BY DEF IdentOf, Announced
  <2>13. /\ sock'["caller"] = [open |-> TRUE, is_initialized |-> TRUE, valid |-> TRUE]
         /\ \/ /\ lost' = FALSE
               /\ sock'["engineer"] = [open |-> TRUE, is_initialized |-> TRUE, valid |-> TRUE]
            \/ /\ lost' = TRUE
               /\ sock'["engineer"] = [open |-> FALSE, is_initialized |-> TRUE, valid |-> FALSE]
         /\ sock' = [s \in Side |-> sock'[s]]
    <3>1. PICK fails \in BOOLEAN : /\ sock' = [s \in Side |-> Accepted(s = "engineer" /\ fails)]
                                  /\ lost' = fails
      BY <1>3 DEF Connect
    <3>2. sock'["caller"] = Accepted(FALSE) /\ sock'["engineer"] = Accepted(fails) /\ sock' = [s \in Side |-> sock'[s]]
      BY <1>2, <3>1
    <3>3. CASE fails = TRUE
      BY <3>1, <3>2, <3>3 DEF Accepted
    <3>4. CASE fails = FALSE
      BY <3>1, <3>2, <3>4 DEF Accepted
    <3> QED
      BY <3>3, <3>4
  <2>1. /\ pc["caller"] = "init" /\ pc' = [s \in Side |-> IF s = "caller" THEN "identify" ELSE "status"]
        /\ io'["caller"] = [call |-> "send", buffer |-> IdentOf(kind, machine), size |-> 4]
        /\ io'["engineer"] = [call |-> "recv", buffer |-> << >>, size |-> 4]
        /\ io' = [s \in Side |-> IF s = "caller" THEN io'["caller"] ELSE io'["engineer"]]
        /\ UNCHANGED <<kind, machine, n, got, status, job, wire, reset, flight, last>>
    BY <1>1, <1>2, <1>3, <2>12, Constants DEF Connect, SendsStatus, Sending, Receiving
  <2>2. io'["caller"] \in IoRec /\ io'["engineer"] \in IoRec
    BY <1>1, <2>1 DEF IoRec
  <2>3. Types'
    <3>2. sock'["caller"] \in SocketRec /\ sock'["engineer"] \in SocketRec
      <4>1. \A a, b, c \in BOOLEAN : [open |-> a, is_initialized |-> b, valid |-> c] \in SocketRec
        BY DEF SocketRec
      <4>2. /\ [open |-> TRUE, is_initialized |-> TRUE, valid |-> TRUE] \in SocketRec
            /\ [open |-> FALSE, is_initialized |-> TRUE, valid |-> FALSE] \in SocketRec
        BY <4>1
      <4> QED
        BY <2>13, <4>2
    <3>1. sock' \in [Side -> SocketRec]
      BY <2>13, <3>2 DEF Side
    <3> QED
      BY <1>0, <1>2, <2>1, <2>2, <3>1 DEF Types, CallerPc, EngineerPc
  <2>7. pc'["caller"] = "identify" /\ pc'["engineer"] = "status" /\ kind' = kind /\ machine' = machine
    BY <1>2, <2>1
  <2>8. /\ io'["caller"].call = "send" /\ io'["caller"].buffer = IdentOf(kind, machine) /\ io'["caller"].size = 4
        /\ io'["engineer"].call = "recv" /\ io'["engineer"].buffer = << >> /\ io'["engineer"].size = 4
    BY <2>1
  <2>9. Len(io'["caller"].buffer) = 4 /\ Len(io'["engineer"].buffer) = 0
    BY <1>1, <2>8
  <2>10. CallerIO'
    BY <2>7, <2>8, <2>9 DEF CallerIO, Transfer
  <2>11. EngineerIO'
    BY <2>7, <2>8, <2>9 DEF EngineerIO, Transfer
  <2>4. CallerIO' /\ EngineerIO'
    BY <2>10, <2>11
  <2>5. ~reset["caller"] /\ ~reset["engineer"]
    BY <1>0, <1>2, <2>1 DEF SocketsInv, SocketOK, Lost, NoSocket, Other, Side
  <2>14. SocketOK("caller")'
    BY <2>1, <2>5, <2>7, <2>8, <2>13 DEF SocketOK, Lost, NoSocket, Resting
  <2>15. SocketOK("engineer")'
    BY <2>1, <2>5, <2>7, <2>8, <2>13 DEF SocketOK, Lost, NoSocket, Resting
  <2>6. SocketsInv'
    BY <2>7, <2>14, <2>15 DEF SocketsInv, Side
  <2> QED
    BY <2>3, <2>4, <2>6 DEF LocalInv
<1>4. CASE ConnectFails
  <2>1. /\ pc["caller"] = "init" /\ pc' = [pc EXCEPT !["caller"] = "done"]
        /\ sock'["caller"].open /\ ~sock'["caller"].valid /\ sock'["engineer"] = sock["engineer"]
        /\ sock'["caller"].is_initialized = sock["caller"].is_initialized
        /\ sock' \in [Side -> SocketRec]
        /\ UNCHANGED <<kind, machine, io, n, got, status, job, wire, reset, lost, flight, last>>
    BY <1>0, <1>2, <1>4 DEF ConnectFails, SocketRec, Side
  <2>2. Types'
    BY <1>0, <1>2, <2>1 DEF Types, CallerPc, EngineerPc
  <2>3. CallerIO' /\ EngineerIO'
    BY <1>0, <1>2, <2>1, EngineerUntouched DEF CallerIO, Transfer
  <2>4. pc["engineer"] = "accept" /\ n = 0 /\ ~sock["caller"].open /\ ~reset["caller"] /\ ~reset["engineer"]
    BY <1>0, <1>2, <2>1 DEF SocketsInv, SocketOK, Lost, NoSocket, Other, Side
  <2>5. SocketsInv'
    BY <1>0, <1>2, <2>1, <2>4 DEF SocketsInv, SocketOK, Lost, NoSocket, Side, Resting
  <2> QED
    BY <2>2, <2>3, <2>5 DEF LocalInv
<1>13. CASE SocketFails
  <2>1. /\ pc["caller"] = "init"
        /\ UNCHANGED <<kind, machine, sock, n, got, status, job, wire, reset, lost, flight, last>>
    BY <1>13 DEF SocketFails
  <2>2. pc["engineer"] = "accept" /\ n = 0 /\ ~sock["caller"].open /\ ~sock["caller"].is_initialized
    BY <1>0, <1>2, <2>1 DEF SocketsInv, SocketOK, Other
  <2>3. \A s \in Side : SocketOK(s)
    BY <1>0 DEF SocketsInv
  <2>4. CASE kind = "primary"
    <3>1. PICK r : r = [call |-> "send", buffer |-> IdentOf(kind, machine), size |-> 4]
      OBVIOUS
    <3>2. r = SendsStatus
      BY <1>1, <3>1 DEF SendsStatus, Sending, IdentOf, Announced
    <3>3. pc' = [pc EXCEPT !["caller"] = "identify"] /\ io' = [io EXCEPT !["caller"] = r]
      BY <1>13, <2>4, <3>2 DEF SocketFails
    <3>4. r \in IoRec
      BY <1>1, <3>1 DEF IoRec
    <3>5. /\ pc'["caller"] = "identify" /\ pc'["engineer"] = pc["engineer"]
          /\ io' \in [Side -> IoRec] /\ io'["caller"] = r /\ io'["engineer"] = io["engineer"]
      BY <1>0, <1>2, <3>3, <3>4
    <3>6. Types'
      BY <1>0, <2>1, <3>3, <3>5 DEF Types, CallerPc
    <3>11. /\ io'["caller"].call = "send" /\ io'["caller"].buffer = IdentOf(kind, machine)
           /\ io'["caller"].size = 4 /\ Len(io'["caller"].buffer) = 4 /\ kind' = kind /\ machine' = machine
      BY <1>1, <2>1, <3>1, <3>5
    <3>7. CallerIO'
      BY <3>5, <3>11 DEF CallerIO, Transfer
    <3>8. EngineerIO'
      BY <1>0, <2>1, <3>5, EngineerUntouched
    <3>9. ASSUME NEW s \in Side PROVE SocketOK(s)'
      BY <2>1, <2>2, <2>3, <2>4, <3>1, <3>5 DEF SocketOK, Lost, NoSocket, Other, Side, Resting
    <3>10. SocketsInv'
      BY <2>1, <2>2, <2>4, <3>5, <3>9 DEF SocketsInv
    <3> QED
      BY <3>6, <3>7, <3>8, <3>10 DEF LocalInv
  <2>5. CASE kind # "primary"
    <3>1. pc' = [pc EXCEPT !["caller"] = "done"] /\ io' = io
      BY <1>13, <2>5 DEF SocketFails
    <3>2. pc'["caller"] = "done" /\ pc'["engineer"] = pc["engineer"]
      BY <1>0, <1>2, <3>1
    <3>3. Types'
      BY <1>0, <2>1, <3>1, <3>2 DEF Types, CallerPc
    <3>4. CallerIO' /\ EngineerIO'
      BY <1>0, <2>1, <3>1, <3>2, EngineerUntouched DEF CallerIO, Transfer
    <3>5. ASSUME NEW s \in Side PROVE SocketOK(s)'
      BY <2>1, <2>2, <2>3, <3>1, <3>2 DEF SocketOK, Lost, NoSocket, Other, Side, Resting
    <3>6. SocketsInv'
      BY <2>1, <2>2, <3>2, <3>5 DEF SocketsInv
    <3> QED
      BY <3>3, <3>4, <3>6 DEF LocalInv
  <2> QED
    BY <2>4, <2>5
<1> DEFINE Calling(p, r) == /\ pc' = [pc EXCEPT !["caller"] = p] /\ io' = [io EXCEPT !["caller"] = r]
                            /\ UNCHANGED <<kind, machine, sock, status, job, wire, reset, lost, flight, last>>
<1>5. ASSUME NEW p, NEW r, Calling(p, r), r \in IoRec, p \in CallerPc \ Resting, p # "identify", pc["caller"] \notin Resting,
             n' \in 0..NumRequests,
             r.call = "ok" => sock["caller"].open, r.call = "failed" => ~sock["caller"].open /\ ~sock["caller"].valid,
             pc["engineer"] = "accept" => p = "next" /\ n' = n /\ r.call \in {"ok", "failed"}
      PROVE  /\ Types' /\ EngineerIO' /\ SocketsInv' /\ pc'["caller"] = p /\ io'["caller"] = r
  <2>1. /\ pc'["caller"] = p /\ io'["caller"] = r /\ io' \in [Side -> IoRec]
        /\ pc'["engineer"] = pc["engineer"] /\ io'["engineer"] = io["engineer"]
    BY <1>0, <1>2, <1>5
  <2>2. Types'
    BY <1>0, <1>5, <2>1 DEF Types
  <2>3. EngineerIO'
    BY <1>0, <1>5, <2>1, EngineerUntouched
  <2>4. \A s \in Side : SocketOK(s)
    BY <1>0 DEF SocketsInv
  <2>6. sock' = sock /\ reset' = reset /\ lost' = lost /\ kind' = kind
    BY <1>5
  <2>7. pc["engineer"] = "accept" =>
          pc'["caller"] \in {"identify", "next"} /\ n' = n /\
          (pc'["caller"] = "next" => io'["caller"].call \in {"ok", "failed"})
    BY <1>5, <2>1
  <2>5. SocketsInv'
    <3>1. p \notin {"identify", "status"} /\ p \notin Resting
      BY <1>5 DEF CallerPc
    <3>2. ASSUME NEW s \in Side
          PROVE  /\ pc[s] \in Resting \/ pc'[s] \in Resting => pc'[s] = pc[s]
                 /\ pc'[s] \in {"identify", "status"} => pc'[s] = pc[s] /\ io'[s] = io[s]
                 /\ pc'[s] \notin Resting /\ pc'[s] # "spin" =>
                      /\ io'[s].call = "ok" => sock[s].open
                      /\ io'[s].call = "failed" => ~sock[s].open /\ ~sock[s].valid
      <4>1. CASE s = "caller"
        BY <1>5, <2>1, <3>1, <4>1
      <4>2. CASE s = "engineer"
        BY <2>1, <2>4, <4>2 DEF SocketOK, Lost, NoSocket
      <4> QED
        BY <4>1, <4>2 DEF Side
    <3> HIDE DEF Calling
    <3> QED
      BY <1>0, <1>5, <2>6, <2>7, <3>2, SocketsUntouched, Zenon
  <2> QED
    BY <2>1, <2>2, <2>3, <2>5
<1>6. pc["caller"] \notin Resting => pc["caller"] # "spin" /\
        (io["caller"].call = "ok" => sock["caller"].open) /\ (io["caller"].call = "failed" => ~sock["caller"].open /\ ~sock["caller"].valid)
  BY <1>0, <1>2 DEF SocketsInv, SocketOK, Lost, NoSocket, Types, CallerPc
<1>14. pc["engineer"] = "accept" => pc["caller"] \notin {"ask", "await", "end"} /\ (pc["caller"] = "next" => ~MayAsk)
  BY <1>0, <1>2 DEF SocketsInv, SocketOK, NoSocket, MayAsk, Resting
<1>7. io["caller"] \in IoRec /\ io = [io EXCEPT !["caller"] = io["caller"]] /\ Len(io["caller"].buffer) \in Nat
  BY <1>0, <1>2, LenProperties DEF IoRec
<1>8. CASE Identified
  <2>1. pc["caller"] = "identify" /\ Calling("next", io["caller"]) /\ n' = n /\ io["caller"].call \in {"ok", "failed"}
    BY <1>7, <1>8 DEF Identified
  <2>2. Types' /\ EngineerIO' /\ SocketsInv' /\ pc'["caller"] = "next" /\ io'["caller"] = io["caller"]
    BY <1>0, <1>5, <1>6, <1>7, <2>1 DEF Resting, CallerPc, Types
  <2>3. CallerIO'
    BY <1>0, <2>1, <2>2 DEF CallerIO
  <2> QED
    BY <2>2, <2>3 DEF LocalInv
<1>9. CASE Ask
  <2>1. PICK r : r = [call |-> "send", buffer |-> RequestOf(kind, machine, n), size |-> Size(RequestClass(kind))]
    OBVIOUS
  <2>6. r = Sending(Marshal(machine["caller"], RequestClass(kind), Request(kind, n)))
    BY <1>1, <2>1 DEF Sending, RequestOf
  <2>7. n < NumRequests
    BY <1>0, <1>9 DEF Ask, MayAsk, Wanted
  <2>2. pc["caller"] = "next" /\ MayAsk /\ Calling("ask", r) /\ n' = n /\ n < NumRequests
    BY <1>9, <2>6, <2>7 DEF Ask
  <2>3. r \in IoRec /\ r.call = "send"
    BY <1>1, <2>1 DEF IoRec
  <2>8. pc["engineer"] # "accept"
    BY <1>14, <2>2
  <2>4. Types' /\ EngineerIO' /\ SocketsInv' /\ pc'["caller"] = "ask" /\ io'["caller"] = r
    <3>1. /\ "ask" \in CallerPc \ Resting /\ pc["caller"] \notin Resting
          /\ n' \in 0..NumRequests
      BY <1>0, <2>2 DEF Resting, CallerPc
    <3> HIDE DEF Calling
    <3> QED
      BY <1>5, <2>2, <2>3, <2>8, <3>1
  <2>5. CallerIO'
    BY <1>0, <1>1, <2>1, <2>2, <2>4 DEF CallerIO, Transfer, RequestOf
  <2> QED
    BY <2>4, <2>5 DEF LocalInv
<1>10. CASE Await
  <2>1. PICK r : r = [call |-> "recv", buffer |-> << >>, size |-> Size(AnswerClass(kind))]
    OBVIOUS
  <2>2. pc["caller"] = "ask" /\ Calling("await", r) /\ n' = n /\ n < NumRequests
    BY <1>0, <1>10, <2>1 DEF Await, Receiving, CallerIO
  <2>3. r \in IoRec /\ r.call = "recv"
    BY <1>1, <2>1 DEF IoRec
  <2>8. pc["engineer"] # "accept"
    BY <1>14, <2>2
  <2>4. Types' /\ EngineerIO' /\ SocketsInv' /\ pc'["caller"] = "await" /\ io'["caller"] = r
    <3>1. /\ "await" \in CallerPc \ Resting /\ pc["caller"] \notin Resting
          /\ n' \in 0..NumRequests
      BY <1>0, <2>2 DEF Resting, CallerPc
    <3> HIDE DEF Calling
    <3> QED
      BY <1>5, <2>2, <2>3, <2>8, <3>1
  <2>5. CallerIO'
    BY <1>0, <1>1, <2>1, <2>2, <2>4 DEF CallerIO, Transfer
  <2> QED
    BY <2>4, <2>5 DEF LocalInv
<1>11. CASE CallReturns
  <2>1. PICK p : p \in {"end", "next"} /\ Calling(p, io["caller"]) /\ n' = n + 1
    BY <1>7, <1>11 DEF CallReturns
  <2>2. pc["caller"] \in {"ask", "await"} /\ n < NumRequests /\ io["caller"].call \in {"ok", "failed"}
    BY <1>0, <1>11 DEF CallReturns, CallerIO
  <2>3. Types' /\ EngineerIO' /\ SocketsInv' /\ pc'["caller"] = p /\ io'["caller"] = io["caller"]
    <3>1. n' \in 0..NumRequests
      BY <1>0, <2>1, <2>2
    <3>2. pc["caller"] \notin Resting /\ p \in CallerPc \ Resting
      BY <2>1, <2>2 DEF Resting, CallerPc
    <3> HIDE DEF Calling
    <3> QED
      BY <1>5, <1>6, <1>7, <1>14, <2>1, <2>2, <3>1, <3>2
  <2>4. CallerIO'
    BY <1>0, <2>1, <2>2, <2>3 DEF CallerIO
  <2> QED
    BY <2>3, <2>4 DEF LocalInv
<1>12. CASE ClientEnds
  BY <1>2, <1>12, EndLocal DEF ClientEnds, Resting
<1> QED
  BY <1>3, <1>4, <1>8, <1>9, <1>10, <1>11, <1>12, <1>13 DEF Caller

(* The steps of the engineer thread.                                       *)

(* What the head of its loop starts.                                       *)
LEMMA LoopStarts ==
  ASSUME Types, NEW st \in Word, Loop(st)
  PROVE  LET on == st \in {WordOf(1), WordOf(2)}
             r == [call |-> IF on THEN "recv" ELSE "ok", buffer |-> << >>,
                   size |-> IF on THEN Size(ServedClass(st)) ELSE 0]
         IN /\ pc' = [pc EXCEPT !["engineer"] = IF on THEN "receive" ELSE "spin"]
            /\ io' = [io EXCEPT !["engineer"] = r]
            /\ r \in IoRec
<1>1. WordOf(1) # WordOf(2)
  BY SmallWords
<1>2. << >> \in Seq(Byte) /\ Size(ServedClass(st)) \in {12, 28}
  BY EmptySeq, CallSizes
<1>3. CASE st = WordOf(2)
  BY <1>1, <1>2, <1>3 DEF Loop, Receiving, ServedClass, IoRec
<1>4. CASE st = WordOf(1)
  BY <1>1, <1>2, <1>4 DEF Loop, Receiving, ServedClass, IoRec
<1>5. CASE st \notin {WordOf(1), WordOf(2)}
  BY <1>1, <1>2, <1>5 DEF Loop, Idle, IoRec
<1> QED
  BY <1>3, <1>4, <1>5

(* What an engineer thread sends is an answer, whose size fits.            *)
LEMMA AnswersTyped ==
  ASSUME Types, NEW lo \in {-1, 0}, job \in Object(ServedClass(status))
  PROVE  Answers(lo) \in Seq(Byte) /\ Len(Answers(lo)) <= 20
<1> DEFINE me == machine["engineer"]
<1>1. me \in ByteOrder
  BY Constants DEF Types
<1>2. CASE status = WordOf(2)
  <2>1. job \in [ReplicationRequest -> Word]
    BY <1>2 DEF ServedClass, Object, Members
  <2>2. job.arg1 \in Word /\ job.arg2 \in Word
    BY <2>1 DEF ReplicationRequest, MapOp
  <2>3. PICK o : o = [customer_id |-> job.arg1, order_number |-> job.arg2, laptop_type |-> WordOf(4)]
    OBVIOUS
  <2>4. o \in Object("LaptopOrder")
    BY <2>2, <2>3, WordOfInt DEF Object, Members, LaptopOrder
  <2>5. Answers(lo) = Marshal(me, "LaptopOrder", o)
    BY <1>2, <2>3 DEF Answers
  <2> QED
    BY <1>1, <2>4, <2>5, Marshalled, Sizes DEF Class
<1>3. CASE status # WordOf(2)
  <2>1. job \in [LaptopOrder -> Word]
    BY <1>3 DEF ServedClass, Object, Members
  <2>2. job.customer_id \in Word
    BY <2>1 DEF LaptopOrder
  <2>3. CASE job.laptop_type = WordOf(1)
    <3>1. PICK o : o = CopyOrder(job, 0, 1)
      OBVIOUS
    <3>2. \A f \in LaptopInfo : f \in LaptopOrder \cup {"engineer_id", "admin_id"}
      BY DEF LaptopInfo, LaptopOrder
    <3>3. o \in [LaptopInfo -> Word]
      BY <2>1, <3>1, <3>2, WordOfInt DEF CopyOrder
    <3>4. o \in Object("LaptopInfo")
      BY <3>3 DEF Object, Members
    <3>5. Answers(lo) = Marshal(me, "LaptopInfo", o)
      BY <1>3, <2>3, <3>1 DEF Answers
    <3> QED
      BY <1>1, <3>4, <3>5, Marshalled, Sizes DEF Class
  <2>4. CASE job.laptop_type # WordOf(1) /\ job.laptop_type \in {WordOf(2), WordOf(3)}
    <3>1. PICK o : o = [customer_id |-> job.customer_id, last_order |-> WordOf(lo)]
      OBVIOUS
    <3>2. o \in Object("CustomerRecord")
      BY <2>2, <3>1, WordOfInt DEF Object, Members, CustomerRecord
    <3>3. Answers(lo) = Marshal(me, "CustomerRecord", o)
      BY <1>3, <2>4, <3>1 DEF Answers
    <3> QED
      BY <1>1, <3>2, <3>3, Marshalled, Sizes DEF Class
  <2>5. CASE job.laptop_type \notin {WordOf(1), WordOf(2), WordOf(3)}
    <3>1. Answers(lo) = << >>
      BY <1>3, <2>5 DEF Answers
    <3> QED
      BY <3>1, EmptySeq
  <2> QED
    BY <2>3, <2>4, <2>5
<1> QED
  BY <1>2, <1>3

(* A request is only served if a whole one has come.                       *)
LEMMA WholeRequest ==
  ASSUME LocalInv, pc["engineer"] = "receive", io["engineer"].call \in {"ok", "failed"}, ~Stops
  PROVE  /\ io["engineer"].call = "ok"
         /\ io["engineer"].buffer \in Seq(Byte)
         /\ Len(io["engineer"].buffer) = Size(ServedClass(status))
         /\ Received = Unmarshal(machine["engineer"], ServedClass(status), io["engineer"].buffer)
         /\ Received \in Object(ServedClass(status))
<1>0. /\ Types /\ EngineerIO /\ SocketOK("engineer") /\ io["engineer"] \in IoRec
      /\ machine["engineer"] \in ByteOrder
  BY Constants DEF LocalInv, SocketsInv, Types, Side
<1>1. io["engineer"].call = "ok"
  <2>1. SUFFICES ASSUME io["engineer"].call = "failed" PROVE FALSE
    OBVIOUS
  <2>2. ~sock["engineer"].open /\ ~sock["engineer"].valid
    BY <1>0, <2>1 DEF SocketOK, Lost, NoSocket, Resting
  <2>3. status # WordOf(2)
    BY <2>2 DEF Stops
  <2>4. Received = NewLaptopOrder
    BY <2>1 DEF Received
  <2> QED
    BY <2>3, <2>4 DEF Stops, IsValid, NewLaptopOrder, LaptopOrder
<1>2. io["engineer"].buffer \in Seq(Byte) /\ Len(io["engineer"].buffer) = Size(ServedClass(status))
  BY <1>0, <1>1 DEF EngineerIO, Transfer, IoRec
<1>3. Received = Unmarshal(machine["engineer"], ServedClass(status), io["engineer"].buffer)
  BY <1>1 DEF Received, ServedClass
<1>4. ServedClass(status) \in Class
  BY DEF ServedClass, Class
<1> QED
  BY <1>0, <1>1, <1>2, <1>3, <1>4, Unmarshalled

(* The steps of the engineer thread keep LocalInv.                         *)
LEMMA EngineerLocal ==
  ASSUME LocalInv, EngineerThread
  PROVE  LocalInv'
<1>0. /\ Types /\ CallerIO /\ EngineerIO /\ SocketsInv /\ "engineer" \in Side /\ "caller" \in Side
      /\ io \in [Side -> IoRec] /\ sock \in [Side -> SocketRec]
      /\ pc \in [Side -> CallerPc \cup EngineerPc] /\ io["engineer"] \in IoRec
      /\ machine["engineer"] \in ByteOrder
  BY Constants DEF LocalInv, Types, Side
<1>1. << >> \in Seq(Byte) /\ Len(<< >>) = 0 /\ \A st : Size(ServedClass(st)) \in {12, 28}
  BY <1>0, EmptySeq, CallSizes
<1> DEFINE Working(p, r) == /\ pc' = [pc EXCEPT !["engineer"] = p] /\ io' = [io EXCEPT !["engineer"] = r]
                            /\ UNCHANGED <<kind, machine, sock, n, got, wire, reset, lost, flight, last>>
<1>2. ASSUME NEW p, NEW r, Working(p, r), r \in IoRec, p \in EngineerPc \ Resting, p # "status", pc["engineer"] \notin Resting,
             status' \in Word,
             p # "spin" => (r.call = "ok" => sock["engineer"].open) /\ (r.call = "failed" => ~sock["engineer"].open /\ ~sock["engineer"].valid)
      PROVE  /\ Types' /\ CallerIO' /\ SocketsInv' /\ pc'["engineer"] = p /\ io'["engineer"] = r
  <2>1. /\ pc'["engineer"] = p /\ io'["engineer"] = r /\ io' \in [Side -> IoRec]
        /\ pc'["caller"] = pc["caller"] /\ io'["caller"] = io["caller"]
    BY <1>0, <1>2
  <2>2. Types'
    BY <1>0, <1>2, <2>1 DEF Types
  <2>3. CallerIO'
    BY <1>0, <1>2, <2>1, CallerUntouched
  <2>4. \A s \in Side : SocketOK(s)
    BY <1>0 DEF SocketsInv
  <2>6. sock' = sock /\ reset' = reset /\ lost' = lost /\ kind' = kind /\ n' = n
    BY <1>2
  <2>7. pc["engineer"] # "accept"
    BY <1>2 DEF Resting
  <2>5. SocketsInv'
    <3>1. p \notin {"identify", "status"} /\ p \notin Resting
      BY <1>2 DEF EngineerPc
    <3>2. ASSUME NEW s \in Side
          PROVE  /\ pc[s] \in Resting \/ pc'[s] \in Resting => pc'[s] = pc[s]
                 /\ pc'[s] \in {"identify", "status"} => pc'[s] = pc[s] /\ io'[s] = io[s]
                 /\ pc'[s] \notin Resting /\ pc'[s] # "spin" =>
                      /\ io'[s].call = "ok" => sock[s].open
                      /\ io'[s].call = "failed" => ~sock[s].open /\ ~sock[s].valid
      <4>1. CASE s = "engineer"
        BY <1>2, <2>1, <3>1, <4>1
      <4>2. CASE s = "caller"
        BY <2>1, <2>4, <4>2 DEF SocketOK, Lost, NoSocket
      <4> QED
        BY <4>1, <4>2 DEF Side
    <3> HIDE DEF Working
    <3> QED
      BY <1>0, <2>6, <2>7, <3>2, SocketsUntouched, Zenon
  <2> QED
    BY <2>1, <2>2, <2>3, <2>5
<1>3. pc["engineer"] \notin Resting /\ pc["engineer"] # "spin" =>
        (io["engineer"].call = "ok" => sock["engineer"].open) /\ (io["engineer"].call = "failed" => ~sock["engineer"].open /\ ~sock["engineer"].valid)
  BY <1>0 DEF SocketsInv, SocketOK, Lost, NoSocket
<1>4. ASSUME NEW st \in Word, Loop(st), status' = st, pc["engineer"] \notin Resting,
             UNCHANGED <<kind, machine, sock, n, got, wire, reset, lost, flight, last>>
      PROVE  LocalInv'
  <2> DEFINE on == st \in {WordOf(1), WordOf(2)}
             p == IF on THEN "receive" ELSE "spin"
             r == [call |-> IF on THEN "recv" ELSE "ok", buffer |-> << >>,
                   size |-> IF on THEN Size(ServedClass(st)) ELSE 0]
  <2>1. Working(p, r) /\ r \in IoRec
    BY <1>0, <1>4, LoopStarts
  <2>2. /\ p \in EngineerPc \ Resting /\ p # "status"
        /\ p # "spin" => (r.call = "ok" => sock["engineer"].open) /\ (r.call = "failed" => ~sock["engineer"].open /\ ~sock["engineer"].valid)
    BY DEF EngineerPc, Resting
  <2>3. Types' /\ CallerIO' /\ SocketsInv' /\ pc'["engineer"] = p /\ io'["engineer"] = r
    <3> HIDE DEF Working, p, r
    <3> QED
      BY <1>2, <1>4, <2>1, <2>2
  <2>4. PICK size : size = Size(ServedClass(st)) /\ size \in {12, 28}
    BY <1>1
  <2>5. Len(io'["engineer"].buffer) = 0 /\ (on => pc'["engineer"] = "receive" /\ io'["engineer"].call = "recv" /\ io'["engineer"].size = size)
        /\ (~on => pc'["engineer"] = "spin" /\ io'["engineer"].call = "ok")
    BY <1>1, <2>3, <2>4
  <2>6. EngineerIO'
    <3> HIDE DEF p, r
    <3> QED
      BY <1>4, <2>4, <2>5 DEF EngineerIO, Transfer
  <2> QED
    BY <2>3, <2>6 DEF LocalInv
<1>5. CASE ReceiveStatusInfo
  <2>1. status' \in Word
    <3>1. io["engineer"].call = "ok" => StatusOf(machine["engineer"], io["engineer"].buffer) \in Word
      BY <1>0, <1>5, FourBytes, MemoryOfWord DEF ReceiveStatusInfo, EngineerIO, Transfer, IoRec, StatusOf
    <3> QED
      BY <1>5, <3>1, WordOfInt DEF ReceiveStatusInfo, Garbage
  <2>2. PICK st \in Word : st = status'
    BY <2>1
  <2>3. Loop(st) /\ pc["engineer"] \notin Resting
    BY <1>5, <2>2 DEF ReceiveStatusInfo, Resting
  <2> QED
    BY <1>4, <1>5, <2>2, <2>3 DEF ReceiveStatusInfo
<1>6. CASE ReceiveRequest
  <2>1. /\ pc["engineer"] = "receive" /\ io["engineer"].call \in {"ok", "failed"} /\ ~Stops
        /\ Working("serve", io["engineer"]) /\ job' = Received /\ status' = status
    BY <1>0, <1>6 DEF ReceiveRequest
  <2>2. io["engineer"].call = "ok" /\ Received \in Object(ServedClass(status))
    BY <2>1, WholeRequest
  <2>3. Types' /\ CallerIO' /\ SocketsInv' /\ pc'["engineer"] = "serve" /\ io'["engineer"] = io["engineer"]
    <3>1. "serve" \in EngineerPc \ Resting /\ pc["engineer"] \notin Resting /\ pc["engineer"] # "spin" /\ status' \in Word
      BY <1>0, <2>1 DEF Resting, EngineerPc, Types
    <3> HIDE DEF Working
    <3> QED
      BY <1>0, <1>2, <1>3, <2>1, <3>1
  <2>4. EngineerIO'
    BY <1>0, <2>1, <2>2, <2>3 DEF EngineerIO
  <2> QED
    BY <2>3, <2>4 DEF LocalInv
<1>7. CASE EngineerReturns
  BY <1>0, <1>7, EndLocal DEF EngineerReturns, Resting
<1>8. CASE Serve
  <2>1. /\ pc["engineer"] = "serve" /\ job \in Object(ServedClass(status)) /\ status \in {WordOf(1), WordOf(2)}
        /\ pc["engineer"] \notin Resting /\ status' = status /\ job' = job /\ status \in Word
    BY <1>0, <1>8 DEF Serve, EngineerIO, Resting, Types
  <2>2. PICK lo \in {-1, 0} : IF Answers(lo) = << >> THEN Loop(status)
                              ELSE Working("reply", Sending(Answers(lo)))
    BY <1>8 DEF Serve
  <2>3. Answers(lo) \in Seq(Byte) /\ Len(Answers(lo)) <= 20
    BY <1>0, <2>1, AnswersTyped
  <2>4. CASE Answers(lo) = << >>
    BY <1>4, <1>8, <2>1, <2>2, <2>4 DEF Serve
  <2>5. CASE Answers(lo) # << >>
    <3>1. PICK r : r = Sending(Answers(lo))
      OBVIOUS
    <3>8. Len(Answers(lo)) \in 1..20
      <4>1. \A i \in Nat \ {0} : i <= 20 => i \in 1..20
        OBVIOUS
      <4>2. Len(Answers(lo)) \in Nat \ {0}
        BY <2>3, <2>5, EmptySeq
      <4> QED
        BY <2>3, <4>1, <4>2, Zenon
    <3>2. PICK j \in 1..20 : j = Len(Answers(lo))
      BY <3>8
    <3>7. r = [call |-> "send", buffer |-> Answers(lo), size |-> j]
      BY <3>1, <3>2 DEF Sending
    <3>3. r \in IoRec /\ r.call = "send" /\ r.size = j /\ Len(r.buffer) = j
      BY <2>3, <3>2, <3>7 DEF IoRec
    <3>4. "reply" \in EngineerPc \ Resting
      BY DEF EngineerPc, Resting
    <3>5. Types' /\ CallerIO' /\ SocketsInv' /\ pc'["engineer"] = "reply" /\ io'["engineer"] = r
      <4>1. Working("reply", r)
        BY <2>2, <2>5, <3>1
      <4> HIDE DEF Working
      <4> QED
        BY <1>2, <2>1, <3>3, <3>4, <4>1
    <3>6. EngineerIO'
      <4>1. j <= 28 /\ j \in 1..j
        OBVIOUS
      <4>2. /\ pc'["engineer"] = "reply" /\ io'["engineer"].call = "send"
            /\ io'["engineer"].size = j /\ Len(io'["engineer"].buffer) = j
        BY <3>3, <3>5
      <4>3. status' \in {WordOf(1), WordOf(2)}
        BY <2>1
      <4> QED
        BY <4>1, <4>2, <4>3 DEF EngineerIO
    <3> QED
      BY <3>5, <3>6 DEF LocalInv
  <2> QED
    BY <2>4, <2>5
<1>9. CASE Replied
  <2>1. pc["engineer"] \notin Resting /\ status \in Word
    BY <1>0, <1>9 DEF Replied, Resting, Types
  <2> QED
    BY <1>4, <1>9, <2>1 DEF Replied
<1> QED
  BY <1>5, <1>6, <1>7, <1>8, <1>9 DEF EngineerThread

(* The death of a process whose engineer thread has lost its descriptor.   *)
LEMMA LossLocal ==
  ASSUME LocalInv, DieAfterLoss
  PROVE  LocalInv'
<1>0. /\ Types /\ CallerIO /\ EngineerIO /\ SocketsInv
      /\ io \in [Side -> IoRec] /\ sock \in [Side -> SocketRec] /\ "engineer" \in Side /\ "caller" \in Side
      /\ reset \in [Side -> BOOLEAN] /\ pc \in [Side -> CallerPc \cup EngineerPc]
  BY DEF LocalInv, Types, Side
<1>1. /\ lost /\ ~lost'
      /\ UNCHANGED <<kind, machine, n, got, status, job, wire, flight, last>>
  BY DEF DieAfterLoss
<1>2. /\ io' = [io EXCEPT !["engineer"] = Idle] /\ sock' = [sock EXCEPT !["engineer"] = Closed(@)]
      /\ pc' = [pc EXCEPT !["engineer"] = "done"]
  BY DEF DieAfterLoss
<1>3. /\ pc'["engineer"] = "done" /\ pc'["caller"] = pc["caller"]
      /\ io'["engineer"] = Idle /\ io'["caller"] = io["caller"]
      /\ sock'["caller"] = sock["caller"] /\ ~sock'["engineer"].open /\ ~sock'["engineer"].is_initialized
  BY <1>0, <1>2 DEF Closed, SocketRec
<1>4. Idle \in IoRec /\ Idle.call = "ok" /\ Len(Idle.buffer) = 0
  BY EmptySeq DEF Idle, IoRec
<1>5. reset' \in [Side -> BOOLEAN] /\ reset'["engineer"] = reset["engineer"]
  BY <1>0 DEF DieAfterLoss, Side
<1>6. Types'
  <2>1. io' \in [Side -> IoRec]
    BY <1>0, <1>2, <1>4
  <2>2. sock' \in [Side -> SocketRec]
    BY <1>0, <1>2 DEF Closed, SocketRec
  <2>3. pc' \in [Side -> CallerPc \cup EngineerPc] /\ pc'["engineer"] \in EngineerPc
    BY <1>0, <1>2, <1>3 DEF EngineerPc
  <2> QED
    BY <1>0, <1>1, <1>3, <1>5, <2>1, <2>2, <2>3 DEF Types
<1>7. CallerIO'
  BY <1>0, <1>1, <1>3, CallerUntouched
<1>8. EngineerIO'
  BY <1>3, <1>4 DEF EngineerIO
<1>9. \A s \in Side : SocketOK(s)
  BY <1>0 DEF SocketsInv
<1>10. pc["engineer"] # "accept" /\ pc["caller"] # "init" /\ ~sock["engineer"].open
  BY <1>0, <1>1, <1>9 DEF SocketsInv, SocketOK, Lost
<1>11. SocketOK("caller")'
  <2>1. SocketOK("caller") /\ ~NoSocket("caller") /\ ~Lost("caller") /\ ~Lost("caller")' /\ Other("caller") = "engineer"
    BY <1>0, <1>9, <1>10 DEF NoSocket, Lost, Other
  <2>2. sock["caller"].open => sock["caller"].is_initialized
    BY <2>1, <1>10 DEF SocketOK
  <2>3. pc["caller"] = "done" => ~sock["caller"].open
    BY <2>1, <1>10 DEF SocketOK
  <2> QED
    BY <1>1, <1>3, <2>1, <2>2, <2>3 DEF SocketOK, Resting
<1>12. SocketOK("engineer")'
  <2>1. SocketOK("engineer") /\ ~Lost("engineer")' /\ Other("engineer") = "caller"
    BY <1>0, <1>1, <1>9 DEF Lost, Other
  <2> QED
    BY <1>1, <1>3, <1>5, <2>1 DEF SocketOK, Resting
<1>13. SocketsInv'
  BY <1>3, <1>10, <1>11, <1>12 DEF SocketsInv, Side
<1> QED
  BY <1>6, <1>7, <1>8, <1>13 DEF LocalInv

(* Every step keeps LocalInv.                                              *)
LEMMA NextLocal ==
  ASSUME LocalInv, [Next]_vars
  PROVE  LocalInv'
<1>1. ASSUME NEW s \in Side, io[s].call \in {"send", "recv"} PROVE pc[s] \notin Resting
  BY <1>1 DEF LocalInv, CallerIO, EngineerIO, Side, Resting, Types, CallerPc, EngineerPc
<1>2. ASSUME NEW s \in Side, Socket(s) PROVE LocalInv'
  <2>1. ASSUME NEW k \in Bytes, SendSome(s, k) PROVE LocalInv'
    BY <2>1, SendLocal
  <2>2. ASSUME NEW k \in Bytes, RecvSome(s, k) PROVE LocalInv'
    BY <2>2, RecvLocal
  <2>3. CASE SendFails(s) \/ RecvFails(s)
    BY <2>3, FailLocal DEF SendFails, RecvFails
  <2>4. CASE BrokenPipe(s)
    BY <1>1, <2>4, EndLocal DEF BrokenPipe
  <2> QED
    BY <1>2, <2>1, <2>2, <2>3, <2>4 DEF Socket
<1>3. ASSUME NEW s \in Side, Die(s) PROVE LocalInv'
  BY <1>3, EndLocal DEF Die, Resting
<1>4. CASE UNCHANGED vars
  BY <1>4 DEF vars, threads, LocalInv, Types, CallerIO, EngineerIO, SocketsInv, SocketOK, Lost, NoSocket, Transfer
<1> QED
  BY <1>2, <1>3, <1>4, CallerLocal, EngineerLocal, LossLocal DEF Next

(* Types, the bounds of the stubs' char arrays, and the agreement of the   *)
(* members of a Socket: an initialized one is open and valid unless        *)
(* setsockopt failed, and the socket of a thread at work is open if it is  *)
(* valid, unless socket failed and a primary sends its identification all  *)
(* the same.                                                               *)
THEOREM ConnectionTypes == Spec => []TypeOK
<1>1. LocalInv /\ lost \in BOOLEAN => TypeOK
  <2>1. SUFFICES ASSUME LocalInv, lost \in BOOLEAN PROVE TypeOK
    OBVIOUS
  <2>2. Types /\ CallerIO /\ EngineerIO /\ SocketsInv
    BY <2>1 DEF LocalInv
  <2>3. ASSUME NEW s \in Side PROVE Len(io[s].buffer) + (IF io[s].call = "recv" THEN io[s].size ELSE 0) <= Capacity(s)
    <3>1. io[s] \in IoRec /\ Len(io[s].buffer) \in Nat /\ io[s].size \in Nat
      BY <2>2, LenProperties DEF Types, IoRec
    <3>2. CASE s = "caller"
      <4>1. io[s].call = "recv" => Len(io[s].buffer) + io[s].size \in {8, 12, 20}
        BY <2>2, <3>2, CallSizes DEF CallerIO, Transfer, Types, CallerPc
      <4>2. Len(io[s].buffer) <= 28 /\ (kind # "primary" => Len(io[s].buffer) <= 20)
        BY <2>2, <3>1, <3>2 DEF CallerIO
      <4> QED
        BY <3>1, <3>2, <4>1, <4>2 DEF Capacity
    <3>3. CASE s = "engineer"
      <4>1. io[s].call = "recv" => Len(io[s].buffer) + io[s].size \in {4, 12, 28}
        BY <2>2, <3>3, CallSizes DEF EngineerIO, Transfer, Types, EngineerPc
      <4>2. Len(io[s].buffer) <= 28
        BY <2>2, <3>3 DEF EngineerIO
      <4> QED
        BY <3>1, <3>3, <4>1, <4>2 DEF Capacity
    <3> QED
      BY <3>2, <3>3 DEF Side
  <2>4. \A s \in Side : SocketOK(s)
    BY <2>2 DEF SocketsInv
  <2>5. ASSUME NEW s \in Side
        PROVE  /\ sock[s].is_initialized => (sock[s].open /\ sock[s].valid) \/ (s = "engineer" /\ lost)
               /\ sock[s].open /\ ~sock[s].is_initialized => s = "caller" /\ n = 0 /\ ~sock[s].valid
               /\ sock[s].valid /\ pc[s] \notin {"init", "accept", "done"} =>
                    sock[s].open \/ (kind = "primary" /\ pc[s] = "identify" /\ ~sock[s].is_initialized)
    BY <2>4 DEF SocketOK, Lost, NoSocket, Resting
  <2>6. ASSUME NEW s \in Side
        PROVE  /\ wire[s] \in Seq(Byte)
               /\ reset[s] \in BOOLEAN /\ lost \in BOOLEAN
               /\ io[s].call \in {"send", "recv", "ok", "failed"}
               /\ io[s].buffer \in Seq(Byte)
               /\ io[s].size >= 0
    <3>1. io[s] \in IoRec /\ wire[s] \in Seq(Byte)
      BY <2>2 DEF Types
    <3>2. reset[s] \in BOOLEAN
      BY <2>2 DEF Types
    <3>3. /\ io[s].call \in {"send", "recv", "ok", "failed"}
          /\ io[s].buffer \in Seq(Byte)
          /\ io[s].size \in Nat
      BY <3>1 DEF IoRec
    <3>4. io[s].size >= 0
      BY <3>3
    <3> QED
      BY <2>1, <3>1, <3>2, <3>3, <3>4, Zenon
  <2>7. kind \in Kinds /\ machine \in Machines /\ n \in 0..NumRequests /\ status \in Word
    BY <2>2 DEF Types
  <2> QED
    BY <2>3, <2>5, <2>6, <2>7, Zenon DEF TypeOK
<1>2. Init => LocalInv /\ lost \in BOOLEAN
  <2>1. Init => lost \in BOOLEAN
    BY DEF Init
  <2> QED
    BY <2>1, InitLocal
<1>3. LocalInv /\ lost \in BOOLEAN /\ [Next]_vars => LocalInv' /\ lost' \in BOOLEAN
  <2>1. SUFFICES ASSUME LocalInv, lost \in BOOLEAN, [Next]_vars PROVE lost' \in BOOLEAN
    BY NextLocal
  <2>2. ASSUME NEW s \in Side, Socket(s) \/ Die(s) PROVE lost' = lost
    BY <2>2 DEF Socket, SendSome, RecvSome, SendFails, RecvFails, Fails, BrokenPipe, Die, Ends
  <2>3. CASE Connect
    BY <2>3 DEF Connect
  <2>4. Caller => Connect \/ lost' = lost
    BY DEF Caller, ConnectFails, SocketFails, Identified, Ask, Await, CallReturns, ClientEnds, Ends
  <2>5. EngineerThread => lost' = lost
    BY DEF EngineerThread, ReceiveStatusInfo, ReceiveRequest, EngineerReturns, Serve, Replied, Ends
  <2>6. DieAfterLoss => lost' = FALSE
    BY DEF DieAfterLoss
  <2>7. UNCHANGED vars => lost' = lost
    BY DEF vars
  <2>8. lost' = lost \/ lost' = FALSE \/ Connect
    BY <2>1, <2>2, <2>4, <2>5, <2>6, <2>7, Zenon DEF Next
  <2>9. CASE lost' = lost
    BY <2>1, <2>9, Zenon
  <2> QED
    BY <2>3, <2>8, <2>9
<1> DEFINE I == LocalInv /\ lost \in BOOLEAN
<1>4. I => TypeOK
  BY <1>1
<1>5. Init => I
  BY <1>2
<1>6. I /\ [Next]_vars => I'
  BY <1>3
<1> QED
  <2> HIDE DEF I
  <2> QED
    BY <1>4, <1>5, <1>6, PTL DEF Spec

-----------------------------------------------------------------------------
(* Whose turn it is.                                                       *)

AnswerOf(k, m, i, lastOrder) == Marshal(m["engineer"], AnswerClass(k), Answer(k, i, lastOrder))
Role(k) == WordOf(IF k = "primary" THEN 2 ELSE 1)
LastOrder == {-1, 0}
Same == machine["caller"] = machine["engineer"]

(* The caller sends its identification; may send a request; waits for the  *)
(* answer.  Before an engineer thread runs, and once the socket is closed, *)
(* it is off.                                                              *)
CallerStage ==
  IF ~sock["caller"].open \/ pc["engineer"] = "accept" THEN "off"
  ELSE IF At("caller", "identify", {"send"}) THEN "announcing"
  ELSE IF At("caller", "ask", {"ok"}) \/ At("caller", "await", {"recv"}) THEN "asking"
  ELSE "free"

(* The engineer waits for the identification; has it; waits for a request  *)
(* or has answered one; has one to answer; or goes round in its loop.      *)
EngineerStage ==
  IF ~sock["engineer"].open THEN "off"
  ELSE IF At("engineer", "status", {"recv"}) THEN "hearing"
  ELSE IF At("engineer", "status", {"ok"}) THEN "told"
  ELSE IF At("engineer", "receive", {"recv"}) \/ At("engineer", "reply", {"ok"}) THEN "idle"
  ELSE IF At("engineer", "receive", {"ok"}) \/ pc["engineer"] = "serve" \/ At("engineer", "reply", {"send"})
       THEN "working"
  ELSE "spin"

Waits == {"told", "idle", "spin"}

(* What the engineer works on is request i.                                *)
Serving(i) ==
  /\ At("engineer", "receive", {"ok"}) => io["engineer"].buffer = RequestOf(kind, machine, i)
  /\ pc["engineer"] \in {"serve", "reply"} => job = Request(kind, i)
  /\ At("engineer", "reply", {"send"}) =>
       \E lo \in LastOrder : io["engineer"].buffer = AnswerOf(kind, machine, i, lo)

(* The messages in flight, fc from the caller and fe from the engineer, in *)
(* each stage of the caller, cs, and of the engineer, es.                  *)
Turn(cs, es, fc, fe, k, m, i, serving) ==
  /\ es = "off" => fc = << >>
  /\ cs # "asking" => fe = << >>
  /\ cs = "announcing" => fc = << >> /\ es \in {"hearing", "off"}
  /\ cs = "free" => \/ es = "off"
                    \/ es = "hearing" /\ fc = <<IdentOf(k, m)>>
                    \/ es \in Waits /\ fc = << >>
  /\ cs = "asking" =>
       \/ fe = << >> /\ es = "hearing" /\ fc = <<IdentOf(k, m), RequestOf(k, m, i)>>
       \/ fe = << >> /\ es \in Waits /\ fc = <<RequestOf(k, m, i)>>
       \/ fe = << >> /\ fc = << >> /\ es = "working" /\ serving
       \/ /\ \E lo \in LastOrder : fe = <<AnswerOf(k, m, i, lo)>>
          /\ fc = << >> /\ es \in {"idle", "off"} /\ m["caller"] = m["engineer"]
       \/ fe = << >> /\ fc = << >> /\ es = "off"
  /\ cs = "off" =>
       /\ es = "hearing" => \/ fc \in {<< >>, <<IdentOf(k, m)>>}
                            \/ \E j \in 0..i : fc = <<IdentOf(k, m), RequestOf(k, m, j)>>
       /\ es \in Waits => fc = << >> \/ \E j \in 0..i : fc = <<RequestOf(k, m, j)>>
       /\ es = "working" => fc = << >>

TurnInv ==
  Turn(CallerStage, EngineerStage, flight["caller"], flight["engineer"], kind, machine, n, Serving(n))

(* What the engineer thread knows.                                         *)
EngineerKnows ==
  /\ \E i \in 0..n : Serving(i)
  /\ pc["engineer"] \in {"serve", "reply"} \/ EngineerStage \in {"idle", "working"} =>
       Same /\ status = Role(kind)
  /\ EngineerStage = "told" => io["engineer"].buffer = IdentOf(kind, machine)
  /\ At("engineer", "status", {"failed"}) => ~sock["caller"].open \/ lost
  /\ pc["engineer"] = "spin" => ~sock["caller"].open \/ ~Same \/ lost

(* What the caller knows.                                                  *)
CallerKnows ==
  /\ At("caller", "await", {"ok"}) =>
       Same /\ \E lo \in LastOrder : io["caller"].buffer = AnswerOf(kind, machine, n, lo)
  /\ \/ got.answer = NoObject \/ got.answer = NewAnswer(kind)
     \/ Same /\ \E i \in 0..n, lo \in LastOrder : got = [asked |-> Request(kind, i), answer |-> Answer(kind, i, lo)]

-----------------------------------------------------------------------------
(* Bytes and messages under way.                                           *)

HadOf(r)  == IF r.call = "recv" THEN r.buffer ELSE << >>
SentOf(r) == IF r.call = "send" THEN SubSeq(r.buffer, 1, Len(r.buffer) - r.size) ELSE << >>
Joined(f) == IF f = << >> THEN << >> ELSE IF Len(f) = 1 THEN f[1] ELSE f[1] \o f[2]

(* a followed by b is c followed by d.                                     *)
SameBytes(a, b, c, d) == a \o b = c \o d

(* had and the bytes w are the messages f and the beginning of another,    *)
(* which is what an open sender has sent of the message it sends.          *)
Stream(had, w, f, sent, open, bound) ==
  \E p \in Seq(Byte) : SameBytes(had, w, Joined(f), p) /\ Len(p) < bound /\ (open => p = sent)

(* The size of the message of s that follows those in flight.              *)
Bound(s) ==
  IF s = "engineer" THEN Size(AnswerClass(kind))
  ELSE IF EngineerStage = "hearing" /\ flight["caller"] = << >> THEN 4
  ELSE Size(RequestClass(kind))

StreamOf(s) ==
  sock[Other(s)].open =>
    Stream(HadOf(io[Other(s)]), wire[s], flight[s], SentOf(io[s]), sock[s].open, Bound(s))

StreamInv == \A s \in Side : StreamOf(s)

(* Nothing is under way to a side that is closed.                          *)
ClosedInv == \A s \in Side : ~sock[s].open => wire[Other(s)] = << >> /\ flight[Other(s)] = << >>

ConnectionInv == LocalInv /\ TurnInv /\ EngineerKnows /\ CallerKnows /\ StreamInv /\ ClosedInv

(* a, b and c are sequences of bytes.                                      *)
AllBytes(a, b, c) == a \in Seq(Byte) /\ b \in Seq(Byte) /\ c \in Seq(Byte)

Associates(a, b, c) == (a \o b) \o c = a \o (b \o c)

(* Bytes and more bytes.                                                   *)
LEMMA ThreeParts ==
  ASSUME NEW a, NEW b, NEW c, AllBytes(a, b, c)
  PROVE  Associates(a, b, c)
<1>1. a \in Seq(Byte) /\ b \in Seq(Byte) /\ c \in Seq(Byte)
  BY DEF AllBytes
<1>2. (a \o b) \o c = a \o (b \o c)
  BY <1>1, ConcatAssociative
<1> QED
  BY <1>2, Zenon DEF Associates

(* No bytes before or after.                                               *)
LEMMA NoBytes ==
  \A a \in Seq(Byte) : << >> \o a = a /\ a \o << >> = a
<1> TAKE a \in Seq(Byte)
<1> QED
  BY ConcatEmptySeq

(* Sequences of at most two messages.                                      *)
LEMMA FewMessages ==
  ASSUME NEW a, NEW b
  PROVE  /\ Append(<< >>, a) = <<a>> /\ Append(<<a>>, b) = <<a, b>>
         /\ <<a>> # << >> /\ <<a, b>> # << >> /\ Head(<<a>>) = a /\ Head(<<a, b>>) = a
         /\ Tail(<<a>>) = << >> /\ Tail(<<a, b>>) = <<b>>
         /\ Joined(<< >>) = << >> /\ Joined(<<a>>) = a /\ Joined(<<a, b>>) = a \o b
         /\ Len(<< >>) = 0 /\ Len(<<a>>) = 1 /\ Len(<<a, b>>) = 2
<1>1. <<a>> # << >> /\ <<a, b>> # << >> /\ Len(<<a>>) = 1 /\ Len(<<a, b>>) = 2 /\ Len(<< >>) = 0
  OBVIOUS
<1>2. Append(<< >>, a) = <<a>> /\ Append(<<a>>, b) = <<a, b>>
  <2>1. /\ <<a>> \in Seq({a, b}) /\ Len(<<a>>) = 1 /\ <<a, b>> \in Seq({a, b}) /\ Len(<<a, b>>) = 2
        /\ <<a, b>>[1] = a /\ <<a, b>>[2] = b
    OBVIOUS
  <2>2. Append(<<a>>, b) \in Seq({a, b}) /\ Len(Append(<<a>>, b)) = 2
    BY <2>1, AppendProperties
  <2>3. Append(<<a>>, b)[1] = a /\ Append(<<a>>, b)[2] = b
    BY <2>1, AppendProperties
  <2>4. \A i \in 1..2 : Append(<<a>>, b)[i] = <<a, b>>[i]
    BY <2>1, <2>3
  <2>5. Append(<<a>>, b) = <<a, b>>
    BY <2>1, <2>2, <2>4, SeqEqual
  <2>6. Append(<< >>, a) = <<a>>
    OBVIOUS
  <2> QED
    BY <2>5, <2>6
<1>3. Head(<<a>>) = a /\ Head(<<a, b>>) = a /\ Tail(<<a>>) = << >> /\ Tail(<<a, b>>) = <<b>>
  OBVIOUS
<1>4. Joined(<< >>) = << >> /\ Joined(<<a>>) = a /\ Joined(<<a, b>>) = a \o b
  BY <1>1 DEF Joined
<1> QED
  BY <1>1, <1>2, <1>3, <1>4

(* What recv takes, after what it had.                                     *)
LEMMA TakeMore ==
  ASSUME NEW had \in Seq(Byte), NEW w \in Seq(Byte), NEW k \in 1..Len(w)
  PROVE  LET x == had \o SubSeq(w, 1, k)  y == SubSeq(w, k + 1, Len(w)) IN
         /\ x \in Seq(Byte) /\ y \in Seq(Byte) /\ Len(x) = Len(had) + k
         /\ x \o y = had \o w /\ Len(x) \in Nat /\ Len(y) \in Nat /\ Len(x \o y) = Len(x) + Len(y)
<1>1. PICK z, y : z = SubSeq(w, 1, k) /\ y = SubSeq(w, k + 1, Len(w))
  OBVIOUS
<1>2. z \in Seq(Byte) /\ y \in Seq(Byte) /\ z \o y = w /\ Len(z) = k
  BY <1>1, TakeBytes
<1>3. PICK x : x = had \o z
  OBVIOUS
<1>4. x \in Seq(Byte) /\ Len(x) = Len(had) + Len(z)
  BY <1>2, <1>3, ConcatProperties
<1>5. x \o y = had \o w
  <2>1. AllBytes(had, z, y)
    BY <1>2 DEF AllBytes
  <2>3. Associates(had, z, y)
    BY <2>1, ThreeParts
  <2>2. (had \o z) \o y = had \o (z \o y)
    BY <2>3, Zenon DEF Associates
  <2> QED
    BY <1>2, <1>3, <2>2, Zenon
<1>6. Len(x) \in Nat /\ Len(y) \in Nat /\ Len(x \o y) = Len(x) + Len(y)
  BY <1>2, <1>4, LenProperties, ConcatProperties
<1> QED
  BY <1>1, <1>2, <1>3, <1>4, <1>5, <1>6

(* The first of two messages and a part of another.                        *)
LEMMA FirstOfTwo ==
  ASSUME NEW x \in Seq(Byte), NEW y \in Seq(Byte), NEW a \in Seq(Byte), NEW c \in Seq(Byte), NEW p \in Seq(Byte),
         SameBytes(x, y, a \o c, p), Len(x) = Len(a)
  PROVE  x = a /\ y = c \o p
<1>0. AllBytes(a, c, p)
  BY DEF AllBytes
<1>4. Associates(a, c, p)
  BY <1>0, ThreeParts
<1>1. (a \o c) \o p = a \o (c \o p)
  BY <1>4, Zenon DEF Associates
<1>2. PICK z \in Seq(Byte) : z = c \o p
  BY ConcatProperties
<1>3. x \o y = a \o z
  BY <1>1, <1>2, Zenon DEF SameBytes
<1> QED
  BY <1>2, <1>3, SamePrefix

(* The same bytes after the same bytes.                                    *)
LEMMA MoreBytes ==
  ASSUME NEW had \in Seq(Byte), NEW w \in Seq(Byte), NEW g \in Seq(Byte), NEW sent \in Seq(Byte), NEW c \in Seq(Byte),
         SameBytes(had, w, g, sent)
  PROVE  SameBytes(had, w \o c, g, sent \o c)
<1>0. AllBytes(had, w, c) /\ AllBytes(g, sent, c)
  BY DEF AllBytes
<1>3. Associates(had, w, c) /\ Associates(g, sent, c)
  BY <1>0, ThreeParts
<1>1. had \o (w \o c) = (had \o w) \o c
  BY <1>3, Zenon DEF Associates
<1>2. (g \o sent) \o c = g \o (sent \o c)
  BY <1>3, Zenon DEF Associates
<1> QED
  BY <1>1, <1>2, Zenon DEF SameBytes

(* A recv that returns a part of a message.                                *)
LEMMA StreamPart ==
  ASSUME NEW had \in Seq(Byte), NEW w \in Seq(Byte), NEW k \in 1..Len(w), NEW f, NEW sent, NEW open, NEW bound,
         Stream(had, w, f, sent, open, bound)
  PROVE  Stream(had \o SubSeq(w, 1, k), SubSeq(w, k + 1, Len(w)), f, sent, open, bound)
BY TakeMore DEF Stream, SameBytes

(* A recv takes as many bytes as are left of the first of the messages f.  *)
Takes(had, w, k, a, c, f, bound, next, size) ==
  /\ had \in Seq(Byte) /\ w \in Seq(Byte) /\ k \in 1..Len(w) /\ a \in Seq(Byte) /\ c \in Seq(Byte)
  /\ f \in {<< >>, <<a>>, <<a, c>>} /\ bound \in Nat /\ next \in Nat /\ size \in Nat
  /\ f = << >> => bound <= size
  /\ f # << >> => Len(a) = size /\ bound <= next
  /\ Len(had) + k = size

(* It is that message, and there is one.                                   *)
LEMMA StreamTake ==
  ASSUME NEW had, NEW w, NEW k, NEW a, NEW c, NEW f, NEW sent, NEW open, NEW bound, NEW next, NEW size,
         Takes(had, w, k, a, c, f, bound, next, size), Stream(had, w, f, sent, open, bound)
  PROVE  /\ f # << >> /\ had \o SubSeq(w, 1, k) = a
         /\ Stream(<< >>, SubSeq(w, k + 1, Len(w)), Tail(f), sent, open, next)
<1>0. /\ had \in Seq(Byte) /\ w \in Seq(Byte) /\ k \in 1..Len(w) /\ a \in Seq(Byte) /\ c \in Seq(Byte)
      /\ f \in {<< >>, <<a>>, <<a, c>>} /\ bound \in Nat /\ next \in Nat /\ size \in Nat
      /\ f = << >> => bound <= size
      /\ f # << >> => Len(a) = size /\ bound <= next
      /\ Len(had) + k = size
  BY DEF Takes
<1>1. PICK x, y : x = had \o SubSeq(w, 1, k) /\ y = SubSeq(w, k + 1, Len(w))
  OBVIOUS
<1>2. /\ x \in Seq(Byte) /\ y \in Seq(Byte) /\ x \o y = had \o w /\ Len(x) = size /\ Len(x) \in Nat /\ Len(y) \in Nat
      /\ Len(x \o y) = Len(x) + Len(y)
  <2>1. had \in Seq(Byte) /\ w \in Seq(Byte) /\ k \in 1..Len(w) /\ Len(had) + k = size
    BY <1>0
  <2>2. /\ had \o SubSeq(w, 1, k) \in Seq(Byte) /\ SubSeq(w, k + 1, Len(w)) \in Seq(Byte)
        /\ Len(had \o SubSeq(w, 1, k)) = Len(had) + k
        /\ (had \o SubSeq(w, 1, k)) \o SubSeq(w, k + 1, Len(w)) = had \o w
        /\ Len(had \o SubSeq(w, 1, k)) \in Nat /\ Len(SubSeq(w, k + 1, Len(w))) \in Nat
        /\ Len((had \o SubSeq(w, 1, k)) \o SubSeq(w, k + 1, Len(w)))
             = Len(had \o SubSeq(w, 1, k)) + Len(SubSeq(w, k + 1, Len(w)))
    BY <2>1, TakeMore
  <2> QED
    BY <1>1, <2>1, <2>2, Zenon
<1>3. PICK p \in Seq(Byte) : SameBytes(x, y, Joined(f), p) /\ Len(p) < bound /\ (open => p = sent)
  BY <1>0, <1>2 DEF Stream, SameBytes
<1>4. Len(p) \in Nat /\ << >> \o p = p /\ << >> \o y = y
  BY <1>0, <1>2, LenProperties, NoBytes
<1>5. CASE f = << >>
  <2>1. x \o y = p
    BY <1>0, <1>3, <1>4, <1>5, FewMessages DEF SameBytes
  <2>2. Len(x) + Len(y) = Len(p)
    BY <1>0, <1>2, <2>1
  <2>3. bound <= size
    BY <1>0, <1>5
  <2> QED
    BY <1>0, <1>2, <1>3, <1>4, <2>2, <2>3
<1>6. CASE f = <<a>>
  <2>1. f # << >> /\ Joined(f) = a /\ Tail(f) = << >> /\ Joined(<< >>) = << >>
    BY <1>0, <1>6, FewMessages
  <2>2. x = a /\ y = p
    BY <1>0, <1>2, <1>3, <2>1, SamePrefix DEF SameBytes
  <2>3. Len(p) < next
    BY <1>0, <1>3, <1>4, <2>1
  <2>4. Stream(<< >>, y, Tail(f), sent, open, next)
    BY <1>0, <1>3, <1>4, <2>1, <2>2, <2>3 DEF Stream, SameBytes
  <2> QED
    BY <1>1, <2>1, <2>2, <2>4
<1>7. CASE f = <<a, c>>
  <2>1. f # << >> /\ Joined(f) = a \o c /\ Tail(f) = <<c>> /\ Joined(<<c>>) = c
    BY <1>0, <1>7, FewMessages
  <2>3. x = a /\ y = c \o p
    <3>1. SameBytes(x, y, a \o c, p)
      BY <1>0, <1>3, <2>1, Zenon
    <3>2. Len(x) = Len(a) /\ x \in Seq(Byte) /\ y \in Seq(Byte) /\ a \in Seq(Byte) /\ c \in Seq(Byte)
      BY <1>0, <1>2, <2>1
    <3> QED
      BY <3>1, <3>2, FirstOfTwo
  <2>4. Len(p) < next
    BY <1>0, <1>3, <1>4, <2>1
  <2>6. Stream(<< >>, y, Tail(f), sent, open, next)
    BY <1>0, <1>3, <1>4, <2>1, <2>3, <2>4 DEF Stream, SameBytes
  <2> QED
    BY <1>1, <2>1, <2>3, <2>6
<1> QED
  BY <1>0, <1>5, <1>6, <1>7

(* A send that takes a part of a message.                                  *)
LEMMA StreamSend ==
  ASSUME NEW had \in Seq(Byte), NEW w \in Seq(Byte), NEW f, NEW sent \in Seq(Byte), NEW c \in Seq(Byte), NEW open, NEW bound, NEW next,
         Stream(had, w, f, sent, TRUE, bound), Joined(f) \in Seq(Byte), Len(sent \o c) < next
  PROVE  Stream(had, w \o c, f, sent \o c, open, next)
<1>1. SameBytes(had, w, Joined(f), sent)
  BY DEF Stream
<1>2. SameBytes(had, w \o c, Joined(f), sent \o c)
  BY <1>1, MoreBytes
<1>3. sent \o c \in Seq(Byte)
  BY ConcatProperties
<1> QED
  BY <1>2, <1>3 DEF Stream

(* A send that takes the rest of a message.                                *)
LEMMA StreamSent ==
  ASSUME NEW had \in Seq(Byte), NEW w \in Seq(Byte), NEW a \in Seq(Byte), NEW f \in {<< >>, <<a>>},
         NEW sent \in Seq(Byte), NEW c \in Seq(Byte), NEW open, NEW bound, NEW next \in Nat,
         Stream(had, w, f, sent, TRUE, bound), next > 0
  PROVE  Stream(had, w \o c, Append(f, sent \o c), << >>, open, next)
<1>1. SameBytes(had, w, Joined(f), sent) /\ Joined(f) \in Seq(Byte) /\ sent \o c \in Seq(Byte) /\ << >> \in Seq(Byte)
  <2>1. SameBytes(had, w, Joined(f), sent)
    BY DEF Stream
  <2>2. sent \o c \in Seq(Byte)
    BY ConcatProperties
  <2>3. Joined(f) \in {<< >>, a}
    BY FewMessages
  <2>4. << >> \in Seq(Byte)
    BY EmptySeq
  <2> QED
    BY <2>1, <2>2, <2>3, <2>4
<1>2. SameBytes(had, w \o c, Joined(f), sent \o c)
  BY <1>1, MoreBytes
<1>3. Joined(Append(f, sent \o c)) = Joined(f) \o (sent \o c)
  <2>3. PICK q \in Seq(Byte) : q = sent \o c
    BY <1>1
  <2>4. << >> \o q = q
    BY NoBytes
  <2>1. CASE f = << >>
    <3>1. Append(f, q) = <<q>> /\ Joined(f) = << >> /\ Joined(<<q>>) = q
      BY <2>1, FewMessages
    <3> QED
      BY <2>3, <2>4, <3>1
  <2>2. CASE f = <<a>>
    <3>1. Append(f, q) = <<a, q>> /\ Joined(f) = a /\ Joined(<<a, q>>) = a \o q
      BY <2>2, FewMessages
    <3> QED
      BY <2>3, <3>1
  <2> QED
    BY <2>1, <2>2
<1>4. PICK q : q = Joined(f) \o (sent \o c) /\ q \in Seq(Byte)
  BY <1>1, ConcatProperties
<1>5. q \o << >> = q
  BY <1>4, NoBytes
<1>6. SameBytes(had, w \o c, Joined(Append(f, sent \o c)), << >>)
  BY <1>2, <1>3, <1>4, <1>5 DEF SameBytes
<1>7. Len(<< >>) < next
  BY FewMessages
<1> QED
  BY <1>1, <1>6, <1>7 DEF Stream

-----------------------------------------------------------------------------
(* How the messages in flight change with the stages.                      *)

(* A caller that does not wait for an answer goes on to its next request.  *)
LEMMA TurnOfCaller ==
  ASSUME NEW cs, NEW es, NEW fc, NEW fe, NEW k, NEW m, NEW i \in Nat, NEW j \in Nat, NEW serving, NEW serves,
         Turn(cs, es, fc, fe, k, m, i, serving), i <= j,
         cs = "asking" => j = i /\ (serving => serves)
  PROVE  Turn(cs, es, fc, fe, k, m, j, serves)
<1>1. \A x \in 0..i : x \in 0..j
  OBVIOUS
<1> QED
  BY <1>1 DEF Turn

(* An engineer that has the identification waits for requests, or for      *)
(* nothing; one that works on a request goes on.                           *)
LEMMA TurnOfEngineer ==
  ASSUME NEW cs, NEW es, NEW next, NEW fc, NEW fe, NEW k, NEW m, NEW i, NEW serving, NEW serves,
         Turn(cs, es, fc, fe, k, m, i, serving),
         next = es \/ (es = "told" /\ next \in {"idle", "spin"}),
         es = "working" /\ serving => serves
  PROVE  Turn(cs, next, fc, fe, k, m, i, serves)
<1>1. CASE next = es
  BY <1>1 DEF Turn
<1>2. CASE es = "told" /\ next \in {"idle", "spin"}
  BY <1>2 DEF Turn, Waits
<1> QED
  BY <1>1, <1>2

(* The caller closes its socket.                                           *)
LEMMA TurnWithoutCaller ==
  ASSUME NEW cs \in {"off", "announcing", "free", "asking"}, NEW es, NEW fc, NEW fe, NEW k, NEW m, NEW i \in Nat,
         NEW serving, NEW serves, Turn(cs, es, fc, fe, k, m, i, serving)
  PROVE  Turn("off", es, fc, << >>, k, m, i, serves)
<1>1. i \in 0..i
  OBVIOUS
<1>2. CASE cs = "off"
  BY <1>2 DEF Turn
<1>3. CASE cs = "announcing"
  BY <1>3 DEF Turn, Waits
<1>4. CASE cs = "free"
  BY <1>4 DEF Turn, Waits
<1>5. CASE cs = "asking"
  BY <1>1, <1>5 DEF Turn, Waits
<1> QED
  BY <1>2, <1>3, <1>4, <1>5

(* The engineer closes its socket.                                         *)
LEMMA TurnWithoutEngineer ==
  ASSUME NEW cs, NEW es, NEW fc, NEW fe, NEW k, NEW m, NEW i, NEW serving, NEW serves,
         Turn(cs, es, fc, fe, k, m, i, serving)
  PROVE  Turn(cs, "off", << >>, fe, k, m, i, serves)
<1>1. CASE cs = "asking"
  BY <1>1 DEF Turn, Waits
<1>2. CASE cs # "asking"
  BY <1>2 DEF Turn, Waits
<1> QED
  BY <1>1, <1>2

(* The caller sends a message when the engineer has not answered, and then *)
(* not more than the identification is under way.                          *)
LEMMA CallerSends ==
  ASSUME NEW cs \in {"announcing", "free"}, NEW es, NEW fc, NEW fe, NEW k, NEW m, NEW i, NEW serving,
         Turn(cs, es, fc, fe, k, m, i, serving)
  PROVE  /\ es # "off" => fc \in {<< >>, <<IdentOf(k, m)>>} /\ (fc = << >> <=> cs = "announcing" \/ es # "hearing")
         /\ fe = << >>
<1>1. <<IdentOf(k, m)>> # << >>
  BY FewMessages
<1>2. CASE cs = "announcing"
  BY <1>2 DEF Turn, Waits
<1>3. CASE cs = "free"
  BY <1>1, <1>3 DEF Turn, Waits
<1> QED
  BY <1>2, <1>3

(* The caller has sent a message.                                          *)
LEMMA TurnCallerSent ==
  ASSUME NEW cs \in {"announcing", "free"}, NEW es, NEW fc, NEW fe, NEW k, NEW m, NEW i, NEW serving, NEW serves,
         NEW a, a = IF cs = "announcing" THEN IdentOf(k, m) ELSE RequestOf(k, m, i),
         Turn(cs, es, fc, fe, k, m, i, serving)
  PROVE  LET next == IF cs = "announcing" THEN "free" ELSE "asking" IN
         /\ es # "off" => Turn(next, es, Append(fc, a), fe, k, m, i, serves)
         /\ es = "off" => Turn(next, es, fc, fe, k, m, i, serves)
<1>0. PICK id, r : id = IdentOf(k, m) /\ r = RequestOf(k, m, i)
  OBVIOUS
<1>1. Append(<< >>, id) = <<id>> /\ Append(<< >>, r) = <<r>> /\ Append(<<id>>, r) = <<id, r>> /\ <<id>> # << >>
  BY FewMessages
<1>2. CASE cs = "announcing"
  BY <1>0, <1>1, <1>2 DEF Turn, Waits
<1>3. CASE cs = "free"
  BY <1>0, <1>1, <1>3 DEF Turn, Waits
<1> QED
  BY <1>2, <1>3

(* The engineer has sent an answer, which may go nowhere.                  *)
LEMMA TurnEngineerSent ==
  ASSUME NEW cs \in {"off", "announcing", "free", "asking"}, NEW fc, NEW fe, NEW k, NEW m, NEW i, NEW lo \in LastOrder,
         NEW serving, NEW serves, NEW a, m["caller"] = m["engineer"],
         Turn(cs, "working", fc, fe, k, m, i, serving),
         serving => a = AnswerOf(k, m, i, lo)
  PROVE  /\ cs \in {"off", "asking"} /\ fe = << >> /\ fc = << >> /\ (cs = "asking" => serving)
         /\ cs = "asking" => Turn(cs, "idle", fc, Append(fe, a), k, m, i, serves)
         /\ cs = "off" => Turn(cs, "idle", fc, fe, k, m, i, serves)
<1>1. Append(<< >>, a) = <<a>>
  BY FewMessages
<1>2. CASE cs = "asking"
  BY <1>1, <1>2 DEF Turn, Waits
<1>3. CASE cs # "asking"
  BY <1>3 DEF Turn, Waits
<1> QED
  BY <1>2, <1>3

(* What can be in flight to an engineer that receives.                     *)
LEMMA TurnToEngineer ==
  ASSUME NEW cs \in {"off", "announcing", "free", "asking"}, NEW es \in {"hearing", "idle"}, NEW fc, NEW fe,
         NEW k, NEW m, NEW i \in Nat, NEW serving, Turn(cs, es, fc, fe, k, m, i, serving)
  PROVE  \E j \in 0..i :
           /\ es = "hearing" => fc \in {<< >>, <<IdentOf(k, m)>>, <<IdentOf(k, m), RequestOf(k, m, j)>>}
           /\ es = "idle" => fc \in {<< >>, <<RequestOf(k, m, j)>>}
           /\ cs = "asking" => j = i
<1>1. i \in 0..i
  OBVIOUS
<1>2. CASE cs = "asking"
  BY <1>1, <1>2 DEF Turn, Waits
<1>3. CASE cs \in {"announcing", "free"}
  BY <1>1, <1>3 DEF Turn, Waits
<1>4. CASE cs = "off" /\ es = "hearing"
  BY <1>1, <1>4 DEF Turn, Waits
<1>5. CASE cs = "off" /\ es = "idle"
  BY <1>1, <1>5 DEF Turn, Waits
<1> QED
  BY <1>2, <1>3, <1>4, <1>5

(* The identification has arrived.                                         *)
LEMMA TurnTold ==
  ASSUME NEW cs \in {"off", "announcing", "free", "asking"}, NEW fc, NEW fe, NEW k, NEW m, NEW i \in Nat,
         NEW serving, NEW serves, Turn(cs, "hearing", fc, fe, k, m, i, serving), fc # << >>
  PROVE  Turn(cs, "told", Tail(fc), fe, k, m, i, serves)
<1>1. \A a, b : Tail(<<a>>) = << >> /\ Tail(<<a, b>>) = <<b>>
  BY FewMessages
<1>2. CASE cs = "asking"
  BY <1>1, <1>2 DEF Turn, Waits
<1>3. CASE cs \in {"announcing", "free"}
  BY <1>1, <1>3 DEF Turn, Waits
<1>4. CASE cs = "off"
  <2>1. fc = <<IdentOf(k, m)>> \/ \E j \in 0..i : fc = <<IdentOf(k, m), RequestOf(k, m, j)>>
    BY <1>4 DEF Turn
  <2>2. Tail(fc) = << >> \/ \E j \in 0..i : Tail(fc) = <<RequestOf(k, m, j)>>
    BY <1>1, <2>1
  <2>3. fe = << >>
    BY <1>4 DEF Turn
  <2> QED
    BY <1>4, <2>2, <2>3 DEF Turn, Waits
<1> QED
  BY <1>2, <1>3, <1>4

(* A request has arrived.                                                  *)
LEMMA TurnAsked ==
  ASSUME NEW cs \in {"off", "announcing", "free", "asking"}, NEW fc, NEW fe, NEW k, NEW m, NEW i \in Nat,
         NEW serving, NEW serves, Turn(cs, "idle", fc, fe, k, m, i, serving), fc # << >>, cs = "asking" => serves
  PROVE  Turn(cs, "working", Tail(fc), fe, k, m, i, serves)
<1>1. \A a : Tail(<<a>>) = << >>
  BY FewMessages
<1>2. CASE cs = "asking"
  BY <1>1, <1>2 DEF Turn, Waits
<1>3. CASE cs \in {"announcing", "free"}
  BY <1>1, <1>3 DEF Turn, Waits
<1>4. CASE cs = "off"
  BY <1>1, <1>4 DEF Turn, Waits
<1> QED
  BY <1>2, <1>3, <1>4

(* An answer has arrived.                                                  *)
LEMMA TurnAnswered ==
  ASSUME NEW es, NEW fc, NEW fe, NEW k, NEW m, NEW i, NEW serving, NEW serves,
         Turn("asking", es, fc, fe, k, m, i, serving), fe # << >>
  PROVE  /\ \E lo \in LastOrder : fe = <<AnswerOf(k, m, i, lo)>>
         /\ m["caller"] = m["engineer"]
         /\ Turn("free", es, fc, Tail(fe), k, m, i, serves)
<1>1. \A a : Tail(<<a>>) = << >>
  BY FewMessages
<1> QED
  BY <1>1 DEF Turn, Waits

-----------------------------------------------------------------------------
(* What a step of one side leaves alone.                                   *)

(* The stages are these.                                                   *)
LEMMA Stages ==
  /\ CallerStage \in {"off", "announcing", "free", "asking"}
  /\ EngineerStage \in {"off", "hearing", "told", "idle", "working", "spin"}
BY DEF CallerStage, EngineerStage

(* The engineer's side, when only the caller moves.                        *)
LEMMA EngineerStays ==
  ASSUME pc'["engineer"] = pc["engineer"], io'["engineer"].call = io["engineer"].call,
         io["engineer"].call # "recv" => io'["engineer"].buffer = io["engineer"].buffer,
         sock'["engineer"].open = sock["engineer"].open, job' = job, kind' = kind, machine' = machine
  PROVE  /\ EngineerStage' = EngineerStage
         /\ \A i : Serving(i) => Serving(i)'
<1>1. EngineerStage' = EngineerStage
  BY DEF EngineerStage, At
<1>2. ASSUME NEW i, Serving(i) PROVE Serving(i)'
  <2>1. At("engineer", "receive", {"ok"})' => io'["engineer"].buffer = RequestOf(kind', machine', i)
    BY <1>2 DEF Serving, At
  <2>2. pc'["engineer"] \in {"serve", "reply"} => job' = Request(kind', i)
    BY <1>2 DEF Serving
  <2>3. ASSUME At("engineer", "reply", {"send"})'
        PROVE  \E lo \in LastOrder : io'["engineer"].buffer = AnswerOf(kind', machine', i, lo)
    BY <1>2, <2>3 DEF Serving, At
  <2> QED
    BY <2>1, <2>2, <2>3 DEF Serving
<1> QED
  BY <1>1, <1>2

(* What the engineer knows, too.                                           *)
LEMMA EngineerKnowsStill ==
  ASSUME pc'["engineer"] = pc["engineer"], io'["engineer"].call = io["engineer"].call,
         io["engineer"].call # "recv" => io'["engineer"].buffer = io["engineer"].buffer,
         sock'["engineer"].open = sock["engineer"].open, job' = job, kind' = kind, machine' = machine,
         status' = status, lost' = lost, n \in Nat, n' \in Nat, n <= n', sock'["caller"].open => sock["caller"].open,
         EngineerKnows
  PROVE  EngineerKnows'
<1>1. EngineerStage' = EngineerStage /\ \A i : Serving(i) => Serving(i)'
  BY EngineerStays
<1>2. \E i \in 0..n' : Serving(i)'
  <2>1. PICK i \in 0..n : Serving(i)
    BY DEF EngineerKnows
  <2>2. i \in 0..n'
    BY <2>1
  <2> QED
    BY <1>1, <2>1, <2>2
<1>3. pc'["engineer"] \in {"serve", "reply"} \/ EngineerStage' \in {"idle", "working"} => Same' /\ status' = Role(kind')
  BY <1>1 DEF EngineerKnows, Same
<1>4. EngineerStage' = "told" => io'["engineer"].buffer = IdentOf(kind', machine')
  BY <1>1 DEF EngineerKnows, EngineerStage, At
<1>5. At("engineer", "status", {"failed"})' => ~sock'["caller"].open \/ lost'
  BY DEF EngineerKnows, At
<1>6. pc'["engineer"] = "spin" => ~sock'["caller"].open \/ ~Same' \/ lost'
  BY DEF EngineerKnows, Same
<1> QED
  BY <1>2, <1>3, <1>4, <1>5, <1>6 DEF EngineerKnows

(* The caller's side, when only the engineer moves.                        *)
LEMMA CallerStays ==
  ASSUME pc'["caller"] = pc["caller"], io'["caller"].call = io["caller"].call,
         io["caller"].call # "recv" => io'["caller"].buffer = io["caller"].buffer,
         sock'["caller"].open = sock["caller"].open, pc'["engineer"] = "accept" <=> pc["engineer"] = "accept"
  PROVE  CallerStage' = CallerStage
BY DEF CallerStage, At

(* What the caller knows, too.                                             *)
LEMMA CallerKnowsStill ==
  ASSUME pc'["caller"] = pc["caller"], io'["caller"].call = io["caller"].call,
         io["caller"].call # "recv" => io'["caller"].buffer = io["caller"].buffer,
         got' = got, n' = n, kind' = kind, machine' = machine, CallerKnows
  PROVE  CallerKnows'
<1>1. ASSUME At("caller", "await", {"ok"})'
      PROVE  Same' /\ \E lo \in LastOrder : io'["caller"].buffer = AnswerOf(kind', machine', n', lo)
  BY <1>1 DEF CallerKnows, Same, At
<1>2. \/ got'.answer = NoObject \/ got'.answer = NewAnswer(kind')
      \/ Same' /\ \E i \in 0..n', lo \in LastOrder : got' = [asked |-> Request(kind', i), answer |-> Answer(kind', i, lo)]
  BY DEF CallerKnows, Same
<1> QED
  BY <1>1, <1>2 DEF CallerKnows

(* A caller that has not got an answer of this request knows what it knew. *)
LEMMA CallerGoesOn ==
  ASSUME ~At("caller", "await", {"ok"})', got' = got, n \in Nat, n' \in Nat, n <= n', kind' = kind, machine' = machine,
         CallerKnows
  PROVE  CallerKnows'
<1>1. \/ got'.answer = NoObject \/ got'.answer = NewAnswer(kind')
      \/ Same' /\ \E i \in 0..n', lo \in LastOrder : got' = [asked |-> Request(kind', i), answer |-> Answer(kind', i, lo)]
  <2>1. \A i \in 0..n : i \in 0..n'
    OBVIOUS
  <2> QED
    BY <2>1 DEF CallerKnows, Same
<1> QED
  BY <1>1 DEF CallerKnows

(* The bytes under way, when no socket is touched.                         *)
LEMMA StreamStill ==
  ASSUME StreamInv, wire' = wire, flight' = flight, sock' = sock, kind' = kind,
         EngineerStage' = "hearing" <=> EngineerStage = "hearing",
         \A s \in Side : HadOf(io'[s]) = HadOf(io[s]) /\ SentOf(io'[s]) = SentOf(io[s])
  PROVE  StreamInv'
<1>1. ASSUME NEW s \in Side PROVE StreamOf(s)'
  <2>1. StreamOf(s) /\ Other(s) \in Side
    BY DEF StreamInv, Other, Side
  <2>2. Bound(s)' = Bound(s)
    BY DEF Bound
  <2>3. HadOf(io'[Other(s)]) = HadOf(io[Other(s)]) /\ SentOf(io'[s]) = SentOf(io[s])
    BY <2>1
  <2> QED
    BY <2>1, <2>2, <2>3 DEF StreamOf
<1> QED
  BY <1>1 DEF StreamInv

-----------------------------------------------------------------------------
(* ConnectionInv holds at the start and is kept when threads move.         *)

(* Nothing under way: what a call has that has not begun.                  *)
LEMMA NothingYet ==
  ASSUME NEW r, r.call = "send" => r.buffer \in Seq(Byte) /\ r.size = Len(r.buffer),
         r.call = "recv" => r.buffer = << >>
  PROVE  HadOf(r) = << >> /\ SentOf(r) = << >>
<1>1. ASSUME r.call = "send" PROVE SubSeq(r.buffer, 1, Len(r.buffer) - r.size) = << >>
  <2>1. Len(r.buffer) \in Nat
    BY <1>1, LenProperties
  <2>2. Len(r.buffer) - r.size = 0
    BY <1>1, <2>1
  <2> QED
    BY <1>1, <2>2, SubSeqProperties
<1> QED
  BY <1>1 DEF HadOf, SentOf

(* Nothing had, nothing on the wire and nothing in flight is a stream.     *)
LEMMA EmptyStream ==
  ASSUME NEW sent, NEW open, NEW bound \in Nat \ {0}, open => sent = << >>
  PROVE  Stream(<< >>, << >>, << >>, sent, open, bound)
<1>1. << >> \in Seq(Byte) /\ Len(<< >>) < bound
  BY EmptySeq
<1>2. Joined(<< >>) = << >>
  BY FewMessages
<1>3. SameBytes(<< >>, << >>, Joined(<< >>), << >>)
  BY <1>2 DEF SameBytes
<1> QED
  BY <1>1, <1>3 DEF Stream

(* The initial states.                                                     *)
LEMMA InitConnection == Init => ConnectionInv
<1> SUFFICES ASSUME Init PROVE ConnectionInv
  OBVIOUS
<1>1. LocalInv
  BY InitLocal
<1>2. "caller" \in Side /\ "engineer" \in Side
  BY DEF Side
<1>3. /\ pc["caller"] = "init" /\ pc["engineer"] = "accept" /\ ~sock["caller"].open /\ ~sock["engineer"].open
      /\ flight["caller"] = << >> /\ flight["engineer"] = << >> /\ wire["caller"] = << >> /\ wire["engineer"] = << >>
      /\ n = 0 /\ got.answer = NoObject
  BY <1>2 DEF Init
<1>4. CallerStage = "off" /\ EngineerStage = "off"
  BY <1>3 DEF CallerStage, EngineerStage
<1>5. TurnInv
  BY <1>3, <1>4 DEF TurnInv, Turn, Waits
<1>6. EngineerKnows
  <2>1. 0 \in 0..n /\ Serving(0)
    BY <1>3 DEF Serving, At
  <2> QED
    BY <1>3, <1>4, <2>1 DEF EngineerKnows, At
<1>7. CallerKnows
  BY <1>3 DEF CallerKnows, At
<1>8. StreamInv /\ ClosedInv
  BY <1>2, <1>3 DEF StreamInv, StreamOf, ClosedInv, Other, Side
<1> QED
  BY <1>1, <1>5, <1>6, <1>7, <1>8 DEF ConnectionInv

(* Nothing is under way on a connection of which neither side is open.     *)
LEMMA NothingUnderWay ==
  ASSUME ConnectionInv, pc["caller"] = "init"
  PROVE  /\ ~sock["caller"].open /\ ~sock["engineer"].open /\ pc["engineer"] = "accept" /\ n = 0
         /\ \A s \in Side : flight[s] = << >> /\ wire[s] = << >>
<1>1. pc["engineer"] = "accept" /\ n = 0 /\ ~sock["caller"].open /\ ~sock["engineer"].open
  BY DEF ConnectionInv, LocalInv, SocketsInv, SocketOK, Lost, NoSocket, Side
<1>2. \A s \in Side : Other(s) \in Side /\ Other(Other(s)) = s /\ ~sock[s].open
  BY <1>1 DEF Other, Side
<1> QED
  BY <1>1, <1>2 DEF ConnectionInv, ClosedInv

(* The caller connects.                                                    *)
LEMMA ConnectKept ==
  ASSUME ConnectionInv, LocalInv', Connect
  PROVE  ConnectionInv'
<1>1. "caller" \in Side /\ "engineer" \in Side /\ \A s \in Side : Other(s) \in Side /\ Other(Other(s)) = s
  BY DEF Side, Other
<1>2. /\ ~sock["caller"].open /\ ~sock["engineer"].open /\ pc["engineer"] = "accept" /\ n = 0
      /\ \A s \in Side : flight[s] = << >> /\ wire[s] = << >>
  BY NothingUnderWay DEF Connect
<1>3. PICK b : b = StatusBytes(machine["caller"], WordOf(Announced))
  OBVIOUS
<1>4. Len(b) = 4 /\ b \in Seq(Byte)
  <2>1. b = IdentOf(kind, machine)
    BY <1>3 DEF IdentOf, Announced
  <2> QED
    BY <2>1, CallSizes DEF ConnectionInv, LocalInv
<1>5. /\ io'["caller"] = [call |-> "send", buffer |-> b, size |-> 4]
      /\ io'["engineer"] = [call |-> "recv", buffer |-> << >>, size |-> 4]
      /\ pc'["caller"] = "identify" /\ pc'["engineer"] = "status"
      /\ sock'["caller"].open
      /\ UNCHANGED <<kind, machine, n, got, status, job, wire, flight>>
  <2>1. sock'["caller"].open
    <3>1. PICK fails \in BOOLEAN : sock' = [s \in Side |-> Accepted(s = "engineer" /\ fails)]
      BY DEF Connect
    <3>2. sock'["caller"] = Accepted(FALSE)
      BY <1>1, <3>1
    <3>3. Accepted(FALSE).open
      BY DEF Accepted
    <3> QED
      BY <3>2, <3>3
  <2>2. /\ io' = [s \in Side |-> IF s = "caller" THEN SendsStatus ELSE Receiving(Width)]
        /\ pc' = [s \in Side |-> IF s = "caller" THEN "identify" ELSE "status"]
        /\ UNCHANGED <<kind, machine, n, got, status, job, wire, flight>>
    BY DEF Connect
  <2>3. SendsStatus = [call |-> "send", buffer |-> b, size |-> 4]
    BY <1>3, <1>4 DEF SendsStatus, Sending
  <2> QED
    BY <1>1, <2>1, <2>2, <2>3, Constants DEF Receiving
<1>6. CallerStage' = "announcing" /\ EngineerStage' \in {"hearing", "off"}
  BY <1>1, <1>5 DEF CallerStage, EngineerStage, At
<1>7. TurnInv'
  BY <1>1, <1>2, <1>5, <1>6 DEF TurnInv, Turn, Waits
<1>8. EngineerKnows'
  <2>1. 0 \in 0..n' /\ Serving(0)'
    BY <1>2, <1>5 DEF Serving, At
  <2> QED
    BY <1>5, <1>6, <2>1 DEF EngineerKnows, At
<1>9. CallerKnows'
  BY <1>1, <1>2, <1>5, CallerGoesOn DEF ConnectionInv, At
<1>10. StreamInv'
  <2>1. ASSUME NEW s \in Side PROVE StreamOf(s)'
    <3>1. wire'[s] = << >> /\ flight'[s] = << >> /\ HadOf(io'[Other(s)]) = << >> /\ SentOf(io'[s]) = << >>
      <4>1. /\ io'["caller"].call = "send" /\ io'["caller"].buffer = b /\ io'["caller"].size = 4
            /\ io'["engineer"].call = "recv" /\ io'["engineer"].buffer = << >>
        BY <1>5
      <4>2. HadOf(io'["caller"]) = << >> /\ SentOf(io'["caller"]) = << >>
        BY <1>4, <4>1, NothingYet
      <4>3. HadOf(io'["engineer"]) = << >> /\ SentOf(io'["engineer"]) = << >>
        BY <4>1, NothingYet
      <4>4. s \in {"caller", "engineer"} /\ Other(s) \in {"caller", "engineer"}
        BY <1>1 DEF Side
      <4> QED
        BY <1>2, <1>5, <4>2, <4>3, <4>4
    <3>2. Bound(s)' \in Nat \ {0}
      <4>1. Size(AnswerClass(kind)) \in Nat \ {0} /\ Size(RequestClass(kind)) \in Nat \ {0}
        BY CallSizes DEF ConnectionInv, LocalInv
      <4> QED
        BY <1>5, <4>1 DEF Bound
    <3>3. Stream(<< >>, << >>, << >>, << >>, sock'[s].open, Bound(s)')
      BY <3>2, EmptyStream
    <3> QED
      BY <3>1, <3>3 DEF StreamOf
  <2> QED
    BY <2>1 DEF StreamInv
<1>11. ClosedInv'
  BY <1>1, <1>2, <1>5 DEF ClosedInv
<1> QED
  BY <1>7, <1>8, <1>9, <1>10, <1>11 DEF ConnectionInv

(* The caller cannot connect.                                              *)
LEMMA ConnectFailsKept ==
  ASSUME ConnectionInv, LocalInv', ConnectFails
  PROVE  ConnectionInv'
<1>1. "caller" \in Side /\ "engineer" \in Side /\ \A s \in Side : Other(s) \in Side /\ Other(Other(s)) = s
  BY DEF Side, Other
<1>2. /\ ~sock["caller"].open /\ ~sock["engineer"].open /\ pc["engineer"] = "accept" /\ n = 0
      /\ \A s \in Side : flight[s] = << >> /\ wire[s] = << >>
  BY NothingUnderWay DEF ConnectFails
<1>3. /\ pc'["caller"] = "done" /\ pc'["engineer"] = "accept" /\ ~sock'["engineer"].open
      /\ UNCHANGED <<kind, machine, io, n, got, status, job, wire, flight>>
  BY <1>1, <1>2 DEF ConnectFails, ConnectionInv, LocalInv, Types, Side
<1>4. CallerStage' = "off" /\ EngineerStage' = "off" /\ EngineerStage = "off"
  BY <1>2, <1>3 DEF CallerStage, EngineerStage
<1>5. TurnInv'
  BY <1>1, <1>2, <1>3, <1>4 DEF TurnInv, Turn, Waits
<1>6. EngineerKnows'
  <2>1. 0 \in 0..n' /\ Serving(0)'
    BY <1>2, <1>3 DEF Serving, At
  <2> QED
    BY <1>3, <1>4, <2>1 DEF EngineerKnows, At
<1>7. CallerKnows'
  BY <1>1, <1>2, <1>3, CallerGoesOn DEF ConnectionInv, At
<1>8. StreamInv'
  <2>1. StreamOf("caller")'
    BY <1>1, <1>3 DEF StreamOf, Other
  <2>2. StreamOf("engineer")'
    <3>1. HadOf(io'["caller"]) = << >> /\ Other("engineer") = "caller"
      BY <1>3 DEF HadOf, ConnectionInv, LocalInv, CallerIO, ConnectFails, Other
    <3>2. PICK d : d = Bound("engineer")'
      OBVIOUS
    <3>3. d \in Nat \ {0}
      BY <1>3, <3>2, CallSizes DEF Bound, ConnectionInv, LocalInv
    <3>5. Stream(<< >>, << >>, << >>, SentOf(io'["engineer"]), FALSE, d)
      BY <3>3, EmptyStream
    <3>6. wire'["engineer"] = << >> /\ flight'["engineer"] = << >> /\ sock'["engineer"].open = FALSE
      <4>1. sock'["engineer"].open \in BOOLEAN
        BY <1>1 DEF LocalInv, Types, SocketRec
      <4> QED
        BY <1>1, <1>2, <1>3, <4>1
    <3> QED
      BY <3>1, <3>2, <3>5, <3>6 DEF StreamOf
  <2> QED
    BY <2>1, <2>2 DEF StreamInv, Side
<1>9. ClosedInv'
  BY <1>1, <1>2, <1>3 DEF ClosedInv
<1> QED
  BY <1>5, <1>6, <1>7, <1>8, <1>9 DEF ConnectionInv

(* The caller gets no socket.                                              *)
LEMMA SocketFailsKept ==
  ASSUME ConnectionInv, LocalInv', SocketFails
  PROVE  ConnectionInv'
<1>1. "caller" \in Side /\ "engineer" \in Side /\ \A s \in Side : Other(s) \in Side /\ Other(Other(s)) = s
  BY DEF Side, Other
<1>2. /\ ~sock["caller"].open /\ ~sock["engineer"].open /\ pc["engineer"] = "accept" /\ n = 0
      /\ \A s \in Side : flight[s] = << >> /\ wire[s] = << >>
  BY NothingUnderWay DEF SocketFails
<1>3. /\ pc'["caller"] \in {"done", "identify"} /\ pc'["engineer"] = "accept"
      /\ ~sock'["engineer"].open /\ ~sock'["caller"].open
      /\ UNCHANGED <<kind, machine, n, got, status, job, wire, lost, flight>>
  BY <1>1, <1>2 DEF SocketFails, ConnectionInv, LocalInv, Types, Side
<1>4. CallerStage' = "off" /\ EngineerStage' = "off" /\ EngineerStage = "off"
  BY <1>2, <1>3 DEF CallerStage, EngineerStage
<1>5. TurnInv'
  BY <1>1, <1>2, <1>3, <1>4 DEF TurnInv, Turn, Waits
<1>6. EngineerKnows'
  <2>1. 0 \in 0..n' /\ Serving(0)'
    BY <1>2, <1>3 DEF Serving, At
  <2> QED
    BY <1>3, <1>4, <2>1 DEF EngineerKnows, At
<1>7. CallerKnows'
  BY <1>1, <1>2, <1>3, CallerGoesOn DEF ConnectionInv, At
<1>8. StreamInv'
  BY <1>1, <1>3 DEF StreamInv, StreamOf, Other, Side
<1>9. ClosedInv'
  BY <1>1, <1>2, <1>3 DEF ClosedInv
<1> QED
  BY <1>5, <1>6, <1>7, <1>8, <1>9 DEF ConnectionInv

(* The process of an engineer thread that has lost its descriptor dies.    *)
LEMMA LossKept ==
  ASSUME ConnectionInv, LocalInv', DieAfterLoss
  PROVE  ConnectionInv'
<1>0. LocalInv /\ Types /\ SocketsInv /\ TurnInv /\ EngineerKnows /\ CallerKnows /\ StreamInv /\ ClosedInv
  BY DEF ConnectionInv, LocalInv
<1>1. "caller" \in Side /\ "engineer" \in Side /\ \A s \in Side : Other(s) \in Side /\ Other(Other(s)) = s
  BY DEF Side, Other
<1>2. ~sock["engineer"].open /\ pc["engineer"] # "accept"
  BY <1>0, <1>1 DEF SocketsInv, SocketOK, Lost, DieAfterLoss
<1>3. /\ pc'["engineer"] = "done" /\ pc'["caller"] = pc["caller"] /\ io'["caller"] = io["caller"]
      /\ ~sock'["engineer"].open /\ sock'["caller"] = sock["caller"]
      /\ UNCHANGED <<kind, machine, n, got, wire, flight>>
  BY <1>0, <1>1 DEF DieAfterLoss, Closed, Types, SocketRec
<1>4. CallerStage' = CallerStage /\ EngineerStage' = "off" /\ EngineerStage = "off"
  BY <1>2, <1>3 DEF CallerStage, EngineerStage, At
<1>5. TurnInv'
  <2>1. PICK cs, fc, fe : cs = CallerStage /\ fc = flight["caller"] /\ fe = flight["engineer"]
    OBVIOUS
  <2>2. Turn(cs, "off", fc, fe, kind, machine, n, Serving(n))
    BY <1>0, <1>4, <2>1 DEF TurnInv
  <2>3. Turn(cs, "off", fc, fe, kind, machine, n, Serving(n)')
    BY <2>2 DEF Turn
  <2> QED
    BY <1>3, <1>4, <2>1, <2>3 DEF TurnInv
<1>6. EngineerKnows'
  <2>1. n \in Nat
    BY <1>0, Constants DEF Types
  <2>2. 0 \in 0..n' /\ Serving(0)'
    BY <1>3, <2>1 DEF Serving, At
  <2> QED
    BY <1>3, <1>4, <2>2 DEF EngineerKnows, At
<1>7. CallerKnows'
  BY <1>0, <1>3, CallerKnowsStill
<1>8. StreamInv'
  <2>1. StreamOf("caller")'
    BY <1>1, <1>3 DEF StreamOf, Other
  <2>2. StreamOf("engineer")'
    <3>1. StreamOf("engineer") /\ Other("engineer") = "caller"
      BY <1>0, <1>1 DEF StreamInv, Other
    <3>2. ASSUME sock["caller"].open
          PROVE  Stream(HadOf(io'["caller"]), wire'["engineer"], flight'["engineer"], SentOf(io'["engineer"]),
                        sock'["engineer"].open, Bound("engineer")')
      <4>1. Stream(HadOf(io["caller"]), wire["engineer"], flight["engineer"], SentOf(io["engineer"]),
                   sock["engineer"].open, Bound("engineer"))
        BY <3>1, <3>2 DEF StreamOf
      <4>2. Bound("engineer")' = Bound("engineer")
        BY <1>3 DEF Bound
      <4>3. Stream(HadOf(io["caller"]), wire["engineer"], flight["engineer"], SentOf(io'["engineer"]),
                   sock'["engineer"].open, Bound("engineer"))
        BY <1>2, <1>3, <4>1 DEF Stream
      <4> QED
        BY <1>3, <4>2, <4>3
    <3> QED
      BY <1>3, <3>1, <3>2 DEF StreamOf
  <2> QED
    BY <2>1, <2>2 DEF StreamInv, Side
<1>9. ClosedInv'
  BY <1>0, <1>1, <1>2, <1>3 DEF ClosedInv, Side
<1> QED
  BY <1>5, <1>6, <1>7, <1>8, <1>9 DEF ConnectionInv

(* A step of the caller between two calls of Send or Recv.                 *)
LEMMA CallerMoves ==
  ASSUME ConnectionInv, LocalInv', CallerKnows', CallerStage' = CallerStage,
         n <= n', CallerStage = "asking" => n' = n,
         pc'["engineer"] = pc["engineer"], io'["engineer"] = io["engineer"],
         UNCHANGED <<kind, machine, sock, status, job, wire, flight, lost>>,
         HadOf(io'["caller"]) = HadOf(io["caller"]), SentOf(io'["caller"]) = SentOf(io["caller"])
  PROVE  ConnectionInv'
<1>1. n \in Nat /\ n' \in Nat
  BY Constants DEF ConnectionInv, LocalInv, Types
<1>2. EngineerStage' = EngineerStage /\ \A i : Serving(i) => Serving(i)'
  BY EngineerStays
<1>3. EngineerKnows'
  BY <1>1, EngineerKnowsStill DEF ConnectionInv
<1>4. TurnInv'
  <2>1. PICK cs, es, fc, fe : cs = CallerStage /\ es = EngineerStage /\ fc = flight["caller"] /\ fe = flight["engineer"]
    OBVIOUS
  <2>2. Turn(cs, es, fc, fe, kind, machine, n, Serving(n))
    BY <2>1 DEF ConnectionInv, TurnInv
  <2>3. cs = "asking" => n' = n /\ (Serving(n) => Serving(n)')
    BY <1>2, <2>1
  <2>4. Turn(cs, es, fc, fe, kind, machine, n', Serving(n)')
    BY <1>1, <2>2, <2>3, TurnOfCaller
  <2> QED
    BY <1>2, <2>1, <2>4 DEF TurnInv
<1>5. StreamInv'
  <2>1. \A s \in Side : HadOf(io'[s]) = HadOf(io[s]) /\ SentOf(io'[s]) = SentOf(io[s])
    BY DEF Side
  <2> QED
    BY <1>2, <2>1, StreamStill DEF ConnectionInv
<1>6. ClosedInv'
  BY DEF ConnectionInv, ClosedInv
<1> QED
  BY <1>3, <1>4, <1>5, <1>6 DEF ConnectionInv

(* What the caller unmarshals is the answer the engineer marshalled.       *)
LEMMA AnswerUnmarshalled ==
  ASSUME Types, Same, NEW i \in Int, NEW lo \in LastOrder
  PROVE  Unmarshal(machine["caller"], AnswerClass(kind), AnswerOf(kind, machine, i, lo)) = Answer(kind, i, lo)
<1>1. /\ kind \in Kind /\ machine["caller"] \in ByteOrder /\ machine["engineer"] \in ByteOrder /\ lo \in Int
      /\ machine["caller"] = machine["engineer"]
  BY Constants DEF Types, Same, LastOrder
<1>2. AnswerClass(kind) \in Class /\ Answer(kind, i, lo) \in Object(AnswerClass(kind))
  BY <1>1, AnswerTyped
<1> QED
  BY <1>1, <1>2, RoundTrip DEF AnswerOf

(* What the engineer unmarshals is the request the caller marshalled.      *)
LEMMA RequestUnmarshalled ==
  ASSUME Types, Same, NEW i \in Int
  PROVE  Unmarshal(machine["engineer"], RequestClass(kind), RequestOf(kind, machine, i)) = Request(kind, i)
<1>1. /\ kind \in Kind /\ machine["caller"] \in ByteOrder /\ machine["engineer"] \in ByteOrder
      /\ machine["caller"] = machine["engineer"]
  BY Constants DEF Types, Same
<1>2. RequestClass(kind) \in Class /\ Request(kind, i) \in Object(RequestClass(kind))
  BY <1>1, RequestTyped
<1> QED
  BY <1>1, <1>2, RoundTrip DEF RequestOf

(* The calls of a stub.                                                    *)
LEMMA CallsKept ==
  ASSUME ConnectionInv, LocalInv', Identified \/ Ask \/ Await \/ CallReturns
  PROVE  ConnectionInv'
<1>0. /\ Types /\ CallerIO /\ SocketsInv /\ n \in Nat /\ "caller" \in Side /\ "engineer" \in Side /\ kind \in Kind
      /\ io \in [Side -> IoRec] /\ pc \in [Side -> CallerPc \cup EngineerPc] /\ io["caller"] \in IoRec
      /\ SocketOK("caller") /\ sock["caller"].open \in BOOLEAN
      /\ Types' /\ CallerIO'
  BY Constants DEF ConnectionInv, LocalInv, Types, Side, SocketsInv, SocketRec
<1>1. /\ pc'["engineer"] = pc["engineer"] /\ io'["engineer"] = io["engineer"]
      /\ UNCHANGED <<kind, machine, sock, status, job, wire, flight, lost>>
  <2>1. CASE Identified
    BY <1>0, <2>1 DEF Identified
  <2>2. CASE Ask
    BY <1>0, <2>2 DEF Ask
  <2>3. CASE Await
    BY <1>0, <2>3 DEF Await
  <2>4. CASE CallReturns
    BY <1>0, <2>4 DEF CallReturns
  <2> QED
    BY <2>1, <2>2, <2>3, <2>4
<1>2. pc["caller"] \notin Resting
  <2>1. pc["caller"] \in {"identify", "next", "ask", "await"}
    BY DEF Identified, Ask, Await, CallReturns
  <2> QED
    BY <1>0, <2>1 DEF SocketsInv, Resting
<1>3. /\ io["caller"].call = "ok" => sock["caller"].open
      /\ io["caller"].call = "failed" => ~sock["caller"].open
  BY <1>0, <1>2 DEF SocketOK, Lost, NoSocket, Types, CallerPc
<1>4. CASE Identified
  <2>1. /\ pc["caller"] = "identify" /\ pc'["caller"] = "next" /\ io' = io /\ n' = n /\ got' = got
        /\ io["caller"].call \in {"ok", "failed"}
    BY <1>0, <1>4 DEF Identified
  <2>2. CallerStage' = CallerStage
    BY <1>1, <1>3, <2>1 DEF CallerStage, At
  <2>3. CallerKnows'
    BY <1>0, <1>1, <2>1, CallerGoesOn DEF ConnectionInv, At
  <2> QED
    BY <1>0, <1>1, <2>1, <2>2, <2>3, CallerMoves
<1>5. CASE Ask
  <2>1. /\ pc["caller"] = "next" /\ pc'["caller"] = "ask" /\ n' = n /\ got' = got
        /\ io'["caller"] = Sending(RequestOf(kind, machine, n)) /\ io["caller"].call \in {"ok", "failed"}
    BY <1>0, <1>5 DEF Ask, RequestOf, CallerIO
  <2>2. CallerStage' = CallerStage
    BY <1>1, <2>1 DEF CallerStage, At, Sending
  <2>3. CallerKnows'
    BY <1>0, <1>1, <2>1, CallerGoesOn DEF ConnectionInv, At
  <2>4. HadOf(io'["caller"]) = << >> /\ SentOf(io'["caller"]) = << >>
    <3>1. RequestOf(kind, machine, n) \in Seq(Byte)
      BY <1>0, CallSizes
    <3>2. PICK r : r = io'["caller"]
      OBVIOUS
    <3>3. r.call = "send" /\ r.buffer \in Seq(Byte) /\ r.size = Len(r.buffer)
      BY <2>1, <3>1, <3>2 DEF Sending
    <3> QED
      BY <3>2, <3>3, NothingYet
  <2>5. HadOf(io["caller"]) = << >> /\ SentOf(io["caller"]) = << >>
    BY <2>1, NothingYet
  <2> QED
    BY <1>0, <1>1, <2>1, <2>2, <2>3, <2>4, <2>5, CallerMoves
<1>6. CASE Await
  <2>1. /\ pc["caller"] = "ask" /\ pc'["caller"] = "await" /\ n' = n /\ got' = got
        /\ io'["caller"] = Receiving(Size(AnswerClass(kind))) /\ io["caller"].call = "ok"
    BY <1>0, <1>6 DEF Await
  <2>2. CallerStage' = CallerStage
    BY <1>1, <2>1 DEF CallerStage, At, Receiving
  <2>3. CallerKnows'
    BY <1>0, <1>1, <2>1, CallerGoesOn DEF ConnectionInv, At, Receiving
  <2>4. HadOf(io'["caller"]) = << >> /\ SentOf(io'["caller"]) = << >>
    BY <2>1, NothingYet DEF Receiving
  <2>5. HadOf(io["caller"]) = << >> /\ SentOf(io["caller"]) = << >>
    BY <2>1, NothingYet
  <2> QED
    BY <1>0, <1>1, <2>1, <2>2, <2>3, <2>4, <2>5, CallerMoves
<1>7. CASE CallReturns
  <2>1. /\ pc'["caller"] \in {"end", "next"} /\ n' = n + 1 /\ io' = io
        /\ \/ pc["caller"] = "await" /\ io["caller"].call \in {"ok", "failed"}
           \/ pc["caller"] = "ask" /\ io["caller"].call = "failed"
    BY <1>0, <1>7 DEF CallReturns
  <2>2. CallerStage' = CallerStage /\ CallerStage # "asking"
    BY <1>1, <1>2, <1>3, <2>1 DEF CallerStage, At
  <2>3. CallerKnows'
    <3>1. ~At("caller", "await", {"ok"})'
      BY <2>1 DEF At
    <3>2. CASE io["caller"].call = "failed"
      <4>1. got'.answer = NewAnswer(kind')
        BY <1>1, <1>7, <3>2 DEF CallReturns
      <4> QED
        BY <3>1, <4>1 DEF CallerKnows
    <3>3. CASE io["caller"].call = "ok"
      <4>1. PICK lo \in LastOrder : io["caller"].buffer = AnswerOf(kind, machine, n, lo)
        BY <2>1, <3>3 DEF ConnectionInv, CallerKnows, At
      <4>2. Same
        BY <2>1, <3>3 DEF ConnectionInv, CallerKnows, At
      <4>3. Unmarshal(machine["caller"], AnswerClass(kind), io["caller"].buffer) = Answer(kind, n, lo)
        BY <1>0, <4>1, <4>2, AnswerUnmarshalled
      <4>4. got' = [asked |-> Request(kind, n), answer |-> Answer(kind, n, lo)]
        BY <1>7, <3>3, <4>3 DEF CallReturns
      <4>5. n \in 0..n' /\ Same' /\ kind' = kind
        BY <1>0, <1>1, <2>1, <4>2 DEF Same
      <4> QED
        BY <3>1, <4>4, <4>5 DEF CallerKnows
    <3> QED
      BY <2>1, <3>2, <3>3
  <2>4. n <= n'
    BY <1>0, <2>1
  <2> QED
    BY <1>1, <2>1, <2>2, <2>3, <2>4, CallerMoves
<1> QED
  BY <1>4, <1>5, <1>6, <1>7

(* A step of the engineer thread between two calls of Send or Recv.        *)
LEMMA EngineerMoves ==
  ASSUME ConnectionInv, LocalInv', EngineerKnows',
         EngineerStage' = EngineerStage \/ (EngineerStage = "told" /\ EngineerStage' \in {"idle", "spin"}),
         EngineerStage = "working" /\ Serving(n) => Serving(n)',
         pc'["caller"] = pc["caller"], io'["caller"] = io["caller"],
         pc["engineer"] # "accept", pc'["engineer"] # "accept",
         UNCHANGED <<kind, machine, sock, n, got, wire, flight, lost>>,
         HadOf(io'["engineer"]) = HadOf(io["engineer"]), SentOf(io'["engineer"]) = SentOf(io["engineer"])
  PROVE  ConnectionInv'
<1>1. CallerStage' = CallerStage
  BY CallerStays
<1>2. CallerKnows'
  BY CallerKnowsStill DEF ConnectionInv
<1>3. TurnInv'
  <2>1. PICK cs, es, fc, fe, next :
          cs = CallerStage /\ es = EngineerStage /\ fc = flight["caller"] /\ fe = flight["engineer"] /\ next = EngineerStage'
    OBVIOUS
  <2>2. Turn(cs, es, fc, fe, kind, machine, n, Serving(n))
    BY <2>1 DEF ConnectionInv, TurnInv
  <2>3. /\ next = es \/ (es = "told" /\ next \in {"idle", "spin"})
        /\ es = "working" /\ Serving(n) => Serving(n)'
    BY <2>1
  <2>4. Turn(cs, next, fc, fe, kind, machine, n, Serving(n)')
    BY <2>2, <2>3, TurnOfEngineer
  <2> QED
    BY <1>1, <2>1, <2>4 DEF TurnInv
<1>4. StreamInv'
  <2>1. \A s \in Side : HadOf(io'[s]) = HadOf(io[s]) /\ SentOf(io'[s]) = SentOf(io[s])
    BY DEF Side
  <2>2. EngineerStage' = "hearing" <=> EngineerStage = "hearing"
    OBVIOUS
  <2> QED
    BY <2>1, <2>2, StreamStill DEF ConnectionInv
<1>5. ClosedInv'
  BY DEF ConnectionInv, ClosedInv
<1> QED
  BY <1>2, <1>3, <1>4, <1>5 DEF ConnectionInv

(* The role an engineer thread is in when the caller has announced it.     *)
LEMMA Roles ==
  ASSUME Types
  PROVE  /\ Role(kind) \in {WordOf(1), WordOf(2)} /\ Role(kind) \in Word
         /\ ServedClass(Role(kind)) = RequestClass(kind)
         /\ Role(kind) = WordOf(2) <=> kind = "primary"
         /\ IdentOf(kind, machine) = StatusBytes(machine["caller"], Role(kind))
         /\ machine["caller"] \in ByteOrder /\ machine["engineer"] \in ByteOrder
<1>1. kind \in Kind /\ WordOf(1) # WordOf(2) /\ WordOf(1) \in Word /\ WordOf(2) \in Word
      /\ machine["caller"] \in ByteOrder /\ machine["engineer"] \in ByteOrder
  BY Constants, SmallWords, WordOfInt DEF Types
<1> QED
  BY <1>1 DEF Role, ServedClass, RequestClass, IdentOf

(* What the engineer makes of the identification.                          *)
LEMMA StatusHeard ==
  ASSUME Types
  PROVE  LET st == StatusOf(machine["engineer"], IdentOf(kind, machine)) IN
         /\ Same => st = Role(kind)
         /\ ~Same => st \notin {WordOf(1), WordOf(2)}
<1>1. CASE Same
  BY <1>1, Roles, MemoryOfWord DEF Same, StatusOf, StatusBytes
<1>2. CASE ~Same
  <2>1. PICK i \in {1, 2} : Role(kind) = WordOf(i)
    BY DEF Role
  <2>2. IdentOf(kind, machine) = StatusBytes(machine["caller"], WordOf(i))
    BY <2>1, Roles
  <2>3. machine["caller"] # machine["engineer"]
    BY <1>2 DEF Same
  <2> QED
    BY <1>2, <2>2, <2>3, Roles, ForeignStatus
<1> QED
  BY <1>1, <1>2

(* The engineer answers request i.                                         *)
LEMMA AnswersAre ==
  ASSUME Types, NEW i \in Int, NEW lo \in LastOrder, status = Role(kind), job = Request(kind, i)
  PROVE  /\ Answers(lo) = AnswerOf(kind, machine, i, lo)
         /\ Answers(lo) \in Seq(Byte) /\ Answers(lo) # << >>
<1>0. kind \in Kind /\ machine["engineer"] \in ByteOrder /\ lo \in Int
      /\ WordOf(1) \notin {WordOf(2), WordOf(3)} /\ WordOf(2) # WordOf(3)
  BY Constants, SmallWords DEF Types, LastOrder
<1>1. Answers(lo) = AnswerOf(kind, machine, i, lo)
  <2>1. CASE kind = "primary"
    <3>1. status = WordOf(2)
      BY <2>1, Roles
    <3>2. job.arg1 = WordOf(5) /\ job.arg2 = WordOf(i)
      BY <2>1 DEF Request, MakeReplicationRequest
    <3> QED
      BY <2>1, <3>1, <3>2 DEF Answers, AnswerOf, Answer, AnswerClass
  <2>2. CASE kind = "orders"
    <3>1. status # WordOf(2) /\ job.laptop_type = WordOf(1)
      BY <2>2, Roles DEF Request, SetOrder
    <3> QED
      BY <2>2, <3>1 DEF Answers, AnswerOf, Answer, AnswerClass
  <2>3. CASE kind \in {"read", "reads"}
    <3>1. status # WordOf(2) /\ job.laptop_type \in {WordOf(2), WordOf(3)}
      BY <2>3, Roles DEF Request, SetOrder
    <3>2. job.laptop_type # WordOf(1)
      BY <1>0, <3>1
    <3> QED
      BY <2>3, <3>1, <3>2 DEF Answers, AnswerOf, Answer, AnswerClass
  <2> QED
    BY <1>0, <2>1, <2>2, <2>3 DEF Kind
<1>2. AnswerOf(kind, machine, i, lo) \in Seq(Byte) /\ Len(AnswerOf(kind, machine, i, lo)) = Size(AnswerClass(kind))
  BY <1>0, AnswerTyped, Marshalled DEF AnswerOf
<1>3. Len(AnswerOf(kind, machine, i, lo)) # 0
  BY <1>2, CallSizes
<1>4. Len(<< >>) = 0
  OBVIOUS
<1> QED
  BY <1>1, <1>2, <1>3, <1>4

(* The steps of the engineer thread.                                       *)
LEMMA EngineerKept ==
  ASSUME ConnectionInv, LocalInv', ReceiveStatusInfo \/ ReceiveRequest \/ Serve \/ Replied
  PROVE  ConnectionInv'
<1>0. /\ Types /\ EngineerIO /\ SocketsInv /\ n \in Nat /\ "caller" \in Side /\ "engineer" \in Side /\ kind \in Kind
      /\ io \in [Side -> IoRec] /\ pc \in [Side -> CallerPc \cup EngineerPc] /\ io["engineer"] \in IoRec
      /\ pc["engineer"] \in EngineerPc
      /\ SocketOK("engineer") /\ EngineerKnows /\ Types' /\ 0 \in 0..n /\ status \in Word
  BY Constants DEF ConnectionInv, LocalInv, Types, Side, SocketsInv
<1>1. pc["engineer"] \in {"status", "receive", "serve", "reply"}
  BY DEF ReceiveStatusInfo, ReceiveRequest, Serve, Replied
<1>2. /\ io["engineer"].call = "ok" => sock["engineer"].open
      /\ io["engineer"].call = "failed" => ~sock["engineer"].open
  BY <1>0, <1>1 DEF SocketOK, Lost, NoSocket, Resting
<1>3. CASE ReceiveStatusInfo
  <2>1. /\ pc["engineer"] = "status" /\ io["engineer"].call \in {"ok", "failed"} /\ Loop(status')
        /\ UNCHANGED <<kind, machine, sock, n, got, job, wire, reset, lost, flight, last>>
        /\ io["engineer"].call = "ok" => status' = StatusOf(machine["engineer"], io["engineer"].buffer)
    BY <1>3 DEF ReceiveStatusInfo
  <2>2. status' \in Word
    BY <1>0 DEF Types
  <2>3. PICK on \in BOOLEAN : on <=> status' \in {WordOf(1), WordOf(2)}
    OBVIOUS
  <2>4. /\ pc' = [pc EXCEPT !["engineer"] = IF on THEN "receive" ELSE "spin"]
        /\ io' = [io EXCEPT !["engineer"] = [call |-> IF on THEN "recv" ELSE "ok", buffer |-> << >>,
                                             size |-> IF on THEN Size(ServedClass(status')) ELSE 0]]
    BY <1>0, <2>1, <2>2, <2>3, LoopStarts
  <2>5. /\ pc'["engineer"] = IF on THEN "receive" ELSE "spin"
        /\ io'["engineer"].call = (IF on THEN "recv" ELSE "ok") /\ io'["engineer"].buffer = << >>
        /\ pc'["caller"] = pc["caller"] /\ io'["caller"] = io["caller"]
    BY <1>0, <2>4
  <2>6. \A i : Serving(i)'
    BY <2>5 DEF Serving, At
  <2>7. CASE io["engineer"].call = "ok"
    <3>1. EngineerStage = "told"
      BY <1>2, <2>1, <2>7 DEF EngineerStage, At
    <3>2. (Same => on /\ status' = Role(kind)) /\ (~Same => ~on)
      <4>1. status' = StatusOf(machine["engineer"], IdentOf(kind, machine))
        BY <1>0, <2>1, <2>7, <3>1 DEF EngineerKnows
      <4> QED
        BY <1>0, <2>3, <4>1, StatusHeard, Roles
    <3>3. EngineerStage' = IF on THEN "idle" ELSE "spin"
      BY <1>2, <2>1, <2>5, <2>7 DEF EngineerStage, At
    <3>4. EngineerKnows'
      BY <1>0, <2>1, <2>5, <2>6, <3>2, <3>3 DEF EngineerKnows, At, Same
    <3>5. HadOf(io["engineer"]) = << >> /\ SentOf(io["engineer"]) = << >>
      BY <2>7, NothingYet
    <3>6. HadOf(io'["engineer"]) = << >> /\ SentOf(io'["engineer"]) = << >>
      BY <2>5, NothingYet
    <3>7. pc["engineer"] # "accept" /\ pc'["engineer"] # "accept"
      BY <2>1, <2>5
    <3> QED
      BY <2>1, <2>5, <3>1, <3>3, <3>4, <3>5, <3>6, <3>7, EngineerMoves
  <2>8. CASE io["engineer"].call = "failed"
    <3>1. EngineerStage = "off" /\ EngineerStage' = "off"
      BY <1>2, <2>1, <2>8 DEF EngineerStage
    <3>2. ~sock["caller"].open \/ lost
      BY <1>0, <2>1, <2>8 DEF EngineerKnows, At
    <3>4. EngineerKnows'
      BY <1>0, <2>1, <2>5, <2>6, <3>1, <3>2 DEF EngineerKnows, At
    <3>5. HadOf(io["engineer"]) = << >> /\ SentOf(io["engineer"]) = << >>
      BY <2>8, NothingYet
    <3>6. HadOf(io'["engineer"]) = << >> /\ SentOf(io'["engineer"]) = << >>
      BY <2>5, NothingYet
    <3>7. pc["engineer"] # "accept" /\ pc'["engineer"] # "accept"
      BY <2>1, <2>5
    <3> QED
      BY <2>1, <2>5, <3>1, <3>4, <3>5, <3>6, <3>7, EngineerMoves
  <2> QED
    BY <2>1, <2>7, <2>8
<1>4. CASE ReceiveRequest
  <2>1. /\ pc["engineer"] = "receive" /\ pc' = [pc EXCEPT !["engineer"] = "serve"] /\ job' = Received
        /\ io["engineer"].call \in {"ok", "failed"} /\ ~Stops
        /\ UNCHANGED <<kind, machine, sock, io, n, got, status, wire, reset, lost, flight, last>>
    BY <1>4 DEF ReceiveRequest
  <2>2. /\ io["engineer"].call = "ok"
        /\ Received = Unmarshal(machine["engineer"], ServedClass(status), io["engineer"].buffer)
    BY <2>1, WholeRequest DEF ConnectionInv
  <2>3. pc'["engineer"] = "serve" /\ pc'["caller"] = pc["caller"]
    BY <1>0, <2>1
  <2>4. EngineerStage = "working" /\ EngineerStage' = "working"
    BY <1>2, <2>1, <2>2, <2>3 DEF EngineerStage, At
  <2>5. Same /\ status = Role(kind)
    BY <1>0, <2>4 DEF EngineerKnows
  <2>6. ASSUME NEW i \in Nat, Serving(i) PROVE Serving(i)'
    <3>1. io["engineer"].buffer = RequestOf(kind, machine, i)
      BY <2>1, <2>2, <2>6 DEF Serving, At
    <3>2. job' = Request(kind, i)
      BY <1>0, <2>1, <2>2, <2>5, <3>1, Roles, RequestUnmarshalled
    <3> QED
      BY <2>1, <2>3, <3>2 DEF Serving, At
  <2>7. EngineerKnows'
    <3>1. PICK i \in 0..n : Serving(i)
      BY <1>0 DEF EngineerKnows
    <3>2. i \in Nat /\ i \in 0..n' /\ Serving(i)'
      BY <1>0, <2>1, <2>6, <3>1
    <3> QED
      BY <2>1, <2>3, <2>4, <2>5, <3>2 DEF EngineerKnows, At, Same
  <2>8. pc["engineer"] # "accept" /\ pc'["engineer"] # "accept"
    BY <2>1, <2>3
  <2> QED
    BY <1>0, <2>1, <2>3, <2>4, <2>6, <2>7, <2>8, EngineerMoves
<1>5. CASE Serve
  <2>1. /\ pc["engineer"] = "serve" /\ io["engineer"].call = "ok"
        /\ UNCHANGED <<kind, machine, sock, n, got, status, job, wire, reset, lost, flight, last>>
    BY <1>0, <1>5 DEF Serve, EngineerIO
  <2>2. EngineerStage = "working"
    BY <1>2, <2>1 DEF EngineerStage, At
  <2>3. Same /\ status = Role(kind)
    BY <1>0, <2>1 DEF EngineerKnows
  <2>4. PICK i \in 0..n : Serving(i)
    BY <1>0 DEF EngineerKnows
  <2>5. job = Request(kind, i) /\ i \in Int
    BY <1>0, <2>1, <2>4 DEF Serving
  <2>6. PICK lo \in LastOrder : IF Answers(lo) = << >> THEN Loop(status)
                                ELSE /\ pc' = [pc EXCEPT !["engineer"] = "reply"]
                                     /\ io' = [io EXCEPT !["engineer"] = Sending(Answers(lo))]
    BY <1>5 DEF Serve, LastOrder
  <2>7. \A j \in Int : job = Request(kind, j) => /\ Answers(lo) = AnswerOf(kind, machine, j, lo)
                                                 /\ Answers(lo) \in Seq(Byte) /\ Answers(lo) # << >>
    BY <1>0, <2>3, AnswersAre
  <2>8. Answers(lo) \in Seq(Byte) /\ Answers(lo) # << >>
    BY <2>5, <2>7
  <2>9. /\ pc'["engineer"] = "reply" /\ pc'["caller"] = pc["caller"] /\ io'["caller"] = io["caller"]
        /\ io'["engineer"].call = "send" /\ io'["engineer"].buffer = Answers(lo)
        /\ io'["engineer"].size = Len(Answers(lo))
    BY <1>0, <2>6, <2>8 DEF Sending
  <2>10. EngineerStage' = "working"
    BY <1>2, <2>1, <2>9 DEF EngineerStage, At
  <2>11. ASSUME NEW j \in Nat, Serving(j) PROVE Serving(j)'
    <3>1. job = Request(kind, j)
      BY <2>1, <2>11 DEF Serving
    <3>2. Answers(lo) = AnswerOf(kind, machine, j, lo)
      BY <2>7, <3>1
    <3> QED
      BY <2>1, <2>9, <3>1, <3>2 DEF Serving, At
  <2>12. EngineerKnows'
    <3>1. i \in Nat /\ i \in 0..n' /\ Serving(i)'
      BY <1>0, <2>1, <2>4, <2>11
    <3> QED
      BY <2>1, <2>3, <2>9, <2>10, <3>1 DEF EngineerKnows, At, Same
  <2>13. HadOf(io["engineer"]) = << >> /\ SentOf(io["engineer"]) = << >>
    BY <2>1, NothingYet
  <2>14. HadOf(io'["engineer"]) = << >> /\ SentOf(io'["engineer"]) = << >>
    BY <2>8, <2>9, NothingYet
  <2>15. pc["engineer"] # "accept" /\ pc'["engineer"] # "accept"
    BY <2>1, <2>9
  <2> QED
    BY <1>0, <2>1, <2>2, <2>9, <2>10, <2>11, <2>12, <2>13, <2>14, <2>15, EngineerMoves
<1>6. CASE Replied
  <2>1. /\ pc["engineer"] = "reply" /\ io["engineer"].call \in {"ok", "failed"} /\ Loop(status)
        /\ UNCHANGED <<kind, machine, sock, n, got, status, job, wire, reset, lost, flight, last>>
    BY <1>6 DEF Replied
  <2>2. Same /\ status = Role(kind) /\ status \in {WordOf(1), WordOf(2)}
    BY <1>0, <2>1, Roles DEF EngineerKnows
  <2>3. /\ pc' = [pc EXCEPT !["engineer"] = "receive"]
        /\ io' = [io EXCEPT !["engineer"] = [call |-> "recv", buffer |-> << >>, size |-> Size(ServedClass(status))]]
    BY <1>0, <2>1, <2>2, LoopStarts
  <2>4. /\ pc'["engineer"] = "receive" /\ io'["engineer"].call = "recv" /\ io'["engineer"].buffer = << >>
        /\ pc'["caller"] = pc["caller"] /\ io'["caller"] = io["caller"]
    BY <1>0, <2>3
  <2>5. \A i : Serving(i)'
    BY <2>4 DEF Serving, At
  <2>6. EngineerStage' = EngineerStage /\ EngineerStage # "told"
    BY <1>2, <2>1, <2>4 DEF EngineerStage, At
  <2>7. EngineerKnows'
    BY <1>0, <2>1, <2>2, <2>4, <2>5, <2>6 DEF EngineerKnows, At, Same
  <2>8. HadOf(io["engineer"]) = << >> /\ SentOf(io["engineer"]) = << >>
    BY <2>1, NothingYet
  <2>9. HadOf(io'["engineer"]) = << >> /\ SentOf(io'["engineer"]) = << >>
    BY <2>4, NothingYet
  <2>10. pc["engineer"] # "accept" /\ pc'["engineer"] # "accept"
    BY <2>1, <2>4
  <2> QED
    BY <2>1, <2>4, <2>5, <2>6, <2>7, <2>8, <2>9, <2>10, EngineerMoves
<1> QED
  BY <1>3, <1>4, <1>5, <1>6

(* A side closes its socket, in a call that fails or because it ends.      *)
LEMMA Closes ==
  ASSUME ConnectionInv, LocalInv', NEW s \in Side, pc[s] \notin Resting, Shutdown(s), ~sock'[s].open,
         pc'[s] \in {pc[s], "done"}, pc'[s] # "done" => io'[s].call = "failed",
         pc'["engineer"] = "status" /\ s = "engineer" => ~sock["caller"].open \/ lost,
         pc'[Other(s)] = pc[Other(s)], io'[Other(s)] = io[Other(s)], sock'[Other(s)] = sock[Other(s)],
         UNCHANGED <<kind, machine, n, got, status, job, lost>>
  PROVE  ConnectionInv'
<1>0. /\ Types /\ SocketsInv /\ n \in Nat /\ wire \in [Side -> Seq(Byte)] /\ flight \in [Side -> Seq(Seq(Byte))]
      /\ s = "engineer" => pc["engineer"] # "accept" /\ pc'["engineer"] # "accept"
  BY Constants DEF ConnectionInv, LocalInv, Types, Resting, Side
<1>1. Other(s) \in Side /\ Other(s) # s /\ Other(Other(s)) = s /\ \A t \in Side : t # s => t = Other(s)
  BY DEF Other, Side
<1>2. /\ wire'[Other(s)] = << >> /\ flight'[Other(s)] = << >>
      /\ wire'[s] = wire[s] /\ flight'[s] = flight[s]
  BY <1>0, <1>1 DEF Shutdown
<1>3. CASE s = "caller"
  <2>1. Other(s) = "engineer"
    BY <1>3 DEF Other
  <2>2. CallerStage' = "off"
    BY <1>3 DEF CallerStage
  <2>3. EngineerStage' = EngineerStage
    BY <2>1, EngineerStays
  <2>4. EngineerKnows'
    BY <1>0, <1>3, <2>1, EngineerKnowsStill DEF ConnectionInv
  <2>5. CallerKnows'
    BY <1>0, <1>3, CallerGoesOn DEF ConnectionInv, At
  <2>6. TurnInv'
    <3>1. PICK cs, es, fc, fe : cs = CallerStage /\ es = EngineerStage /\ fc = flight["caller"] /\ fe = flight["engineer"]
      OBVIOUS
    <3>2. Turn(cs, es, fc, fe, kind, machine, n, Serving(n)) /\ cs \in {"off", "announcing", "free", "asking"}
      BY <3>1, Stages DEF ConnectionInv, TurnInv
    <3>3. Turn("off", es, fc, << >>, kind, machine, n, Serving(n)')
      BY <1>0, <3>2, TurnWithoutCaller
    <3> QED
      BY <1>2, <1>3, <2>1, <2>2, <2>3, <3>1, <3>3 DEF TurnInv
  <2> QED
    <3>1. Bound(s)' = Bound(s)
      BY <1>2, <1>3, <2>3 DEF Bound
    <3>2. StreamOf(s)'
      BY <1>1, <1>2, <3>1 DEF ConnectionInv, StreamInv, StreamOf, Stream
    <3>3. StreamInv'
      BY <1>1, <3>2 DEF StreamInv, StreamOf
    <3>4. ClosedInv'
      BY <1>1, <1>2 DEF ConnectionInv, ClosedInv
    <3> QED
      BY <2>4, <2>5, <2>6, <3>3, <3>4 DEF ConnectionInv
<1>4. CASE s = "engineer"
  <2>1. Other(s) = "caller"
    BY <1>4 DEF Other
  <2>2. EngineerStage' = "off"
    BY <1>4 DEF EngineerStage
  <2>3. CallerStage' = CallerStage
    <3>1. pc["engineer"] # "accept" /\ pc'["engineer"] # "accept"
      BY <1>0, <1>4
    <3> QED
      BY <2>1, <3>1, CallerStays
  <2>4. EngineerKnows'
    <3>1. PICK i \in 0..n : Serving(i)
      BY DEF ConnectionInv, EngineerKnows
    <3>2. Serving(i)'
      BY <1>4, <3>1 DEF Serving, At
    <3>3. pc'["engineer"] \in {"serve", "reply"} => pc["engineer"] \in {"serve", "reply"}
      BY <1>4
    <3>4. pc'["engineer"] = "spin" => pc["engineer"] = "spin"
      BY <1>4
    <3> QED
      BY <1>4, <2>1, <2>2, <3>1, <3>2, <3>3, <3>4 DEF ConnectionInv, EngineerKnows, Same, At
  <2>5. CallerKnows'
    BY <2>1, CallerKnowsStill DEF ConnectionInv
  <2>6. TurnInv'
    <3>1. PICK cs, es, fc, fe : cs = CallerStage /\ es = EngineerStage /\ fc = flight["caller"] /\ fe = flight["engineer"]
      OBVIOUS
    <3>2. Turn(cs, es, fc, fe, kind, machine, n, Serving(n))
      BY <3>1 DEF ConnectionInv, TurnInv
    <3>3. Turn(cs, "off", << >>, fe, kind, machine, n, Serving(n)')
      BY <3>2, TurnWithoutEngineer
    <3> QED
      BY <1>2, <1>4, <2>1, <2>2, <2>3, <3>1, <3>3 DEF TurnInv
  <2> QED
    <3>1. Bound(s)' = Bound(s)
      BY <1>4 DEF Bound
    <3>2. StreamOf(s)'
      BY <1>1, <1>2, <3>1 DEF ConnectionInv, StreamInv, StreamOf, Stream
    <3>3. StreamInv'
      BY <1>1, <3>2 DEF StreamInv, StreamOf
    <3>4. ClosedInv'
      BY <1>1, <1>2 DEF ConnectionInv, ClosedInv
    <3> QED
      BY <2>4, <2>5, <2>6, <3>3, <3>4 DEF ConnectionInv
<1> QED
  BY <1>3, <1>4 DEF Side

(* A call fails.                                                           *)
LEMMA FailsKept ==
  ASSUME ConnectionInv, LocalInv', NEW s \in Side, SendFails(s) \/ RecvFails(s)
  PROVE  ConnectionInv'
<1>0. /\ Types /\ CallerIO /\ EngineerIO /\ SocketsInv /\ SocketOK(s) /\ Fails(s) /\ Shutdown(s)
      /\ io[s].call \in {"send", "recv"}
      /\ io \in [Side -> IoRec] /\ sock \in [Side -> SocketRec] /\ Other(s) \in Side /\ Other(s) # s
      /\ s \in {"caller", "engineer"}
  BY DEF ConnectionInv, LocalInv, Types, SocketsInv, SendFails, RecvFails, Fails, Side, Other
<1>1. pc[s] \notin Resting
  BY <1>0 DEF CallerIO, EngineerIO, Types, Resting, CallerPc, EngineerPc
<1>2. /\ pc' = pc /\ io'[s].call = "failed" /\ ~sock'[s].open
      /\ io'[Other(s)] = io[Other(s)] /\ sock'[Other(s)] = sock[Other(s)]
      /\ UNCHANGED <<kind, machine, n, got, status, job, lost>>
  BY <1>0 DEF Fails, threads, Closed, SocketRec, Idle
<1>3. pc["engineer"] = "status" /\ s = "engineer" => ~sock["caller"].open \/ lost
  <2>1. SUFFICES ASSUME pc["engineer"] = "status", s = "engineer", ~lost PROVE ~sock["caller"].open
    OBVIOUS
  <2>2. io[s].call = "recv" /\ sock[s].open /\ Other(s) = "caller"
    BY <1>0, <2>1 DEF EngineerIO, SocketOK, Lost, NoSocket, Other
  <2>3. reset[s] \/ ~sock[Other(s)].open
    BY <2>2 DEF SendFails, RecvFails
  <2> QED
    BY <1>0, <2>2, <2>3 DEF SocketOK, Lost, NoSocket
<1> QED
  BY <1>0, <1>1, <1>2, <1>3, Closes

(* A side ends.                                                            *)
LEMMA EndsKept ==
  ASSUME ConnectionInv, LocalInv', NEW s \in Side, pc[s] \notin Resting, Ends(s)
  PROVE  ConnectionInv'
<1>0. /\ Shutdown(s) /\ io \in [Side -> IoRec] /\ sock \in [Side -> SocketRec] /\ Other(s) \in Side /\ Other(s) # s
      /\ pc \in [Side -> CallerPc \cup EngineerPc]
  BY DEF ConnectionInv, LocalInv, Types, Ends, Side, Other
<1>1. /\ pc'[s] = "done" /\ ~sock'[s].open /\ pc'[Other(s)] = pc[Other(s)]
      /\ io'[Other(s)] = io[Other(s)] /\ sock'[Other(s)] = sock[Other(s)]
      /\ UNCHANGED <<kind, machine, n, got, status, job, lost>>
  BY <1>0 DEF Ends, Closed, SocketRec
<1>2. pc'["engineer"] = "status" /\ s = "engineer" => ~sock["caller"].open \/ lost
  BY <1>1
<1> QED
  BY <1>0, <1>1, <1>2, Closes

-----------------------------------------------------------------------------
(* ConnectionInv is kept when bytes move.                                  *)

(* What a send does to its call.                                           *)
LEMMA SendEffect ==
  ASSUME LocalInv, NEW s \in Side, NEW k \in Bytes, SendSome(s, k)
  PROVE  /\ io[s].call = "send" /\ sock[s].open
         /\ io[s].buffer \in Seq(Byte) /\ SentOf(io[s]) \in Seq(Byte) /\ Chunk(io[s], k) \in Seq(Byte)
         /\ io'[s].buffer = io[s].buffer /\ io'[s].call = (IF k = io[s].size THEN "ok" ELSE "send")
         /\ k # io[s].size => /\ SentOf(io'[s]) = SentOf(io[s]) \o Chunk(io[s], k)
                              /\ Len(SentOf(io'[s])) < Len(io[s].buffer)
         /\ k = io[s].size => SentOf(io'[s]) = << >> /\ SentOf(io[s]) \o Chunk(io[s], k) = io[s].buffer
         /\ HadOf(io[s]) = << >> /\ HadOf(io'[s]) = << >>
         /\ io'[Other(s)] = io[Other(s)]
         /\ UNCHANGED <<kind, machine, sock, pc, n, got, status, job, lost, last>>
         /\ s = "caller" => pc[s] \in {"identify", "ask"}
         /\ s = "engineer" => pc[s] = "reply"
<1>0. /\ Types /\ CallerIO /\ EngineerIO /\ k \in 1..28 /\ s \in {"caller", "engineer"} /\ Other(s) \in Side /\ Other(s) # s
      /\ io \in [Side -> IoRec] /\ io[s] \in IoRec
  <2>1. s \in {"caller", "engineer"} /\ Other(s) \in Side /\ Other(s) # s
    BY DEF Side, Other
  <2> QED
    BY <2>1, Constants DEF LocalInv, Types
<1>1. /\ io[s].call = "send" /\ k <= io[s].size /\ sock[s].open
      /\ UNCHANGED <<kind, machine, sock, pc, n, got, status, job, lost, last>>
  BY DEF SendSome, threads
<1>2. PICK b, j : b = io[s].buffer /\ j = io[s].size
  OBVIOUS
<1>3. b \in Seq(Byte) /\ j \in 1..Len(b) /\ Len(b) \in Nat /\ k \in 1..j
  <2>1. b \in Seq(Byte) /\ j \in 1..Len(b)
    BY <1>0, <1>1, <1>2 DEF CallerIO, EngineerIO, Transfer, Types, IoRec, CallerPc, EngineerPc
  <2>2. Len(b) \in Nat /\ k <= j
    BY <1>1, <1>2, <2>1, LenProperties
  <2> QED
    BY <1>0, <2>1, <2>2
<1>4. PICK r : io' = [io EXCEPT ![s] = r] /\ r = [io[s] EXCEPT !.size = @ - k, !.call = IF k = io[s].size THEN "ok" ELSE @]
  BY <1>0 DEF SendSome
<1>5. r.buffer = b /\ r.call = (IF k = j THEN "ok" ELSE "send") /\ r.size = j - k
  <2>1. PICK x \in Nat : x = j - k
    BY <1>3
  <2>4. PICK r0 : r0 = io[s] /\ r0 \in IoRec
    BY <1>0
  <2>5. r0 = [call |-> r0.call, buffer |-> r0.buffer, size |-> r0.size]
    BY <2>4 DEF IoRec
  <2>6. [r0 EXCEPT !.size = x] = [call |-> r0.call, buffer |-> r0.buffer, size |-> x]
    BY <2>5
  <2>2. [io[s] EXCEPT !.size = x] = [call |-> "send", buffer |-> b, size |-> x]
    BY <1>1, <1>2, <2>4, <2>6
  <2>3. r = [call |-> IF k = j THEN "ok" ELSE "send", buffer |-> b, size |-> x]
    BY <1>1, <1>2, <1>4, <2>1, <2>2
  <2> QED
    BY <2>1, <2>3
<1>6. io'[s] = r /\ io'[Other(s)] = io[Other(s)]
  BY <1>0, <1>4
<1>7. PICK c : c = Chunk(io[s], k)
  OBVIOUS
<1>8. /\ SubSeq(b, 1, Len(b) - j) \in Seq(Byte) /\ c \in Seq(Byte)
      /\ SubSeq(b, 1, Len(b) - j) \o c = SubSeq(b, 1, Len(b) - (j - k))
      /\ k = j => SubSeq(b, 1, Len(b) - j) \o c = b
      /\ Len(SubSeq(b, 1, Len(b) - j)) = Len(b) - j /\ Len(c) = k
  <2>1. c = SubSeq(b, Len(b) - j + 1, Len(b) - j + k)
    BY <1>2, <1>7 DEF Chunk
  <2>2. Sends(b, j, k)
    BY <1>3 DEF Sends
  <2>3. /\ SubSeq(b, 1, Len(b) - j) \in Seq(Byte) /\ Len(SubSeq(b, 1, Len(b) - j)) = Len(b) - j
        /\ SubSeq(b, Len(b) - j + 1, Len(b) - j + k) \in Seq(Byte)
        /\ Len(SubSeq(b, Len(b) - j + 1, Len(b) - j + k)) = k
        /\ SubSeq(b, 1, Len(b) - j) \o SubSeq(b, Len(b) - j + 1, Len(b) - j + k)
             = SubSeq(b, 1, Len(b) - (j - k))
        /\ k = j => SubSeq(b, 1, Len(b) - j) \o SubSeq(b, Len(b) - j + 1, Len(b) - j + k) = b
    BY <2>2, SendBytes
  <2> QED
    BY <2>1, <2>3, Zenon
<1>9. SentOf(io[s]) = SubSeq(b, 1, Len(b) - j) /\ HadOf(io[s]) = << >>
  BY <1>1, <1>2 DEF SentOf, HadOf
<1>10. k # j => /\ SentOf(r) = SubSeq(b, 1, Len(b) - j) \o c
                /\ Len(SubSeq(b, 1, Len(b) - j) \o c) < Len(b)
  <2>1. k # j => SentOf(r) = SubSeq(b, 1, Len(b) - (j - k))
    BY <1>5 DEF SentOf
  <2>2. PICK d : d = SubSeq(b, 1, Len(b) - j)
    OBVIOUS
  <2>3. d \in Seq(Byte) /\ Len(d) = Len(b) - j
    BY <1>8, <2>2
  <2>4. Len(d \o c) = Len(b) - j + k
    BY <1>8, <2>3, ConcatProperties
  <2>5. k # j => Len(b) - j + k < Len(b)
    BY <1>3
  <2> QED
    BY <1>8, <2>1, <2>2, <2>4, <2>5
<1>11. k = j => SentOf(r) = << >>
  BY <1>5 DEF SentOf
<1>12. HadOf(r) = << >>
  BY <1>5 DEF HadOf
<1>13. /\ s = "caller" => pc[s] \in {"identify", "ask"}
       /\ s = "engineer" => pc[s] = "reply"
  BY <1>0, <1>1 DEF CallerIO, EngineerIO, Types, CallerPc, EngineerPc
<1> QED
  BY <1>1, <1>2, <1>3, <1>5, <1>6, <1>7, <1>8, <1>9, <1>10, <1>11, <1>12, <1>13

(* The message that a send sends is the next after those in flight, to a   *)
(* side that is open.                                                      *)
LEMMA SendsNext ==
  ASSUME ConnectionInv, NEW s \in Side, io[s].call = "send", sock[s].open,
         s = "caller" => pc[s] \in {"identify", "ask"}, s = "engineer" => pc[s] = "reply"
  PROVE  /\ sock[Other(s)].open => Len(io[s].buffer) = Bound(s)
         /\ \E a \in Seq(Byte) : sock[Other(s)].open => flight[s] \in {<< >>, <<a>>}
         /\ s = "caller" => /\ CallerStage = (IF pc[s] = "identify" THEN "announcing" ELSE "free")
                            /\ io[s].buffer = IF pc[s] = "identify" THEN IdentOf(kind, machine)
                                              ELSE RequestOf(kind, machine, n)
                            /\ flight["engineer"] = << >>
         /\ s = "engineer" => /\ EngineerStage = "working" /\ CallerStage \in {"off", "asking"}
                              /\ (CallerStage = "off" <=> ~sock["caller"].open)
                              /\ flight["caller"] = << >> /\ flight["engineer"] = << >> /\ Same
<1>0. /\ Types /\ CallerIO /\ EngineerIO /\ SocketsInv /\ EngineerKnows /\ TurnInv /\ n \in Nat /\ n \in Int
      /\ << >> \in Seq(Byte) /\ IdentOf(kind, machine) \in Seq(Byte) /\ Len(IdentOf(kind, machine)) = 4
      /\ kind \in Kind /\ machine["engineer"] \in ByteOrder
  BY Constants, CallSizes, EmptySeq DEF ConnectionInv, LocalInv, Types
<1>1. PICK cs, es, fc, fe : cs = CallerStage /\ es = EngineerStage /\ fc = flight["caller"] /\ fe = flight["engineer"]
  OBVIOUS
<1>2. Turn(cs, es, fc, fe, kind, machine, n, Serving(n)) /\ cs \in {"off", "announcing", "free", "asking"}
  BY <1>0, <1>1, Stages DEF TurnInv
<1>3. CASE s = "caller"
  <2>1. Other(s) = "engineer" /\ pc["engineer"] # "accept"
    BY <1>0, <1>3 DEF Other, SocketsInv
  <2>2. cs = IF pc[s] = "identify" THEN "announcing" ELSE "free"
    BY <1>1, <1>3, <2>1 DEF CallerStage, At
  <2>3. /\ pc[s] = "identify" => io[s].buffer = IdentOf(kind, machine)
        /\ pc[s] = "ask" => io[s].buffer = RequestOf(kind, machine, n)
    BY <1>0, <1>3 DEF CallerIO
  <2>4. es = "off" <=> ~sock["engineer"].open
    BY <1>1 DEF EngineerStage
  <2>5. PICK a : a = IF cs = "announcing" THEN IdentOf(kind, machine) ELSE RequestOf(kind, machine, n)
    OBVIOUS
  <2>6. /\ es # "off" => fc \in {<< >>, <<IdentOf(kind, machine)>>} /\ (fc = << >> <=> cs = "announcing" \/ es # "hearing")
        /\ fe = << >>
    <3>1. cs \in {"announcing", "free"}
      BY <2>2
    <3> QED
      BY <1>2, <3>1, CallerSends
  <2>9. cs = "announcing" /\ es # "off" => es = "hearing"
    BY <1>2 DEF Turn
  <2>7. Len(RequestOf(kind, machine, n)) = Size(RequestClass(kind))
    BY <1>0, CallSizes
  <2>8. es # "off" => Len(io[s].buffer) = Bound(s)
    BY <1>0, <1>1, <1>3, <2>2, <2>3, <2>6, <2>7, <2>9 DEF Bound
  <2> QED
    BY <1>0, <1>1, <1>3, <2>1, <2>2, <2>3, <2>4, <2>6, <2>8
<1>4. CASE s = "engineer"
  <2>1. Other(s) = "caller" /\ es = "working" /\ pc["engineer"] = "reply"
    BY <1>1, <1>4 DEF Other, EngineerStage, At
  <2>2. Same /\ machine["caller"] = machine["engineer"]
    BY <1>0, <2>1 DEF EngineerKnows, Same
  <2>3. PICK i \in 0..n, lo \in LastOrder : io[s].buffer = AnswerOf(kind, machine, i, lo)
    BY <1>0, <1>4, <2>1 DEF EngineerKnows, Serving, At
  <2>4. Len(io[s].buffer) = Size(AnswerClass(kind))
    BY <1>0, <2>3, AnswerTyped, Marshalled DEF AnswerOf, LastOrder
  <2>5. cs \in {"off", "asking"} /\ fc = << >> /\ fe = << >>
    BY <1>2, <2>1 DEF Turn, Waits
  <2>6. cs = "off" <=> ~sock["caller"].open
    BY <1>1, <2>1, <2>5 DEF CallerStage
  <2> QED
    BY <1>0, <1>1, <1>4, <2>1, <2>2, <2>4, <2>5, <2>6 DEF Bound
<1> QED
  BY <1>3, <1>4 DEF Side

(* What a send does to the bytes and messages under way.                   *)
LEMMA SendMoves ==
  ASSUME LocalInv, NEW s \in Side, NEW k \in Bytes, SendSome(s, k)
  PROVE  /\ sock[Other(s)].open =>
              /\ wire'[s] = wire[s] \o Chunk(io[s], k)
              /\ flight'[s] = IF k = io[s].size THEN Append(flight[s], io[s].buffer) ELSE flight[s]
         /\ ~sock[Other(s)].open => wire'[s] = wire[s] /\ flight'[s] = flight[s]
         /\ wire'[Other(s)] = wire[Other(s)] /\ flight'[Other(s)] = flight[Other(s)]
<1>1. wire \in [Side -> Seq(Byte)] /\ flight \in [Side -> Seq(Seq(Byte))] /\ Other(s) \in Side /\ Other(s) # s
  BY DEF LocalInv, Types, Other, Side
<1>2. CASE sock[Other(s)].open
  BY <1>1, <1>2 DEF SendSome
<1>3. CASE ~sock[Other(s)].open
  BY <1>3 DEF SendSome
<1> QED
  BY <1>2, <1>3

(* How the stages go on when bytes are sent.                               *)
LEMMA SendStages ==
  ASSUME ConnectionInv, NEW s \in Side, NEW k \in Bytes, SendSome(s, k)
  PROVE  /\ k # io[s].size => CallerStage' = CallerStage /\ EngineerStage' = EngineerStage
         /\ s = "caller" => EngineerStage' = EngineerStage
         /\ s = "engineer" => CallerStage' = CallerStage
         /\ k = io[s].size /\ s = "caller" => CallerStage' = IF pc[s] = "identify" THEN "free" ELSE "asking"
         /\ k = io[s].size /\ s = "engineer" => EngineerStage' = "idle"
<1>0. /\ LocalInv /\ SocketsInv /\ s \in {"caller", "engineer"}
  BY DEF ConnectionInv, LocalInv, Side
<1>1. /\ io[s].call = "send" /\ sock[s].open
      /\ io'[s].buffer = io[s].buffer /\ io'[s].call = (IF k = io[s].size THEN "ok" ELSE "send")
      /\ io'[Other(s)] = io[Other(s)]
      /\ UNCHANGED <<kind, machine, sock, pc, n, got, status, job, lost, last>>
      /\ s = "caller" => pc[s] \in {"identify", "ask"}
      /\ s = "engineer" => pc[s] = "reply"
  BY <1>0, SendEffect
<1>2. CASE s = "caller"
  <2>1. Other(s) = "engineer" /\ pc["engineer"] # "accept"
    BY <1>0, <1>1, <1>2 DEF Other, SocketsInv
  <2>2. EngineerStage' = EngineerStage
    BY <1>1, <2>1 DEF EngineerStage, At
  <2>3. CASE k = io[s].size
    BY <1>1, <1>2, <2>1, <2>2, <2>3 DEF CallerStage, At
  <2>4. CASE k # io[s].size
    BY <1>1, <1>2, <2>1, <2>2, <2>4 DEF CallerStage, At
  <2> QED
    BY <1>2, <2>2, <2>3, <2>4
<1>3. CASE s = "engineer"
  <2>1. Other(s) = "caller"
    BY <1>3 DEF Other
  <2>2. CallerStage' = CallerStage
    BY <1>1, <2>1 DEF CallerStage, At
  <2>3. CASE k = io[s].size
    BY <1>1, <1>3, <2>1, <2>2, <2>3 DEF EngineerStage, At
  <2>4. CASE k # io[s].size
    BY <1>1, <1>3, <2>1, <2>2, <2>4 DEF EngineerStage, At
  <2> QED
    BY <1>3, <2>2, <2>3, <2>4
<1> QED
  BY <1>0, <1>2, <1>3

(* The bytes sent follow those under way.                                  *)
LEMMA SendStream ==
  ASSUME ConnectionInv, NEW s \in Side, NEW k \in Bytes, SendSome(s, k)
  PROVE  StreamInv' /\ ClosedInv'
<1>0. /\ LocalInv /\ Types /\ StreamInv /\ ClosedInv /\ s \in {"caller", "engineer"} /\ Other(s) \in Side /\ Other(s) # s
      /\ Other(Other(s)) = s /\ \A t \in Side : t # s => t = Other(s)
      /\ wire \in [Side -> Seq(Byte)] /\ io \in [Side -> IoRec]
  BY DEF ConnectionInv, LocalInv, Types, Other, Side
<1>1. PICK b, c, sent : b = io[s].buffer /\ c = Chunk(io[s], k) /\ sent = SentOf(io[s])
  OBVIOUS
<1>2. /\ io[s].call = "send" /\ sock[s].open
      /\ b \in Seq(Byte) /\ sent \in Seq(Byte) /\ c \in Seq(Byte)
      /\ k # io[s].size => SentOf(io'[s]) = sent \o c /\ Len(sent \o c) < Len(b)
      /\ k = io[s].size => SentOf(io'[s]) = << >> /\ sent \o c = b
      /\ HadOf(io[s]) = << >> /\ HadOf(io'[s]) = << >>
      /\ io'[Other(s)] = io[Other(s)]
      /\ UNCHANGED <<kind, machine, sock, pc, n, got, status, job, lost, last>>
      /\ s = "caller" => pc[s] \in {"identify", "ask"}
      /\ s = "engineer" => pc[s] = "reply"
  <2>1. LocalInv
    BY <1>0
  <2>2. k # io[s].size => SentOf(io'[s]) = sent \o c /\ Len(sent \o c) < Len(b)
    BY <1>1, <2>1, SendEffect
  <2> QED
    BY <1>1, <2>1, <2>2, SendEffect
<1>3. /\ sock[Other(s)].open =>
           /\ wire'[s] = wire[s] \o c
           /\ flight'[s] = IF k = io[s].size THEN Append(flight[s], b) ELSE flight[s]
      /\ ~sock[Other(s)].open => wire'[s] = wire[s] /\ flight'[s] = flight[s]
      /\ wire'[Other(s)] = wire[Other(s)] /\ flight'[Other(s)] = flight[Other(s)]
  BY <1>0, <1>1, SendMoves
<1>4. /\ sock[Other(s)].open => Len(b) = Bound(s)
      /\ \E a \in Seq(Byte) : sock[Other(s)].open => flight[s] \in {<< >>, <<a>>}
  BY <1>1, <1>2, SendsNext
<1>5. StreamOf(s)'
  <2>1. SUFFICES ASSUME sock'[Other(s)].open
                 PROVE  Stream(HadOf(io'[Other(s)]), wire'[s], flight'[s], SentOf(io'[s]), sock'[s].open, Bound(s)')
    BY DEF StreamOf
  <2>2. PICK had, w, f, bound, open : /\ had = HadOf(io[Other(s)]) /\ w = wire[s] /\ f = flight[s] /\ bound = Bound(s)
                                      /\ open = sock'[s].open
    OBVIOUS
  <2>3. PICK a \in Seq(Byte) : f \in {<< >>, <<a>>}
    BY <1>2, <1>4, <2>1, <2>2
  <2>4. Stream(had, w, f, sent, TRUE, bound)
    <3>1. Stream(had, w, f, sent, sock[s].open, bound)
      BY <1>0, <1>1, <1>2, <2>1, <2>2 DEF StreamInv, StreamOf
    <3> QED
      BY <1>2, <3>1 DEF Stream
  <2>5. had \in Seq(Byte) /\ w \in Seq(Byte) /\ Joined(f) \in Seq(Byte)
    <3>1. Joined(f) \in {<< >>, a}
      BY <2>3, FewMessages
    <3> QED
      BY <1>0, <2>2, <2>3, <3>1, EmptySeq DEF HadOf, IoRec
  <2>6. HadOf(io'[Other(s)]) = had /\ wire'[s] = w \o c /\ sock'[s].open = open
    BY <1>2, <1>3, <2>1, <2>2
  <2>7. CASE k = io[s].size
    <3>1. PICK next : next = Bound(s)'
      OBVIOUS
    <3>2. next \in Nat /\ next > 0
      <4>1. Size(AnswerClass(kind)) \in {8, 12, 20} /\ Size(RequestClass(kind)) \in {12, 28} /\ kind' = kind
        BY <1>0, <1>2, CallSizes
      <4> QED
        BY <3>1, <4>1 DEF Bound
    <3>3. Stream(had, w \o c, Append(f, sent \o c), << >>, open, next)
      BY <2>3, <2>4, <2>5, <1>2, <3>2, StreamSent
    <3>4. SentOf(io'[s]) = << >> /\ flight'[s] = Append(f, sent \o c)
      BY <1>2, <1>3, <2>1, <2>2, <2>7
    <3> QED
      BY <2>6, <3>1, <3>3, <3>4
  <2>8. CASE k # io[s].size
    <3>1. EngineerStage' = EngineerStage /\ flight'[s] = f /\ SentOf(io'[s]) = sent \o c
      BY <1>2, <1>3, <2>1, <2>2, <2>8, SendStages
    <3>2. Bound(s)' = bound
      <4>1. CASE s = "engineer"
        BY <1>2, <2>2, <4>1 DEF Bound
      <4>2. CASE s = "caller"
        BY <1>2, <2>2, <3>1, <4>2 DEF Bound
      <4> QED
        BY <1>0, <4>1, <4>2
    <3>3. Len(sent \o c) < bound
      BY <1>2, <1>4, <2>1, <2>2, <2>8
    <3>4. Stream(had, w \o c, f, sent \o c, open, bound)
      BY <2>4, <2>5, <1>2, <3>3, StreamSend
    <3> QED
      BY <2>6, <3>1, <3>2, <3>4
  <2> QED
    BY <2>7, <2>8
<1>6. StreamOf(Other(s))'
  <2>1. Bound(Other(s))' = Bound(Other(s))
    <3>1. CASE s = "engineer"
      <4>1. EngineerStage = "working" /\ EngineerStage' # "hearing"
        <5>1. EngineerStage = "working"
          BY <1>2, <3>1, SendsNext
        <5> QED
          BY <3>1, <5>1, SendStages
      <4> QED
        BY <1>2, <3>1, <4>1 DEF Bound
    <3>2. CASE s = "caller"
      BY <1>2, <3>2 DEF Bound, Other
    <3> QED
      BY <1>0, <3>1, <3>2
  <2> QED
    BY <1>0, <1>2, <1>3, <2>1 DEF StreamInv, StreamOf
<1>7. StreamInv'
  BY <1>0, <1>5, <1>6 DEF StreamInv
<1>8. ClosedInv'
  BY <1>0, <1>2, <1>3 DEF ClosedInv
<1> QED
  BY <1>7, <1>8

(* One send.                                                               *)
LEMMA SendKept ==
  ASSUME ConnectionInv, LocalInv', NEW s \in Side, NEW k \in Bytes, SendSome(s, k)
  PROVE  ConnectionInv'
<1>0. /\ LocalInv /\ Types /\ TurnInv /\ EngineerKnows /\ CallerKnows /\ SocketsInv /\ n \in Nat
      /\ s \in {"caller", "engineer"}
  BY Constants DEF ConnectionInv, LocalInv, Types, Side
<1>1. PICK b, size : b = io[s].buffer /\ size = io[s].size
  OBVIOUS
<1>2. /\ io[s].call = "send" /\ sock[s].open
      /\ io'[s].buffer = b /\ io'[s].call = (IF k = size THEN "ok" ELSE "send")
      /\ io'[Other(s)] = io[Other(s)]
      /\ UNCHANGED <<kind, machine, sock, pc, n, got, status, job, lost, last>>
      /\ s = "caller" => pc[s] \in {"identify", "ask"}
      /\ s = "engineer" => pc[s] = "reply"
  BY <1>0, <1>1, SendEffect
<1>3. /\ sock[Other(s)].open => flight'[s] = IF k = size THEN Append(flight[s], b) ELSE flight[s]
      /\ ~sock[Other(s)].open => flight'[s] = flight[s]
      /\ flight'[Other(s)] = flight[Other(s)]
  BY <1>0, <1>1, SendMoves
<1>4. StreamInv' /\ ClosedInv'
  BY SendStream
<1>5. PICK cs, es, fc, fe, sv : /\ cs = CallerStage /\ es = EngineerStage /\ fc = flight["caller"] /\ fe = flight["engineer"]
                                /\ sv = Serving(n)
  OBVIOUS
<1>6. Turn(cs, es, fc, fe, kind, machine, n, sv) /\ cs \in {"off", "announcing", "free", "asking"}
  BY <1>0, <1>5, Stages DEF TurnInv
<1>7. CASE s = "caller"
  <2>1. Other(s) = "engineer" /\ pc["engineer"] # "accept"
    BY <1>0, <1>2, <1>7 DEF Other, SocketsInv
  <2>2. EngineerKnows'
    BY <1>0, <1>2, <2>1, EngineerKnowsStill
  <2>3. CallerKnows'
    <3>1. ~At("caller", "await", {"ok"})'
      BY <1>2, <1>7 DEF At
    <3> QED
      BY <1>0, <1>2, <3>1, CallerGoesOn
  <2>4. \A i : Serving(i) => Serving(i)'
    BY <1>2, <2>1, EngineerStays
  <2>5. TurnInv'
    <3>1. /\ cs = IF pc[s] = "identify" THEN "announcing" ELSE "free"
          /\ b = IF pc[s] = "identify" THEN IdentOf(kind, machine) ELSE RequestOf(kind, machine, n)
      <4>1. s = "caller" => /\ CallerStage = (IF pc[s] = "identify" THEN "announcing" ELSE "free")
                            /\ io[s].buffer = IF pc[s] = "identify" THEN IdentOf(kind, machine)
                                              ELSE RequestOf(kind, machine, n)
        BY <1>2, SendsNext
      <4> QED
        BY <1>1, <1>5, <1>7, <4>1
    <3>2. EngineerStage' = es /\ flight'["engineer"] = fe
      BY <1>3, <1>5, <1>7, <2>1, SendStages
    <3>3. es = "off" <=> ~sock["engineer"].open
      BY <1>5 DEF EngineerStage
    <3>4. PICK k0, m0, sv1 : k0 = kind /\ m0 = machine /\ sv1 = Serving(n)'
      OBVIOUS
    <3>5. CASE k = size
      <4>1. cs \in {"announcing", "free"} /\ b = IF cs = "announcing" THEN IdentOf(k0, m0) ELSE RequestOf(k0, m0, n)
        BY <3>1, <3>4
      <4>2. Turn(cs, es, fc, fe, k0, m0, n, sv)
        BY <1>6, <3>4
      <4>3. PICK next : next = IF cs = "announcing" THEN "free" ELSE "asking"
        OBVIOUS
      <4>4. /\ es # "off" => Turn(next, es, Append(fc, b), fe, k0, m0, n, sv1)
            /\ es = "off" => Turn(next, es, fc, fe, k0, m0, n, sv1)
        BY <4>1, <4>2, <4>3, TurnCallerSent
      <4>5. CallerStage' = next
        <5>1. CallerStage' = IF pc[s] = "identify" THEN "free" ELSE "asking"
          BY <1>1, <1>7, <3>5, SendStages
        <5> QED
          BY <3>1, <4>3, <5>1
      <4>6. /\ es # "off" => flight'["caller"] = Append(fc, b)
            /\ es = "off" => flight'["caller"] = fc
        BY <1>3, <1>5, <1>7, <2>1, <3>3, <3>5
      <4>7. Turn(next, es, flight'["caller"], fe, k0, m0, n, sv1)
        BY <4>4, <4>6
      <4> QED
        BY <1>2, <3>2, <3>4, <4>5, <4>7 DEF TurnInv
    <3>6. CASE k # size
      <4>1. CallerStage' = cs
        BY <1>1, <1>5, <3>6, SendStages
      <4>2. flight'["caller"] = fc
        BY <1>3, <1>5, <1>7, <3>6
      <4>3. Turn(cs, es, fc, fe, k0, m0, n, sv1)
        <5>1. Turn(cs, es, fc, fe, kind, machine, n, Serving(n))
          BY <1>0, <1>5 DEF TurnInv
        <5>3. Serving(n) => Serving(n)'
          BY <1>2, <2>4, Zenon
        <5>2. Turn(cs, es, fc, fe, kind, machine, n, Serving(n)')
          BY <1>0, <5>1, <5>3, TurnOfCaller
        <5> QED
          BY <3>4, <5>2
      <4> QED
        BY <1>2, <3>2, <3>4, <4>1, <4>2, <4>3 DEF TurnInv
    <3> QED
      BY <3>5, <3>6
  <2> QED
    BY <1>4, <2>2, <2>3, <2>5 DEF ConnectionInv
<1>8. CASE s = "engineer"
  <2>1. Other(s) = "caller" /\ pc["engineer"] = "reply" /\ pc'["engineer"] = "reply"
    BY <1>2, <1>8 DEF Other
  <2>2. CallerKnows'
    BY <1>0, <1>2, <2>1, CallerKnowsStill
  <2>3. \A i : Serving(i) => Serving(i)'
    BY <1>1, <1>2, <1>8 DEF Serving, At
  <2>4. EngineerStage = "working" /\ Same /\ CallerStage' = CallerStage
    BY <1>2, <1>8, SendsNext, SendStages
  <2>5. EngineerStage' = IF k = size THEN "idle" ELSE "working"
    BY <1>1, <1>8, <2>4, SendStages
  <2>6. EngineerKnows'
    <3>1. PICK i \in 0..n : Serving(i)
      BY <1>0 DEF EngineerKnows
    <3>2. i \in 0..n' /\ Serving(i)'
      BY <1>2, <2>3, <3>1
    <3>3. Same' /\ status' = Role(kind')
      BY <1>0, <1>2, <2>1, <2>4 DEF EngineerKnows, Same
    <3> QED
      BY <2>1, <2>5, <3>2, <3>3 DEF EngineerKnows, At
  <2>7. TurnInv'
    <3>1. PICK k0, m0, sv1 : k0 = kind /\ m0 = machine /\ sv1 = Serving(n)'
      OBVIOUS
    <3>2. es = "working" /\ flight'["caller"] = fc /\ CallerStage' = cs /\ m0["caller"] = m0["engineer"]
      BY <1>3, <1>5, <2>1, <2>4, <3>1 DEF Same
    <3>3. Turn(cs, "working", fc, fe, k0, m0, n, sv)
      BY <1>6, <3>1, <3>2
    <3>4. CASE k = size
      <4>1. PICK lo \in LastOrder : sv => b = AnswerOf(k0, m0, n, lo)
        <5>1. sv => \E lo \in LastOrder : b = AnswerOf(k0, m0, n, lo)
          BY <1>1, <1>2, <1>5, <1>8, <3>1 DEF Serving, At
        <5> QED
          BY <5>1 DEF LastOrder
      <4>2. /\ cs = "asking" => Turn(cs, "idle", fc, Append(fe, b), k0, m0, n, sv1)
            /\ cs = "off" => Turn(cs, "idle", fc, fe, k0, m0, n, sv1)
            /\ cs \in {"off", "asking"}
        BY <1>6, <3>2, <3>3, <4>1, TurnEngineerSent
      <4>3. cs = "off" <=> ~sock["caller"].open
        BY <1>2, <1>5, <1>8, SendsNext
      <4>4. /\ cs = "asking" => flight'["engineer"] = Append(fe, b)
            /\ cs = "off" => flight'["engineer"] = fe
        BY <1>3, <1>5, <1>8, <2>1, <3>4, <4>3
      <4>5. Turn(cs, "idle", fc, flight'["engineer"], k0, m0, n, sv1)
        BY <4>2, <4>4
      <4> QED
        BY <1>2, <2>5, <3>1, <3>2, <3>4, <4>5 DEF TurnInv
    <3>5. CASE k # size
      <4>1. flight'["engineer"] = fe
        BY <1>3, <1>5, <1>8, <3>5
      <4>2. Turn(cs, "working", fc, fe, kind, machine, n, Serving(n))
        BY <1>0, <1>5, <3>2 DEF TurnInv
      <4>5. Serving(n) => Serving(n)'
        BY <1>2, <2>3, Zenon
      <4>4. Turn(cs, "working", fc, fe, kind, machine, n, Serving(n)')
        BY <4>2, <4>5, TurnOfEngineer
      <4>3. Turn(cs, "working", fc, fe, k0, m0, n, sv1)
        BY <3>1, <4>4
      <4> QED
        BY <1>2, <2>5, <3>1, <3>2, <3>5, <4>1, <4>3 DEF TurnInv
    <3> QED
      BY <3>4, <3>5
  <2> QED
    BY <1>4, <2>2, <2>6, <2>7 DEF ConnectionInv
<1> QED
  BY <1>0, <1>7, <1>8

(* What a recv does to its call.                                           *)
LEMMA RecvEffect ==
  ASSUME LocalInv, NEW s \in Side, NEW k \in Bytes, RecvSome(s, k)
  PROVE  /\ io[s].call = "recv" /\ sock[s].open
         /\ wire[Other(s)] \in Seq(Byte) /\ k \in 1..Len(wire[Other(s)])
         /\ io[s].buffer \in Seq(Byte) /\ io[s].size \in Nat /\ k \in 1..io[s].size
         /\ io'[s].call = (IF k = io[s].size THEN "ok" ELSE "recv")
         /\ io'[s].buffer = io[s].buffer \o SubSeq(wire[Other(s)], 1, k)
         /\ io'[Other(s)] = io[Other(s)]
         /\ wire'[Other(s)] = SubSeq(wire[Other(s)], k + 1, Len(wire[Other(s)])) /\ wire'[s] = wire[s]
         /\ UNCHANGED <<kind, machine, sock, pc, n, got, status, job, lost>>
<1>0. /\ k \in 1..28 /\ io \in [Side -> IoRec] /\ Other(s) \in Side /\ Other(s) # s
      /\ wire \in [Side -> Seq(Byte)]
  <2>1. Other(s) \in Side /\ Other(s) # s
    BY DEF Side, Other
  <2> QED
    BY <2>1, Constants DEF LocalInv, Types
<1>1. /\ io[s].call = "recv" /\ k <= io[s].size /\ sock[s].open /\ k <= Len(wire[Other(s)])
      /\ UNCHANGED <<kind, machine, sock, pc, n, got, status, job, lost>>
  BY DEF RecvSome, threads
<1>2. wire[Other(s)] \in Seq(Byte) /\ io[s].buffer \in Seq(Byte) /\ io[s].size \in Nat
  BY <1>0 DEF IoRec
<1>3. k \in 1..Len(wire[Other(s)]) /\ k \in 1..io[s].size
  <2>1. Len(wire[Other(s)]) \in Nat
    BY <1>2, LenProperties
  <2> QED
    BY <1>0, <1>1, <1>2, <2>1
<1>4. PICK x, r : /\ x = SubSeq(wire[Other(s)], k + 1, Len(wire[Other(s)]))
                  /\ r = [call |-> IF io[s].size - k = 0 THEN "ok" ELSE "recv",
                          buffer |-> io[s].buffer \o SubSeq(wire[Other(s)], 1, k), size |-> io[s].size - k]
  OBVIOUS
<1>5. io' = [io EXCEPT ![s] = r] /\ wire' = [wire EXCEPT ![Other(s)] = x]
  BY <1>0, <1>4 DEF RecvSome, Left
<1>6. r.call = (IF k = io[s].size THEN "ok" ELSE "recv") /\ r.buffer = io[s].buffer \o SubSeq(wire[Other(s)], 1, k)
  <2>1. PICK y \in Nat : y = io[s].size
    BY <1>2
  <2>2. y - k = 0 <=> k = y
    BY <1>0, <2>1
  <2> QED
    BY <1>4, <2>1, <2>2
<1>7. io'[s] = r /\ io'[Other(s)] = io[Other(s)] /\ wire'[Other(s)] = x /\ wire'[s] = wire[s]
  BY <1>0, <1>5
<1> QED
  BY <1>1, <1>2, <1>3, <1>4, <1>6, <1>7

(* What a recv does to the messages in flight.                             *)
LEMMA RecvMoves ==
  ASSUME LocalInv, NEW s \in Side, NEW k \in Bytes, RecvSome(s, k)
  PROVE  /\ k # io[s].size => flight' = flight
         /\ k = io[s].size /\ flight[Other(s)] # << >> => flight'[Other(s)] = Tail(flight[Other(s)])
         /\ flight'[s] = flight[s]
<1>0. flight \in [Side -> Seq(Seq(Byte))] /\ Other(s) \in Side /\ Other(s) # s
  BY DEF Side, Other, LocalInv, Types
<1>1. io[s].size \in Nat /\ k \in 1..io[s].size
  BY RecvEffect
<1>2. CASE k # io[s].size
  <2>1. io[s].size - k # 0
    BY <1>1, <1>2
  <2>2. flight' = flight
    BY <2>1 DEF RecvSome, Left
  <2> QED
    BY <1>2, <2>2
<1>3. CASE k = io[s].size
  <2>1. io[s].size - k = 0
    BY <1>1, <1>3
  <2>2. flight' = [flight EXCEPT ![Other(s)] = IF @ = << >> THEN @ ELSE Tail(@)]
    BY <2>1 DEF RecvSome, Left
  <2> QED
    BY <1>0, <1>3, <2>2
<1> QED
  BY <1>2, <1>3

(* Where a side that receives is, and how much it wants in all.            *)
LEMMA Receives ==
  ASSUME ConnectionInv, NEW s \in Side, io[s].call = "recv", sock[s].open
  PROVE  /\ s = "caller" => /\ pc["caller"] = "await" /\ CallerStage = "asking"
                            /\ Len(io[s].buffer) + io[s].size = Size(AnswerClass(kind))
         /\ s = "engineer" => \/ /\ pc["engineer"] = "status" /\ EngineerStage = "hearing"
                                 /\ Len(io[s].buffer) + io[s].size = 4
                              \/ /\ pc["engineer"] = "receive" /\ EngineerStage = "idle"
                                 /\ Len(io[s].buffer) + io[s].size = Size(RequestClass(kind))
<1>0. /\ Types /\ CallerIO /\ EngineerIO /\ SocketsInv /\ EngineerKnows /\ s \in {"caller", "engineer"}
      /\ pc["caller"] \in CallerPc /\ pc["engineer"] \in EngineerPc
  BY DEF ConnectionInv, LocalInv, Types, Side
<1>1. CASE s = "caller"
  <2>1. pc["caller"] = "await" /\ pc["engineer"] # "accept"
    BY <1>0, <1>1 DEF CallerIO, CallerPc, SocketsInv
  <2>2. CallerStage = "asking"
    BY <1>1, <2>1 DEF CallerStage, At
  <2>3. Len(io[s].buffer) + io[s].size = Size(AnswerClass(kind))
    BY <1>0, <1>1, <2>1 DEF CallerIO, Transfer
  <2> QED
    BY <1>1, <2>1, <2>2, <2>3
<1>2. CASE s = "engineer"
  <2>1. pc["engineer"] \in {"status", "receive"}
    BY <1>0, <1>2 DEF EngineerIO, EngineerPc
  <2>2. CASE pc["engineer"] = "status"
    BY <1>0, <1>2, <2>2 DEF EngineerIO, Transfer, EngineerStage, At
  <2>3. CASE pc["engineer"] = "receive"
    <3>1. EngineerStage = "idle"
      BY <1>2, <2>3 DEF EngineerStage, At
    <3>2. ServedClass(status) = RequestClass(kind)
      BY <1>0, <3>1, Roles DEF EngineerKnows
    <3>3. Len(io[s].buffer) + io[s].size = Size(ServedClass(status))
      BY <1>0, <1>2, <2>3 DEF EngineerIO, Transfer
    <3> QED
      BY <1>2, <2>3, <3>1, <3>2, <3>3
  <2> QED
    BY <2>1, <2>2, <2>3
<1> QED
  BY <1>0, <1>1, <1>2

(* The size of the messages of s that follow the identification.           *)
Usual(s) == IF s = "engineer" THEN Size(AnswerClass(kind)) ELSE Size(RequestClass(kind))

(* What can be in flight to a side that receives has the size it wants.    *)
LEMMA ReceivesNext ==
  ASSUME ConnectionInv, NEW s \in Side, io[s].call = "recv", sock[s].open
  PROVE  \E a \in Seq(Byte), c \in Seq(Byte) :
           /\ flight[Other(s)] \in {<< >>, <<a>>, <<a, c>>}
           /\ flight[Other(s)] = << >> => Bound(Other(s)) <= Len(io[s].buffer) + io[s].size
           /\ flight[Other(s)] # << >> => /\ Len(a) = Len(io[s].buffer) + io[s].size
                                          /\ Bound(Other(s)) <= Usual(Other(s))
<1>0. /\ Types /\ n \in Nat /\ n \in Int /\ << >> \in Seq(Byte) /\ kind \in Kind /\ machine["engineer"] \in ByteOrder
      /\ Size(AnswerClass(kind)) \in {8, 12, 20} /\ Size(RequestClass(kind)) \in {12, 28}
      /\ IdentOf(kind, machine) \in Seq(Byte) /\ Len(IdentOf(kind, machine)) = 4
      /\ \A i \in Int : RequestOf(kind, machine, i) \in Seq(Byte) /\ Len(RequestOf(kind, machine, i)) = Size(RequestClass(kind))
      /\ s \in {"caller", "engineer"}
  BY Constants, CallSizes, EmptySeq DEF ConnectionInv, LocalInv, Types, Side
<1>1. PICK cs, es, fc, fe : cs = CallerStage /\ es = EngineerStage /\ fc = flight["caller"] /\ fe = flight["engineer"]
  OBVIOUS
<1>2. Turn(cs, es, fc, fe, kind, machine, n, Serving(n)) /\ cs \in {"off", "announcing", "free", "asking"}
  BY <1>1, Stages DEF ConnectionInv, TurnInv
<1>3. CASE s = "caller"
  <2>1. Other(s) = "engineer" /\ cs = "asking" /\ Len(io[s].buffer) + io[s].size = Size(AnswerClass(kind))
    BY <1>1, <1>3, Receives DEF Other
  <2>2. fe = << >> \/ \E lo \in LastOrder : fe = <<AnswerOf(kind, machine, n, lo)>>
    BY <1>2, <2>1 DEF Turn
  <2>3. \A lo \in LastOrder : /\ AnswerOf(kind, machine, n, lo) \in Seq(Byte)
                              /\ Len(AnswerOf(kind, machine, n, lo)) = Size(AnswerClass(kind))
    <3> TAKE lo \in LastOrder
    <3>1. lo \in Int
      BY DEF LastOrder
    <3>2. AnswerClass(kind) \in Class /\ Answer(kind, n, lo) \in Object(AnswerClass(kind))
      BY <1>0, <3>1, AnswerTyped
    <3> QED
      BY <1>0, <3>2, Marshalled DEF AnswerOf
  <2>4. PICK a \in Seq(Byte) : fe \in {<< >>, <<a>>} /\ (fe # << >> => Len(a) = Size(AnswerClass(kind)))
    BY <1>0, <2>2, <2>3
  <2>5. Bound("engineer") = Size(AnswerClass(kind)) /\ Usual("engineer") = Size(AnswerClass(kind))
    BY DEF Bound, Usual
  <2>6. Size(AnswerClass(kind)) <= Size(AnswerClass(kind))
    BY <1>0
  <2> QED
    BY <1>0, <1>1, <2>1, <2>4, <2>5, <2>6
<1>4. CASE s = "engineer"
  <2>1. Other(s) = "caller" /\ Usual("caller") = Size(RequestClass(kind))
    BY <1>4 DEF Other, Usual
  <2>2. \/ es = "hearing" /\ Len(io[s].buffer) + io[s].size = 4
        \/ es = "idle" /\ Len(io[s].buffer) + io[s].size = Size(RequestClass(kind))
    BY <1>1, <1>4, Receives
  <2>3. PICK j \in 0..n :
           /\ es = "hearing" => fc \in {<< >>, <<IdentOf(kind, machine)>>, <<IdentOf(kind, machine), RequestOf(kind, machine, j)>>}
           /\ es = "idle" => fc \in {<< >>, <<RequestOf(kind, machine, j)>>}
    <3>1. PICK m0, k0, sv : m0 = machine /\ k0 = kind /\ sv = Serving(n)
      OBVIOUS
    <3>2. es \in {"hearing", "idle"} /\ Turn(cs, es, fc, fe, k0, m0, n, sv)
      BY <1>2, <2>2, <3>1
    <3>3. \E j \in 0..n :
           /\ es = "hearing" => fc \in {<< >>, <<IdentOf(k0, m0)>>, <<IdentOf(k0, m0), RequestOf(k0, m0, j)>>}
           /\ es = "idle" => fc \in {<< >>, <<RequestOf(k0, m0, j)>>}
      BY <1>0, <1>2, <3>2, TurnToEngineer
    <3> QED
      BY <3>1, <3>3
  <2>4. PICK id \in Seq(Byte), r \in Seq(Byte) :
          id = IdentOf(kind, machine) /\ r = RequestOf(kind, machine, j) /\ Len(id) = 4 /\ Len(r) = Size(RequestClass(kind))
    <3>1. j \in Int
      BY <1>0
    <3> QED
      BY <1>0, <3>1
  <2>5. PICK z : z = Size(RequestClass(kind)) /\ z \in {12, 28}
    BY <1>0
  <2>6. CASE es = "hearing"
    <3>1. fc \in {<< >>, <<id>>, <<id, r>>}
      BY <2>3, <2>4, <2>6
    <3>2. /\ fc = << >> => Bound("caller") = 4
          /\ fc # << >> => Bound("caller") = z
      BY <1>1, <2>5, <2>6 DEF Bound
    <3>3. Len(io[s].buffer) + io[s].size = 4 /\ 4 <= 4 /\ z <= z
      BY <2>2, <2>5, <2>6
    <3> QED
      BY <1>1, <2>1, <2>4, <2>5, <3>1, <3>2, <3>3
  <2>7. CASE es = "idle"
    <3>1. fc \in {<< >>, <<r>>}
      BY <2>3, <2>4, <2>7
    <3>2. Bound("caller") = z
      BY <1>1, <2>5, <2>7 DEF Bound
    <3>3. Len(io[s].buffer) + io[s].size = z /\ z <= z
      BY <2>2, <2>5, <2>7
    <3> QED
      BY <1>1, <2>1, <2>4, <2>5, <3>1, <3>2, <3>3
  <2> QED
    BY <2>2, <2>6, <2>7
<1> QED
  BY <1>0, <1>3, <1>4

(* How the stages go on when bytes arrive.                                 *)
LEMMA RecvStages ==
  ASSUME ConnectionInv, NEW s \in Side, NEW k \in Bytes, RecvSome(s, k)
  PROVE  /\ k # io[s].size => CallerStage' = CallerStage /\ EngineerStage' = EngineerStage
         /\ s = "caller" => EngineerStage' = EngineerStage
         /\ s = "engineer" => CallerStage' = CallerStage
         /\ k = io[s].size /\ s = "caller" => CallerStage' = "free"
         /\ k = io[s].size /\ s = "engineer" =>
              EngineerStage' = IF pc["engineer"] = "status" THEN "told" ELSE "working"
<1>0. /\ LocalInv /\ SocketsInv /\ s \in {"caller", "engineer"}
  BY DEF ConnectionInv, LocalInv, Side
<1>1. /\ io[s].call = "recv" /\ sock[s].open
      /\ io'[s].call = (IF k = io[s].size THEN "ok" ELSE "recv")
      /\ io'[Other(s)] = io[Other(s)]
      /\ UNCHANGED <<kind, machine, sock, pc, n, got, status, job, lost>>
  BY <1>0, RecvEffect
<1>2. CASE s = "caller"
  <2>1. Other(s) = "engineer" /\ pc["engineer"] # "accept" /\ pc["caller"] = "await"
    <3>1. pc["caller"] = "await"
      BY <1>1, <1>2, Receives
    <3> QED
      BY <1>0, <1>2, <3>1 DEF Other, SocketsInv
  <2>2. EngineerStage' = EngineerStage
    BY <1>1, <2>1 DEF EngineerStage, At
  <2>3. CASE k = io[s].size
    BY <1>1, <1>2, <2>1, <2>2, <2>3 DEF CallerStage, At
  <2>4. CASE k # io[s].size
    BY <1>1, <1>2, <2>1, <2>2, <2>4 DEF CallerStage, At
  <2> QED
    BY <1>2, <2>2, <2>3, <2>4
<1>3. CASE s = "engineer"
  <2>1. Other(s) = "caller" /\ pc["engineer"] \in {"status", "receive"}
    <3>1. pc["engineer"] \in {"status", "receive"}
      BY <1>1, <1>3, Receives
    <3> QED
      BY <1>3, <3>1 DEF Other
  <2>2. CallerStage' = CallerStage
    BY <1>1, <2>1 DEF CallerStage, At
  <2>3. CASE k = io[s].size
    BY <1>1, <1>3, <2>1, <2>2, <2>3 DEF EngineerStage, At
  <2>4. CASE k # io[s].size
    BY <1>1, <1>3, <2>1, <2>2, <2>4 DEF EngineerStage, At
  <2> QED
    BY <1>3, <2>2, <2>3, <2>4
<1> QED
  BY <1>0, <1>2, <1>3

(* What a recv that completes has in its buffer is the message sent first. *)
LEMMA RecvWhole ==
  ASSUME ConnectionInv, NEW s \in Side, NEW k \in Bytes, RecvSome(s, k), k = io[s].size
  PROVE  /\ flight[Other(s)] # << >> /\ io'[s].buffer = Head(flight[Other(s)])
         /\ flight'[Other(s)] = Tail(flight[Other(s)])
         /\ Stream(<< >>, wire'[Other(s)], Tail(flight[Other(s)]), SentOf(io[Other(s)]), sock[Other(s)].open,
                   Usual(Other(s)))
<1>0. /\ LocalInv /\ Other(s) \in Side /\ Other(Other(s)) = s
      /\ Size(AnswerClass(kind)) \in {8, 12, 20} /\ Size(RequestClass(kind)) \in {12, 28}
  BY CallSizes DEF ConnectionInv, LocalInv, Other, Side
<1>1. PICK had, w, f, sent, open, bound, next :
        /\ had = io[s].buffer /\ w = wire[Other(s)] /\ f = flight[Other(s)] /\ sent = SentOf(io[Other(s)])
        /\ open = sock[Other(s)].open /\ bound = Bound(Other(s)) /\ next = Usual(Other(s))
  OBVIOUS
<1>2. /\ io[s].call = "recv" /\ sock[s].open /\ w \in Seq(Byte) /\ k \in 1..Len(w) /\ had \in Seq(Byte)
      /\ io'[s].buffer = had \o SubSeq(w, 1, k) /\ wire'[Other(s)] = SubSeq(w, k + 1, Len(w)) /\ k \in Nat
  <2>1. io[s].size \in Nat
    BY <1>0, RecvEffect
  <2> QED
    BY <1>0, <1>1, <2>1, RecvEffect
<1>3. PICK a \in Seq(Byte), c \in Seq(Byte) :
        /\ f \in {<< >>, <<a>>, <<a, c>>}
        /\ f = << >> => bound <= Len(had) + k
        /\ f # << >> => Len(a) = Len(had) + k /\ bound <= next
  BY <1>1, <1>2, ReceivesNext
<1>4. PICK size \in Nat : size = Len(had) + k
  <2>1. Len(had) \in Nat
    BY <1>2, LenProperties
  <2> QED
    BY <1>2, <2>1
<1>5. bound \in Nat /\ next \in Nat
  BY <1>0, <1>1 DEF Bound, Usual
<1>6. Stream(had, w, f, sent, open, bound)
  <2>1. StreamOf(Other(s))
    BY <1>0 DEF ConnectionInv, StreamInv
  <2>2. HadOf(io[s]) = had
    BY <1>1, <1>2 DEF HadOf
  <2> QED
    BY <1>0, <1>1, <1>2, <2>1, <2>2 DEF StreamOf
<1>7. /\ f # << >> /\ had \o SubSeq(w, 1, k) = a
      /\ Stream(<< >>, SubSeq(w, k + 1, Len(w)), Tail(f), sent, open, next)
  <2>1. f = << >> => bound <= size
    BY <1>3, <1>4
  <2>2. f # << >> => Len(a) = size /\ bound <= next
    BY <1>3, <1>4
  <2>3. Len(had) + k = size
    BY <1>4
  <2> QED
    <3>1. Takes(had, w, k, a, c, f, bound, next, size)
      BY <1>2, <1>3, <1>5, <2>1, <2>2, <2>3 DEF Takes
    <3> QED
      BY <1>6, <3>1, StreamTake
<1>8. Head(f) = a
  BY <1>3, <1>7, FewMessages
<1>9. flight'[Other(s)] = Tail(f)
  BY <1>0, <1>1, <1>7, RecvMoves
<1> QED
  BY <1>1, <1>2, <1>7, <1>8, <1>9

(* The bytes that are left are those of the messages that follow.          *)
LEMMA RecvStream ==
  ASSUME ConnectionInv, NEW s \in Side, NEW k \in Bytes, RecvSome(s, k)
  PROVE  StreamInv' /\ ClosedInv'
<1>0. /\ LocalInv /\ StreamInv /\ ClosedInv /\ s \in {"caller", "engineer"} /\ Other(s) \in Side /\ Other(s) # s
      /\ Other(Other(s)) = s /\ \A t \in Side : t # s => t = Other(s)
  BY DEF ConnectionInv, LocalInv, Other, Side
<1>1. /\ io[s].call = "recv" /\ sock[s].open
      /\ wire[Other(s)] \in Seq(Byte) /\ k \in 1..Len(wire[Other(s)]) /\ io[s].buffer \in Seq(Byte)
      /\ io'[s].call = (IF k = io[s].size THEN "ok" ELSE "recv")
      /\ io'[s].buffer = io[s].buffer \o SubSeq(wire[Other(s)], 1, k)
      /\ io'[Other(s)] = io[Other(s)]
      /\ wire'[Other(s)] = SubSeq(wire[Other(s)], k + 1, Len(wire[Other(s)])) /\ wire'[s] = wire[s]
      /\ UNCHANGED <<kind, machine, sock, pc, n, got, status, job, lost>>
  <2>1. LocalInv
    BY <1>0
  <2> QED
    BY <2>1, RecvEffect
<1>2. k # io[s].size => flight' = flight /\ CallerStage' = CallerStage /\ EngineerStage' = EngineerStage
  BY <1>0, RecvMoves, RecvStages
<1>3. flight'[s] = flight[s] /\ (s = "caller" => EngineerStage' = EngineerStage)
      /\ (s = "engineer" /\ k = io[s].size => EngineerStage' \in {"told", "working"})
  BY <1>0, RecvMoves, RecvStages
<1>4. HadOf(io[s]) = io[s].buffer /\ SentOf(io[s]) = << >> /\ SentOf(io'[s]) = << >>
  BY <1>1 DEF HadOf, SentOf
<1>5. StreamOf(Other(s))'
  <2>1. StreamOf(Other(s))
    BY <1>0 DEF StreamInv
  <2>2. PICK had, w, f, sent, open, bound :
          /\ had = io[s].buffer /\ w = wire[Other(s)] /\ f = flight[Other(s)] /\ sent = SentOf(io[Other(s)])
          /\ open = sock[Other(s)].open /\ bound = Bound(Other(s))'
    OBVIOUS
  <2>3. SentOf(io'[Other(s)]) = sent /\ sock'[Other(s)].open = open
    BY <1>1, <2>2
  <2>4. CASE k = io[s].size
    <3>1. /\ flight'[Other(s)] = Tail(f)
          /\ Stream(<< >>, wire'[Other(s)], Tail(f), sent, open, Usual(Other(s)))
      BY <2>2, <2>4, RecvWhole
    <3>2. HadOf(io'[s]) = << >>
      BY <1>1, <2>4 DEF HadOf
    <3>3. Bound(Other(s))' = Usual(Other(s))
      <4>1. CASE s = "caller"
        BY <1>1, <4>1 DEF Bound, Usual, Other
      <4>2. CASE s = "engineer"
        BY <1>1, <1>3, <2>4, <4>2 DEF Bound, Usual, Other
      <4> QED
        BY <1>0, <4>1, <4>2
    <3> QED
      BY <1>0, <2>2, <2>3, <3>1, <3>2, <3>3 DEF StreamOf
  <2>5. CASE k # io[s].size
    <3>1. flight'[Other(s)] = f /\ Bound(Other(s))' = Bound(Other(s))
      BY <1>1, <1>2, <2>2, <2>5 DEF Bound
    <3>2. HadOf(io'[s]) = had \o SubSeq(w, 1, k) /\ wire'[Other(s)] = SubSeq(w, k + 1, Len(w))
      BY <1>1, <2>2, <2>5 DEF HadOf
    <3>3. Stream(had, w, f, sent, open, bound)
      BY <1>0, <1>1, <1>4, <2>1, <2>2, <3>1 DEF StreamOf
    <3>4. Stream(had \o SubSeq(w, 1, k), SubSeq(w, k + 1, Len(w)), f, sent, open, bound)
      BY <1>1, <2>2, <3>3, StreamPart
    <3> QED
      BY <1>0, <2>2, <2>3, <3>1, <3>2, <3>4 DEF StreamOf
  <2> QED
    BY <2>4, <2>5
<1>6. StreamOf(s)'
  <2>1. StreamOf(s)
    BY <1>0 DEF StreamInv
  <2>2. Bound(s)' = Bound(s)
    <3>1. CASE s = "caller"
      BY <1>1, <1>3, <3>1 DEF Bound
    <3>2. CASE s = "engineer"
      BY <1>1, <3>2 DEF Bound
    <3> QED
      BY <1>0, <3>1, <3>2
  <2> QED
    BY <1>0, <1>1, <1>3, <1>4, <2>1, <2>2 DEF StreamOf
<1>7. StreamInv'
  BY <1>0, <1>5, <1>6 DEF StreamInv
<1>8. ClosedInv'
  BY <1>0, <1>1, <1>3 DEF ClosedInv
<1> QED
  BY <1>7, <1>8

(* One recv.                                                               *)
LEMMA RecvKept ==
  ASSUME ConnectionInv, LocalInv', NEW s \in Side, NEW k \in Bytes, RecvSome(s, k)
  PROVE  ConnectionInv'
<1>0. /\ LocalInv /\ Types /\ TurnInv /\ EngineerKnows /\ CallerKnows /\ SocketsInv /\ n \in Nat
      /\ s \in {"caller", "engineer"}
  BY Constants DEF ConnectionInv, LocalInv, Types, Side
<1>1. PICK size : size = io[s].size
  OBVIOUS
<1>2. /\ io[s].call = "recv" /\ sock[s].open
      /\ io'[s].call = (IF k = size THEN "ok" ELSE "recv")
      /\ io'[Other(s)] = io[Other(s)]
      /\ UNCHANGED <<kind, machine, sock, pc, n, got, status, job, lost>>
  BY <1>0, <1>1, RecvEffect
<1>3. /\ k # size => flight' = flight /\ CallerStage' = CallerStage /\ EngineerStage' = EngineerStage
      /\ flight'[s] = flight[s]
  BY <1>0, <1>1, RecvMoves, RecvStages
<1>4. k = size => /\ flight[Other(s)] # << >> /\ io'[s].buffer = Head(flight[Other(s)])
                  /\ flight'[Other(s)] = Tail(flight[Other(s)])
  BY <1>1, RecvWhole
<1>5. StreamInv' /\ ClosedInv'
  BY RecvStream
<1>6. PICK cs, es, fc, fe : cs = CallerStage /\ es = EngineerStage /\ fc = flight["caller"] /\ fe = flight["engineer"]
  OBVIOUS
<1>7. Turn(cs, es, fc, fe, kind, machine, n, Serving(n)) /\ cs \in {"off", "announcing", "free", "asking"}
  BY <1>0, <1>6, Stages DEF TurnInv
<1>8. CASE s = "caller"
  <2>1. Other(s) = "engineer" /\ pc["caller"] = "await" /\ cs = "asking"
    BY <1>2, <1>6, <1>8, Receives DEF Other
  <2>2. EngineerKnows'
    BY <1>0, <1>2, <2>1, EngineerKnowsStill
  <2>3. EngineerStage' = es /\ flight'["caller"] = fc
    BY <1>3, <1>6, <1>8, RecvStages
  <2>4. Serving(n) => Serving(n)'
    <3>1. \A i : Serving(i) => Serving(i)'
      BY <1>2, <2>1, EngineerStays
    <3> QED
      BY <1>2, <3>1, Zenon
  <2>5. CASE k = size
    <3>1. CallerStage' = "free"
      BY <1>1, <1>8, <2>5, RecvStages
    <3>2. fe # << >> /\ io'[s].buffer = Head(fe) /\ flight'["engineer"] = Tail(fe)
      BY <1>4, <1>6, <2>1, <2>5
    <3>3. Turn("asking", es, fc, fe, kind, machine, n, Serving(n))
      BY <1>7, <2>1
    <3>4. /\ \E lo \in LastOrder : fe = <<AnswerOf(kind, machine, n, lo)>>
          /\ machine["caller"] = machine["engineer"]
          /\ Turn("free", es, fc, Tail(fe), kind, machine, n, Serving(n)')
      BY <3>2, <3>3, TurnAnswered
    <3>5. TurnInv'
      BY <1>2, <2>3, <3>1, <3>2, <3>4 DEF TurnInv
    <3>6. Same' /\ \E lo \in LastOrder : io'["caller"].buffer = AnswerOf(kind', machine', n', lo)
      <4>1. PICK lo \in LastOrder : fe = <<AnswerOf(kind, machine, n, lo)>>
        BY <3>4
      <4>2. Head(fe) = AnswerOf(kind, machine, n, lo)
        BY <4>1, FewMessages
      <4> QED
        BY <1>2, <1>8, <3>2, <3>4, <4>2 DEF Same
    <3>7. CallerKnows'
      BY <1>0, <1>2, <3>6 DEF CallerKnows, Same
    <3> QED
      BY <1>5, <2>2, <3>5, <3>7 DEF ConnectionInv
  <2>6. CASE k # size
    <3>1. CallerKnows'
      <4>1. ~At("caller", "await", {"ok"})'
        BY <1>2, <1>8, <2>6 DEF At
      <4> QED
        BY <1>0, <1>2, <4>1, CallerGoesOn
    <3>2. Turn(cs, es, fc, fe, kind, machine, n, Serving(n)')
      BY <1>0, <1>7, <2>4, TurnOfCaller
    <3>3. TurnInv'
      BY <1>2, <1>3, <1>6, <2>3, <2>6, <3>2 DEF TurnInv
    <3> QED
      BY <1>5, <2>2, <3>1, <3>3 DEF ConnectionInv
  <2> QED
    BY <2>5, <2>6
<1>9. CASE s = "engineer"
  <2>1. Other(s) = "caller" /\ pc'["engineer"] = pc["engineer"] /\ pc["engineer"] # "accept"
    BY <1>2, <1>9, Receives DEF Other
  <2>2. /\ pc["engineer"] = "status" => es = "hearing"
        /\ pc["engineer"] = "receive" => es = "idle" /\ Same /\ status = Role(kind)
        /\ pc["engineer"] \in {"status", "receive"}
    BY <1>0, <1>2, <1>6, <1>9, Receives DEF EngineerKnows
  <2>3. CallerKnows'
    BY <1>0, <1>2, <2>1, CallerKnowsStill
  <2>4. CallerStage' = cs /\ flight'["engineer"] = fe
    BY <1>3, <1>6, <1>9, RecvStages
  <2>5. CASE k = size
    <3>1. fc # << >> /\ io'[s].buffer = Head(fc) /\ flight'["caller"] = Tail(fc)
      BY <1>4, <1>6, <2>1, <2>5
    <3>2. EngineerStage' = IF pc["engineer"] = "status" THEN "told" ELSE "working"
      BY <1>1, <1>9, <2>5, RecvStages
    <3>3. \E j \in 0..n :
            /\ es = "hearing" => fc \in {<< >>, <<IdentOf(kind, machine)>>, <<IdentOf(kind, machine), RequestOf(kind, machine, j)>>}
            /\ es = "idle" => fc \in {<< >>, <<RequestOf(kind, machine, j)>>}
            /\ cs = "asking" => j = n
      BY <1>0, <1>7, <2>2, TurnToEngineer
    <3>4. CASE pc["engineer"] = "status"
      <4>1. EngineerStage' = "told" /\ es = "hearing" /\ pc'["engineer"] = "status"
        BY <2>1, <2>2, <3>2, <3>4
      <4>2. io'["engineer"].buffer = IdentOf(kind', machine')
        <5>1. Head(fc) = IdentOf(kind, machine)
          BY <3>1, <3>3, <4>1, FewMessages
        <5> QED
          BY <1>2, <1>9, <3>1, <5>1
      <4>3. 0 \in 0..n' /\ Serving(0)'
        BY <1>0, <1>2, <4>1 DEF Serving, At
      <4>4. EngineerKnows'
        BY <1>2, <1>9, <2>5, <4>1, <4>2, <4>3 DEF EngineerKnows, At
      <4>5. Turn(cs, "told", Tail(fc), fe, kind, machine, n, Serving(n)')
        BY <1>0, <1>7, <3>1, <4>1, TurnTold
      <4>6. TurnInv'
        BY <1>2, <2>4, <3>1, <4>1, <4>5 DEF TurnInv
      <4> QED
        BY <1>5, <2>3, <4>4, <4>6 DEF ConnectionInv
    <3>5. CASE pc["engineer"] = "receive"
      <4>1. EngineerStage' = "working" /\ es = "idle" /\ Same /\ status = Role(kind) /\ pc'["engineer"] = "receive"
        BY <2>1, <2>2, <3>2, <3>5
      <4>2. PICK j \in 0..n : fc = <<RequestOf(kind, machine, j)>> /\ (cs = "asking" => j = n)
        BY <3>1, <3>3, <4>1
      <4>3. io'["engineer"].buffer = RequestOf(kind', machine', j)
        <5>1. Head(fc) = RequestOf(kind, machine, j)
          BY <4>2, FewMessages
        <5> QED
          BY <1>2, <1>9, <3>1, <5>1
      <4>4. Serving(j)' /\ j \in 0..n'
        BY <1>2, <4>1, <4>3 DEF Serving, At
      <4>5. EngineerKnows'
        BY <1>2, <1>9, <2>5, <4>1, <4>4 DEF EngineerKnows, At, Same
      <4>6. cs = "asking" => Serving(n)'
        BY <1>2, <4>2, <4>4
      <4>7. Turn(cs, "working", Tail(fc), fe, kind, machine, n, Serving(n)')
        BY <1>0, <1>7, <3>1, <4>1, <4>6, TurnAsked
      <4>8. TurnInv'
        BY <1>2, <2>4, <3>1, <4>1, <4>7 DEF TurnInv
      <4> QED
        BY <1>5, <2>3, <4>5, <4>8 DEF ConnectionInv
    <3> QED
      BY <2>2, <3>4, <3>5
  <2>6. CASE k # size
    <3>1. \A i : Serving(i)'
      BY <1>2, <1>9, <2>2, <2>6 DEF Serving, At
    <3>2. EngineerStage' = es /\ flight'["caller"] = fc
      BY <1>3, <1>6, <2>6
    <3>3. EngineerKnows'
      <4>1. 0 \in 0..n'
        BY <1>0, <1>2
      <4>2. es # "told" /\ es # "working" /\ (es = "idle" => Same' /\ status' = Role(kind'))
        BY <1>2, <2>2 DEF Same
      <4> QED
        BY <1>2, <1>9, <2>2, <2>6, <3>1, <3>2, <4>1, <4>2 DEF EngineerKnows, At
    <3>4. Turn(cs, es, fc, fe, kind, machine, n, Serving(n)')
      BY <1>7, <3>1, TurnOfEngineer
    <3>5. TurnInv'
      BY <1>2, <2>4, <3>2, <3>4 DEF TurnInv
    <3> QED
      BY <1>5, <2>3, <3>3, <3>5 DEF ConnectionInv
  <2> QED
    BY <2>5, <2>6
<1> QED
  BY <1>0, <1>8, <1>9

(* ConnectionInv is kept by every step.                                    *)
LEMMA NextConnection == ConnectionInv /\ [Next]_vars => ConnectionInv'
<1> SUFFICES ASSUME ConnectionInv, [Next]_vars PROVE ConnectionInv'
  OBVIOUS
<1>1. LocalInv'
  BY NextLocal DEF ConnectionInv
<1>2. CASE UNCHANGED vars
  <2>0. UNCHANGED <<kind, machine, sock, reset, lost, wire, flight, io, pc, n, got, status, job, last>>
    BY <1>2 DEF vars, threads
  <2>1. /\ CallerStage' = CallerStage /\ EngineerStage' = EngineerStage
        /\ \A i : Serving(i) => Serving(i)'
    BY <2>0, CallerStays, EngineerStays
  <2>2. TurnInv'
    <3>1. PICK cs, es, fc, fe : cs = CallerStage /\ es = EngineerStage /\ fc = flight["caller"] /\ fe = flight["engineer"]
      OBVIOUS
    <3>2. Turn(cs, es, fc, fe, kind, machine, n, Serving(n))
      BY <3>1 DEF ConnectionInv, TurnInv
    <3>3. n \in Nat /\ n' = n /\ (Serving(n) => Serving(n)')
      BY <2>0, <2>1, Constants DEF ConnectionInv, LocalInv, Types
    <3>4. Turn(cs, es, fc, fe, kind, machine, n', Serving(n)')
      BY <3>2, <3>3, TurnOfCaller
    <3> QED
      BY <2>0, <2>1, <3>1, <3>4 DEF TurnInv
  <2>3. EngineerKnows'
    BY <2>0 DEF ConnectionInv, EngineerKnows, EngineerStage, At, Serving, Same
  <2>4. CallerKnows'
    BY <2>0 DEF ConnectionInv, CallerKnows, CallerStage, At, Same
  <2>5. StreamInv'
    BY <2>0 DEF ConnectionInv, StreamInv, StreamOf, Bound, EngineerStage, At
  <2>6. ClosedInv'
    BY <2>0 DEF ConnectionInv, ClosedInv
  <2> QED
    BY <1>1, <2>2, <2>3, <2>4, <2>5, <2>6 DEF ConnectionInv
<1>3. ASSUME NEW s \in Side, Socket(s) PROVE ConnectionInv'
  <2>1. CASE \E k \in Bytes : SendSome(s, k)
    BY <1>1, <2>1, SendKept
  <2>2. CASE \E k \in Bytes : RecvSome(s, k)
    BY <1>1, <2>2, RecvKept
  <2>3. CASE SendFails(s) \/ RecvFails(s)
    BY <1>1, <2>3, FailsKept
  <2>4. CASE BrokenPipe(s)
    <3>1. pc[s] \notin Resting
      <4>1. /\ Types /\ CallerIO /\ EngineerIO /\ io[s].call = "send" /\ s \in {"caller", "engineer"}
            /\ pc["caller"] \in CallerPc /\ pc["engineer"] \in EngineerPc
        BY <2>4 DEF ConnectionInv, LocalInv, Types, BrokenPipe, Side
      <4> QED
        BY <4>1 DEF CallerIO, EngineerIO, Resting, CallerPc, EngineerPc
    <3> QED
      BY <1>1, <2>4, <3>1, EndsKept DEF BrokenPipe
  <2> QED
    BY <1>3, <2>1, <2>2, <2>3, <2>4 DEF Socket
<1>4. CASE Caller
  <2>1. CASE Connect
    BY <1>1, <2>1, ConnectKept
  <2>2. CASE ConnectFails
    BY <1>1, <2>2, ConnectFailsKept
  <2>3. CASE Identified \/ Ask \/ Await \/ CallReturns
    BY <1>1, <2>3, CallsKept
  <2>4. CASE ClientEnds
    BY <1>1, <2>4, EndsKept DEF ClientEnds, Resting, Side
  <2>5. CASE SocketFails
    BY <1>1, <2>5, SocketFailsKept
  <2> QED
    BY <1>4, <2>1, <2>2, <2>3, <2>4, <2>5 DEF Caller
<1>5. CASE EngineerThread
  <2>1. CASE ReceiveStatusInfo \/ ReceiveRequest \/ Serve \/ Replied
    BY <1>1, <2>1, EngineerKept
  <2>2. CASE EngineerReturns
    BY <1>1, <2>2, EndsKept DEF EngineerReturns, Resting, Side
  <2> QED
    BY <1>5, <2>1, <2>2 DEF EngineerThread
<1>6. CASE \E s \in Side : Die(s)
  <2>1. PICK s \in Side : Die(s)
    BY <1>6
  <2>2. pc[s] \notin Resting /\ Ends(s)
    BY <2>1 DEF Die, Resting
  <2> QED
    BY <1>1, <2>2, EndsKept
<1>7. CASE DieAfterLoss
  BY <1>1, <1>7, LossKept
<1> QED
  BY <1>2, <1>3, <1>4, <1>5, <1>6, <1>7 DEF Next

-----------------------------------------------------------------------------
(* What the runs check.                                                    *)

(* ConnectionInv holds in every state.                                     *)
THEOREM ConnectionHolds == Spec => []ConnectionInv
<1>1. Init => ConnectionInv
  BY InitConnection
<1>2. ConnectionInv /\ [Next]_vars => ConnectionInv'
  BY NextConnection
<1> QED
  BY <1>1, <1>2, PTL DEF Spec

(* An engineer thread acts only on what its caller has sent, in the role   *)
(* that the caller announced.                                              *)
THEOREM EngineersServeAsMeant == Spec => []ServedAsMeant
<1>1. ConnectionInv => ServedAsMeant
  <2>1. SUFFICES ASSUME EngineerKnows, pc["engineer"] \in {"serve", "reply"}
                 PROVE  status = WordOf(Announced) /\ \E i \in 0..n : job = Request(kind, i)
    BY DEF ConnectionInv, ServedAsMeant
  <2>2. \E i \in 0..n : job = Request(kind, i)
    BY <2>1 DEF EngineerKnows, Serving
  <2>3. status = WordOf(Announced)
    BY <2>1 DEF EngineerKnows, Role, Announced
  <2> QED
    BY <2>2, <2>3
<1> QED
  BY <1>1, ConnectionHolds, PTL

(* An engineer thread spins only when its caller is gone or has the other  *)
(* byte order, or when it has lost its descriptor.                         *)
THEOREM SpinningIsUnidentified == Spec => []SpinsOnlyUnidentified
<1>1. ConnectionInv => SpinsOnlyUnidentified
  BY DEF ConnectionInv, EngineerKnows, SpinsOnlyUnidentified, Same
<1> QED
  BY <1>1, ConnectionHolds, PTL

(* Between machines that differ nothing is ever served.                    *)
THEOREM ForeignCallersUnserved == Spec => []ForeignNeverServed
<1>1. ConnectionInv => ForeignNeverServed
  <2>1. SUFFICES ASSUME EngineerKnows, CallerKnows, ~Same
                 PROVE  /\ pc["engineer"] \notin {"serve", "reply"}
                        /\ got.answer = NoObject \/ got.answer = NewAnswer(kind)
    BY DEF ConnectionInv, ForeignNeverServed, Same
  <2>2. pc["engineer"] \notin {"serve", "reply"}
    BY <2>1 DEF EngineerKnows
  <2>3. got.answer = NoObject \/ got.answer = NewAnswer(kind)
    BY <2>1 DEF CallerKnows
  <2> QED
    BY <2>2, <2>3
<1> QED
  BY <1>1, ConnectionHolds, PTL

(* A valid answer that a call returns is the answer to its own request.    *)
THEOREM AnswersAreForRequests == Spec => []AnswerIsForRequest
<1>1. ConnectionInv => AnswerIsForRequest
  <2>1. SUFFICES ASSUME ConnectionInv, got.answer # NoObject, IsValid(got.answer)
                 PROVE  LET a == got.answer  r == got.asked IN
                        CASE kind = "orders"  -> a.customer_id = r.customer_id /\ a.order_number = r.order_number
                          [] kind = "primary" -> a.customer_id = r.arg1 /\ a.order_number = r.arg2
                          [] OTHER            -> a.customer_id = r.customer_id
    BY DEF AnswerIsForRequest
  <2>2. kind \in Kind /\ n \in Nat
    BY <2>1, Constants DEF ConnectionInv, LocalInv, Types
  <2>3. got.answer # NewAnswer(kind)
    BY <2>1, <2>2, NewAnswerInvalid
  <2>4. PICK i \in 0..n, lo \in LastOrder : got = [asked |-> Request(kind, i), answer |-> Answer(kind, i, lo)]
    BY <2>1, <2>3 DEF ConnectionInv, CallerKnows
  <2>5. i \in Int /\ lo \in Int
    BY <2>2 DEF LastOrder
  <2>6. got.asked = Request(kind, i) /\ got.answer = Answer(kind, i, lo)
    BY <2>4
  <2> QED
    BY <2>2, <2>5, <2>6, AnswerNames
<1> QED
  BY <1>1, ConnectionHolds, PTL

-----------------------------------------------------------------------------
(* Whole messages.                                                         *)

Over == [s \in Side |-> pc[s] # "init" /\ pc[s] # "accept" /\ ~sock[s].open]

(* The other side is the same for the abstract sockets.                    *)
LEMMA OtherSide == \A s \in Side : Sockets!Other(s) = Other(s)
BY DEF Sockets!Other, Other, Side

(* A step that neither connects nor ends nor moves a message changes       *)
(* nothing the stubs can see.                                              *)
LEMMA Unseen ==
  ASSUME UNCHANGED <<flight, last>>,
         \A s \in Side : /\ sock'[s].open = sock[s].open
                         /\ pc'[s] \in {"init", "accept"} <=> pc[s] \in {"init", "accept"}
  PROVE  UNCHANGED <<flight, last, Over>>
BY DEF Over

(* A side ends, or it had ended before.                                    *)
LEMMA EndSeen ==
  ASSUME ConnectionInv, NEW s \in Side, pc[s] \notin Resting, Shutdown(s), ~sock'[s].open,
         pc'[s] \in {pc[s], "done"}, pc'[Other(s)] = pc[Other(s)], sock'[Other(s)] = sock[Other(s)], last' = last
  PROVE  Sockets!Next \/ UNCHANGED <<flight, last, Over>>
<1>0. /\ Other(s) \in Side /\ Other(s) # s /\ \A t \in Side : t # s => t = Other(s)
      /\ flight \in [Side -> Seq(Seq(Byte))]
  BY DEF ConnectionInv, LocalInv, Types, Other, Side
<1>1. flight' = [flight EXCEPT ![Other(s)] = << >>]
  BY DEF Shutdown
<1>2. Over'[s] /\ \A t \in Side : t # s => (Over'[t] <=> Over[t])
  BY <1>0 DEF Over, Resting
<1>3. CASE sock[s].open
  <2>1. ~Over[s]
    BY <1>3 DEF Over
  <2>2. Over' = [Over EXCEPT ![s] = TRUE]
    BY <1>2 DEF Over
  <2>3. Sockets!End(s)
    BY <1>1, <2>1, <2>2, OtherSide DEF Sockets!End, Over
  <2> QED
    BY <2>3 DEF Sockets!Next
<1>4. CASE ~sock[s].open
  <2>1. flight[Other(s)] = << >>
    BY <1>4 DEF ConnectionInv, ClosedInv
  <2>2. flight' = flight
    BY <1>0, <1>1, <2>1
  <2>3. \A t \in Side : Over'[t] = Over[t]
    BY <1>0, <1>4 DEF Over, Resting
  <2> QED
    BY <2>2, <2>3 DEF Over
<1> QED
  BY <1>3, <1>4

(* A Send that finishes is a message sent.                                 *)
LEMMA SendSeen ==
  ASSUME ConnectionInv, NEW s \in Side, NEW k \in Bytes, SendSome(s, k)
  PROVE  Sockets!Next \/ UNCHANGED <<flight, last, Over>>
<1>0. /\ LocalInv /\ Other(s) \in Side /\ Other(s) # s /\ flight \in [Side -> Seq(Seq(Byte))]
  BY DEF ConnectionInv, LocalInv, Types, Other, Side
<1>1. /\ sock[s].open /\ io[s].buffer \in Seq(Byte) /\ UNCHANGED <<sock, pc, last>>
  BY <1>0, SendEffect
<1>2. Over' = Over
  BY <1>1 DEF Over
<1>3. CASE sock[Other(s)].open /\ k = io[s].size
  <2>1. PICK m : m = io[s].buffer
    OBVIOUS
  <2>2. flight' = [flight EXCEPT ![s] = Append(flight[s], m)]
    BY <1>0, <1>3, <2>1 DEF SendSome
  <2>3. PICK f : f = Append(flight[s], m)
    OBVIOUS
  <2>4. f # << >> /\ f[Len(f)] = m
    <3>1. flight[s] \in Seq(Seq(Byte)) /\ m \in Seq(Byte)
      BY <1>0, <1>1, <2>1
    <3> QED
      BY <2>3, <3>1, AppendProperties
  <2>5. flight'[s] = f
    BY <1>0, <2>2, <2>3
  <2>6. flight'[s] # << >> /\ flight'[s][Len(flight'[s])] = m
    BY <2>4, <2>5
  <2>7. ~Over[s] /\ ~Over[Other(s)]
    BY <1>0, <1>1, <1>3 DEF Over
  <2>8. Sockets!Send(s)
    BY <1>1, <1>2, <2>1, <2>2, <2>6, <2>7, OtherSide DEF Sockets!Send, Over
  <2> QED
    BY <2>8 DEF Sockets!Next
<1>4. CASE ~(sock[Other(s)].open /\ k = io[s].size)
  <2>1. flight' = flight
    BY <1>4 DEF SendSome
  <2> QED
    BY <1>1, <1>2, <2>1
<1> QED
  BY <1>3, <1>4

(* A Recv that finishes is the arrival of the message sent first.          *)
LEMMA RecvSeen ==
  ASSUME ConnectionInv, NEW s \in Side, NEW k \in Bytes, RecvSome(s, k)
  PROVE  Sockets!Next \/ UNCHANGED <<flight, last, Over>>
<1>0. /\ LocalInv /\ Other(s) \in Side /\ Other(s) # s /\ flight \in [Side -> Seq(Seq(Byte))]
  BY DEF ConnectionInv, LocalInv, Types, Other, Side
<1>1. /\ sock[s].open /\ UNCHANGED <<sock, pc>> /\ io[s].size \in Nat /\ k \in 1..io[s].size
      /\ io'[s].buffer = io[s].buffer \o SubSeq(wire[Other(s)], 1, k)
  BY <1>0, RecvEffect
<1>2. Over' = Over
  BY <1>1 DEF Over
<1>3. CASE k = io[s].size
  <2>1. flight[Other(s)] # << >> /\ io'[s].buffer = Head(flight[Other(s)])
    BY <1>3, RecvWhole
  <2>2. io[s].size - k = 0
    BY <1>1, <1>3
  <2>3. last' = [last EXCEPT ![s] = io[s].buffer \o SubSeq(wire[Other(s)], 1, k)]
    BY <2>2 DEF RecvSome, Left
  <2>4. flight' = [flight EXCEPT ![Other(s)] = Tail(flight[Other(s)])]
    BY <1>0, <2>1, <2>2 DEF RecvSome, Left
  <2>5. last' = [last EXCEPT ![s] = Head(flight[Other(s)])]
    BY <1>1, <2>1, <2>3
  <2>6. ~Over[s]
    BY <1>1 DEF Over
  <2>7. Sockets!Arrive(s)
    BY <1>2, <2>1, <2>4, <2>5, <2>6, OtherSide DEF Sockets!Arrive, Over
  <2> QED
    BY <2>7 DEF Sockets!Next
<1>4. CASE k # io[s].size
  <2>1. io[s].size - k # 0
    BY <1>1, <1>4
  <2>2. UNCHANGED <<last, flight>>
    BY <2>1 DEF RecvSome, Left
  <2> QED
    BY <1>2, <2>2
<1> QED
  BY <1>3, <1>4

(* Every step of a connection is one of the abstract sockets, or unseen.   *)
LEMMA StepSeen ==
  ASSUME ConnectionInv, [Next]_vars
  PROVE  Sockets!Next \/ UNCHANGED <<flight, last, Over>>
<1>0. /\ Types /\ CallerIO /\ EngineerIO /\ sock \in [Side -> SocketRec] /\ pc \in [Side -> CallerPc \cup EngineerPc]
      /\ pc["caller"] \in CallerPc /\ pc["engineer"] \in EngineerPc
      /\ "caller" \in Side /\ "engineer" \in Side /\ Side = {"caller", "engineer"}
      /\ \A s \in Side : Other(s) \in Side /\ Other(s) # s
  BY DEF ConnectionInv, LocalInv, Types, Other, Side
<1>1. CASE UNCHANGED vars
  BY <1>1 DEF vars, threads, Over
<1>2. ASSUME NEW s \in Side, Ends(s), pc[s] \notin Resting PROVE Sockets!Next \/ UNCHANGED <<flight, last, Over>>
  BY <1>0, <1>2, EndSeen DEF Ends, Closed, SocketRec
<1>3. ASSUME NEW s \in Side, Socket(s) PROVE Sockets!Next \/ UNCHANGED <<flight, last, Over>>
  <2>1. CASE \E k \in Bytes : SendSome(s, k)
    BY <2>1, SendSeen
  <2>2. CASE \E k \in Bytes : RecvSome(s, k)
    BY <2>2, RecvSeen
  <2>3. ASSUME io[s].call \in {"send", "recv"} PROVE pc[s] \notin Resting
    BY <1>0, <2>3 DEF CallerIO, EngineerIO, Resting, CallerPc, EngineerPc
  <2>4. CASE SendFails(s) \/ RecvFails(s)
    <3>1. Fails(s) /\ pc[s] \notin Resting
      BY <2>3, <2>4 DEF SendFails, RecvFails
    <3>2. Shutdown(s) /\ ~sock'[s].open /\ sock'[Other(s)] = sock[Other(s)] /\ pc' = pc /\ last' = last
      BY <1>0, <3>1 DEF Fails, Closed, SocketRec, threads
    <3> QED
      BY <3>1, <3>2, EndSeen
  <2>5. CASE BrokenPipe(s)
    BY <1>2, <2>3, <2>5 DEF BrokenPipe
  <2> QED
    BY <1>3, <2>1, <2>2, <2>4, <2>5 DEF Socket
<1>4. CASE Caller
  <2>1. CASE Connect
    <3>1. /\ pc["caller"] = "init" /\ pc["engineer"] = "accept" /\ flight["caller"] = << >>
          /\ flight' = flight /\ last' = last
      BY <1>0, <2>1, NothingUnderWay DEF Connect
    <3>2. pc'["caller"] = "identify" /\ pc'["engineer"] = "status"
      BY <1>0, <2>1 DEF Connect
    <3>3. PICK fails \in BOOLEAN : sock' = [s \in Side |-> Accepted(s = "engineer" /\ fails)]
      BY <2>1 DEF Connect
    <3>4. sock'["caller"] = Accepted(FALSE) /\ sock'["engineer"] = Accepted(fails)
      BY <1>0, <3>3
    <3>5. Accepted(FALSE).open /\ ~Accepted(TRUE).open
      BY DEF Accepted
    <3>6. CASE fails = FALSE
      <4>1. \A s \in Side : Over'[s] = Over[s]
        BY <1>0, <3>1, <3>4, <3>5, <3>6 DEF Over
      <4> QED
        BY <3>1, <4>1 DEF Over
    <3>7. CASE fails = TRUE
      <4>1. /\ ~Over["engineer"] /\ ~Over["caller"] /\ Over'["engineer"] /\ ~Over'["caller"]
            /\ Over \in [Side -> BOOLEAN] /\ Over' \in [Side -> BOOLEAN]
        BY <1>0, <3>1, <3>2, <3>4, <3>5, <3>7 DEF Over
      <4>2. Over' = [Over EXCEPT !["engineer"] = TRUE]
        BY <1>0, <4>1
      <4>3. flight' = [flight EXCEPT !["caller"] = << >>] /\ Other("engineer") = "caller"
        BY <1>0, <3>1 DEF ConnectionInv, LocalInv, Types, Other
      <4>4. Sockets!End("engineer")
        BY <1>0, <3>1, <4>1, <4>2, <4>3, OtherSide DEF Sockets!End, Over
      <4> QED
        BY <1>0, <4>4 DEF Sockets!Next
    <3> QED
      BY <3>6, <3>7
  <2>2. CASE ConnectFails
    <3>1. pc["caller"] = "init" /\ sock'["caller"].open /\ sock'["engineer"] = sock["engineer"]
          /\ pc'["engineer"] = pc["engineer"]
      BY <1>0, <2>2 DEF ConnectFails, SocketRec
    <3>2. \A s \in Side : Over'[s] = Over[s]
      BY <1>0, <3>1 DEF Over
    <3> QED
      BY <2>2, <3>2 DEF ConnectFails, Over
  <2>3. CASE Identified \/ Ask \/ Await \/ CallReturns
    <3>1. sock' = sock /\ flight' = flight /\ last' = last /\ pc'["engineer"] = pc["engineer"]
          /\ pc["caller"] \notin {"init", "accept"} /\ pc'["caller"] \notin {"init", "accept"}
      BY <1>0, <2>3 DEF Identified, Ask, Await, CallReturns
    <3> QED
      BY <1>0, <3>1, Unseen
  <2>4. CASE ClientEnds
    BY <1>0, <1>2, <2>4 DEF ClientEnds, Resting
  <2>5. CASE SocketFails
    <3>1. /\ pc["caller"] = "init" /\ pc["engineer"] = "accept" /\ flight["engineer"] = << >>
          /\ ~sock["caller"].open /\ sock' = sock /\ flight' = flight /\ last' = last
      BY <1>0, <2>5, NothingUnderWay DEF SocketFails
    <3>2. pc'["caller"] \in {"identify", "done"} /\ pc'["engineer"] = "accept"
      BY <1>0, <2>5, <3>1 DEF SocketFails
    <3>3. /\ ~Over["engineer"] /\ ~Over["caller"] /\ ~Over'["engineer"] /\ Over'["caller"]
          /\ Over \in [Side -> BOOLEAN] /\ Over' \in [Side -> BOOLEAN]
      BY <1>0, <3>1, <3>2 DEF Over
    <3>4. Over' = [Over EXCEPT !["caller"] = TRUE]
      BY <1>0, <3>3
    <3>5. flight' = [flight EXCEPT !["engineer"] = << >>] /\ Other("caller") = "engineer"
      BY <1>0, <3>1 DEF ConnectionInv, LocalInv, Types, Other
    <3>6. Sockets!End("caller")
      BY <1>0, <3>1, <3>3, <3>4, <3>5, OtherSide DEF Sockets!End, Over
    <3> QED
      BY <1>0, <3>6 DEF Sockets!Next
  <2> QED
    BY <1>4, <2>1, <2>2, <2>3, <2>4, <2>5 DEF Caller
<1>5. CASE EngineerThread
  <2>1. CASE ReceiveStatusInfo \/ ReceiveRequest \/ Serve \/ Replied
    <3>1. sock' = sock /\ flight' = flight /\ last' = last /\ pc'["caller"] = pc["caller"]
          /\ pc["engineer"] \notin {"init", "accept"} /\ pc'["engineer"] \notin {"init", "accept"}
      BY <1>0, <2>1 DEF ReceiveStatusInfo, ReceiveRequest, Serve, Replied, Loop
    <3> QED
      BY <1>0, <3>1, Unseen
  <2>2. CASE EngineerReturns
    BY <1>0, <1>2, <2>2 DEF EngineerReturns, Resting
  <2> QED
    BY <1>5, <2>1, <2>2 DEF EngineerThread
<1>6. CASE \E s \in Side : Die(s)
  BY <1>2, <1>6 DEF Die, Resting
<1>7. CASE DieAfterLoss
  <2>1. ~sock["engineer"].open /\ pc["engineer"] # "accept"
    BY <1>0, <1>7 DEF ConnectionInv, LocalInv, SocketsInv, SocketOK, Lost, DieAfterLoss
  <2>2. /\ sock'["caller"] = sock["caller"] /\ pc'["caller"] = pc["caller"] /\ pc'["engineer"] = "done"
        /\ ~sock'["engineer"].open /\ flight' = flight /\ last' = last
    BY <1>0, <1>7 DEF DieAfterLoss, Closed, SocketRec
  <2>3. pc["engineer"] # "init"
    BY <1>0 DEF EngineerPc
  <2>4. \A s \in Side : Over'[s] = Over[s]
    BY <1>0, <2>1, <2>2, <2>3 DEF Over
  <2> QED
    BY <2>2, <2>4 DEF Over
<1> QED
  BY <1>1, <1>3, <1>4, <1>5, <1>6, <1>7 DEF Next

(* Send and Recv move whole messages in order, whatever parts of them send *)
(* and recv move and whenever a side ends.                                 *)
THEOREM MessagesArriveWhole == Spec => ImplementsWholeMessages
<1>1. Init => Sockets!Init
  BY DEF Init, Sockets!Init, Side
<1>2. ConnectionInv /\ [Next]_vars => [Sockets!Next]_<<flight, last, Over>>
  BY StepSeen
<1> QED
  BY <1>1, <1>2, ConnectionHolds, PTL DEF Spec, ImplementsWholeMessages, Sockets!Spec, Over

=============================================================================
