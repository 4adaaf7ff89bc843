------------------------- MODULE ServerProcessProofs ------------------------
(***************************************************************************)
(* Theorems about ServerProcess: the arguments, and whose descriptor is    *)
(* whose, for any number of descriptors, engineer threads, stubs and       *)
(* arguments.                                                              *)
(***************************************************************************)
EXTENDS ServerProcess, FiniteSetTheorems, TLAPS

(* Where the loops over peer_list and stubs are, and that stubs has room   *)
(* for the peers still to come.                                            *)
Positions ==
  /\ main = "arguments" => apc = "none"
  /\ apc \in {"connect", "identify"} => it <= peers
  /\ apc = "connect" => stubs + (peers - it) + 1 <= MaxStubs
  /\ apc = "identify" => stubs >= 1 /\ stubs + (peers - it) <= MaxStubs

(* The three members of a Socket: one that its owner does not use yet is   *)
(* as constructed; an engineer thread's has a descriptor only while it is  *)
(* initialized, and so has a valid stub's.                                 *)
ListenerInv == main \in {"arguments", "listen"} => socket[Listener] = NewSocket

EngineersInv ==
  \A e \in Engineer :
    /\ ~socket[e].exists => socket[e] = NewSocket
    /\ socket[e].fd # NoFd => socket[e].is_initialized

StubsInv ==
  \A i \in Stub :
    /\ i > stubs => socket[i] = NewSocket
    /\ socket[i].valid => (socket[i].fd # NoFd <=> socket[i].is_initialized)

SocketInv == ListenerInv /\ EngineersInv /\ StubsInv

ProcessInv == TypeOK /\ Positions /\ SocketInv /\ DescriptorsOwned /\ DescriptorsAccounted /\ ValidStubIsOpen
-----------------------------------------------------------------------------
(* What the steps on one Socket do to the descriptors.                     *)

Descriptors == DescriptorsOwned /\ DescriptorsAccounted
DescriptorTypes == table \subseteq Fd /\ socket \in [Owner -> Socket] /\ failed \in Nat

(* Close of a socket that is initialized if it has a descriptor: it is the *)
(* only one with this number, so nobody else loses it.                     *)
LEMMA CloseStep ==
  ASSUME DescriptorTypes, Descriptors, NEW o \in Owner, NEW r \in Socket,
         socket[o].fd # NoFd => socket[o].is_initialized,
         r.fd = NoFd,
         table' = Close(o), socket' = [socket EXCEPT ![o] = r], failed' = failed
  PROVE  Descriptors'
<1>1. /\ socket'[o] = r
      /\ \A p \in Owner \ {o} : socket'[p] = socket[p]
  BY DEF DescriptorTypes
<1>2. DescriptorsOwned'
  BY <1>1 DEF DescriptorsOwned, Descriptors, Close
<1>3. InUse' = InUse \ {socket[o].fd}
  BY <1>1 DEF InUse, Descriptors, DescriptorsOwned
<1>4. socket[o].fd # NoFd => socket[o].fd \in InUse
  BY DEF InUse
<1>5. socket[o].fd = NoFd => socket[o].fd \notin table
  BY ProcessAssumption DEF DescriptorTypes
<1>6. table' \ InUse' = table \ InUse
  BY <1>3, <1>4, <1>5 DEF Close
<1>7. InUse' \subseteq table'
  BY <1>3 DEF Close, Descriptors, DescriptorsAccounted
<1>8. DescriptorsAccounted'
  BY <1>6, <1>7 DEF Descriptors, DescriptorsAccounted
<1>9. QED
  BY <1>2, <1>8 DEF Descriptors

(* A socket that is not initialized gets a new descriptor and is then      *)
(* initialized, or has come to nothing.  A number it may have had from an  *)
(* earlier failure stays open and is forgotten.                            *)
LEMMA OpenStep ==
  ASSUME DescriptorTypes, Descriptors, NEW o \in Owner, NEW r \in Socket, NEW f \in Fd \ table,
         ~socket[o].is_initialized,
         table' = table \cup {f}, socket' = [socket EXCEPT ![o] = r],
         \/ r.fd = f /\ r.is_initialized /\ failed' = failed
         \/ r.fd = f /\ ~r.is_initialized /\ failed' = failed + 1
         \/ r.fd = NoFd /\ failed' = failed + 1
  PROVE  Descriptors'
<1>1. /\ socket'[o] = r
      /\ \A p \in Owner \ {o} : socket'[p] = socket[p]
  BY DEF DescriptorTypes
<1>2. DescriptorsOwned'
  BY <1>1 DEF DescriptorsOwned, Descriptors
<1>3. f # NoFd
  BY ProcessAssumption
<1>4. InUse \subseteq table /\ Cardinality(table \ InUse) = failed
  BY DEF Descriptors, DescriptorsAccounted
<1>5. IsFiniteSet(table \ InUse)
  BY ProcessAssumption, FS_Subset DEF DescriptorTypes
<1>6. CASE r.fd = f /\ r.is_initialized /\ failed' = failed
  <2>1. InUse' = InUse \cup {f}
    BY <1>1, <1>3, <1>6 DEF InUse
  <2>2. table' \ InUse' = table \ InUse
    BY <2>1
  <2>3. QED
    BY <1>2, <1>4, <1>6, <2>1, <2>2 DEF Descriptors, DescriptorsAccounted
<1>7. ASSUME r.fd = NoFd \/ (r.fd = f /\ ~r.is_initialized), failed' = failed + 1
      PROVE  Descriptors'
  <2>1. InUse' = InUse
    BY <1>1, <1>7 DEF InUse
  <2>2. table' \ InUse' = (table \ InUse) \cup {f}
    BY <2>1, <1>4
  <2>3. Cardinality((table \ InUse) \cup {f}) = Cardinality(table \ InUse) + 1
    BY <1>5, FS_AddElement
  <2>4. QED
    BY <1>2, <1>4, <1>7, <2>1, <2>2, <2>3 DEF Descriptors, DescriptorsAccounted
<1>8. CASE r.fd = f /\ ~r.is_initialized /\ failed' = failed + 1
  BY <1>7, <1>8
<1>9. CASE r.fd = NoFd /\ failed' = failed + 1
  BY <1>7, <1>9
<1>10. QED
  BY <1>6, <1>8, <1>9

(* A socket that is not initialized ends up without a number: no           *)
(* descriptor was left.                                                    *)
LEMMA ForgetStep ==
  ASSUME DescriptorTypes, Descriptors, NEW o \in Owner, NEW r \in Socket,
         ~socket[o].is_initialized, ~r.is_initialized, r.fd = NoFd,
         table' = table, socket' = [socket EXCEPT ![o] = r], failed' = failed
  PROVE  Descriptors'
<1>1. /\ socket'[o] = r
      /\ \A p \in Owner \ {o} : socket'[p] = socket[p]
  BY DEF DescriptorTypes
<1>2. DescriptorsOwned'
  BY <1>1 DEF DescriptorsOwned, Descriptors
<1>3. InUse' = InUse
  BY <1>1 DEF InUse
<1>4. QED
  BY <1>2, <1>3 DEF Descriptors, DescriptorsAccounted

(* A step that touches no socket.                                          *)
LEMMA SameStep ==
  ASSUME Descriptors, UNCHANGED <<table, socket, failed>>
  PROVE  Descriptors'
BY DEF Descriptors, DescriptorsOwned, DescriptorsAccounted, InUse
-----------------------------------------------------------------------------
(* The two things the admin thread does with a stub's socket.              *)

(* ClientSocket::Init changes nothing but its own socket; it makes no      *)
(* invalid socket valid, and a valid one has a descriptor exactly when it  *)
(* is initialized.                                                         *)
LEMMA SocketInitStep ==
  ASSUME DescriptorTypes, Descriptors, NEW i \in Stub, SocketInit(i),
         socket[i].valid => (socket[i].fd # NoFd <=> socket[i].is_initialized)
  PROVE  /\ DescriptorTypes' /\ Descriptors'
         /\ \A p \in Owner \ {i} : socket'[p] = socket[p]
         /\ socket'[i].valid => socket[i].valid
         /\ socket'[i].valid => (socket'[i].fd # NoFd <=> socket'[i].is_initialized)
<1>1. i \in Owner /\ socket[i] \in Socket
  BY DEF Owner, DescriptorTypes
<1>2. CASE socket[i].is_initialized /\ UNCHANGED <<table, socket, failed>>
  BY <1>1, <1>2, SameStep DEF DescriptorTypes
<1>3. CASE /\ ~socket[i].is_initialized
           /\ socket' = [socket EXCEPT ![i].exists = TRUE, ![i].fd = NoFd]
           /\ UNCHANGED <<table, failed>>
  <2> DEFINE r == [socket[i] EXCEPT !.exists = TRUE, !.fd = NoFd]
  <2>1. r \in Socket /\ r.fd = NoFd /\ r.valid = socket[i].valid /\ ~r.is_initialized
    BY <1>1, <1>3 DEF Socket
  <2>2. socket' = [socket EXCEPT ![i] = r]
    BY <1>1, <1>3 DEF DescriptorTypes
  <2>3. DescriptorTypes'
    BY <1>3, <2>1, <2>2 DEF DescriptorTypes
  <2> HIDE DEF r
  <2>4. Descriptors'
    BY <1>1, <1>3, <2>1, <2>2, ForgetStep
  <2>5. socket'[i] = r /\ \A p \in Owner \ {i} : socket'[p] = socket[p]
    BY <1>1, <2>2 DEF DescriptorTypes
  <2>6. QED
    BY <2>1, <2>3, <2>4, <2>5
<1>4. ASSUME NEW f \in Fd \ table, ~socket[i].is_initialized, table' = table \cup {f},
             NEW r \in Socket, socket' = [socket EXCEPT ![i] = r], r.fd = f,
             \/ r.is_initialized /\ r.valid = socket[i].valid /\ failed' = failed
             \/ ~r.is_initialized /\ ~r.valid /\ failed' = failed + 1
      PROVE  /\ DescriptorTypes' /\ Descriptors'
             /\ \A p \in Owner \ {i} : socket'[p] = socket[p]
             /\ socket'[i].valid => socket[i].valid
             /\ socket'[i].valid => (socket'[i].fd # NoFd <=> socket'[i].is_initialized)
  <2>1. DescriptorTypes'
    BY <1>1, <1>4 DEF DescriptorTypes
  <2>2. ASSUME r.is_initialized, failed' = failed
        PROVE  Descriptors'
    BY <1>1, <1>4, <2>2, OpenStep
  <2>3. ASSUME ~r.is_initialized, failed' = failed + 1
        PROVE  Descriptors'
    BY <1>1, <1>4, <2>3, OpenStep
  <2>4. Descriptors'
    BY <1>4, <2>2, <2>3
  <2>5. socket'[i] = r /\ \A p \in Owner \ {i} : socket'[p] = socket[p]
    BY <1>1, <1>4 DEF DescriptorTypes
  <2>6. f # NoFd
    BY ProcessAssumption
  <2>7. QED
    BY <1>4, <2>1, <2>4, <2>5, <2>6
<1>5. CASE /\ ~socket[i].is_initialized
           /\ \E f \in Fd \ table :
                /\ table' = table \cup {f}
                /\ \/ /\ socket' = [socket EXCEPT ![i] = [@ EXCEPT !.exists = TRUE, !.fd = f, !.is_initialized = TRUE]]
                      /\ UNCHANGED failed
                   \/ /\ socket' = [socket EXCEPT ![i] = [@ EXCEPT !.exists = TRUE, !.fd = f, !.valid = FALSE]]
                      /\ failed' = failed + 1
  <2>1. PICK f \in Fd \ table :
          /\ table' = table \cup {f}
          /\ \/ /\ socket' = [socket EXCEPT ![i] = [@ EXCEPT !.exists = TRUE, !.fd = f, !.is_initialized = TRUE]]
                /\ UNCHANGED failed
             \/ /\ socket' = [socket EXCEPT ![i] = [@ EXCEPT !.exists = TRUE, !.fd = f, !.valid = FALSE]]
                /\ failed' = failed + 1
    BY <1>5
  <2>2. CASE /\ socket' = [socket EXCEPT ![i] = [@ EXCEPT !.exists = TRUE, !.fd = f, !.is_initialized = TRUE]]
             /\ UNCHANGED failed
    <3> DEFINE r == [socket[i] EXCEPT !.exists = TRUE, !.fd = f, !.is_initialized = TRUE]
    <3>1. r \in Socket /\ r.fd = f /\ r.is_initialized /\ r.valid = socket[i].valid
      BY <1>1 DEF Socket
    <3>2. socket' = [socket EXCEPT ![i] = r]
      BY <1>1, <2>2 DEF DescriptorTypes
    <3> HIDE DEF r
    <3>3. QED
      BY <1>4, <1>5, <2>1, <2>2, <3>1, <3>2
  <2>3. CASE /\ socket' = [socket EXCEPT ![i] = [@ EXCEPT !.exists = TRUE, !.fd = f, !.valid = FALSE]]
             /\ failed' = failed + 1
    <3> DEFINE r == [socket[i] EXCEPT !.exists = TRUE, !.fd = f, !.valid = FALSE]
    <3>1. r \in Socket /\ r.fd = f /\ ~r.is_initialized /\ ~r.valid
      BY <1>1, <1>5 DEF Socket
    <3>2. socket' = [socket EXCEPT ![i] = r]
      BY <1>1, <2>3 DEF DescriptorTypes
    <3> HIDE DEF r
    <3>3. QED
      BY <1>4, <1>5, <2>1, <2>3, <3>1, <3>2
  <2>4. QED
    BY <2>1, <2>2, <2>3
<1>6. QED
  BY <1>2, <1>3, <1>5 DEF SocketInit

(* A send or receive leaves its socket as it is, with a descriptor, or     *)
(* closed and invalid.                                                     *)
LEMMA SendOrRecvStep ==
  ASSUME DescriptorTypes, Descriptors, NEW i \in Stub, SendOrRecv(i), UNCHANGED failed,
         socket[i].fd # NoFd => socket[i].is_initialized
  PROVE  /\ DescriptorTypes' /\ Descriptors'
         /\ \A p \in Owner \ {i} : socket'[p] = socket[p]
         /\ \/ socket'[i] = socket[i] /\ socket[i].fd # NoFd
            \/ ~socket'[i].valid
<1>1. i \in Owner /\ socket[i] \in Socket
  BY DEF Owner, DescriptorTypes
<1>2. CASE socket[i].fd # NoFd /\ UNCHANGED <<table, socket>>
  BY <1>1, <1>2, SameStep DEF DescriptorTypes
<1>3. CASE table' = Close(i) /\ socket' = [socket EXCEPT ![i] = [Closed(i) EXCEPT !.valid = FALSE]]
  <2> DEFINE r == [Closed(i) EXCEPT !.valid = FALSE]
  <2>1. r \in Socket /\ r.fd = NoFd /\ ~r.valid
    BY <1>1 DEF Socket, Closed
  <2>2. socket' = [socket EXCEPT ![i] = r]
    BY <1>3
  <2> HIDE DEF r
  <2>3. DescriptorTypes'
    BY <1>1, <1>3, <2>1, <2>2 DEF DescriptorTypes, Close
  <2>4. Descriptors'
    BY <1>1, <1>3, <2>1, <2>2, CloseStep
  <2>5. socket'[i] = r /\ \A p \in Owner \ {i} : socket'[p] = socket[p]
    BY <1>1, <2>2 DEF DescriptorTypes
  <2>6. QED
    BY <2>1, <2>3, <2>4, <2>5
<1>4. QED
  BY <1>2, <1>3 DEF SendOrRecv
-----------------------------------------------------------------------------
(* main's arguments.                                                       *)

(* With the test passed, the triples of argv are as many as the peers      *)
(* announced, and the last one ends at the last argument.                  *)
LEMMA TriplesFit ==
  ASSUME argc \in Int, npeers \in Int, argc >= 4, ArgumentsFit
  PROVE  /\ npeers \in Nat
         /\ Cardinality(Triples) = npeers
         /\ Triples # {} =>
              (CHOOSE i \in Triples : \A j \in Triples : j <= i) = argc - 3
<1>1. npeers \in Nat /\ argc = 4 + 3 * npeers
  BY DEF ArgumentsFit
<1> DEFINE f == [n \in 1..npeers |-> 4 + 3 * (n - 1)]
<1>2. f \in Bijection(1..npeers, Triples)
  <2>1. \A n \in 1..npeers : f[n] \in Triples
    BY <1>1 DEF Triples
  <2>2. \A i \in Triples : \E n \in 1..npeers : f[n] = i
    <3>1. TAKE i \in Triples
    <3>2. i \in 4..argc - 1 /\ (i - 4) % 3 = 0
      BY DEF Triples
    <3>3. PICK n \in Int : n = (i - 4) \div 3 + 1
      BY <3>2
    <3>4. i = 4 + 3 * (n - 1)
      BY <3>2, <3>3
    <3>5. n \in 1..npeers
      BY <1>1, <3>2, <3>4
    <3>6. QED
      BY <3>4, <3>5
  <2>3. \A m, n \in 1..npeers : f[m] = f[n] => m = n
    BY <1>1
  <2>4. f \in [1..npeers -> Triples]
    BY <2>1
  <2>5. QED
    BY <2>2, <2>3, <2>4 DEF Bijection, Injection, Surjection, IsInjective
<1>3. Cardinality(Triples) = npeers
  <2>1. ExistsBijection(1..npeers, Triples)
    BY <1>2 DEF ExistsBijection
  <2>2. QED
    BY <1>1, <2>1, FS_CountingElements
<1>4. ASSUME Triples # {}
      PROVE  (CHOOSE i \in Triples : \A j \in Triples : j <= i) = argc - 3
  <2>1. npeers >= 1
    BY <1>1, <1>4 DEF Triples
  <2>2. argc - 3 \in Triples
    BY <1>1, <2>1 DEF Triples
  <2>3. \A j \in Triples : j <= argc - 3
    BY <1>1 DEF Triples
  <2>4. \A i \in Triples : (\A j \in Triples : j <= i) => i = argc - 3
    <3>1. Triples \subseteq Int /\ argc - 3 \in Int
      BY DEF Triples
    <3>2. QED
      BY <2>2, <2>3, <3>1
  <2>5. QED
    BY <2>2, <2>3, <2>4
<1>5. QED
  BY <1>1, <1>3, <1>4
-----------------------------------------------------------------------------
(* The invariant.                                                          *)

(* A process starts without a socket, so nothing is open or owed.          *)
LEMMA InitialState ==
  Init => ProcessInv
<1> SUFFICES ASSUME Init PROVE ProcessInv
  OBVIOUS
<1>1. TypeOK
  BY ProcessAssumption DEF Init, TypeOK, Socket, NewSocket
<1>2. Positions /\ SocketInv /\ DescriptorsOwned /\ ValidStubIsOpen
  BY ProcessAssumption DEF Init, Positions, SocketInv, ListenerInv, EngineersInv,
                           StubsInv, DescriptorsOwned, ValidStubIsOpen, NewSocket,
                           Owner, Stub
<1>3. InUse = {} /\ table = {}
  BY DEF Init, InUse, NewSocket
<1>4. DescriptorsAccounted
  BY <1>3, FS_EmptySet DEF Init, DescriptorsAccounted
<1>5. QED
  BY <1>1, <1>2, <1>4 DEF ProcessInv

(* Steps of main that open nothing.                                        *)
LEMMA MainSteps ==
  ASSUME ProcessInv, ArgumentsWrong \/ ReadArguments \/ ListenFails \/ AcceptFails
  PROVE  ProcessInv'
<1>1. UNCHANGED <<table, socket, failed, stubs, it, argc, npeers>>
  BY DEF ArgumentsWrong, ReadArguments, ListenFails, AcceptFails, adminVars
<1>2. peers' \in Nat /\ touched' \in Int /\ main' \in {"returned", "listen", "terminated"}
      /\ (apc' = apc \/ apc' = "idle")
      /\ (peers' = peers \/ apc' = "idle")
      /\ (main' = "listen" => main = "arguments")
  <2>1. CASE ReadArguments
    <3>1. argc \in Int /\ npeers \in Int
      BY DEF ProcessInv, TypeOK
    <3>2. Cardinality(Triples) \in Nat
      BY <2>1, <3>1, TriplesFit DEF ReadArguments
    <3>3. (IF Triples = {} THEN 3 ELSE (CHOOSE i \in Triples : \A j \in Triples : j <= i) + 2) \in Int
      BY <2>1, <3>1, TriplesFit DEF ReadArguments
    <3>4. QED
      BY <2>1, <3>2, <3>3 DEF ReadArguments
  <2>2. CASE ArgumentsWrong \/ ListenFails \/ AcceptFails
    BY <2>2 DEF ArgumentsWrong, ListenFails, AcceptFails, adminVars, ProcessInv, TypeOK
  <2>3. QED
    BY <2>1, <2>2
<1>3. TypeOK'
  BY <1>1, <1>2 DEF ProcessInv, TypeOK
<1>4. Positions'
  BY <1>1, <1>2 DEF ProcessInv, Positions
<1>5. SocketInv'
  BY <1>1, <1>2 DEF ProcessInv, SocketInv, ListenerInv, EngineersInv, StubsInv
<1>6. ValidStubIsOpen'
  <2>1. apc' = apc \/ apc = "none"
    BY DEF ProcessInv, Positions, ArgumentsWrong, ReadArguments, ListenFails, AcceptFails, adminVars
  <2>2. QED
    BY <1>1, <2>1 DEF ProcessInv, ValidStubIsOpen
<1>7. Descriptors'
  BY <1>1, SameStep DEF ProcessInv, Descriptors
<1>8. QED
  BY <1>3, <1>4, <1>5, <1>6, <1>7 DEF ProcessInv, Descriptors

(* A step on the socket of main or of an engineer thread leaves what is    *)
(* said of the stubs.                                                      *)
LEMMA OtherSocketStep ==
  ASSUME ProcessInv, NEW o \in {Listener} \cup Engineer,
         DescriptorTypes', Descriptors',
         \A p \in Owner \ {o} : socket'[p] = socket[p],
         UNCHANGED <<argc, npeers, peers, touched, adminVars>>,
         main' = main \/ (main = "listen" /\ main' = "accept"),
         o = Listener => main' = "accept",
         o \in Engineer => /\ ~socket'[o].exists => socket'[o] = NewSocket
                           /\ socket'[o].fd # NoFd => socket'[o].is_initialized
  PROVE  ProcessInv'
<1>1. \A i \in Stub : socket'[i] = socket[i]
  BY ProcessAssumption DEF Owner
<1>2. \A e \in Engineer \ {o} : socket'[e] = socket[e]
  BY DEF Owner
<1>3. o \in Engineer => socket'[Listener] = socket[Listener]
  BY ProcessAssumption DEF Owner
<1>4. TypeOK'
  BY DEF ProcessInv, TypeOK, DescriptorTypes, adminVars
<1>5. Positions'
  BY DEF ProcessInv, Positions, adminVars
<1>6. SocketInv'
  <2>1. main' \in {"arguments", "listen"} => socket'[Listener] = NewSocket
    BY <1>3 DEF ProcessInv, SocketInv, ListenerInv, EngineersInv, StubsInv
  <2>2. \A e \in Engineer : /\ ~socket'[e].exists => socket'[e] = NewSocket
                            /\ socket'[e].fd # NoFd => socket'[e].is_initialized
    <3>1. TAKE e \in Engineer
    <3>2. CASE e = o
      BY <3>2
    <3>3. CASE e # o
      BY <1>2, <3>3 DEF ProcessInv, SocketInv, ListenerInv, EngineersInv, StubsInv
    <3>4. QED
      BY <3>2, <3>3
  <2>3. \A i \in Stub :
          /\ i > stubs' => socket'[i] = NewSocket
          /\ socket'[i].valid => (socket'[i].fd # NoFd <=> socket'[i].is_initialized)
    BY <1>1 DEF ProcessInv, SocketInv, ListenerInv, EngineersInv, StubsInv, adminVars
  <2>4. ListenerInv'
    BY <2>1 DEF ListenerInv, NewSocket
  <2>5. EngineersInv'
    BY <2>2 DEF EngineersInv, NewSocket
  <2>6. StubsInv'
    BY <2>3 DEF StubsInv, NewSocket, Stub
  <2>7. QED
    BY <2>4, <2>5, <2>6 DEF SocketInv
<1>7. ValidStubIsOpen'
  BY <1>1 DEF ProcessInv, ValidStubIsOpen, adminVars
<1>8. QED
  BY <1>4, <1>5, <1>6, <1>7 DEF ProcessInv, Descriptors

(* The listening socket gets the first descriptor.                         *)
LEMMA ListenStep ==
  ASSUME ProcessInv, Listen
  PROVE  ProcessInv'
<1>1. PICK f \in Fd \ table :
        /\ table' = table \cup {f}
        /\ socket' = [socket EXCEPT ![Listener] = [@ EXCEPT !.exists = TRUE, !.fd = f, !.is_initialized = TRUE]]
  BY DEF Listen
<1>2. /\ main = "listen" /\ main' = "accept"
      /\ UNCHANGED <<argc, npeers, peers, touched, adminVars, failed>>
  BY DEF Listen
<1> DEFINE r == [socket[Listener] EXCEPT !.exists = TRUE, !.fd = f, !.is_initialized = TRUE]
<1>3. Listener \in Owner /\ DescriptorTypes /\ Descriptors /\ ~socket[Listener].is_initialized
  BY <1>2 DEF ProcessInv, TypeOK, SocketInv, ListenerInv, EngineersInv, StubsInv,
              NewSocket, Owner, DescriptorTypes, Descriptors
<1>4. r \in Socket /\ r.fd = f /\ r.is_initialized /\ socket' = [socket EXCEPT ![Listener] = r]
  BY <1>1, <1>3 DEF DescriptorTypes, Socket
<1> HIDE DEF r
<1>5. Descriptors'
  BY <1>1, <1>2, <1>3, <1>4, OpenStep
<1>6. DescriptorTypes' /\ \A p \in Owner \ {Listener} : socket'[p] = socket[p]
  BY <1>1, <1>2, <1>3, <1>4 DEF DescriptorTypes
<1>7. QED
  BY <1>2, <1>5, <1>6, OtherSocketStep, ProcessAssumption

(* An accepted connection's descriptor is a new one.                       *)
LEMMA AcceptStep ==
  ASSUME ProcessInv, NEW e \in Engineer, Accept(e)
  PROVE  ProcessInv'
<1>1. PICK f \in Fd \ table, r \in Socket :
        /\ table' = table \cup {f}
        /\ socket' = [socket EXCEPT ![e] = r]
        /\ r.exists /\ r.is_initialized
        /\ \/ r.fd = f /\ failed' = failed
           \/ r.fd = NoFd /\ failed' = failed + 1
  <2>1. PICK f \in Fd \ table :
          /\ table' = table \cup {f}
          /\ \/ /\ socket' = [socket EXCEPT ![e] = [exists |-> TRUE, fd |-> f, is_initialized |-> TRUE, valid |-> TRUE]]
                /\ UNCHANGED failed
             \/ /\ socket' = [socket EXCEPT ![e] = [exists |-> TRUE, fd |-> NoFd, is_initialized |-> TRUE, valid |-> FALSE]]
                /\ failed' = failed + 1
    BY DEF Accept
  <2>2. /\ [exists |-> TRUE, fd |-> f, is_initialized |-> TRUE, valid |-> TRUE] \in Socket
        /\ [exists |-> TRUE, fd |-> NoFd, is_initialized |-> TRUE, valid |-> FALSE] \in Socket
    BY DEF Socket
  <2>3. QED
    BY <2>1, <2>2
<1>2. UNCHANGED <<main, argc, npeers, peers, touched, adminVars>> /\ ~socket[e].exists
  BY DEF Accept, mainVars
<1>3. e \in Owner /\ DescriptorTypes /\ Descriptors /\ ~socket[e].is_initialized
  BY <1>2 DEF ProcessInv, TypeOK, SocketInv, ListenerInv, EngineersInv, StubsInv,
              NewSocket, Owner, DescriptorTypes, Descriptors
<1>4. Descriptors'
  BY <1>1, <1>3, OpenStep
<1>5. DescriptorTypes' /\ socket'[e] = r /\ \A p \in Owner \ {e} : socket'[p] = socket[p]
  BY <1>1, <1>3 DEF DescriptorTypes
<1>6. QED
  BY <1>1, <1>2, <1>4, <1>5, OtherSocketStep, ProcessAssumption

(* Both ways in which an engineer thread closes its socket.                *)
LEMMA EngineerStep ==
  ASSUME ProcessInv, NEW e \in Engineer, EngineerThread(e)
  PROVE  ProcessInv'
<1>1. e \in Owner /\ DescriptorTypes /\ Descriptors /\ socket[e] \in Socket
      /\ (socket[e].fd # NoFd => socket[e].is_initialized)
  BY DEF ProcessInv, TypeOK, SocketInv, ListenerInv, EngineersInv, StubsInv, Owner,
         DescriptorTypes, Descriptors
<1>2. /\ table' = Close(e)
      /\ UNCHANGED <<main, argc, npeers, peers, touched, adminVars, failed>>
      /\ socket[e].exists
  BY DEF EngineerThread, EngineerSocketFails, EngineerReturns, mainVars
<1>3. PICK r \in Socket : /\ socket' = [socket EXCEPT ![e] = r]
                          /\ r.fd = NoFd
                          /\ ~r.exists => r = NewSocket
  <2>1. NewSocket \in Socket /\ NewSocket.fd = NoFd
    BY DEF NewSocket, Socket
  <2>2. /\ [Closed(e) EXCEPT !.valid = FALSE] \in Socket
        /\ [Closed(e) EXCEPT !.valid = FALSE].fd = NoFd
        /\ [Closed(e) EXCEPT !.valid = FALSE].exists
    BY <1>1, <1>2 DEF Closed, Socket
  <2>3. QED
    BY <2>1, <2>2 DEF EngineerThread, EngineerSocketFails, EngineerReturns
<1>4. Descriptors'
  BY <1>1, <1>2, <1>3, CloseStep
<1>5. DescriptorTypes' /\ socket'[e] = r /\ \A p \in Owner \ {e} : socket'[p] = socket[p]
  BY <1>1, <1>2, <1>3 DEF DescriptorTypes, Close
<1>6. QED
  BY <1>2, <1>3, <1>4, <1>5, OtherSocketStep, ProcessAssumption
-----------------------------------------------------------------------------
(* The admin thread.                                                       *)

(* A step of the admin thread on the socket of stub i leaves what is said  *)
(* of main's and of the engineer threads'.                                 *)
LEMMA StubSocketStep ==
  ASSUME ProcessInv, NEW i \in Stub,
         \A p \in Owner \ {i} : socket'[p] = socket[p],
         socket'[i].valid => (socket'[i].fd # NoFd <=> socket'[i].is_initialized),
         UNCHANGED mainVars, i <= stubs', stubs <= stubs', stubs' \in Int
  PROVE  SocketInv'
<1>1. /\ socket'[Listener] = socket[Listener]
      /\ \A e \in Engineer : socket'[e] = socket[e]
      /\ \A j \in Stub \ {i} : socket'[j] = socket[j]
  BY ProcessAssumption DEF Owner
<1>2. \A j \in Stub :
        /\ j > stubs' => socket'[j] = NewSocket
        /\ socket'[j].valid => (socket'[j].fd # NoFd <=> socket'[j].is_initialized)
  <2>1. TAKE j \in Stub
  <2>2. CASE j = i
    BY <2>2 DEF Stub
  <2>3. CASE j # i
    BY <1>1, <2>3 DEF ProcessInv, SocketInv, ListenerInv, EngineersInv, StubsInv, TypeOK, Stub
  <2>4. QED
    BY <2>2, <2>3
<1>3. main' \in {"arguments", "listen"} => socket'[Listener] = NewSocket
  BY <1>1 DEF ProcessInv, SocketInv, ListenerInv, EngineersInv, StubsInv, mainVars
<1>4. \A e \in Engineer : /\ ~socket'[e].exists => socket'[e] = NewSocket
                          /\ socket'[e].fd # NoFd => socket'[e].is_initialized
  BY <1>1 DEF ProcessInv, SocketInv, ListenerInv, EngineersInv, StubsInv
<1>5. ListenerInv'
  BY <1>3 DEF ListenerInv, NewSocket
<1>6. EngineersInv'
  BY <1>4 DEF EngineersInv, NewSocket
<1>7. StubsInv'
  BY <1>2 DEF StubsInv, NewSocket, Stub
<1>8. QED
  BY <1>5, <1>6, <1>7 DEF SocketInv

(* An order is accepted only if stubs has room for what it adds.           *)
LEMMA TakeOrderStep ==
  ASSUME ProcessInv, TakeOrder
  PROVE  ProcessInv'
<1>1. UNCHANGED <<mainVars, table, socket, stubs, failed>> /\ it' = 1
  BY DEF TakeOrder
<1>2. main # "arguments" /\ apc = "idle"
      /\ \/ apc' = "connect" /\ stubs + peers <= MaxStubs /\ peers > 0
         \/ apc' = "visit" /\ stubs > 0
  BY DEF TakeOrder, Serving
<1>3. TypeOK'
  BY <1>1, <1>2 DEF ProcessInv, TypeOK, mainVars
<1>4. Positions'
  BY <1>1, <1>2 DEF ProcessInv, TypeOK, Positions, mainVars
<1>5. SocketInv'
  BY <1>1 DEF ProcessInv, SocketInv, ListenerInv, EngineersInv, StubsInv, mainVars
<1>6. Descriptors'
  BY <1>1, SameStep DEF ProcessInv, Descriptors
<1>7. ValidStubIsOpen'
  BY <1>1, <1>2 DEF ProcessInv, ValidStubIsOpen
<1>8. QED
  BY <1>3, <1>4, <1>5, <1>6, <1>7 DEF ProcessInv, Descriptors

(* The new stub is the only one that may be valid without a descriptor,    *)
(* and the identification is next.                                         *)
LEMMA ConnectPeerStep ==
  ASSUME ProcessInv, ConnectPeer
  PROVE  ProcessInv'
<1> DEFINE i == stubs + 1
<1>1. /\ SocketInit(i) /\ stubs' = i /\ apc' = "identify" /\ apc = "connect"
      /\ UNCHANGED <<mainVars, it>> /\ main # "arguments"
  BY DEF ConnectPeer, Serving
<1>2. /\ i \in Stub /\ stubs \in Nat /\ it \in Nat /\ peers \in Nat /\ it <= peers
      /\ stubs + (peers - it) + 1 <= MaxStubs
  BY <1>1, ProcessAssumption DEF ProcessInv, TypeOK, Positions, Stub
<1>3. DescriptorTypes /\ Descriptors
  BY DEF ProcessInv, TypeOK, DescriptorTypes, Descriptors
<1>4. socket[i].valid => (socket[i].fd # NoFd <=> socket[i].is_initialized)
  BY <1>2 DEF ProcessInv, SocketInv, ListenerInv, EngineersInv, StubsInv
<1> HIDE DEF i
<1>5. /\ DescriptorTypes' /\ Descriptors'
      /\ \A p \in Owner \ {i} : socket'[p] = socket[p]
      /\ socket'[i].valid => (socket'[i].fd # NoFd <=> socket'[i].is_initialized)
  BY <1>1, <1>2, <1>3, <1>4, SocketInitStep
<1> USE DEF i
<1>6. TypeOK'
  BY <1>1, <1>2, <1>5, ProcessAssumption DEF ProcessInv, TypeOK, DescriptorTypes, mainVars, Stub
<1>7. Positions'
  BY <1>1, <1>2, ProcessAssumption DEF ProcessInv, Positions, mainVars
<1>8. SocketInv'
  BY <1>1, <1>2, <1>5, StubSocketStep
<1>9. ValidStubIsOpen'
  <2>1. \A j \in Stub : j <= stubs => socket'[j] = socket[j]
    BY <1>2, <1>5 DEF Stub, Owner
  <2>2. \A j \in Stub : j <= stubs' /\ ~(j = stubs') => j <= stubs
    BY <1>1, <1>2 DEF Stub
  <2>3. QED
    BY <1>1, <2>1, <2>2 DEF ProcessInv, ValidStubIsOpen
<1>10. QED
  BY <1>5, <1>6, <1>7, <1>8, <1>9 DEF ProcessInv, Descriptors

(* A step on a stub that has been identified before, or is now: it is      *)
(* invalid afterwards, or open.                                            *)
LEMMA KnownStubStep ==
  ASSUME ProcessInv, NEW i \in Stub, i <= stubs,
         IF socket[i].valid THEN SendOrRecv(i) /\ UNCHANGED failed
                            ELSE SocketInit(i) \/ UNCHANGED <<table, socket, failed>>,
         apc = "identify" => i = stubs,
         UNCHANGED <<mainVars, stubs>>
  PROVE  DescriptorTypes' /\ Descriptors' /\ SocketInv' /\ ValidStubIsOpen'
<1>1. /\ DescriptorTypes /\ Descriptors /\ stubs \in Int /\ i \in Owner
      /\ socket[i].valid => (socket[i].fd # NoFd <=> socket[i].is_initialized)
  BY DEF ProcessInv, TypeOK, DescriptorTypes, Descriptors, SocketInv, ListenerInv,
         EngineersInv, StubsInv, Owner
<1>2. CASE socket[i].valid
  <2>1. /\ DescriptorTypes' /\ Descriptors'
        /\ \A p \in Owner \ {i} : socket'[p] = socket[p]
        /\ \/ socket'[i] = socket[i] /\ socket[i].fd # NoFd
           \/ ~socket'[i].valid
    BY <1>1, <1>2, SendOrRecvStep
  <2>2. SocketInv'
    BY <1>1, <1>2, <2>1, StubSocketStep
  <2>3. socket'[i].valid => socket'[i].fd # NoFd /\ socket'[i].is_initialized
    BY <1>1, <1>2, <2>1
  <2>4. \A j \in Stub \ {i} : socket'[j] = socket[j]
    BY <2>1 DEF Owner
  <2>5. ValidStubIsOpen'
    BY <2>3, <2>4 DEF ProcessInv, ValidStubIsOpen
  <2>6. QED
    BY <2>1, <2>2, <2>5
<1>3. CASE ~socket[i].valid /\ SocketInit(i)
  <2>1. /\ DescriptorTypes' /\ Descriptors'
        /\ \A p \in Owner \ {i} : socket'[p] = socket[p]
        /\ ~socket'[i].valid
    BY <1>1, <1>3, SocketInitStep
  <2>2. SocketInv'
    BY <1>1, <2>1, StubSocketStep
  <2>3. \A j \in Stub \ {i} : socket'[j] = socket[j]
    BY <2>1 DEF Owner
  <2>4. ValidStubIsOpen'
    BY <2>1, <2>3 DEF ProcessInv, ValidStubIsOpen
  <2>5. QED
    BY <2>1, <2>2, <2>4
<1>4. CASE ~socket[i].valid /\ UNCHANGED <<table, socket, failed>>
  <2>1. DescriptorTypes' /\ Descriptors'
    BY <1>1, <1>4, SameStep DEF DescriptorTypes
  <2>2. SocketInv'
    BY <1>1, <1>4, StubSocketStep
  <2>3. ValidStubIsOpen'
    BY <1>4 DEF ProcessInv, ValidStubIsOpen
  <2>4. QED
    BY <2>1, <2>2, <2>3
<1>5. QED
  BY <1>2, <1>3, <1>4

(* The identification leaves the new stub open or invalid.                 *)
LEMMA IdentifyPeerStep ==
  ASSUME ProcessInv, IdentifyPeer
  PROVE  ProcessInv'
<1>1. /\ apc = "identify" /\ main # "arguments"
      /\ UNCHANGED <<mainVars, stubs, failed>>
      /\ IF socket[stubs].valid THEN SendOrRecv(stubs) ELSE UNCHANGED <<table, socket>>
      /\ IF it < peers THEN apc' = "connect" /\ it' = it + 1 ELSE apc' = "visit" /\ it' = 1
  BY DEF IdentifyPeer, Serving
<1>2. /\ stubs \in Stub /\ stubs >= 1 /\ it \in Nat /\ peers \in Nat /\ it <= peers
      /\ stubs + (peers - it) <= MaxStubs
  BY <1>1, ProcessAssumption DEF ProcessInv, TypeOK, Positions, Stub
<1>3. DescriptorTypes' /\ Descriptors' /\ SocketInv' /\ ValidStubIsOpen'
  <2>1. stubs <= stubs
    BY <1>2 DEF Stub
  <2>2. IF socket[stubs].valid THEN SendOrRecv(stubs) /\ UNCHANGED failed
                               ELSE SocketInit(stubs) \/ UNCHANGED <<table, socket, failed>>
    BY <1>1
  <2>3. UNCHANGED <<mainVars, stubs>>
    BY <1>1
  <2>4. QED
    BY <1>2, <2>1, <2>2, <2>3, KnownStubStep
<1>4. TypeOK'
  BY <1>1, <1>2, <1>3 DEF ProcessInv, TypeOK, DescriptorTypes, mainVars
<1>5. Positions'
  BY <1>1, <1>2, ProcessAssumption DEF ProcessInv, Positions, Stub, mainVars
<1>6. QED
  BY <1>3, <1>4, <1>5 DEF ProcessInv, Descriptors

(* A replication leaves every stub it visits open or invalid.              *)
LEMMA VisitStubStep ==
  ASSUME ProcessInv, VisitStub
  PROVE  ProcessInv'
<1>1. /\ apc = "visit" /\ main # "arguments"
      /\ UNCHANGED <<mainVars, stubs>>
      /\ IF socket[it].valid THEN SendOrRecv(it) /\ UNCHANGED failed ELSE SocketInit(it)
      /\ NextStub
  BY DEF VisitStub, Serving
<1>2. it \in Stub /\ it <= stubs /\ it \in Nat \ {0} /\ stubs \in 0..MaxStubs
  BY <1>1, ProcessAssumption DEF ProcessInv, TypeOK, Stub
<1>3. DescriptorTypes' /\ Descriptors' /\ SocketInv' /\ ValidStubIsOpen'
  <2>1. apc = "identify" => it = stubs
    BY <1>1
  <2>2. QED
    BY <1>1, <1>2, <2>1, KnownStubStep
<1>4. TypeOK'
  BY <1>1, <1>2, <1>3, ProcessAssumption DEF NextStub, ProcessInv, TypeOK, DescriptorTypes, mainVars
<1>5. Positions'
  BY <1>1 DEF NextStub, ProcessInv, Positions, mainVars
<1>6. QED
  BY <1>3, <1>4, <1>5 DEF ProcessInv, Descriptors
-----------------------------------------------------------------------------
(* The theorems.                                                           *)

(* Every step preserves the invariant.                                     *)
LEMMA InvariantStep ==
  ProcessInv /\ [Next]_vars => ProcessInv'
<1> SUFFICES ASSUME ProcessInv, [Next]_vars PROVE ProcessInv'
  OBVIOUS
<1>1. CASE UNCHANGED vars
  <2>1. UNCHANGED <<main, argc, npeers, peers, touched, table, socket, apc, stubs, it, failed>>
    BY <1>1 DEF vars, mainVars, adminVars
  <2>2. TypeOK' /\ Positions' /\ SocketInv' /\ ValidStubIsOpen'
    BY <2>1 DEF ProcessInv, TypeOK, Positions, SocketInv, ListenerInv, EngineersInv,
                StubsInv, ValidStubIsOpen
  <2>3. Descriptors'
    BY <2>1, SameStep DEF ProcessInv, Descriptors
  <2>4. QED
    BY <2>2, <2>3 DEF ProcessInv, Descriptors
<1>2. CASE Main
  BY <1>2, MainSteps, ListenStep, AcceptStep DEF Main
<1>3. ASSUME NEW e \in Engineer, EngineerThread(e)
      PROVE  ProcessInv'
  BY <1>3, EngineerStep
<1>4. CASE AdminThread
  BY <1>4, TakeOrderStep, ConnectPeerStep, IdentifyPeerStep, VisitStubStep DEF AdminThread
<1>5. QED
  BY <1>1, <1>2, <1>3, <1>4 DEF Next

(* The invariant holds in every reachable state.                           *)
LEMMA Invariant ==
  Spec => []ProcessInv
BY InitialState, InvariantStep, PTL DEF Spec

(* The members of the process have their types, and the loops over         *)
(* peer_list and stubs stay inside them.                                   *)
THEOREM ProcessTypes ==
  Spec => []TypeOK
BY Invariant, PTL DEF ProcessInv

(* Socket::Close, in the destructor or after a failed send, never closes a *)
(* number that the kernel has given to another socket meanwhile: two       *)
(* Sockets never hold the same descriptor.                                 *)
THEOREM NobodyElsesDescriptor ==
  Spec => []DescriptorsOwned
BY Invariant, PTL DEF ProcessInv

(* What the process leaks is exactly one descriptor for every failed       *)
(* connect of ClientSocket::Init and failed setsockopt of an accepted      *)
(* socket.                                                                 *)
THEOREM LeaksAreFailures ==
  Spec => []DescriptorsAccounted
BY Invariant, PTL DEF ProcessInv

(* startReplication sends requests only over open sockets.                 *)
THEOREM RequestsOverOpenSockets ==
  Spec => []ValidStubIsOpen
BY Invariant, PTL DEF ProcessInv

(* ServerMain.cpp's test of argc makes the loop of setPeerList read as     *)
(* many peers as announced, and no argument after the last.                *)
THEOREM ArgumentsReadInside ==
  Spec => []ArgumentsRead
<1>1. Init => ArgumentsRead
  BY DEF Init, ArgumentsRead
<1>2. TypeOK /\ ArgumentsRead /\ [Next]_vars => ArgumentsRead'
  <2> SUFFICES ASSUME TypeOK, ArgumentsRead, [Next]_vars PROVE ArgumentsRead'
    OBVIOUS
  <2>1. CASE ReadArguments
    <3>1. argc \in Int /\ npeers \in Int /\ argc >= 4 /\ ArgumentsFit
      BY <2>1 DEF TypeOK, ReadArguments
    <3>2. peers' = npeers /\ argc' = argc /\ npeers' = npeers
      BY <2>1, <3>1, TriplesFit DEF ReadArguments
    <3>3. touched' < argc
      <4>1. CASE Triples = {}
        BY <2>1, <3>1, <4>1 DEF ReadArguments
      <4>2. CASE Triples # {}
        <5> DEFINE last == CHOOSE i \in Triples : \A j \in Triples : j <= i
        <5>1. last = argc - 3
          BY <3>1, <4>2, TriplesFit
        <5>2. touched' = last + 2
          BY <2>1, <4>2 DEF ReadArguments
        <5> HIDE DEF last
        <5>3. QED
          BY <3>1, <5>1, <5>2
      <4>3. QED
        BY <4>1, <4>2
    <3>4. QED
      BY <3>2, <3>3 DEF ArgumentsRead
  <2>2. CASE UNCHANGED <<argc, npeers, peers, touched>>
             /\ (main' \in {"listen", "accept"} => main \in {"listen", "accept"})
    BY <2>2 DEF ArgumentsRead
  <2>3. ASSUME ~ReadArguments
        PROVE  UNCHANGED <<argc, npeers, peers, touched>>
               /\ (main' \in {"listen", "accept"} => main \in {"listen", "accept"})
    <3>1. CASE Main
      BY <2>3, <3>1 DEF Main, ArgumentsWrong, Listen, ListenFails, Accept, AcceptFails, mainVars
    <3>2. CASE UNCHANGED mainVars
      BY <3>2 DEF mainVars
    <3>3. UNCHANGED mainVars \/ Main
      BY DEF Next, AdminThread, TakeOrder, ConnectPeer, IdentifyPeer, VisitStub,
             EngineerThread, EngineerSocketFails, EngineerReturns, vars
    <3>4. QED
      BY <3>1, <3>2, <3>3
  <2>4. QED
    BY <2>1, <2>2, <2>3
<1>3. QED
  BY <1>1, <1>2, ProcessTypes, PTL DEF Spec
=============================================================================
