---------------------------- MODULE ServerProcess ---------------------------
(***************************************************************************)
(* A server process and its descriptors: ServerMain.cpp and the life of    *)
(* every Socket object in it, the listening socket, one ServerSocket per   *)
(* engineer thread, and one ClientSocket per stub.                         *)
(*                                                                         *)
(* What is sent and for whom is LaptopFactory; here a send or receive      *)
(* succeeds or fails.  A descriptor is a number the kernel hands out       *)
(* again as soon as it is closed.                                          *)
(***************************************************************************)
EXTENDS Integers, FiniteSets

CONSTANTS
  Fd,            \* the descriptors a process may have open at once
  NoFd,          \* -1
  Listener,      \* the name of the listening socket
  Engineer,      \* bound: names of simultaneous engineer threads
  MaxStubs,      \* bound: length of stubs
  MaxArgc        \* bound: argc

Stub == 1..MaxStubs
Owner == {Listener} \cup Engineer \cup Stub

ASSUME ProcessAssumption ==
  /\ IsFiniteSet(Fd) /\ NoFd \notin Fd
  /\ MaxStubs \in Nat /\ MaxArgc \in Nat
  /\ Listener \notin Engineer \cup Stub
  /\ Engineer \cap Stub = {}

VARIABLES
  main,      \* what main does next
  argc,      \* number of arguments
  npeers,    \* atoi(argv[3])
  peers,     \* length of peer_list
  touched,   \* history: the largest index of argv read
  table,     \* open descriptors
  socket,    \* the Socket object of each owner
  apc,       \* what the admin thread does next
  stubs,     \* length of stubs
  it,        \* its position in the loops over peer_list and stubs
  failed     \* history: descriptors of sockets that came to nothing

mainVars  == <<main, argc, npeers, peers, touched>>
adminVars == <<apc, stubs, it>>
vars == <<mainVars, table, socket, adminVars, failed>>

(* Socket(): valid; fd_ is uninitialized, and not used before Init.        *)
NewSocket == [exists |-> FALSE, fd |-> NoFd, is_initialized |-> FALSE, valid |-> TRUE]

Init ==
  /\ main = "arguments"
  /\ argc \in 1..MaxArgc
  /\ npeers \in -1..MaxArgc
  /\ peers = 0
  /\ touched = 0
  /\ table = {}
  /\ socket = [o \in Owner |-> NewSocket]
  /\ apc = "none"
  /\ stubs = 0
  /\ it = 1
  /\ failed = 0
-----------------------------------------------------------------------------
(* main.                                                                   *)

ArgumentsFit_NoRemainder == (argc - 4) \div 3 = npeers
ArgumentsFit == (argc - 4) \div 3 = npeers /\ (argc - 4) % 3 = 0

(* The peers read from argv: a triple for each i = 4, 7, ... below argc.   *)
Triples == {i \in 4..argc - 1 : (i - 4) % 3 = 0}

(* Too few or too many arguments: the process returns before it has        *)
(* started anything.                                                       *)
ArgumentsWrong ==
  /\ main = "arguments"
  /\ argc < 4 \/ ~ArgumentsFit
  /\ main' = "returned"
  /\ UNCHANGED <<argc, npeers, peers, touched, table, socket, adminVars, failed>>

(* setPeerList, Init, and the admin thread is started.                     *)
ReadArguments ==
  /\ main = "arguments"
  /\ argc >= 4 /\ ArgumentsFit
  /\ peers' = Cardinality(Triples)
  /\ touched' = IF Triples = {} THEN 3 ELSE (CHOOSE i \in Triples : \A j \in Triples : j <= i) + 2
  /\ main' = "listen"
  /\ apc' = "idle"
  /\ UNCHANGED <<argc, npeers, table, socket, stubs, it, failed>>

(* ServerSocket::Init: socket, bind and listen.                            *)
Listen ==
  /\ main = "listen"
  /\ \E f \in Fd \ table :
       /\ table' = table \cup {f}
       /\ socket' = [socket EXCEPT ![Listener] = [@ EXCEPT !.exists = TRUE, !.fd = f, !.is_initialized = TRUE]]
  /\ main' = "accept"
  /\ UNCHANGED <<argc, npeers, peers, touched, adminVars, failed>>

(* No descriptor is left or the port is taken, and main returns.  The      *)
(* admin thread is joinable and never joined, so the destructor of         *)
(* thread_vector calls std::terminate.                                     *)
ListenFails ==
  /\ main = "listen"
  /\ main' = "terminated"
  /\ UNCHANGED <<argc, npeers, peers, touched, table, socket, adminVars, failed>>

(* accept, the new ServerSocket and its engineer thread.  The ServerSocket *)
(* sets its TCP_NODELAY; if that fails it forgets the descriptor.          *)
Accept(e) ==
  /\ main = "accept"
  /\ ~socket[e].exists
  /\ \E f \in Fd \ table :
       /\ table' = table \cup {f}
       /\ \/ /\ socket' = [socket EXCEPT ![e] = [exists |-> TRUE, fd |-> f, is_initialized |-> TRUE, valid |-> TRUE]]
             /\ UNCHANGED failed
          \/ /\ socket' = [socket EXCEPT ![e] = [exists |-> TRUE, fd |-> NoFd, is_initialized |-> TRUE, valid |-> FALSE]]
             /\ failed' = failed + 1
  /\ UNCHANGED <<mainVars, adminVars>>

(* accept returns -1, because no descriptor is left or for another reason  *)
(* (a connection already reset): the loop ends and main returns, with all  *)
(* threads joinable.                                                       *)
AcceptFails ==
  /\ main = "accept"
  /\ main' = "terminated"
  /\ UNCHANGED <<argc, npeers, peers, touched, table, socket, adminVars, failed>>
-----------------------------------------------------------------------------
(* Socket::Close of o: shutdown and close, which do nothing for -1.  The   *)
(* slips forget to close, or to forget the number.                         *)
Close_NoClose(o) == table
Close(o) == table \ {socket[o].fd}

Closed_KeepsFd(o) == [socket[o] EXCEPT !.is_initialized = FALSE]
Closed(o) == [socket[o] EXCEPT !.fd = NoFd, !.is_initialized = FALSE]

Serving == main \in {"listen", "accept"}

(* A Send or Recv of an engineer thread fails: valid = false, Close().     *)
(* Once closed, every further one fails too.                               *)
EngineerSocketFails(e) ==
  /\ Serving
  /\ socket[e].exists
  /\ table' = Close(e)
  /\ socket' = [socket EXCEPT ![e] = [Closed(e) EXCEPT !.valid = FALSE]]
  /\ UNCHANGED <<mainVars, adminVars, failed>>

(* The engineer thread returns: its stub's destructor calls Close() again, *)
(* whether the socket is open or not; then the ServerSocket goes, whose    *)
(* destructor finds that it is not initialized.                            *)
EngineerReturns(e) ==
  /\ Serving
  /\ socket[e].exists
  /\ table' = Close(e)
  /\ socket' = [socket EXCEPT ![e] = NewSocket]
  /\ UNCHANGED <<mainVars, adminVars, failed>>
-----------------------------------------------------------------------------
(* The admin thread.                                                       *)

(* ClientSocket::Init on stub i, with its three ends: nothing to do, no    *)
(* socket, because no descriptor is left or for another reason, or a new   *)
(* one, which a failed connect leaves open.                                *)
SocketInit(i) ==
  \/ /\ socket[i].is_initialized
     /\ UNCHANGED <<table, socket, failed>>
  \/ /\ ~socket[i].is_initialized
     /\ socket' = [socket EXCEPT ![i].exists = TRUE, ![i].fd = NoFd]
     /\ UNCHANGED <<table, failed>>
  \/ /\ ~socket[i].is_initialized
     /\ \E f \in Fd \ table :
          /\ table' = table \cup {f}
          /\ \/ /\ socket' = [socket EXCEPT ![i] = [@ EXCEPT !.exists = TRUE, !.fd = f, !.is_initialized = TRUE]]
                /\ UNCHANGED failed
             \/ /\ socket' = [socket EXCEPT ![i] = [@ EXCEPT !.exists = TRUE, !.fd = f, !.valid = FALSE]]
                /\ failed' = failed + 1

(* An order comes: with startConnection, when another server was primary   *)
(* in between, or without.                                                 *)
TakeOrder ==
  /\ Serving /\ apc = "idle"
  /\ \/ /\ stubs + peers <= MaxStubs /\ peers > 0
        /\ apc' = "connect"
     \/ /\ stubs > 0
        /\ apc' = "visit"
  /\ it' = 1
  /\ UNCHANGED <<mainVars, table, socket, stubs, failed>>

(* A new stub at the end of stubs, for the next peer.                      *)
ConnectPeer ==
  /\ Serving /\ apc = "connect"
  /\ SocketInit(stubs + 1)
  /\ stubs' = stubs + 1
  /\ apc' = "identify"
  /\ UNCHANGED <<mainVars, it>>

SendOrRecv(i) ==
  \/ /\ socket[i].fd # NoFd
     /\ UNCHANGED <<table, socket>>
  \/ /\ table' = Close(i)
     /\ socket' = [socket EXCEPT ![i] = [Closed(i) EXCEPT !.valid = FALSE]]

(* if (stub->isValid()) SendIdentification.  And a startConnection that    *)
(* leaves it out.                                                          *)
IdentifyPeer_Never ==
  /\ Serving /\ apc = "identify"
  /\ IF it < peers THEN apc' = "connect" /\ it' = it + 1 ELSE apc' = "visit" /\ it' = 1
  /\ UNCHANGED <<mainVars, table, socket, stubs, failed>>

IdentifyPeer ==
  /\ Serving /\ apc = "identify"
  /\ IF socket[stubs].valid THEN SendOrRecv(stubs) ELSE UNCHANGED <<table, socket>>
  /\ IF it < peers THEN apc' = "connect" /\ it' = it + 1 ELSE apc' = "visit" /\ it' = 1
  /\ UNCHANGED <<mainVars, stubs, failed>>

(* The next stub of the loop.                                              *)
NextStub == IF it < stubs THEN it' = it + 1 /\ UNCHANGED apc ELSE apc' = "idle" /\ it' = 1

(* startReplication on one stub: an invalid one is reconnected, which does *)
(* not make it valid, the others send and receive.                         *)
VisitStub ==
  /\ Serving /\ apc = "visit"
  /\ IF socket[it].valid THEN SendOrRecv(it) /\ UNCHANGED failed ELSE SocketInit(it)
  /\ NextStub
  /\ UNCHANGED <<mainVars, stubs>>
-----------------------------------------------------------------------------
Main == ArgumentsWrong \/ ReadArguments \/ Listen \/ ListenFails
        \/ (\E e \in Engineer : Accept(e)) \/ AcceptFails

EngineerThread(e) == EngineerSocketFails(e) \/ EngineerReturns(e)

AdminThread == TakeOrder \/ ConnectPeer \/ IdentifyPeer \/ VisitStub

Next == Main \/ (\E e \in Engineer : EngineerThread(e)) \/ AdminThread

Spec == Init /\ [][Next]_vars
-----------------------------------------------------------------------------
(* Properties.                                                             *)

Socket == [exists : BOOLEAN, fd : Fd \cup {NoFd}, is_initialized : BOOLEAN, valid : BOOLEAN]

(* The state has its types, and the loops stay inside stubs.               *)
TypeOK ==
  /\ main \in {"arguments", "returned", "listen", "accept", "terminated"}
  /\ argc \in Int /\ npeers \in Int /\ peers \in Nat /\ touched \in Int
  /\ table \subseteq Fd
  /\ socket \in [Owner -> Socket]
  /\ apc \in {"none", "idle", "connect", "identify", "visit"}
  /\ stubs \in 0..MaxStubs
  /\ it \in Nat \ {0}
  /\ apc = "visit" => it <= stubs
  /\ failed \in Nat

(* The server starts with as many peers as it was told, and has not read   *)
(* past the end of argv.                                                   *)
ArgumentsRead == main \in {"listen", "accept"} => peers = npeers /\ touched < argc

(* The descriptor in a Socket is open and no other Socket has it: no       *)
(* destructor and no failed send closes a number that the kernel has given *)
(* to another connection meanwhile.                                        *)
DescriptorsOwned ==
  \A o \in Owner : socket[o].fd # NoFd =>
    /\ socket[o].fd \in table
    /\ \A p \in Owner : socket[p].fd = socket[o].fd => p = o

InUse == {socket[o].fd : o \in {o \in Owner : socket[o].is_initialized}} \ {NoFd}

(* Every open descriptor is that of an initialized Socket, except one for  *)
(* every connect or setsockopt that failed: a stub keeps its descriptor    *)
(* open and forgets it at the next reconnect, an accepted socket forgets   *)
(* it at once.  Nothing else leaks, and nothing is closed that is in use.  *)
DescriptorsAccounted ==
  InUse \subseteq table /\ Cardinality(table \ InUse) = failed

(* A request is sent only over a stub with an open socket: a stub whose    *)
(* Init found no descriptor is still valid, but the identification sent    *)
(* next finds out.                                                         *)
ValidStubIsOpen ==
  \A i \in Stub : i <= stubs /\ socket[i].valid /\ ~(apc = "identify" /\ i = stubs) =>
    socket[i].fd # NoFd /\ socket[i].is_initialized
=============================================================================
