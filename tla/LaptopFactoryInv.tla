-------------------------- MODULE LaptopFactoryInv --------------------------
(***************************************************************************)
(* The inductive invariant of LaptopFactory: what holds in every state,    *)
(* in the middle of a takeover or a replication too, and is strong enough  *)
(* to be kept by every step.  LaptopFactoryProofs proves it; TLC checks it *)
(* on the crash runs.                                                      *)
(***************************************************************************)
EXTENDS LaptopFactory

(* The orders server s may hold: their clients wait for them, or died      *)
(* waiting.                                                                *)
Expected(s) == {OrderOf(c) : c \in {c \in Customer : csrv[c] = s /\ cpc[c] = "wait"}} \cup abandoned

(* The orders in inbox, in erq and in the admin thread's hands are each    *)
(* there once and expected, so the promise the thread sets belongs to the  *)
(* order it did, and nobody gets the laptop of another.                    *)
QueueOK(s) ==
  /\ apc[s] # "idle" => cur[s] \in Order /\ cur[s] \in Expected(s)
  /\ \A o \in inbox[s] : o \in Expected(s) /\ (apc[s] # "idle" => o # cur[s])
  /\ \A i \in 1..Len(erq[s]) :
       /\ erq[s][i] \in Expected(s)
       /\ erq[s][i] \notin inbox[s]
       /\ apc[s] # "idle" => erq[s][i] # cur[s]
       /\ \A j \in 1..Len(erq[s]) : erq[s][i] = erq[s][j] => i = j

(* A client that has been run again after its death is past the orders it  *)
(* abandoned.                                                              *)
AbandonedPast(o) == o.sess <= sess[o.cust] /\ (cpc[o.cust] # "off" => o.sess < sess[o.cust])

ClientInv ==
  /\ \A c \in Customer : cpc[c] # "off" => csrv[c] \in Server
  /\ \A o \in abandoned : AbandonedPast(o)
  /\ \A s \in Server : QueueOK(s)

(* A stub's socket and its connection belong together, no two stubs share  *)
(* a connection, and a stub or connection fails only with its peer, or     *)
(* with the calls of a Flaky server.                                       *)
StubOK(s, b) ==
  /\ b.peer # s
  /\ ~b.valid => crashes[b.peer] > 0 \/ s \in Flaky
  /\ b.init => /\ b.conn \in ConnId
               /\ conn[b.conn].from = s
               /\ conn[b.conn].to = b.peer
               /\ conn[b.conn].open
               /\ conn[b.conn].eng # "free"

ConnOK(k) ==
  conn[k].eng # "free" =>
    /\ conn[k].from \in Server
    /\ conn[k].to \in Server
    /\ conn[k].from # conn[k].to
    /\ conn[k].eng = "dead" => crashes[conn[k].to] > 0

StubInv ==
  /\ \A s \in Server : \A i \in 1..Len(stubs[s]) : StubOK(s, stubs[s][i])
  /\ \A s \in Server : \A i, j \in 1..Len(stubs[s]) :
       stubs[s][i].init /\ stubs[s][j].init /\ stubs[s][i].conn = stubs[s][j].conn => i = j
  /\ \A s \in Server : apc[s] = "identify" => Len(stubs[s]) > 0 /\ stubs[s][Len(stubs[s])].valid
  /\ \A s \in Server : \A i \in 1..Len(stubs[s]) :
       stubs[s][i].valid /\ ~stubs[s][i].init => s \in Flaky /\ apc[s] = "identify" /\ i = Len(stubs[s])
  /\ \A s \in Server : ~up[s] => crashes[s] > 0
  /\ \A k \in ConnId : ConnOK(k)

Busy == {"committed", "last", "place", "reply"}
Quiet(c) == ~c.sent /\ ~c.ack /\ c.eng \in {"status", "recv", "dead"}

(* What an await waits for: the request on its way, being handled or       *)
(* answered, and only one of these.                                        *)
Awaited(c, o) ==
  /\ c.sent => ~c.ack /\ c.eng \in {"status", "recv", "dead"}
  /\ c.eng \in Busy => ~c.sent /\ ~c.ack
  /\ c.sent \/ c.eng \in Busy => c.msg.ord = o
  /\ c.ack => c.eng \in {"recv", "dead"}
  /\ c.eng \notin {"free", "spin"}

(* A request that is on its way or being handled, and one that is handled  *)
(* up to the reply.                                                        *)
PendingOK(k) ==
  /\ conn[k].eng \in Busy => ~conn[k].sent
  /\ conn[k].sent \/ conn[k].eng \in Busy =>
       conn[k].msg.ord \in Order /\ conn[k].msg.fid = conn[k].from /\ conn[k].eng # "free"
  /\ conn[k].eng = "reply" => Holds(conn[k].to, conn[k].msg.ord)

(* One request at a time: only the stub the admin thread waits for has     *)
(* anything in flight, the order of the request is the admin thread's, and *)
(* an engineer thread answers after its log has the order.                 *)
RequestInv ==
  /\ \A s \in Server : todo[s] = << >>
  /\ \A s \in Server : apc[s] \in {"build", "visit", "await"} => msg[s].fid = s /\ msg[s].ord = cur[s]
  /\ \A k \in ConnId : PendingOK(k)
  /\ \A s \in Server : \A i \in 1..Len(stubs[s]) :
       stubs[s][i].init /\ ~(apc[s] = "await" /\ i = it[s]) => Quiet(conn[stubs[s][i].conn])
  /\ \A s \in Server : apc[s] = "await" =>
       stubs[s][it[s]].valid /\ Awaited(conn[stubs[s][it[s]].conn], cur[s])

(* From the claim on, every peer has a stub.                               *)
CoverInv ==
  /\ PrimaryConnected
  /\ \A s \in Server : apc[s] \in {"index", "build", "visit", "await", "place", "commit"} => Connected(s)
  /\ \A s \in Server : \A j \in 1..Len(PeerList[s]) :
       \/ apc[s] \in {"connect", "identify"} /\ j < it[s]
       \/ apc[s] = "identify" /\ j = it[s]
       => \E i \in 1..Len(stubs[s]) : stubs[s][i].peer = PeerList[s][j]

(* The order is in the log of each peer whose stub the loop has passed and *)
(* found valid, so of every peer the stubs reach when the loop ends, and   *)
(* it stays there.                                                         *)
LoopDurable(s) ==
  /\ apc[s] \in {"visit", "await"} =>
       \A i \in 1..Len(stubs[s]) : i < it[s] /\ stubs[s][i].valid => Durable(stubs[s][i].peer, cur[s])
  /\ apc[s] = "await" /\ conn[stubs[s][it[s]].conn].ack => Durable(stubs[s][it[s]].peer, cur[s])
  /\ apc[s] = "place" => \A p \in Reached(s) : Durable(p, cur[s])
  /\ apc[s] = "commit" => Everywhere(s, cur[s])

DurableInv ==
  /\ \A s \in Server : LoopDurable(s)
  /\ \A c \in Customer : cpc[c] = "promised" => Everywhere(csrv[c], OrderOf(c))
  /\ AckedDurable

(* Every reachable state is between two consistent ones in the way the     *)
(* parts above say: each queued order is expected once, each stub has its  *)
(* own connection, each request in flight an admin thread that waits for   *)
(* it, and the loops of startConnection and startReplication have covered  *)
(* the peers they have passed.                                             *)
FactoryInv == ClientInv /\ StubInv /\ RequestInv /\ CoverInv /\ DurableInv
=============================================================================
