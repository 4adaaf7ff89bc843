------------------------------- MODULE RWLock -------------------------------
(***************************************************************************)
(* ReadWriteLock of RWLock.h: a readers-preference lock built from two     *)
(* std::mutex objects and a counter.  readMtx guards readCnt; the first    *)
(* reader in takes writeMtx and the last reader out releases it, whichever *)
(* thread that is.  Every call of the lock is split at the points where a  *)
(* thread can block or another thread can see its effect.                  *)
(*                                                                         *)
(* writeMtx is often released by a thread that did not lock it.  The C++   *)
(* standard leaves that undefined; the default pthread mutex the builds    *)
(* use keeps no owner check and simply becomes free, which is the outcome  *)
(* modelled.  The holder is recorded only to say who locked it last.       *)
(***************************************************************************)
EXTENDS Integers, FiniteSets

CONSTANTS
  Thread,     \* the threads that share the lock
  NoThread,   \* the holder of a free mutex
  MaxCalls    \* bound: lock/unlock pairs a thread performs

ASSUME RWLockAssumption ==
  /\ IsFiniteSet(Thread)
  /\ NoThread \notin Thread
  /\ MaxCalls \in Nat

VARIABLES
  readMtx,    \* holder of readMtx, or NoThread
  writeMtx,   \* the thread that locked writeMtx, or NoThread
  readCnt,    \* readCnt
  pc,         \* where each thread is in the lock's methods
  calls       \* number of lock calls each thread has started

vars == <<readMtx, writeMtx, readCnt, pc, calls>>

(***************************************************************************)
(* "out"      holds nothing, between two calls                             *)
(* "wantRead" inside readLock, before readMtx.lock() returns               *)
(* "first"    holds readMtx, must lock writeMtx (readCnt went to 1)        *)
(* "entered"  holds readMtx, about to unlock it and return from readLock   *)
(* "reading"  between readLock and readUnlock                              *)
(* "leaving"  inside readUnlock, holds readMtx                             *)
(* "wantWrite" inside writeLock        "writing" holds the write lock      *)
(***************************************************************************)
Phase == {"out", "wantRead", "first", "entered", "reading", "leaving",
          "wantWrite", "writing"}

(* The state has its types; readCnt never falls below zero, so a readUnlock *)
(* always has its readLock.                                                *)
TypeOK ==
  /\ readMtx \in Thread \cup {NoThread}
  /\ writeMtx \in Thread \cup {NoThread}
  /\ readCnt \in 0..Cardinality(Thread)
  /\ pc \in [Thread -> Phase]
  /\ calls \in [Thread -> 0..MaxCalls]

Init ==
  /\ readMtx = NoThread
  /\ writeMtx = NoThread
  /\ readCnt = 0
  /\ pc = [t \in Thread |-> "out"]
  /\ calls = [t \in Thread |-> 0]

-----------------------------------------------------------------------------
(* The tests on readCnt that decide who takes and who releases writeMtx,   *)
(* each after slips of the test.                                           *)
FirstReaderIn_Second(n) == n = 2
FirstReaderIn(n) == n = 1

LastReaderOut_Never(n) == n < 0
LastReaderOut(n) == n = 0

(* A thread calls readLock or writeLock.                                   *)
Call(t, want) ==
  /\ pc[t] = "out"
  /\ calls[t] < MaxCalls
  /\ calls' = [calls EXCEPT ![t] = @ + 1]
  /\ pc' = [pc EXCEPT ![t] = want]
  /\ UNCHANGED <<readMtx, writeMtx, readCnt>>

(* A readLock that does not take readMtx to count itself.                  *)
ReadLockEnter_Unguarded(t) ==
  /\ pc[t] = "wantRead"
  /\ readCnt' = readCnt + 1
  /\ pc' = [pc EXCEPT ![t] = IF FirstReaderIn(readCnt + 1) THEN "first" ELSE "entered"]
  /\ UNCHANGED <<readMtx, writeMtx, calls>>

(* readMtx.lock(); ++readCnt == 1 decides whether writeMtx is needed.      *)
ReadLockEnter(t) ==
  /\ pc[t] = "wantRead"
  /\ readMtx = NoThread
  /\ readMtx' = t
  /\ readCnt' = readCnt + 1
  /\ pc' = [pc EXCEPT ![t] = IF FirstReaderIn(readCnt + 1) THEN "first" ELSE "entered"]
  /\ UNCHANGED <<writeMtx, calls>>

(* writeMtx.lock() by the first reader, who keeps holding readMtx.         *)
FirstReaderLocksWriteMtx(t) ==
  /\ pc[t] = "first"
  /\ writeMtx = NoThread
  /\ writeMtx' = t
  /\ pc' = [pc EXCEPT ![t] = "entered"]
  /\ UNCHANGED <<readMtx, readCnt, calls>>

(* readMtx.unlock() at the end of readLock.                                *)
ReadLockReturn(t) ==
  /\ pc[t] = "entered"
  /\ readMtx' = NoThread
  /\ pc' = [pc EXCEPT ![t] = "reading"]
  /\ UNCHANGED <<writeMtx, readCnt, calls>>

(* readMtx.lock(); the last reader out unlocks writeMtx.                   *)
ReadUnlockEnter(t) ==
  /\ pc[t] = "reading"
  /\ readMtx = NoThread
  /\ readMtx' = t
  /\ readCnt' = readCnt - 1
  /\ writeMtx' = IF LastReaderOut(readCnt - 1) THEN NoThread ELSE writeMtx
  /\ pc' = [pc EXCEPT ![t] = "leaving"]
  /\ UNCHANGED calls

ReadUnlockReturn(t) ==
  /\ pc[t] = "leaving"
  /\ readMtx' = NoThread
  /\ pc' = [pc EXCEPT ![t] = "out"]
  /\ UNCHANGED <<writeMtx, readCnt, calls>>

WriteLock(t) ==
  /\ pc[t] = "wantWrite"
  /\ writeMtx = NoThread
  /\ writeMtx' = t
  /\ pc' = [pc EXCEPT ![t] = "writing"]
  /\ UNCHANGED <<readMtx, readCnt, calls>>

WriteUnlock(t) ==
  /\ pc[t] = "writing"
  /\ writeMtx' = NoThread
  /\ pc' = [pc EXCEPT ![t] = "out"]
  /\ UNCHANGED <<readMtx, readCnt, calls>>

(* The steps of a call already begun.                                      *)
Proceed(t) ==
  \/ ReadLockEnter(t)
  \/ FirstReaderLocksWriteMtx(t)
  \/ ReadLockReturn(t)
  \/ ReadUnlockEnter(t)
  \/ ReadUnlockReturn(t)
  \/ WriteLock(t)
  \/ WriteUnlock(t)

Next == \E t \in Thread : Proceed(t) \/ \E want \in {"wantRead", "wantWrite"} : Call(t, want)

Spec == Init /\ [][Next]_vars

(* A thread inside the lock is scheduled, and a mutex that stays free is   *)
(* eventually granted to a thread that keeps waiting for it.  Nothing      *)
(* forces a thread to make a call.                                         *)
FairSpec == Spec /\ \A t \in Thread : WF_vars(Proceed(t))
-----------------------------------------------------------------------------
(* Threads that are between readLock's return and readUnlock's entry, and  *)
(* the thread between writeLock and writeUnlock.                           *)
Readers == {t \in Thread : pc[t] = "reading"}
Writers == {t \in Thread : pc[t] = "writing"}

(* No reader is in its section while a writer is, and writers exclude each *)
(* other: the map and the log are never read while place_order changes     *)
(* them, although writeMtx may be released by another thread than the one  *)
(* that locked it.                                                         *)
ReadersExcludeWriters ==
  /\ Writers # {} => Readers = {}
  /\ \A t, u \in Writers : t = u

Counted == {t \in Thread : pc[t] \in {"first", "entered", "reading"}}
Entered == {t \in Thread : pc[t] \in {"entered", "reading"}}

(* What keeps the lock sound from step to step: readMtx is held exactly by *)
(* the thread between its lock and unlock; readCnt counts the threads      *)
(* between ++ and --, so the tests for 1 and 0 choose the right threads;   *)
(* writeMtx is taken exactly while a writer or an admitted reader is       *)
(* inside, whoever of them locked it, and never for both.                  *)
LockInv ==
  /\ \A t \in Thread : pc[t] \in {"first", "entered", "leaving"} <=> readMtx = t
  /\ readCnt = Cardinality(Counted)
  /\ \A t \in Thread : pc[t] = "first" => Counted = {t}
  /\ writeMtx = NoThread <=> Writers = {} /\ Entered = {}
  /\ \A t \in Writers : Writers = {t} /\ Entered = {}

(* Threads never block each other for good: when no more calls are made    *)
(* (MaxCalls), every call begun returns and every section ends, although   *)
(* the first reader waits for writeMtx while it holds readMtx.  This is    *)
(* freedom from deadlock only: readers that keep coming starve a writer.   *)
CallsComplete == \A t \in Thread : pc[t] # "out" ~> pc[t] = "out"
=============================================================================
