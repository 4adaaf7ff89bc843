------------------------ MODULE ClientProcessProofs ------------------------
(***************************************************************************)
(* Proofs about ClientProcess: what the client prints, for any number of   *)
(* client threads and operations and any clock.                            *)
(*                                                                         *)
(* The first section is about sums over finite sets of operations.  The    *)
(* sum is defined by taking one element after another; that the order does *)
(* not matter is an induction, done here as an argument about a smallest   *)
(* counterexample.                                                         *)
(***************************************************************************)
EXTENDS ClientProcess, FiniteSetTheorems, WellFoundedInduction, TLAPS

-----------------------------------------------------------------------------
(* Sums.                                                                   *)

(* The element of s that the sum takes first.                              *)
Pick(s) == CHOOSE x \in s : TRUE

(* g[s] is the sum of the times of the operations in s, for s in D.        *)
SumStep(g, s) == IF s = {} THEN 0 ELSE Pick(s).took + g[s \ {Pick(s)}]
Sums(g, D)    == g = [s \in SUBSET D |-> SumStep(g, s)]
Took(D)       == (CHOOSE g : Sums(g, D))[D]

(* Finitely many operations, whose times are numbers.                      *)
Timed(D) == IsFiniteSet(D) /\ \A d \in D : d.took \in Nat

(* The sum of the properties.                                              *)
LEMMA SumIsTook ==
  ASSUME NEW D
  PROVE  MapThenSumSet(LAMBDA d : d.took, D) = Took(D)
BY DEF MapThenSumSet, MapThenFoldSet, Took, Sums, SumStep, Pick

(* A set of numbers has a smallest member.                                 *)
LEMMA Smallest ==
  ASSUME NEW T \in SUBSET Nat, T # {}
  PROVE  \E x \in T : \A y \in T : x <= y
<1> DEFINE R == OpToRel(<, Nat)
<1>1. IsWellFoundedOn(R, Nat)
  BY NatLessThanWellFounded
<1>2. \A x, y \in Nat : <<x, y>> \in R <=> x < y
  BY DEF OpToRel
<1> HIDE DEF R
<1>3. PICK x \in T : \A y \in T : ~(<<y, x>> \in R)
  BY <1>1, WFMin
<1>4. ASSUME NEW y \in T PROVE x <= y
  <2>1. x \in Nat /\ y \in Nat /\ ~(<<y, x>> \in R)
    BY <1>3, <1>4
  <2>2. ~(y < x)
    BY <2>1, <1>2
  <2> QED
    BY <2>1, <2>2
<1> QED
  BY <1>4

(* A set without its picked element is smaller.                            *)
LEMMA Smaller ==
  ASSUME NEW D, IsFiniteSet(D), NEW s \in SUBSET D
  PROVE  /\ IsFiniteSet(s) /\ Cardinality(s) \in Nat /\ (Cardinality(s) = 0 <=> s = {})
         /\ \A e \in s : /\ s \ {e} \in SUBSET D
                         /\ Cardinality(s \ {e}) = Cardinality(s) - 1 /\ Cardinality(s) - 1 \in Nat
         /\ s # {} => Pick(s) \in s
<1>1. IsFiniteSet(s) /\ Cardinality(s) \in Nat
  BY FS_Subset, FS_CardinalityType
<1>2. Cardinality(s) = 0 <=> s = {}
  BY <1>1, FS_EmptySet
<1>3. ASSUME NEW e \in s
      PROVE  Cardinality(s \ {e}) = Cardinality(s) - 1 /\ Cardinality(s) - 1 \in Nat /\ s \ {e} \in SUBSET D
  <2>1. Cardinality(s \ {e}) = Cardinality(s) - 1
    BY <1>1, FS_RemoveElement
  <2>2. Cardinality(s) # 0
    BY <1>2
  <2> QED
    BY <1>1, <2>1, <2>2
<1>4. s # {} => Pick(s) \in s
  BY DEF Pick
<1> QED
  BY <1>1, <1>2, <1>3, <1>4

(* There is such a function.                                               *)
LEMMA SumsExist ==
  ASSUME NEW D, Timed(D)
  PROVE  \E g \in [SUBSET D -> Nat] : Sums(g, D)
<1> DEFINE Small(n) == {s \in SUBSET D : Cardinality(s) <= n}
           Good(n) == \E g \in [Small(n) -> Nat] : \A s \in Small(n) : g[s] = SumStep(g, s)
           Bad == {n \in Nat : ~Good(n)}
<1>0. IsFiniteSet(D) /\ Cardinality(D) \in Nat
  BY FS_CardinalityType DEF Timed
<1>1. Good(0)
  <2>1. \A s \in Small(0) : s = {}
    BY <1>0, Smaller
  <2>2. PICK g : g = [s \in Small(0) |-> 0]
    OBVIOUS
  <2>3. g \in [Small(0) -> Nat] /\ \A s \in Small(0) : g[s] = SumStep(g, s)
    BY <2>1, <2>2 DEF SumStep
  <2> QED
    BY <2>3
<1>2. ASSUME NEW n \in Nat, Good(n) PROVE Good(n + 1)
  <2>1. PICK g \in [Small(n) -> Nat] : \A s \in Small(n) : g[s] = SumStep(g, s)
    BY <1>2
  <2>2. PICK h : h = [s \in Small(n + 1) |-> SumStep(g, s)]
    OBVIOUS
  <2>3. ASSUME NEW s \in Small(n + 1), s # {}
        PROVE  Pick(s) \in s /\ Pick(s).took \in Nat /\ s \ {Pick(s)} \in Small(n)
    <3>1. s \in SUBSET D /\ Cardinality(s) <= n + 1
      OBVIOUS
    <3>2. Pick(s) \in s /\ s \ {Pick(s)} \in SUBSET D /\ Cardinality(s \ {Pick(s)}) = Cardinality(s) - 1
          /\ Cardinality(s) \in Nat
      BY <1>0, <2>3, <3>1, Smaller
    <3>3. Pick(s).took \in Nat
      BY <3>1, <3>2 DEF Timed
    <3> QED
      BY <3>1, <3>2, <3>3
  <2>4. \A s \in Small(n) : s \in Small(n + 1) /\ h[s] = g[s]
    <3>1. \A s \in Small(n) : Cardinality(s) \in Nat
      BY <1>0, Smaller
    <3> QED
      BY <2>1, <2>2, <3>1
  <2>5. h \in [Small(n + 1) -> Nat]
    <3>1. ASSUME NEW s \in Small(n + 1) PROVE SumStep(g, s) \in Nat
      <4>1. CASE s = {}
        BY <4>1 DEF SumStep
      <4>2. CASE s # {}
        <5>1. Pick(s).took \in Nat /\ g[s \ {Pick(s)}] \in Nat
          BY <2>1, <2>3, <4>2
        <5> QED
          BY <4>2, <5>1 DEF SumStep
      <4> QED
        BY <4>1, <4>2
    <3> QED
      BY <2>2, <3>1
  <2>6. ASSUME NEW s \in Small(n + 1) PROVE h[s] = SumStep(h, s)
    <3>1. s # {} => h[s \ {Pick(s)}] = g[s \ {Pick(s)}]
      BY <2>3, <2>4
    <3> QED
      BY <2>2, <3>1 DEF SumStep
  <2> QED
    BY <2>5, <2>6
<1>3. Good(Cardinality(D))
  <2> HIDE DEF Good
  <2>1. CASE Bad = {}
    BY <1>0, <2>1
  <2>2. CASE Bad # {}
    <3>1. PICK m \in Bad : \A y \in Bad : m <= y
      BY <2>2, Smallest
    <3>2. m \in Nat /\ ~Good(m) /\ m # 0
      BY <1>1, <3>1
    <3>3. PICK j \in Nat : j + 1 = m /\ ~(m <= j)
      <4>1. m - 1 \in Nat /\ (m - 1) + 1 = m /\ ~(m <= m - 1)
        BY <3>2
      <4> QED
        BY <4>1
    <3>4. Good(j)
      BY <3>1, <3>3
    <3>5. Good(j + 1)
      BY <1>2, <3>4
    <3> QED
      BY <3>2, <3>3, <3>5
  <2> QED
    BY <2>1, <2>2
<1>4. Small(Cardinality(D)) = SUBSET D
  BY <1>0, FS_Subset
<1>5. PICK g \in [SUBSET D -> Nat] : \A s \in SUBSET D : g[s] = SumStep(g, s)
  BY <1>3, <1>4
<1> QED
  BY <1>5 DEF Sums

(* There is only one, on the sets that it has in common with another.      *)
LEMMA SumsUnique ==
  ASSUME NEW D, IsFiniteSet(D), NEW E, IsFiniteSet(E), D \subseteq E, NEW g, NEW h, Sums(g, D), Sums(h, E),
         NEW s \in SUBSET D
  PROVE  g[s] = h[s]
<1> DEFINE Bad == {n \in Nat : \E t \in SUBSET D : Cardinality(t) = n /\ g[t] # h[t]}
<1>1. \A t \in SUBSET D : g[t] = SumStep(g, t) /\ h[t] = SumStep(h, t)
  BY DEF Sums
<1>2. CASE Bad = {}
  <2>1. Cardinality(s) \in Nat
    BY Smaller
  <2> QED
    BY <1>2, <2>1
<1>3. CASE Bad # {}
  <2>1. PICK n \in Bad : \A y \in Bad : n <= y
    BY <1>3, Smallest
  <2>2. PICK t \in SUBSET D : Cardinality(t) = n /\ g[t] # h[t]
    BY <2>1
  <2>3. t # {}
    BY <1>1, <2>2 DEF SumStep
  <2>4. /\ t \ {Pick(t)} \in SUBSET D /\ Cardinality(t \ {Pick(t)}) = n - 1 /\ n - 1 \in Nat
    BY <2>2, <2>3, Smaller
  <2>5. ~(n <= n - 1)
    BY <2>4, <2>1
  <2>6. g[t \ {Pick(t)}] = h[t \ {Pick(t)}]
    BY <2>1, <2>4, <2>5
  <2>7. g[t] = h[t]
    BY <1>1, <2>3, <2>6 DEF SumStep
  <2> QED
    BY <2>2, <2>7
<1> QED
  BY <1>2, <1>3

(* The order does not matter: any element may be taken first.              *)
LEMMA AnyFirst ==
  ASSUME NEW D, Timed(D), NEW g \in [SUBSET D -> Nat], Sums(g, D), NEW s \in SUBSET D, NEW e \in s
  PROVE  g[s] = e.took + g[s \ {e}]
<1> DEFINE Wrong(r) == \E d \in r : g[r] # d.took + g[r \ {d}]
           Bad == {n \in Nat : \E t \in SUBSET D : Cardinality(t) = n /\ Wrong(t)}
<1>0. IsFiniteSet(D) /\ \A d \in D : d.took \in Nat
  BY DEF Timed
<1>1. \A t \in SUBSET D : t # {} => g[t] = Pick(t).took + g[t \ {Pick(t)}]
  BY DEF Sums, SumStep
<1>2. CASE Bad = {}
  <2>1. Cardinality(s) \in Nat
    BY <1>0, Smaller
  <2> QED
    BY <1>2, <2>1
<1>3. CASE Bad # {}
  <2>1. PICK n \in Bad : \A y \in Bad : n <= y
    BY <1>3, Smallest
  <2>16. PICK t \in SUBSET D : Cardinality(t) = n /\ Wrong(t)
    BY <2>1
  <2>2. PICK d \in t : Cardinality(t) = n /\ g[t] # d.took + g[t \ {d}]
    BY <2>16
  <2>3. PICK x : x = Pick(t) /\ x \in t
    BY <1>0, <2>2, Smaller
  <2>4. x # d
    BY <1>1, <2>2, <2>3
  <2>5. /\ t \ {x} \in SUBSET D /\ Cardinality(t \ {x}) = n - 1 /\ n - 1 \in Nat
        /\ t \ {d} \in SUBSET D /\ Cardinality(t \ {d}) = n - 1
        /\ x \in D /\ d \in D
    <3>1. \A y \in t : /\ t \ {y} \in SUBSET D /\ Cardinality(t \ {y}) = Cardinality(t) - 1
                     /\ Cardinality(t) - 1 \in Nat
      BY <1>0, Smaller
    <3>2. x \in D /\ d \in D
      BY <2>2, <2>3
    <3> QED
      BY <2>2, <2>3, <3>1, <3>2
  <2>6. ~(n <= n - 1)
    BY <2>5, <2>1
  <2>7. n - 1 \notin Bad
    BY <2>1, <2>6
  <2>8. ~Wrong(t \ {x}) /\ ~Wrong(t \ {d})
    BY <2>5, <2>7
  <2>9. d \in t \ {x} /\ x \in t \ {d} /\ (t \ {x}) \ {d} = (t \ {d}) \ {x}
    BY <2>2, <2>3, <2>4
  <2>10. g[t \ {x}] = d.took + g[(t \ {x}) \ {d}] /\ g[t \ {d}] = x.took + g[(t \ {x}) \ {d}]
    BY <2>8, <2>9
  <2>11. g[t] = x.took + g[t \ {x}]
    BY <1>1, <2>3
  <2>12. x.took \in Nat /\ d.took \in Nat /\ g[(t \ {x}) \ {d}] \in Nat
    <3>1. (t \ {x}) \ {d} \in SUBSET D
      OBVIOUS
    <3> QED
      BY <1>0, <2>5, <3>1
  <2>13. PICK a \in Nat, b \in Nat, c \in Nat : a = x.took /\ b = d.took /\ c = g[(t \ {x}) \ {d}]
    BY <2>12
  <2>14. g[t] = a + (b + c) /\ d.took + g[t \ {d}] = b + (a + c)
    BY <2>10, <2>11, <2>13
  <2>15. a + (b + c) = b + (a + c)
    OBVIOUS
  <2> QED
    BY <2>2, <2>14, <2>15
<1> QED
  BY <1>2, <1>3

(* What the sum is.                                                        *)
LEMMA TookIs ==
  ASSUME NEW D, Timed(D), NEW g \in [SUBSET D -> Nat], Sums(g, D), NEW s \in SUBSET D
  PROVE  Took(s) = g[s]
<1>0. IsFiniteSet(D) /\ IsFiniteSet(s) /\ Timed(s)
  BY FS_Subset DEF Timed
<1>1. \E h : Sums(h, s)
  BY <1>0, SumsExist
<1>2. PICK h : h = CHOOSE f : Sums(f, s)
  OBVIOUS
<1>3. Sums(h, s)
  BY <1>1, <1>2
<1>4. h[s] = g[s]
  BY <1>0, <1>3, SumsUnique
<1> QED
  BY <1>2, <1>4 DEF Took

(* Sums by element.                                                        *)
LEMMA TookFacts ==
  ASSUME NEW D, Timed(D)
  PROVE  /\ Took(D) \in Nat
         /\ D = {} => Took(D) = 0
         /\ \A e \in D : Took(D) = e.took + Took(D \ {e})
<1>1. PICK g \in [SUBSET D -> Nat] : Sums(g, D)
  BY SumsExist
<1>2. \A s \in SUBSET D : Took(s) = g[s]
  BY <1>1, TookIs
<1>3. D = {} => g[D] = 0
  BY <1>1 DEF Sums, SumStep
<1>4. ASSUME NEW e \in D PROVE g[D] = e.took + g[D \ {e}]
  <2>1. PICK s \in SUBSET D : s = D
    OBVIOUS
  <2>2. \A d \in s : g[s] = d.took + g[s \ {d}]
    BY <1>1, AnyFirst
  <2> QED
    BY <2>1, <2>2
<1> QED
  BY <1>2, <1>3, <1>4

(* Sums of disjoint sets.                                                  *)
LEMMA TookUnion ==
  ASSUME NEW D, Timed(D), NEW E, Timed(E), D \cap E = {}
  PROVE  Timed(D \cup E) /\ Took(D \cup E) = Took(D) + Took(E)
<1> DEFINE Wrong(r) == Took(r \cup E) # Took(r) + Took(E)
           Bad == {n \in Nat : \E s \in SUBSET D : Cardinality(s) = n /\ Wrong(s)}
<1>0. IsFiniteSet(D) /\ IsFiniteSet(E) /\ Cardinality(D) \in Nat
  BY FS_CardinalityType DEF Timed
<1>1. ASSUME NEW s \in SUBSET D PROVE Timed(s) /\ Timed(s \cup E)
  <2>1. IsFiniteSet(s) /\ IsFiniteSet(s \cup E)
    BY <1>0, FS_Subset, FS_Union
  <2> QED
    BY <2>1 DEF Timed
<1>2. CASE Bad = {}
  BY <1>0, <1>1, <1>2
<1>3. CASE Bad # {}
  <2>1. PICK n \in Bad : \A y \in Bad : n <= y
    BY <1>3, Smallest
  <2>2. PICK s \in SUBSET D : Cardinality(s) = n /\ Wrong(s)
    BY <2>1
  <2>3. s # {}
    <3>1. s = {} => s \cup E = E /\ Took(s) = 0 /\ Took(E) \in Nat
      BY <1>1, TookFacts
    <3> QED
      BY <2>2, <3>1
  <2>4. PICK e \in s : s \ {e} \in SUBSET D /\ Cardinality(s \ {e}) = n - 1 /\ n - 1 \in Nat
    BY <1>0, <2>2, <2>3, Smaller
  <2>5. ~(n <= n - 1)
    BY <2>4, <2>1
  <2>6. n - 1 \notin Bad
    BY <2>1, <2>5
  <2>7. ~Wrong(s \ {e})
    BY <2>4, <2>6
  <2>8. e \notin E /\ (s \cup E) \ {e} = (s \ {e}) \cup E
    OBVIOUS
  <2>9. Took(s \cup E) = e.took + Took((s \ {e}) \cup E)
    <3>1. Timed(s \cup E) /\ e \in s \cup E
      BY <1>1
    <3>2. Took(s \cup E) = e.took + Took((s \cup E) \ {e})
      BY <3>1, TookFacts
    <3> QED
      BY <2>8, <3>2
  <2>10. Took(s) = e.took + Took(s \ {e})
    BY <1>1, TookFacts
  <2>11. PICK a \in Nat, b \in Nat, c \in Nat : a = e.took /\ b = Took(s \ {e}) /\ c = Took(E)
    <3>1. Took(s \ {e}) \in Nat /\ Took(E) \in Nat
      BY <1>1, <2>4, TookFacts
    <3> QED
      BY <3>1 DEF Timed
  <2>12. Took((s \ {e}) \cup E) = b + c
    BY <2>7, <2>11
  <2>13. Took(s \cup E) = a + (b + c) /\ Took(s) + Took(E) = (a + b) + c
    BY <2>9, <2>10, <2>11, <2>12
  <2>14. a + (b + c) = (a + b) + c
    OBVIOUS
  <2> QED
    BY <2>2, <2>13, <2>14
<1> QED
  BY <1>1, <1>2, <1>3

(* No operation takes longer than all.                                     *)
LEMMA OneOfSum ==
  ASSUME NEW D, Timed(D), NEW e \in D
  PROVE  e.took \in Nat /\ e.took <= Took(D)
<1>1. Timed(D \ {e})
  BY FS_Difference DEF Timed
<1>2. Took(D) = e.took + Took(D \ {e}) /\ Took(D \ {e}) \in Nat /\ e.took \in Nat
  BY <1>1, TookFacts DEF Timed
<1> QED
  BY <1>2

-----------------------------------------------------------------------------
(* Timers.                                                                 *)

TimerRec == [sum : Nat, max : Nat, min : Nat, op_count : Nat, start_time : Nat, elapsed_time : Nat]

(* Timer r has the statistics of the operations D.                         *)
Stats(r, D) ==
  /\ r.op_count = Cardinality(D) /\ r.sum = Took(D)
  /\ r.min <= NoMin /\ \A d \in D : r.min <= d.took /\ d.took <= r.max
  /\ r.min # NoMin => \E d \in D : d.took = r.min
  /\ r.max # 0 => \E d \in D : d.took = r.max

(* Operations of a run.                                                    *)
Operations(D) == IsFiniteSet(D) /\ \A d \in D : d.took \in 0..MaxTime

(* A set of operations has a number and a sum.                             *)
LEMMA OperationsTimed ==
  ASSUME NEW D, Operations(D)
  PROVE  Timed(D) /\ MaxTime \in Nat /\ NoMin \in Nat /\ \A d \in D : d.took \in Nat
<1>1. MaxTime \in Nat /\ NoMin \in Nat
  BY ClientAssumption
<1> QED
  BY <1>1 DEF Operations, Timed

(* The members of a new timer, and of one that has been started or ended.  *)
LEMMA Clocks ==
  ASSUME NEW r \in TimerRec, now \in Nat
  PROVE  /\ NewTimer \in TimerRec /\ Start(r) \in TimerRec
         /\ Start(r).start_time = now /\ Start(r).elapsed_time = r.elapsed_time
         /\ Start(r).sum = r.sum /\ Start(r).min = r.min /\ Start(r).max = r.max /\ Start(r).op_count = r.op_count
         /\ r.start_time <= now =>
              /\ End(r) \in TimerRec /\ End(r).elapsed_time = now - r.start_time /\ End(r).start_time = r.start_time
              /\ End(r).sum = r.sum /\ End(r).min = r.min /\ End(r).max = r.max /\ End(r).op_count = r.op_count
<1>1. r = [sum |-> r.sum, max |-> r.max, min |-> r.min, op_count |-> r.op_count, start_time |-> r.start_time,
           elapsed_time |-> r.elapsed_time]
      /\ r.sum \in Nat /\ r.max \in Nat /\ r.min \in Nat /\ r.op_count \in Nat /\ r.start_time \in Nat
      /\ r.elapsed_time \in Nat
  BY DEF TimerRec
<1>2. NewTimer \in TimerRec
  BY ClientAssumption DEF NewTimer, TimerRec
<1>3. Start(r) = [sum |-> r.sum, max |-> r.max, min |-> r.min, op_count |-> r.op_count, start_time |-> now,
                  elapsed_time |-> r.elapsed_time]
  BY <1>1 DEF Start
<1>4. End(r) = [sum |-> r.sum, max |-> r.max, min |-> r.min, op_count |-> r.op_count, start_time |-> r.start_time,
                elapsed_time |-> now - r.start_time]
  BY <1>1 DEF End
<1>5. r.start_time <= now => now - r.start_time \in Nat
  BY <1>1
<1> QED
  BY <1>1, <1>2, <1>3, <1>4, <1>5 DEF TimerRec

(* Changes of single members.                                              *)
LEMMA Changed ==
  ASSUME NEW r \in TimerRec, NEW x
  PROVE  /\ [r EXCEPT !.sum = x] = [sum |-> x, max |-> r.max, min |-> r.min, op_count |-> r.op_count,
                                    start_time |-> r.start_time, elapsed_time |-> r.elapsed_time]
         /\ [r EXCEPT !.max = x] = [sum |-> r.sum, max |-> x, min |-> r.min, op_count |-> r.op_count,
                                    start_time |-> r.start_time, elapsed_time |-> r.elapsed_time]
         /\ [r EXCEPT !.min = x] = [sum |-> r.sum, max |-> r.max, min |-> x, op_count |-> r.op_count,
                                    start_time |-> r.start_time, elapsed_time |-> r.elapsed_time]
         /\ [r EXCEPT !.op_count = x] = [sum |-> r.sum, max |-> r.max, min |-> r.min, op_count |-> x,
                                    start_time |-> r.start_time, elapsed_time |-> r.elapsed_time]
         /\ x \in Nat => /\ [r EXCEPT !.sum = x] \in TimerRec /\ [r EXCEPT !.max = x] \in TimerRec
                         /\ [r EXCEPT !.min = x] \in TimerRec /\ [r EXCEPT !.op_count = x] \in TimerRec
<1>1. r = [sum |-> r.sum, max |-> r.max, min |-> r.min, op_count |-> r.op_count, start_time |-> r.start_time,
           elapsed_time |-> r.elapsed_time]
      /\ r.sum \in Nat /\ r.max \in Nat /\ r.min \in Nat /\ r.op_count \in Nat /\ r.start_time \in Nat
      /\ r.elapsed_time \in Nat
  BY DEF TimerRec
<1>2. /\ [r EXCEPT !.sum = x] = [sum |-> x, max |-> r.max, min |-> r.min, op_count |-> r.op_count,
                                    start_time |-> r.start_time, elapsed_time |-> r.elapsed_time]
      /\ [r EXCEPT !.max = x] = [sum |-> r.sum, max |-> x, min |-> r.min, op_count |-> r.op_count,
                                    start_time |-> r.start_time, elapsed_time |-> r.elapsed_time]
      /\ [r EXCEPT !.min = x] = [sum |-> r.sum, max |-> r.max, min |-> x, op_count |-> r.op_count,
                                    start_time |-> r.start_time, elapsed_time |-> r.elapsed_time]
      /\ [r EXCEPT !.op_count = x] = [sum |-> r.sum, max |-> r.max, min |-> r.min, op_count |-> x,
                                    start_time |-> r.start_time, elapsed_time |-> r.elapsed_time]
  BY <1>1
<1> QED
  BY <1>1, <1>2 DEF TimerRec

(* What Merge and EndAndMerge do to the members.                           *)
LEMMA Merges ==
  ASSUME NEW r \in TimerRec, NEW u \in TimerRec
  PROVE  /\ Merge(r, u) \in TimerRec
         /\ Merge(r, u).sum = r.sum + u.sum /\ Merge(r, u).op_count = r.op_count + u.op_count
         /\ Merge(r, u).min = (IF u.min < r.min THEN u.min ELSE r.min)
         /\ Merge(r, u).max = (IF u.max > r.max THEN u.max ELSE r.max)
         /\ Merge(r, u).start_time = r.start_time /\ Merge(r, u).elapsed_time = r.elapsed_time
<1>1. r = [sum |-> r.sum, max |-> r.max, min |-> r.min, op_count |-> r.op_count, start_time |-> r.start_time,
           elapsed_time |-> r.elapsed_time]
      /\ r.sum \in Nat /\ r.max \in Nat /\ r.min \in Nat /\ r.op_count \in Nat /\ r.start_time \in Nat
      /\ r.elapsed_time \in Nat /\ u.sum \in Nat /\ u.max \in Nat /\ u.min \in Nat /\ u.op_count \in Nat
  BY DEF TimerRec
<1>2. Merge(r, u) = [sum |-> r.sum + u.sum, max |-> IF u.max > r.max THEN u.max ELSE r.max,
                     min |-> IF u.min < r.min THEN u.min ELSE r.min, op_count |-> r.op_count + u.op_count,
                     start_time |-> r.start_time, elapsed_time |-> r.elapsed_time]
  <2>1. PICK a \in Nat, b \in Nat, c \in Nat, d \in Nat :
             /\ a = r.sum + u.sum /\ b = r.op_count + u.op_count
             /\ c = (IF u.min < r.min THEN u.min ELSE r.min) /\ d = IF u.max > r.max THEN u.max ELSE r.max
    BY <1>1
  <2>2. PICK r1 \in TimerRec : r1 = [r EXCEPT !.sum = a]
    BY Changed
  <2>3. PICK r2 \in TimerRec : r2 = [r1 EXCEPT !.op_count = b]
    BY Changed
  <2>4. PICK r3 \in TimerRec : r3 = [r2 EXCEPT !.min = c]
    BY Changed
  <2>5. PICK r4 \in TimerRec : r4 = [r3 EXCEPT !.max = d]
    BY Changed
  <2>6. Merge(r, u) = r4
    BY <2>1, <2>2, <2>3, <2>4, <2>5 DEF Merge
  <2>7. r1 = [sum |-> a, max |-> r.max, min |-> r.min, op_count |-> r.op_count,
              start_time |-> r.start_time, elapsed_time |-> r.elapsed_time]
    BY <2>2, Changed
  <2>8. r2 = [sum |-> a, max |-> r.max, min |-> r.min, op_count |-> b,
              start_time |-> r.start_time, elapsed_time |-> r.elapsed_time]
    BY <2>3, <2>7
  <2>9. r3 = [sum |-> a, max |-> r.max, min |-> c, op_count |-> b,
              start_time |-> r.start_time, elapsed_time |-> r.elapsed_time]
    BY <2>4, <2>8
  <2>10. r4 = [sum |-> a, max |-> d, min |-> c, op_count |-> b,
               start_time |-> r.start_time, elapsed_time |-> r.elapsed_time]
    BY <2>5, <2>9
  <2> QED
    BY <2>1, <2>6, <2>10
<1> QED
  BY <1>1, <1>2 DEF TimerRec

(* EndAndMerge merges an operation as Merge does a timer that has measured *)
(* nothing else.                                                           *)
LEMMA EndMerges ==
  ASSUME NEW r \in TimerRec, now \in Nat, r.start_time <= now, NEW x, x = now - r.start_time
  PROVE  /\ EndAndMerge(r) \in TimerRec /\ x \in Nat
         /\ EndAndMerge(r).sum = r.sum + x /\ EndAndMerge(r).op_count = r.op_count + 1
         /\ EndAndMerge(r).min = (IF x < r.min THEN x ELSE r.min)
         /\ EndAndMerge(r).max = (IF x > r.max THEN x ELSE r.max)
         /\ EndAndMerge(r).start_time = r.start_time
<1>1. PICK e : e = End(r) /\ e \in TimerRec /\ e.elapsed_time = x /\ e.start_time = r.start_time
               /\ e.sum = r.sum /\ e.min = r.min /\ e.max = r.max /\ e.op_count = r.op_count
  BY Clocks
<1>2. e = [sum |-> r.sum, max |-> r.max, min |-> r.min, op_count |-> r.op_count, start_time |-> r.start_time,
           elapsed_time |-> x]
      /\ r.sum \in Nat /\ r.max \in Nat /\ r.min \in Nat /\ r.op_count \in Nat /\ r.start_time \in Nat /\ x \in Nat
  BY <1>1 DEF TimerRec
<1>3. EndAndMerge(r) = [sum |-> r.sum + x, max |-> IF x > r.max THEN x ELSE r.max,
                        min |-> IF x < r.min THEN x ELSE r.min, op_count |-> r.op_count + 1,
                        start_time |-> r.start_time, elapsed_time |-> x]
  <2>1. PICK a \in Nat, b \in Nat, c \in Nat, d \in Nat :
             /\ a = e.sum + x /\ b = e.op_count + 1
             /\ c = (IF x < e.min THEN x ELSE e.min) /\ d = IF x > e.max THEN x ELSE e.max
    BY <1>1, <1>2
  <2>2. PICK r1 \in TimerRec : r1 = [e EXCEPT !.op_count = b]
    BY <1>1, Changed
  <2>3. PICK r2 \in TimerRec : r2 = [r1 EXCEPT !.sum = a]
    BY Changed
  <2>4. PICK r3 \in TimerRec : r3 = [r2 EXCEPT !.min = c]
    BY Changed
  <2>5. PICK r4 \in TimerRec : r4 = [r3 EXCEPT !.max = d]
    BY Changed
  <2>6. EndAndMerge(r) = r4
    BY <1>1, <2>1, <2>2, <2>3, <2>4, <2>5 DEF EndAndMerge
  <2>7. r1 = [sum |-> r.sum, max |-> r.max, min |-> r.min, op_count |-> b,
              start_time |-> r.start_time, elapsed_time |-> x]
    BY <1>2, <2>2
  <2>8. r2 = [sum |-> a, max |-> r.max, min |-> r.min, op_count |-> b,
              start_time |-> r.start_time, elapsed_time |-> x]
    BY <2>3, <2>7
  <2>9. r3 = [sum |-> a, max |-> r.max, min |-> c, op_count |-> b,
              start_time |-> r.start_time, elapsed_time |-> x]
    BY <2>4, <2>8
  <2>10. r4 = [sum |-> a, max |-> d, min |-> c, op_count |-> b,
               start_time |-> r.start_time, elapsed_time |-> x]
    BY <2>5, <2>9
  <2> QED
    BY <1>1, <2>1, <2>6, <2>10
<1> QED
  BY <1>2, <1>3 DEF TimerRec

(* The statistics of two disjoint sets of operations give those of all.    *)
LEMMA StatsMerge ==
  ASSUME NEW D, Operations(D), NEW E, Operations(E), D \cap E = {},
         NEW r \in TimerRec, NEW u \in TimerRec, NEW m \in TimerRec, Stats(r, D), Stats(u, E),
         m.sum = r.sum + u.sum, m.op_count = r.op_count + u.op_count,
         m.min = IF u.min < r.min THEN u.min ELSE r.min, m.max = IF u.max > r.max THEN u.max ELSE r.max
  PROVE  Operations(D \cup E) /\ Stats(m, D \cup E)
<1>0. /\ r.min \in Nat /\ r.max \in Nat /\ u.min \in Nat /\ u.max \in Nat
      /\ Timed(D) /\ Timed(E) /\ NoMin \in Nat /\ \A d \in D \cup E : d.took \in Nat
  BY OperationsTimed DEF TimerRec
<1>1. Operations(D \cup E)
  BY FS_Union DEF Operations
<1>2. m.sum = Took(D \cup E)
  BY <1>0, TookUnion DEF Stats
<1>3. m.op_count = Cardinality(D \cup E)
  <2>1. Cardinality(D \cup E) = Cardinality(D) + Cardinality(E) - Cardinality({})
    BY FS_Union DEF Operations
  <2>2. Cardinality(D) \in Nat /\ Cardinality(E) \in Nat /\ Cardinality({}) = 0
    BY FS_CardinalityType, FS_EmptySet DEF Operations
  <2> QED
    BY <2>1, <2>2 DEF Stats
<1>4. /\ \A d \in D : r.min <= d.took /\ d.took <= r.max
      /\ \A d \in E : u.min <= d.took /\ d.took <= u.max
  BY DEF Stats
<1>5. m.min <= NoMin /\ \A d \in D \cup E : m.min <= d.took /\ d.took <= m.max
  <2>1. r.min <= NoMin /\ u.min <= NoMin
    BY DEF Stats
  <2> QED
    BY <1>0, <1>4, <2>1
<1>6. /\ r.min # NoMin => \E d \in D : d.took = r.min
      /\ u.min # NoMin => \E d \in E : d.took = u.min
      /\ r.max # 0 => \E d \in D : d.took = r.max
      /\ u.max # 0 => \E d \in E : d.took = u.max
  BY DEF Stats
<1>7. ASSUME m.min # NoMin PROVE \E d \in D \cup E : d.took = m.min
  <2>1. m.min = r.min \/ m.min = u.min
    OBVIOUS
  <2> QED
    BY <1>6, <1>7, <2>1
<1>8. ASSUME m.max # 0 PROVE \E d \in D \cup E : d.took = m.max
  <2>1. m.max = r.max \/ m.max = u.max
    OBVIOUS
  <2> QED
    BY <1>6, <1>8, <2>1
<1> QED
  BY <1>1, <1>2, <1>3, <1>5, <1>7, <1>8 DEF Stats

(* The statistics of one operation more.                                   *)
LEMMA StatsMore ==
  ASSUME NEW D, Operations(D), NEW r \in TimerRec, Stats(r, D), now \in 0..MaxTime, r.start_time <= now,
         NEW e, e \notin D, e.took = now - r.start_time
  PROVE  Operations(D \cup {e}) /\ Stats(EndAndMerge(r), D \cup {e})
<1>0. /\ now \in Nat /\ r.start_time \in Nat /\ MaxTime \in Nat /\ e.took \in Nat /\ e.took \in 0..MaxTime
      /\ r.min \in Nat /\ NoMin \in Nat /\ r.min <= NoMin
  BY ClientAssumption DEF TimerRec, Stats
<1>1. Operations({e}) /\ D \cap {e} = {}
  BY <1>0, FS_Singleton DEF Operations
<1>2. PICK least \in Nat : least = IF e.took < NoMin THEN e.took ELSE NoMin
  BY <1>0
<1>9. PICK u : u = [sum |-> e.took, max |-> e.took, min |-> least, op_count |-> 1, start_time |-> 0, elapsed_time |-> 0]
  OBVIOUS
<1>3. u \in TimerRec /\ u.sum = e.took /\ u.max = e.took /\ u.min = least /\ u.op_count = 1
  BY <1>0, <1>9 DEF TimerRec
<1>4. Stats(u, {e})
  <2>1. Took({e}) = e.took
    <3>1. Timed({e}) /\ Timed({}) /\ {e} \ {e} = {}
      BY <1>1, OperationsTimed, FS_EmptySet DEF Timed
    <3>2. Took({e}) = e.took + Took({e} \ {e}) /\ Took({}) = 0
      BY <3>1, TookFacts
    <3>3. Took({e}) = e.took + 0
      BY <3>1, <3>2, Zenon
    <3> QED
      BY <1>0, <3>3
  <2>2. Cardinality({e}) = 1
    BY FS_Singleton
  <2>3. least <= NoMin /\ least <= e.took /\ (least # NoMin => least = e.took)
    BY <1>0, <1>2
  <2> QED
    BY <1>0, <1>3, <2>1, <2>2, <2>3 DEF Stats
<1>5. PICK m : m = EndAndMerge(r) /\ m \in TimerRec
              /\ m.sum = r.sum + u.sum /\ m.op_count = r.op_count + u.op_count
              /\ m.min = (IF u.min < r.min THEN u.min ELSE r.min) /\ m.max = (IF u.max > r.max THEN u.max ELSE r.max)
  <2>1. PICK m : m = EndAndMerge(r) /\ m \in TimerRec
              /\ m.sum = r.sum + e.took /\ m.op_count = r.op_count + 1
              /\ m.min = (IF e.took < r.min THEN e.took ELSE r.min)
              /\ m.max = (IF e.took > r.max THEN e.took ELSE r.max)
    BY <1>0, EndMerges
  <2>2. m.min = IF least < r.min THEN least ELSE r.min
    BY <1>0, <1>2, <2>1
  <2> QED
    BY <1>3, <2>1, <2>2
<1> QED
  BY <1>1, <1>3, <1>4, <1>5, StatsMerge

-----------------------------------------------------------------------------
(* The invariant.                                                          *)

Opening == {"start", "single"}
Running == {"create", "join"}
Closing == {"merge", "print"}

ProcessTypes ==
  /\ laptop_type \in Types /\ num_orders \in Orders
  /\ now \in 0..MaxTime
  /\ main \in Opening \cup Running \cup Closing \cup {"exit"}
  /\ k \in 0..NumCustomers
  /\ timer \in TimerRec
  /\ thread \in [Thread -> [at : {"none", "connect", "loop", "op", "ended"}, i : Nat, timer : TimerRec]]
  /\ done \subseteq [thread : Thread, op : Nat, took : 0..MaxTime]
  /\ IsFiniteSet(done)

(* The operations of thread t, and of the first j threads.                 *)
OpsOf(t)  == {d \in done : d.thread = t}
OpsOfFirst(j) == {d \in done : d.thread < j}

(* A thread has measured as many operations as it has begun and ended,     *)
(* and it ended with none only without a connection, when there were no    *)
(* orders to place, or by a read that failed.                              *)
Measured(t) ==
  LET th == thread[t] IN
  /\ Stats(th.timer, OpsOf(t)) /\ th.timer.op_count = th.i
  /\ \A d \in OpsOf(t) : d.op < th.i
  /\ th.at \in {"none", "connect"} => th.timer = NewTimer /\ th.i = 0
  /\ th.at = "ended" /\ laptop_type # 3 => th.timer = NewTimer \/ th.i >= num_orders

(* The operations of a thread lie one after another in the run, the        *)
(* present one after them.                                                 *)
InTime(t) ==
  LET th == thread[t] IN
  /\ th.timer.start_time <= now
  /\ th.at = "op" => timer.start_time + th.timer.sum <= th.timer.start_time
  /\ timer.start_time + th.timer.sum <= now

(* main has started the first threads only, has joined the first ones, and *)
(* has merged the timers of the first ones.                                *)
Phases ==
  /\ timer.start_time <= now
  /\ main \in Opening => k = 0 /\ timer = NewTimer /\ \A t \in Thread : thread[t].at = "none"
  /\ main = "create" => \A t \in Thread : t >= k => thread[t].at = "none"
  /\ main \in Running => Stats(timer, {})
  /\ main = "join" => \A t \in Thread : t < k => thread[t].at = "ended"
  /\ main \in Closing =>
       /\ \A t \in Thread : thread[t].at = "ended" /\ thread[t].timer.sum <= timer.elapsed_time
       /\ Stats(timer, OpsOfFirst(k)) /\ timer.sum <= k * timer.elapsed_time
  /\ main = "print" => k = NumCustomers

ClientInv == ProcessTypes /\ Phases /\ \A t \in Thread : Measured(t) /\ InTime(t)

(* Threads are numbered from 0.                                            *)
LEMMA Threads ==
  /\ NumCustomers \in Nat /\ MaxTime \in Nat /\ NoMin \in Nat /\ Orders \subseteq Int
  /\ \A t \in Thread : t \in Nat /\ t < NumCustomers
  /\ \A j \in 0..NumCustomers : j < NumCustomers => j \in Thread
BY ClientAssumption DEF Thread

(* No timer has measured anything at first.                                *)
LEMMA NewStats == NewTimer \in TimerRec /\ NewTimer.sum = 0 /\ NewTimer.start_time = 0 /\ NewTimer.op_count = 0
                  /\ Stats(NewTimer, {})
<1>1. NewTimer \in TimerRec
  BY ClientAssumption DEF NewTimer, TimerRec
<1>2. Took({}) = 0 /\ Cardinality({}) = 0
  BY TookFacts, FS_EmptySet DEF Timed
<1> QED
  BY <1>1, <1>2, ClientAssumption DEF NewTimer, Stats

(* The operations of threads are operations.                               *)
LEMMA OpsAre ==
  ASSUME ProcessTypes
  PROVE  /\ Operations(done) /\ (\A t : Operations(OpsOf(t))) /\ \A j : Operations(OpsOfFirst(j))
         /\ \A d \in done : d.thread \in Thread /\ d.op \in Nat
<1>1. \A d \in done : d.took \in 0..MaxTime /\ d.thread \in Thread /\ d.op \in Nat
  BY DEF ProcessTypes
<1>2. ASSUME NEW D \in SUBSET done PROVE Operations(D)
  <2>1. IsFiniteSet(D)
    BY FS_Subset DEF ProcessTypes
  <2> QED
    BY <1>1, <2>1 DEF Operations
<1> QED
  BY <1>1, <1>2 DEF OpsOf, OpsOfFirst

(* At the start nothing has been measured.                                 *)
LEMMA InitClient == Init => ClientInv
<1> SUFFICES ASSUME Init PROVE ClientInv
  OBVIOUS
<1>1. IsFiniteSet({}) /\ \A t : OpsOf(t) = {}
  BY FS_EmptySet DEF Init, OpsOf
<1>2. ProcessTypes
  BY <1>1, Threads, NewStats DEF Init, ProcessTypes, Opening
<1>3. Phases
  BY NewStats DEF Init, Phases, Opening, Running, Closing
<1>4. ASSUME NEW t \in Thread PROVE Measured(t) /\ InTime(t)
  <2>1. thread[t].at = "none" /\ thread[t].i = 0 /\ thread[t].timer = NewTimer /\ now = 0 /\ timer = NewTimer
    BY DEF Init
  <2>2. Measured(t)
    BY <1>1, <2>1, NewStats DEF Measured
  <2>3. InTime(t)
    BY <2>1, NewStats DEF InTime
  <2> QED
    BY <2>2, <2>3
<1> QED
  BY <1>2, <1>3, <1>4 DEF ClientInv

(* Time goes on.                                                           *)
LEMMA TickClient ==
  ASSUME ClientInv, Tick
  PROVE  ClientInv'
<1>1. /\ now \in Nat /\ now' = now + 1 /\ now' \in 0..MaxTime
      /\ UNCHANGED <<laptop_type, num_orders, main, k, timer, thread, done>>
  BY Threads DEF ClientInv, ProcessTypes, Tick
<1>2. ProcessTypes'
  BY <1>1 DEF ClientInv, ProcessTypes
<1>3. timer \in TimerRec /\ timer.start_time \in Nat /\ timer.start_time <= now
  BY DEF ClientInv, ProcessTypes, Phases, TimerRec
<1>4. Phases'
  BY <1>1, <1>3 DEF ClientInv, Phases, Stats, OpsOfFirst, NewTimer
<1>5. ASSUME NEW t \in Thread PROVE Measured(t)' /\ InTime(t)'
  <2>1. Measured(t) /\ InTime(t)
    BY DEF ClientInv
  <2>2. Measured(t)'
    BY <1>1, <2>1 DEF Measured, Stats, OpsOf, NewTimer
  <2>3. thread[t].timer.start_time \in Nat /\ thread[t].timer.sum \in Nat
    BY DEF ClientInv, ProcessTypes, TimerRec
  <2>4. InTime(t)'
    BY <1>1, <1>3, <2>1, <2>3 DEF InTime
  <2> QED
    BY <2>2, <2>4
<1> QED
  BY <1>2, <1>4, <1>5 DEF ClientInv

(* A step of main leaves the threads' measurements alone.                  *)
LEMMA SameThreads ==
  ASSUME ClientInv, UNCHANGED <<laptop_type, num_orders, now, thread, done>>, timer'.start_time = timer.start_time
  PROVE  \A t \in Thread : Measured(t)' /\ InTime(t)'
<1> SUFFICES ASSUME NEW t \in Thread PROVE Measured(t)' /\ InTime(t)'
  OBVIOUS
<1>1. Measured(t) /\ InTime(t)
  BY DEF ClientInv
<1>2. Measured(t)'
  BY <1>1 DEF Measured, Stats, OpsOf, NewTimer
<1>3. InTime(t)'
  BY <1>1 DEF InTime
<1> QED
  BY <1>2, <1>3

(* main begins: no thread has been started.                                *)
LEMMA StartClient ==
  ASSUME ClientInv, MainStart
  PROVE  ClientInv'
<1>1. /\ main = "start" /\ k = 0 /\ timer = NewTimer /\ now \in Nat
      /\ UNCHANGED <<laptop_type, num_orders, now, k, thread, done>>
      /\ \A t \in Thread : thread[t].at = "none"
  BY Threads DEF ClientInv, ProcessTypes, Phases, Opening, MainStart
<1>2. CASE laptop_type = 2
  <2>1. main' = "single" /\ UNCHANGED timer
    BY <1>2 DEF MainStart
  <2>2. ProcessTypes'
    BY <1>1, <2>1 DEF ClientInv, ProcessTypes, Opening
  <2>3. Phases'
    BY <1>1, <2>1, NewStats DEF ClientInv, Phases, Opening, Running, Closing, NewTimer
  <2> QED
    BY <1>1, <2>1, <2>2, <2>3, SameThreads DEF ClientInv
<1>3. CASE laptop_type # 2
  <2>1. main' = "create" /\ timer' = Start(timer) /\ timer \in TimerRec
    BY <1>3 DEF MainStart, ClientInv, ProcessTypes
  <2>2. /\ timer' \in TimerRec /\ timer'.start_time = now /\ timer'.sum = timer.sum /\ timer'.min = timer.min
        /\ timer'.max = timer.max /\ timer'.op_count = timer.op_count
    BY <1>1, <2>1, Clocks
  <2>3. ProcessTypes'
    BY <1>1, <2>1, <2>2 DEF ClientInv, ProcessTypes, Running
  <2>4. Stats(timer, {})'
    BY <1>1, <2>2, NewStats DEF Stats
  <2>5. Phases'
    BY <1>1, <2>1, <2>2, <2>4 DEF Phases, Opening, Running, Closing
  <2>6. ASSUME NEW t \in Thread PROVE Measured(t)' /\ InTime(t)'
    <3>1. Measured(t) /\ InTime(t) /\ thread[t].at = "none"
      BY <1>1 DEF ClientInv
    <3>2. Measured(t)'
      BY <1>1, <3>1 DEF Measured, Stats, OpsOf, NewTimer
    <3>3. thread[t].timer.sum = 0 /\ thread[t].timer.start_time <= now
      BY <3>1, NewStats DEF Measured, InTime
    <3>4. InTime(t)'
      BY <1>1, <2>2, <3>1, <3>3 DEF InTime
    <3> QED
      BY <3>2, <3>4
  <2> QED
    BY <2>3, <2>5, <2>6 DEF ClientInv
<1> QED
  BY <1>2, <1>3

(* The single thread of type 2 measures nothing.                           *)
LEMMA SingleClient ==
  ASSUME ClientInv, SingleRead
  PROVE  ClientInv'
<1>1. main' = "exit" /\ UNCHANGED <<laptop_type, num_orders, now, k, timer, thread, done>>
  BY DEF SingleRead
<1>2. ProcessTypes'
  BY <1>1 DEF ClientInv, ProcessTypes
<1>3. Phases'
  BY <1>1 DEF ClientInv, Phases, Opening, Running, Closing
<1> QED
  BY <1>1, <1>2, <1>3, SameThreads DEF ClientInv

(* The statistics are printed at the end.                                  *)
LEMMA PrintClient ==
  ASSUME ClientInv, PrintStats
  PROVE  ClientInv'
<1>1. main' = "exit" /\ UNCHANGED <<laptop_type, num_orders, now, k, timer, thread, done>>
  BY DEF PrintStats
<1>2. ProcessTypes'
  BY <1>1 DEF ClientInv, ProcessTypes
<1>3. Phases'
  BY <1>1 DEF ClientInv, Phases, Opening, Running, Closing
<1> QED
  BY <1>1, <1>2, <1>3, SameThreads DEF ClientInv

(* A thread is created, or all have been.                                  *)
LEMMA CreateClient ==
  ASSUME ClientInv, CreateThread
  PROVE  ClientInv'
<1>1. /\ main = "create" /\ k \in 0..NumCustomers /\ k \in Nat /\ k <= NumCustomers
      /\ UNCHANGED <<laptop_type, num_orders, now, timer, done>>
  BY Threads DEF ClientInv, ProcessTypes, CreateThread
<1>2. /\ Stats(timer, {}) /\ timer.start_time <= now
      /\ \A t \in Thread : t >= k => thread[t].at = "none"
  BY <1>1 DEF ClientInv, Phases, Running
<1>3. Stats(timer, {})'
  BY <1>1, <1>2 DEF Stats
<1>4. CASE k < NumCustomers
  <2>1. thread' = [thread EXCEPT ![k].at = "connect"] /\ k' = k + 1 /\ main' = main /\ k \in Thread
    BY <1>1, <1>4, Threads DEF CreateThread
  <2>2. thread \in [Thread -> [at : {"none", "connect", "loop", "op", "ended"}, i : Nat, timer : TimerRec]]
    BY DEF ClientInv, ProcessTypes
  <2>3. /\ thread' \in [Thread -> [at : {"none", "connect", "loop", "op", "ended"}, i : Nat, timer : TimerRec]]
        /\ thread'[k].at = "connect" /\ thread'[k].i = thread[k].i /\ thread'[k].timer = thread[k].timer
        /\ \A t \in Thread : t # k => thread'[t] = thread[t]
    BY <2>1, <2>2
  <2>4. k' \in 0..NumCustomers
    BY <1>1, <1>4, <2>1, Threads
  <2>5. ProcessTypes'
    BY <1>1, <2>1, <2>3, <2>4 DEF ClientInv, ProcessTypes
  <2>6. \A t \in Thread : t >= k' => thread'[t].at = "none"
    BY <1>1, <1>2, <2>1, <2>3, Threads
  <2>7. Phases'
    BY <1>1, <1>2, <1>3, <2>1, <2>6 DEF Phases, Opening, Running, Closing
  <2>8. ASSUME NEW t \in Thread PROVE Measured(t)' /\ InTime(t)'
    <3>1. Measured(t) /\ InTime(t)
      BY DEF ClientInv
    <3>2. CASE t = k
      <4>1. thread[t].at = "none" /\ thread'[t].at = "connect" /\ thread'[t].i = thread[t].i
            /\ thread'[t].timer = thread[t].timer
        BY <1>1, <1>2, <2>3, <3>2
      <4>2. Measured(t)'
        BY <1>1, <3>1, <4>1 DEF Measured, Stats, OpsOf, NewTimer
      <4>3. InTime(t)'
        BY <1>1, <3>1, <4>1 DEF InTime
      <4> QED
        BY <4>2, <4>3
    <3>3. CASE t # k
      <4>1. thread'[t] = thread[t]
        BY <2>3, <3>3
      <4>2. Measured(t)'
        BY <1>1, <3>1, <4>1 DEF Measured, Stats, OpsOf, NewTimer
      <4>3. InTime(t)'
        BY <1>1, <3>1, <4>1 DEF InTime
      <4> QED
        BY <4>2, <4>3
    <3> QED
      BY <3>2, <3>3
  <2> QED
    BY <2>5, <2>7, <2>8 DEF ClientInv
<1>5. CASE ~(k < NumCustomers)
  <2>1. main' = "join" /\ k' = 0 /\ UNCHANGED thread
    BY <1>5 DEF CreateThread
  <2>2. ProcessTypes'
    BY <1>1, <2>1, Threads DEF ClientInv, ProcessTypes, Running
  <2>3. \A t \in Thread : ~(t < 0)
    BY Threads
  <2>4. Phases'
    BY <1>1, <1>2, <1>3, <2>1, <2>3 DEF Phases, Opening, Running, Closing
  <2> QED
    BY <1>1, <2>1, <2>2, <2>4, SameThreads DEF ClientInv
<1> QED
  BY <1>4, <1>5

(* A thread is joined, or all have been: the timer is stopped.             *)
LEMMA JoinClient ==
  ASSUME ClientInv, Join
  PROVE  ClientInv'
<1>1. /\ main = "join" /\ k \in 0..NumCustomers /\ k \in Nat /\ k <= NumCustomers
      /\ UNCHANGED <<laptop_type, num_orders, now, thread, done>>
      /\ timer \in TimerRec /\ now \in Nat
  BY Threads DEF ClientInv, ProcessTypes, Join
<1>2. /\ Stats(timer, {}) /\ timer.start_time <= now
      /\ \A t \in Thread : t < k => thread[t].at = "ended"
  BY <1>1 DEF ClientInv, Phases, Running
<1>3. CASE k < NumCustomers
  <2>1. thread[k].at = "ended" /\ k' = k + 1 /\ UNCHANGED <<main, timer>>
    BY <1>3 DEF Join
  <2>2. k' \in 0..NumCustomers
    BY <1>1, <1>3, <2>1, Threads
  <2>3. ProcessTypes'
    BY <1>1, <2>1, <2>2 DEF ClientInv, ProcessTypes
  <2>4. ASSUME NEW t \in Thread, t < k' PROVE thread'[t].at = "ended"
    <3>1. t \in Nat /\ (t < k \/ t = k)
      BY <1>1, <2>1, <2>4, Threads
    <3> QED
      BY <1>1, <1>2, <2>1, <3>1
  <2>5. Stats(timer, {})'
    BY <1>2, <2>1 DEF Stats
  <2>6. Phases'
    BY <1>1, <1>2, <2>1, <2>4, <2>5 DEF Phases, Opening, Running, Closing
  <2> QED
    BY <1>1, <2>1, <2>3, <2>6, SameThreads DEF ClientInv
<1>4. CASE ~(k < NumCustomers)
  <2>1. main' = "merge" /\ k' = 0 /\ timer' = End(timer)
    BY <1>4 DEF Join
  <2>2. /\ timer' \in TimerRec /\ timer'.elapsed_time = now - timer.start_time /\ timer'.start_time = timer.start_time
        /\ timer'.sum = timer.sum /\ timer'.min = timer.min /\ timer'.max = timer.max
        /\ timer'.op_count = timer.op_count
    BY <1>1, <1>2, <2>1, Clocks
  <2>3. ProcessTypes'
    BY <1>1, <2>1, <2>2, Threads DEF ClientInv, ProcessTypes, Closing
  <2>4. ASSUME NEW t \in Thread
        PROVE  thread'[t].at = "ended" /\ thread'[t].timer.sum <= timer'.elapsed_time
    <3>1. t < k
      BY <1>1, <1>4, Threads
    <3>2. timer.start_time + thread[t].timer.sum <= now
      BY DEF ClientInv, InTime
    <3>3. thread[t].timer.sum \in Nat /\ timer.start_time \in Nat
      BY DEF ClientInv, ProcessTypes, TimerRec
    <3>4. thread[t].timer.sum <= now - timer.start_time
      BY <1>1, <3>2, <3>3
    <3> QED
      BY <1>1, <1>2, <2>2, <3>1, <3>4
  <2>5. OpsOfFirst(0) = {}
    <3>1. \A d \in done : d.thread \in Thread
      BY OpsAre DEF ClientInv
    <3> QED
      BY <3>1, Threads DEF OpsOfFirst
  <2>6. OpsOfFirst(k)' = {}
    BY <1>1, <2>1, <2>5 DEF OpsOfFirst
  <2>7. Stats(timer', {})
    BY <1>2, <2>2 DEF Stats
  <2>8. Stats(timer, OpsOfFirst(k))'
    <3>1. Stats(timer, OpsOfFirst(k))' <=> Stats(timer', OpsOfFirst(k)')
      BY DEF Stats
    <3> QED
      BY <2>6, <2>7, <3>1
  <2>9. timer'.sum <= k' * timer'.elapsed_time
    <3>1. timer'.sum = 0
      <4>1. Took({}) = 0
        BY TookFacts, FS_EmptySet DEF Timed
      <4> QED
        BY <2>7, <4>1 DEF Stats
    <3>2. timer'.elapsed_time \in Nat
      BY <2>2 DEF TimerRec
    <3> QED
      BY <2>1, <3>1, <3>2
  <2>10. Phases'
    BY <1>1, <1>2, <2>1, <2>2, <2>4, <2>8, <2>9 DEF Phases, Opening, Running, Closing
  <2> QED
    BY <1>1, <2>2, <2>3, <2>10, SameThreads DEF ClientInv
<1> QED
  BY <1>3, <1>4

(* The timer of the next thread is merged, or all have been.               *)
LEMMA MergeClient ==
  ASSUME ClientInv, MergeTimer
  PROVE  ClientInv'
<1>1. /\ main = "merge" /\ k \in 0..NumCustomers /\ k \in Nat /\ k <= NumCustomers
      /\ UNCHANGED <<laptop_type, num_orders, now, thread, done>>
      /\ timer \in TimerRec /\ timer.sum \in Nat /\ timer.elapsed_time \in Nat
      /\ thread \in [Thread -> [at : {"none", "connect", "loop", "op", "ended"}, i : Nat, timer : TimerRec]]
  BY Threads DEF ClientInv, ProcessTypes, MergeTimer, TimerRec
<1>2. /\ timer.start_time <= now /\ Stats(timer, OpsOfFirst(k)) /\ timer.sum <= k * timer.elapsed_time
      /\ \A t \in Thread : thread[t].at = "ended" /\ thread[t].timer.sum <= timer.elapsed_time
  BY <1>1 DEF ClientInv, Phases, Closing
<1>3. CASE k < NumCustomers
  <2>1. timer' = Merge(timer, thread[k].timer) /\ k' = k + 1 /\ UNCHANGED main /\ k \in Thread
    BY <1>1, <1>3, Threads DEF MergeTimer
  <2>2. PICK u \in TimerRec : u = thread[k].timer
    BY <1>1, <2>1
  <2>3. /\ timer' \in TimerRec /\ timer'.sum = timer.sum + u.sum /\ timer'.op_count = timer.op_count + u.op_count
        /\ timer'.min = (IF u.min < timer.min THEN u.min ELSE timer.min)
        /\ timer'.max = (IF u.max > timer.max THEN u.max ELSE timer.max)
        /\ timer'.start_time = timer.start_time /\ timer'.elapsed_time = timer.elapsed_time
    BY <1>1, <2>1, <2>2, Merges
  <2>4. k' \in 0..NumCustomers
    BY <1>1, <1>3, <2>1, Threads
  <2>5. ProcessTypes'
    BY <1>1, <2>1, <2>3, <2>4 DEF ClientInv, ProcessTypes
  <2>6. /\ Operations(OpsOfFirst(k)) /\ Operations(OpsOf(k)) /\ \A d \in done : d.thread \in Nat
    BY OpsAre, Threads DEF ClientInv
  <2>7. OpsOfFirst(k) \cap OpsOf(k) = {} /\ OpsOfFirst(k) \cup OpsOf(k) = OpsOfFirst(k + 1)
    <3>1. \A d \in done : (d.thread < k + 1) <=> (d.thread < k \/ d.thread = k)
      BY <1>1, <2>6
    <3>2. \A d \in done : ~(d.thread < k /\ d.thread = k)
      BY <1>1, <2>6
    <3> QED
      BY <3>1, <3>2 DEF OpsOf, OpsOfFirst
  <2>8. Stats(u, OpsOf(k))
    BY <2>1, <2>2 DEF ClientInv, Measured
  <2>9. Stats(timer', OpsOfFirst(k) \cup OpsOf(k))
    BY <1>1, <1>2, <2>3, <2>6, <2>7, <2>8, StatsMerge
  <2>10. Stats(timer, OpsOfFirst(k))'
    <3>1. OpsOfFirst(k)' = OpsOfFirst(k) \cup OpsOf(k)
      BY <1>1, <2>1, <2>7 DEF OpsOfFirst
    <3>2. Stats(timer, OpsOfFirst(k))' <=> Stats(timer', OpsOfFirst(k)')
      BY DEF Stats
    <3> QED
      BY <2>9, <3>1, <3>2
  <2>11. timer'.sum <= k' * timer'.elapsed_time
    <3>1. PICK e \in Nat, s \in Nat, x \in Nat, j \in Nat :
               e = timer.elapsed_time /\ s = timer.sum /\ x = u.sum /\ j = k
      BY <1>1, <2>2 DEF TimerRec
    <3>2. s <= j * e /\ x <= e
      BY <1>2, <2>1, <2>2, <3>1
    <3>3. (j + 1) * e = j * e + e
      OBVIOUS
    <3>4. j * e \in Nat
      OBVIOUS
    <3>5. s + x <= j * e + e
      BY <3>2, <3>4
    <3> QED
      BY <2>1, <2>3, <3>1, <3>3, <3>5
  <2>12. Phases'
    BY <1>1, <1>2, <2>1, <2>3, <2>10, <2>11 DEF Phases, Opening, Running, Closing
  <2> QED
    BY <1>1, <2>3, <2>5, <2>12, SameThreads DEF ClientInv
<1>4. CASE ~(k < NumCustomers)
  <2>1. main' = "print" /\ UNCHANGED <<timer, k>> /\ k = NumCustomers
    BY <1>1, <1>4, Threads DEF MergeTimer
  <2>2. ProcessTypes'
    BY <1>1, <2>1 DEF ClientInv, ProcessTypes, Closing
  <2>3. Stats(timer, OpsOfFirst(k))'
    BY <1>1, <1>2, <2>1 DEF Stats, OpsOfFirst
  <2>4. Phases'
    BY <1>1, <1>2, <2>1, <2>3 DEF Phases, Opening, Running, Closing
  <2> QED
    BY <1>1, <2>1, <2>2, <2>4, SameThreads DEF ClientInv
<1> QED
  BY <1>3, <1>4

-----------------------------------------------------------------------------
(* Steps of the threads.                                                   *)

ThreadRec == [at : {"none", "connect", "loop", "op", "ended"}, i : Nat, timer : TimerRec]

(* A thread runs only while main creates and joins threads, or after main  *)
(* has gone; it has been created, and not been joined.                     *)
LEMMA RunningThread ==
  ASSUME ClientInv, NEW t \in Thread, thread[t].at \in {"connect", "loop", "op"}
  PROVE  /\ main \in Running \cup {"exit"} /\ main \notin Opening \cup Closing
         /\ main = "create" => t < k
         /\ main = "join" => ~(t < k)
<1>1. main \notin Opening \cup Closing
  BY DEF ClientInv, Phases
<1>2. main \in Running \cup {"exit"}
  BY <1>1 DEF ClientInv, ProcessTypes
<1>3. main = "create" => t < k
  <2>1. t \in Nat /\ k \in Nat
    BY Threads DEF ClientInv, ProcessTypes
  <2>2. main = "create" => ~(t >= k)
    BY DEF ClientInv, Phases
  <2> QED
    BY <2>1, <2>2
<1>4. main = "join" => ~(t < k)
  BY DEF ClientInv, Phases
<1> QED
  BY <1>1, <1>2, <1>3, <1>4

(* A step of a thread that measures nothing but its own operation keeps    *)
(* the invariant if it does for that thread.                               *)
LEMMA ThreadClient ==
  ASSUME ClientInv, NEW t \in Thread, thread[t].at \in {"connect", "loop", "op"},
         UNCHANGED <<laptop_type, num_orders, now, main, k, timer>>,
         NEW th \in ThreadRec, th.at # "none", thread' = [thread EXCEPT ![t] = th],
         NEW D \in SUBSET [thread : {t}, op : Nat, took : 0..MaxTime], IsFiniteSet(D), done' = done \cup D,
         Measured(t)', InTime(t)'
  PROVE  ClientInv'
<1>1. /\ thread \in [Thread -> ThreadRec] /\ thread' \in [Thread -> ThreadRec]
      /\ \A s \in Thread : s # t => thread'[s] = thread[s]
      /\ thread'[t] = th
  BY DEF ClientInv, ProcessTypes, ThreadRec
<1>2. ProcessTypes'
  <2>1. done' \subseteq [thread : Thread, op : Nat, took : 0..MaxTime]
    BY DEF ClientInv, ProcessTypes
  <2>2. IsFiniteSet(done')
    BY FS_Union DEF ClientInv, ProcessTypes
  <2> QED
    BY <1>1, <2>1, <2>2 DEF ClientInv, ProcessTypes, ThreadRec
<1>3. /\ main \in Running \cup {"exit"} /\ main \notin Opening \cup Closing
      /\ main = "create" => t < k
      /\ main = "join" => ~(t < k)
  BY RunningThread
<1>4. Phases'
  <2>1. main = "create" => \A s \in Thread : s >= k => thread'[s].at = "none"
    <3>1. main = "create" => \A s \in Thread : s >= k => thread[s].at = "none"
      BY DEF ClientInv, Phases
    <3>2. t \in Nat /\ k \in Nat
      BY Threads DEF ClientInv, ProcessTypes
    <3>3. main = "create" => ~(t >= k)
      BY <1>3, <3>2
    <3> QED
      BY <1>1, <3>1, <3>3
  <2>2. main = "join" => \A s \in Thread : s < k => thread'[s].at = "ended"
    BY <1>1, <1>3 DEF ClientInv, Phases
  <2>3. main \in Running => Stats(timer, {})'
    BY DEF ClientInv, Phases, Stats
  <2>4. timer.start_time <= now /\ main # "print"
    BY <1>3 DEF ClientInv, Phases, Closing
  <2> QED
    BY <1>3, <2>1, <2>2, <2>3, <2>4 DEF Phases
<1>5. ASSUME NEW s \in Thread, s # t PROVE Measured(s)' /\ InTime(s)'
  <2>1. Measured(s) /\ InTime(s)
    BY DEF ClientInv
  <2>2. thread'[s] = thread[s]
    BY <1>1, <1>5
  <2>3. OpsOf(s)' = OpsOf(s)
    BY <1>5 DEF OpsOf
  <2>4. Measured(s)'
    BY <2>1, <2>2, <2>3 DEF Measured, Stats, NewTimer
  <2>5. InTime(s)'
    BY <2>1, <2>2 DEF InTime
  <2> QED
    BY <2>4, <2>5
<1> QED
  BY <1>2, <1>4, <1>5 DEF ClientInv

(* The same without an operation: a thread that changes its place, and     *)
(* perhaps starts its timer.                                               *)
LEMMA MovedClient ==
  ASSUME ClientInv, NEW t \in Thread, thread[t].at \in {"connect", "loop", "op"},
         UNCHANGED <<laptop_type, num_orders, now, main, k, timer, done>>,
         NEW th \in ThreadRec, thread' = [thread EXCEPT ![t] = th],
         th.at \in {"loop", "op", "ended"}, th.i = thread[t].i,
         \/ th.timer = thread[t].timer /\ th.at # "op"
         \/ th.timer = Start(thread[t].timer) /\ th.at # "ended",
         th.at = "ended" /\ laptop_type # 3 => th.timer = NewTimer \/ th.i >= num_orders
  PROVE  ClientInv'
<1>1. /\ thread \in [Thread -> ThreadRec] /\ thread'[t] = th
      /\ thread[t].timer \in TimerRec /\ now \in Nat /\ timer.start_time \in Nat /\ thread[t].timer.sum \in Nat
  BY Threads DEF ClientInv, ProcessTypes, ThreadRec, TimerRec
<1>2. Measured(t) /\ InTime(t)
  BY DEF ClientInv
<1>3. /\ th.timer.sum = thread[t].timer.sum /\ th.timer.min = thread[t].timer.min
      /\ th.timer.max = thread[t].timer.max /\ th.timer.op_count = thread[t].timer.op_count
      /\ (th.timer = thread[t].timer /\ th.at # "op") \/ th.timer.start_time = now
  BY <1>1, Clocks
<1>4. Measured(t)'
  <2>1. OpsOf(t)' = OpsOf(t) /\ NewTimer' = NewTimer
    BY DEF OpsOf, NewTimer
  <2>2. Stats(th.timer, OpsOf(t))
    BY <1>2, <1>3 DEF Measured, Stats
  <2>3. Stats(thread[t].timer, OpsOf(t))'
    BY <1>1, <2>1, <2>2 DEF Stats
  <2> QED
    BY <1>1, <1>2, <1>3, <2>1, <2>3 DEF Measured
<1>5. InTime(t)'
  <2>1. /\ thread[t].timer.start_time <= now /\ timer.start_time + thread[t].timer.sum <= now
    BY <1>2 DEF InTime
  <2> QED
    BY <1>1, <1>3, <2>1 DEF InTime
<1>6. IsFiniteSet({}) /\ done' = done \cup {} /\ th.at # "none"
  BY FS_EmptySet
<1> QED
  BY <1>4, <1>5, <1>6, ThreadClient

(* A thread gets its connection or ends without one.                       *)
LEMMA ConnectClient ==
  ASSUME ClientInv, NEW t \in Thread, Connect(t)
  PROVE  ClientInv'
<1>1. /\ thread[t].at = "connect" /\ thread \in [Thread -> ThreadRec]
      /\ UNCHANGED <<laptop_type, num_orders, now, main, k, timer, done>>
  BY DEF ClientInv, ProcessTypes, Connect, ThreadRec
<1>2. PICK at \in {"loop", "ended"} : thread' = [thread EXCEPT ![t].at = at]
  BY DEF Connect
<1>3. PICK th : th = [thread[t] EXCEPT !.at = at]
  OBVIOUS
<1>4. th \in ThreadRec /\ th.at = at /\ th.i = thread[t].i /\ th.timer = thread[t].timer
  BY <1>1, <1>3 DEF ThreadRec
<1>5. thread' = [thread EXCEPT ![t] = th]
  BY <1>2, <1>3
<1>6. thread[t].timer = NewTimer
  BY <1>1 DEF ClientInv, Measured
<1> QED
  BY <1>1, <1>4, <1>5, <1>6, MovedClient

(* The head of a thread's loop.                                            *)
LEMMA LoopClient ==
  ASSUME ClientInv, NEW t \in Thread, LoopHead(t)
  PROVE  ClientInv'
<1>1. /\ thread[t].at = "loop" /\ thread \in [Thread -> ThreadRec] /\ now \in Nat
      /\ UNCHANGED <<laptop_type, num_orders, now, main, k, timer, done>>
      /\ thread[t].i \in Nat /\ thread[t].timer \in TimerRec /\ num_orders \in Int
  BY Threads DEF ClientInv, ProcessTypes, LoopHead, ThreadRec
<1>2. CASE thread[t].i < num_orders
  <2>1. thread' = [thread EXCEPT ![t].at = "op", ![t].timer = Start(@)]
    BY <1>2 DEF LoopHead
  <2>2. PICK th : th = [at |-> "op", i |-> thread[t].i, timer |-> Start(thread[t].timer)]
    OBVIOUS
  <2>3. th \in ThreadRec /\ th.at = "op" /\ th.i = thread[t].i /\ th.timer = Start(thread[t].timer)
    BY <1>1, <2>2, Clocks DEF ThreadRec
  <2>4. thread' = [thread EXCEPT ![t] = th]
    <3>1. thread[t] = [at |-> thread[t].at, i |-> thread[t].i, timer |-> thread[t].timer]
      BY <1>1 DEF ThreadRec
    <3>2. PICK x : x = Start(thread[t].timer)
      OBVIOUS
    <3>3. [[thread[t] EXCEPT !.at = "op"] EXCEPT !.timer = x] = th
      <4>1. PICK r1 : r1 = [thread[t] EXCEPT !.at = "op"]
        OBVIOUS
      <4>2. r1 = [at |-> "op", i |-> thread[t].i, timer |-> thread[t].timer]
        BY <3>1, <4>1
      <4>3. [r1 EXCEPT !.timer = x] = [at |-> "op", i |-> thread[t].i, timer |-> x]
        BY <4>2
      <4> QED
        BY <2>2, <3>2, <4>1, <4>3
    <3>4. thread' = [[thread EXCEPT ![t].at = "op"] EXCEPT ![t].timer = x]
      BY <1>1, <2>1, <3>2
    <3>5. thread' = [thread EXCEPT ![t] = [[thread[t] EXCEPT !.at = "op"] EXCEPT !.timer = x]]
      BY <1>1, <3>4
    <3> QED
      BY <3>3, <3>5
  <2> QED
    BY <1>1, <2>3, <2>4, MovedClient
<1>3. CASE ~(thread[t].i < num_orders)
  <2>1. thread' = [thread EXCEPT ![t].at = "ended"]
    BY <1>3 DEF LoopHead
  <2>2. PICK th : th = [thread[t] EXCEPT !.at = "ended"]
    OBVIOUS
  <2>3. th \in ThreadRec /\ th.at = "ended" /\ th.i = thread[t].i /\ th.timer = thread[t].timer
    BY <1>1, <2>2 DEF ThreadRec
  <2>4. thread' = [thread EXCEPT ![t] = th]
    BY <2>1, <2>2
  <2>5. th.i >= num_orders
    BY <1>1, <1>3, <2>3, Threads
  <2> QED
    BY <1>1, <2>3, <2>4, <2>5, MovedClient
<1> QED
  BY <1>2, <1>3

(* A read that fails.                                                      *)
LEMMA FailClient ==
  ASSUME ClientInv, NEW t \in Thread, ReadFails(t)
  PROVE  ClientInv'
<1>1. /\ thread[t].at = "op" /\ thread \in [Thread -> ThreadRec] /\ laptop_type = 3
      /\ UNCHANGED <<laptop_type, num_orders, now, main, k, timer, done>>
      /\ thread' = [thread EXCEPT ![t].at = "ended"]
  BY DEF ClientInv, ProcessTypes, ReadFails, ThreadRec
<1>2. PICK th : th = [thread[t] EXCEPT !.at = "ended"]
  OBVIOUS
<1>3. th \in ThreadRec /\ th.at = "ended" /\ th.i = thread[t].i /\ th.timer = thread[t].timer
  BY <1>1, <1>2 DEF ThreadRec
<1>4. thread' = [thread EXCEPT ![t] = th]
  BY <1>1, <1>2
<1> QED
  BY <1>1, <1>3, <1>4, MovedClient

(* An operation ends and is measured.                                      *)
LEMMA OperationClient ==
  ASSUME ClientInv, NEW t \in Thread, OperationEnds(t)
  PROVE  ClientInv'
<1>1. PICK r : r = thread[t].timer
  OBVIOUS
<1>2. PICK i : i = thread[t].i
  OBVIOUS
<1>3. /\ thread[t].at = "op" /\ thread \in [Thread -> ThreadRec] /\ now \in Nat /\ now \in 0..MaxTime
      /\ UNCHANGED <<laptop_type, num_orders, now, main, k, timer>>
      /\ r \in TimerRec /\ i \in Nat /\ r.sum \in Nat /\ r.start_time \in Nat /\ timer.start_time \in Nat
      /\ r.op_count \in Nat
  BY <1>1, <1>2, Threads DEF ClientInv, ProcessTypes, OperationEnds, ThreadRec, TimerRec
<1>4. /\ Stats(r, OpsOf(t)) /\ r.op_count = i /\ (\A d \in OpsOf(t) : d.op < i)
      /\ r.start_time <= now /\ timer.start_time + r.sum <= r.start_time
  BY <1>1, <1>2, <1>3 DEF ClientInv, Measured, InTime
<1>5. PICK x \in Nat : x = now - r.start_time /\ x \in 0..MaxTime
  BY <1>3, <1>4, Threads
<1>6. PICK e : e = [thread |-> t, op |-> i, took |-> x]
  OBVIOUS
<1>7. PICK th : th = [at |-> "loop", i |-> i + 1, timer |-> EndAndMerge(r)]
  OBVIOUS
<1>8. thread' = [thread EXCEPT ![t] = th] /\ done' = done \cup {e} /\ thread'[t] = th
  BY <1>1, <1>2, <1>3, <1>5, <1>6, <1>7 DEF OperationEnds
<1>9. /\ EndAndMerge(r) \in TimerRec /\ EndAndMerge(r).sum = r.sum + x
      /\ EndAndMerge(r).op_count = r.op_count + 1 /\ EndAndMerge(r).start_time = r.start_time
  BY <1>3, <1>4, <1>5, EndMerges
<1>10. th \in ThreadRec /\ th.at = "loop" /\ th.i = i + 1 /\ th.timer = EndAndMerge(r)
  BY <1>3, <1>7, <1>9 DEF ThreadRec
<1>11. {e} \in SUBSET [thread : {t}, op : Nat, took : 0..MaxTime] /\ IsFiniteSet({e})
       /\ e.thread = t /\ e.op = i /\ e.took = now - r.start_time
  <2>1. e.thread = t /\ e.op = i /\ e.took = now - r.start_time
    BY <1>5, <1>6
  <2>2. e \in [thread : {t}, op : Nat, took : 0..MaxTime]
    BY <1>3, <1>5, <1>6
  <2> QED
    BY <2>1, <2>2, FS_Singleton
<1>12. e \notin OpsOf(t)
  BY <1>3, <1>4, <1>11
<1>13. Operations(OpsOf(t)) /\ \A d \in done : d.op \in Nat
  BY OpsAre DEF ClientInv
<1>14. Stats(EndAndMerge(r), OpsOf(t) \cup {e})
  BY <1>3, <1>4, <1>11, <1>12, <1>13, StatsMore
<1>15. OpsOf(t)' = OpsOf(t) \cup {e}
  BY <1>8, <1>11 DEF OpsOf
<1>16. Measured(t)'
  <2>1. Stats(th.timer, OpsOf(t) \cup {e})
    BY <1>10, <1>14
  <2>2. Stats(thread[t].timer, OpsOf(t))'
    <3>1. Stats(thread[t].timer, OpsOf(t))' <=> Stats(thread'[t].timer, OpsOf(t)')
      BY DEF Stats
    <3> QED
      BY <1>8, <1>15, <2>1, <3>1
  <2>3. \A d \in OpsOf(t) \cup {e} : d.op < i + 1
    <3>1. \A d \in OpsOf(t) : d.op \in Nat
      BY <1>13 DEF OpsOf
    <3> QED
      BY <1>3, <1>4, <1>11, <3>1
  <2>4. th.timer.op_count = th.i
    BY <1>4, <1>9, <1>10
  <2> QED
    BY <1>8, <1>10, <1>15, <2>2, <2>3, <2>4 DEF Measured
<1>17. InTime(t)'
  <2>1. timer.start_time + (r.sum + x) <= now
    BY <1>3, <1>4, <1>5
  <2> QED
    BY <1>3, <1>4, <1>8, <1>9, <1>10, <2>1 DEF InTime
<1> QED
  BY <1>3, <1>8, <1>10, <1>11, <1>16, <1>17, ThreadClient

-----------------------------------------------------------------------------
(* Theorems.                                                               *)

(* Every step keeps the invariant.                                         *)
LEMMA NextClient ==
  ASSUME ClientInv, [Next]_vars
  PROVE  ClientInv'
<1>1. CASE Tick
  BY <1>1, TickClient
<1>2. CASE Main
  BY <1>2, StartClient, SingleClient, CreateClient, JoinClient, MergeClient, PrintClient DEF Main
<1>3. CASE \E t \in Thread : ThreadBody(t)
  BY <1>3, ConnectClient, LoopClient, OperationClient, FailClient DEF ThreadBody
<1>4. CASE UNCHANGED vars
  <2>1. UNCHANGED <<laptop_type, num_orders, now, main, k, timer, thread, done>>
    BY <1>4 DEF vars
  <2>2. ProcessTypes'
    BY <2>1 DEF ClientInv, ProcessTypes
  <2>3. Phases'
    BY <2>1 DEF ClientInv, Phases, Stats, OpsOfFirst, NewTimer
  <2> QED
    BY <2>1, <2>2, <2>3, SameThreads DEF ClientInv
<1> QED
  BY <1>1, <1>2, <1>3, <1>4 DEF Next

(* The invariant holds in every run of the client, whatever the calls of   *)
(* its stubs take and return.                                              *)
THEOREM ClientHolds == Spec => []ClientInv
<1>1. Init => ClientInv
  BY InitClient
<1>2. ClientInv /\ [Next]_vars => ClientInv'
  BY NextClient
<1> QED
  BY <1>1, <1>2, PTL DEF Spec

(* When the statistics are printed they are those of all operations.       *)
LEMMA AllMeasured ==
  ASSUME ClientInv, Printing
  PROVE  /\ Stats(timer, done) /\ Operations(done) /\ timer \in TimerRec
         /\ \A t \in Thread : /\ thread[t].at = "ended" /\ Stats(thread[t].timer, OpsOf(t)) /\ Operations(OpsOf(t))
                              /\ thread[t].timer.op_count = thread[t].i
                              /\ thread[t].timer.sum <= timer.elapsed_time
         /\ timer.sum <= NumCustomers * timer.elapsed_time
<1>1. main = "print" /\ k = NumCustomers
  BY DEF ClientInv, Phases, Printing
<1>2. OpsOfFirst(NumCustomers) = done
  BY OpsAre, Threads DEF ClientInv, OpsOfFirst
<1> QED
  BY <1>1, <1>2, OpsAre DEF ClientInv, ProcessTypes, Phases, Closing, Measured

(* What is printed is the number, sum, minimum and maximum of everything   *)
(* measured by any of the threads: EndAndMerge and Merge lose nothing and  *)
(* count nothing twice.                                                    *)
THEOREM PrintedStats == Spec => []StatsOfAllOperations
<1>1. ASSUME ClientInv PROVE StatsOfAllOperations
  <2>1. SUFFICES ASSUME Printing
                 PROVE  /\ timer.op_count = Cardinality(done)
                        /\ timer.sum = MapThenSumSet(LAMBDA d : d.took, done)
                        /\ timer.min = Min({d.took : d \in done} \cup {NoMin})
                        /\ timer.max = Max({d.took : d \in done} \cup {0})
    BY DEF StatsOfAllOperations
  <2>2. Stats(timer, done) /\ timer \in TimerRec /\ NoMin \in Nat /\ \A d \in done : d.took \in Nat
    BY <1>1, <2>1, AllMeasured, OperationsTimed
  <2>3. timer.op_count = Cardinality(done) /\ timer.sum = MapThenSumSet(LAMBDA d : d.took, done)
    BY <2>2, SumIsTook DEF Stats
  <2>4. PICK T : T = {d.took : d \in done}
    OBVIOUS
  <2>5. /\ timer.min \in T \cup {NoMin} /\ timer.max \in T \cup {0} /\ T \subseteq Nat
        /\ \A x \in T : timer.min <= x /\ x <= timer.max
        /\ timer.min <= NoMin /\ timer.min \in Nat /\ timer.max \in Nat
    BY <2>2, <2>4 DEF Stats, TimerRec
  <2>6. timer.min = Min(T \cup {NoMin})
    <3>1. \A y \in T \cup {NoMin} : timer.min <= y
      BY <2>5
    <3>2. ASSUME NEW x \in T \cup {NoMin}, \A y \in T \cup {NoMin} : x <= y PROVE x = timer.min
      <4>1. x \in Nat /\ x <= timer.min
        BY <2>2, <2>5, <3>2
      <4> QED
        BY <2>5, <3>1, <4>1
    <3> QED
      BY <2>5, <3>1, <3>2 DEF Min
  <2>7. timer.max = Max(T \cup {0})
    <3>1. \A y \in T \cup {0} : timer.max >= y
      BY <2>5
    <3>2. ASSUME NEW x \in T \cup {0}, \A y \in T \cup {0} : x >= y PROVE x = timer.max
      <4>1. x \in Nat /\ x >= timer.max
        BY <2>5, <3>2
      <4> QED
        BY <2>5, <3>1, <4>1
    <3> QED
      BY <2>5, <3>1, <3>2 DEF Max
  <2> QED
    BY <2>3, <2>4, <2>6, <2>7
<1> QED
  BY <1>1, ClientHolds, PTL

(* No operation took longer than the run, and the threads together not     *)
(* more than as many times the run: main's clock runs from before the      *)
(* first thread until all have been joined.                                *)
THEOREM StatsFitTheRun == Spec => []StatsWithinRun
<1>1. ASSUME ClientInv PROVE StatsWithinRun
  <2>1. SUFFICES ASSUME Printing
                 PROVE  timer.max <= timer.elapsed_time /\ timer.sum <= NumCustomers * timer.elapsed_time
    BY DEF StatsWithinRun
  <2>2. Stats(timer, done) /\ timer \in TimerRec
    BY <1>1, <2>1, AllMeasured
  <2>3. timer.max <= timer.elapsed_time
    <3>1. CASE timer.max = 0
      BY <2>2, <3>1 DEF TimerRec
    <3>2. CASE timer.max # 0
      <4>1. PICK d \in done : d.took = timer.max
        BY <2>2, <3>2 DEF Stats
      <4>2. PICK t \in Thread : t = d.thread /\ d \in OpsOf(t)
        BY <1>1, OpsAre DEF ClientInv, OpsOf
      <4>3. Operations(OpsOf(t)) /\ thread[t].timer.sum = Took(OpsOf(t)) /\ thread[t].timer.sum <= timer.elapsed_time
        BY <1>1, <2>1, AllMeasured DEF Stats
      <4>4. Timed(OpsOf(t))
        BY <4>3, OperationsTimed
      <4>5. d.took \in Nat /\ d.took <= Took(OpsOf(t)) /\ Took(OpsOf(t)) \in Nat
        BY <4>2, <4>4, OneOfSum, TookFacts
      <4>6. timer.elapsed_time \in Nat
        BY <2>2 DEF TimerRec
      <4> QED
        BY <4>1, <4>3, <4>5, <4>6
    <3> QED
      BY <3>1, <3>2
  <2> QED
    BY <1>1, <2>1, <2>3, AllMeasured
<1> QED
  BY <1>1, ClientHolds, PTL

(* The mean is one of no operations only if no orders were asked for, or   *)
(* every thread ended without a connection or, with laptop type 3, by its  *)
(* first read.                                                             *)
THEOREM MeanOfNothing == Spec => []NoMeanOnlyUnconnected
<1>1. ASSUME ClientInv PROVE NoMeanOnlyUnconnected
  <2>1. SUFFICES ASSUME Printing, timer.op_count = 0, NEW t \in Thread
                 PROVE  /\ thread[t].i = 0
                        /\ num_orders <= 0 \/ laptop_type = 3 \/ thread[t].timer = NewTimer
    BY DEF NoMeanOnlyUnconnected
  <2>2. done = {}
    <3>1. IsFiniteSet(done) /\ Cardinality(done) = 0
      BY <1>1, <2>1, AllMeasured DEF Stats, Operations
    <3> QED
      BY <3>1, FS_EmptySet
  <2>3. OpsOf(t) = {}
    BY <2>2 DEF OpsOf
  <2>4. thread[t].i = 0
    <3>1. Stats(thread[t].timer, OpsOf(t)) /\ thread[t].timer.op_count = thread[t].i
      BY <1>1, <2>1, AllMeasured
    <3> QED
      BY <2>3, <3>1, FS_EmptySet DEF Stats
  <2>5. ASSUME laptop_type # 3, ~(num_orders <= 0) PROVE thread[t].timer = NewTimer
    <3>1. thread[t].at = "ended"
      BY <1>1, <2>1, AllMeasured
    <3>2. thread[t].timer = NewTimer \/ thread[t].i >= num_orders
      BY <1>1, <2>5, <3>1 DEF ClientInv, Measured
    <3>3. num_orders \in Int
      BY <1>1, Threads DEF ClientInv, ProcessTypes
    <3>4. ~(thread[t].i >= num_orders)
      BY <2>4, <2>5, <3>3
    <3> QED
      BY <3>2, <3>4
  <2> QED
    BY <2>4, <2>5
<1> QED
  BY <1>1, ClientHolds, PTL

=============================================================================
