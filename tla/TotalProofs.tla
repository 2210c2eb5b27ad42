---------------------------- MODULE TotalProofs ----------------------------
(* Sums over finite sets and sequences: that the order in which Total takes   *)
(* the elements does not matter, and what a change of one of them, or the     *)
(* arrival of a new one, does to it; and spans of days, one after the other.  *)
EXTENDS Totals, FiniteSets, FiniteSetTheorems, Sequences, SequenceTheorems,
        WellFoundedInduction, TLAPS

(* Among the subsets of a finite set with some property, one has no smaller one *)
(* with it: the induction the lemmas below are proved by.                       *)
LEMMA SmallestSubset ==
    ASSUME NEW S, IsFiniteSet(S), NEW C, C \subseteq SUBSET S, C # {}
    PROVE  \E s \in C : \A t \in SUBSET s : t \in C => t = s
<1>1. FiniteSubsetsOf(S) = SUBSET S
  BY FS_FiniteSubsetsOfFinite
<1>2. IsWellFoundedOn(StrictSubsetOrdering(S), SUBSET S)
  BY <1>1, FS_StrictSubsetOrderingWellFounded
<1>3. PICK s \in C : \A t \in C : ~(<<t, s>> \in StrictSubsetOrdering(S))
  BY <1>2, WFMin
<1>4. ASSUME NEW t \in SUBSET s, t \in C, t # s PROVE FALSE
  BY <1>3, <1>4 DEF StrictSubsetOrdering
<1> QED BY <1>4

(* Total as the library defines it: a function g of subsets, which takes the *)
(* elements of each in an order of its own.                                  *)
TakenFirst(s) == CHOOSE x \in s : TRUE

SumStep(g, f, s) == IF s = {} THEN 0 ELSE f[TakenFirst(s)] + g[s \ {TakenFirst(s)}]

SumsOf(g, f, S) == g = [s \in SUBSET S |-> SumStep(g, f, s)]

PartialSum(f, S) == CHOOSE g : SumsOf(g, f, S)

(* The definition of Total in these terms. *)
LEMMA TotalIs == ASSUME NEW f PROVE Total(f) = PartialSum(f, DOMAIN f)[DOMAIN f]
  BY Zenon DEF Total, FoldFunction, FoldFunctionOnSet, MapThenFoldSet, TakenFirst, SumStep, SumsOf, PartialSum

(* An element taken from a set is one of its own. *)
LEMMA TakenIn == ASSUME NEW s, s # {} PROVE TakenFirst(s) \in s
  BY DEF TakenFirst

(* A set of natural numbers has a smallest element. *)
LEMMA SmallestNumber ==
    ASSUME NEW C, C \subseteq Nat, C # {}
    PROVE  \E n \in C : \A m \in C : n <= m
<1>. DEFINE Less == OpToRel(<, Nat)
<1>1. \A m, n \in Nat : m < n => <<m, n>> \in Less
  BY DEF OpToRel
<1>2. IsWellFoundedOn(Less, Nat)
  BY NatLessThanWellFounded, Zenon
<1>. HIDE DEF Less
<1>3. PICK n \in C : \A m \in C : <<m, n>> \notin Less
  BY <1>2, WFMin
<1>4. ASSUME NEW m \in C PROVE n <= m
  <2>1. m \in Nat /\ n \in Nat
    OBVIOUS
  <2>2. ~(m < n)
    BY <1>1, <1>3, <2>1
  <2> QED BY <2>1, <2>2
<1> QED BY <1>4

(* A finite set of integers has a greatest. *)
LEMMA GreatestNumber ==
    ASSUME NEW S, IsFiniteSet(S), \A x \in S : x \in Int, S # {}
    PROVE  \E x \in S : \A y \in S : y <= x
<1>. DEFINE Greatest(T) == \E x \in T : \A y \in T : y <= x
            C == {T \in SUBSET S : T # {} /\ ~Greatest(T)}
<1>1. C = {}
  <2>. SUFFICES ASSUME C # {} PROVE FALSE
    OBVIOUS
  <2>0. C \subseteq SUBSET S /\ \A T \in SUBSET S : T \in C <=> T # {} /\ ~Greatest(T)
    OBVIOUS
  <2>. HIDE DEF C, Greatest
  <2>1. PICK T \in C : \A U \in SUBSET T : U \in C => U = T
    BY <2>0, SmallestSubset
  <2>2. T \in SUBSET S /\ T # {} /\ ~Greatest(T)
    BY <2>0, <2>1
  <2>3. PICK x \in T : TRUE
    BY <2>2
  <2>. DEFINE U == T \ {x}
  <2>4. U \in SUBSET T /\ U # T /\ U \in SUBSET S /\ x \in Int
    BY <2>2, <2>3
  <2>5. CASE U = {}
    <3>1. \A y \in T : y <= x
      BY <2>3, <2>4, <2>5
    <3> QED BY <2>2, <2>3, <3>1 DEF Greatest
  <2>6. CASE U # {}
    <3>0. U \notin C
      BY <2>1, <2>4
    <3>1. Greatest(U)
      BY <2>0, <2>4, <2>6, <3>0
    <3>2. PICK m \in U : \A y \in U : y <= m
      BY <3>1 DEF Greatest
    <3>3. m \in Int /\ m \in T /\ \A y \in T : y \in Int /\ (y = x \/ y \in U)
      BY <2>2, <3>2
    <3>. HIDE DEF U
    <3>4. CASE x <= m
      BY <2>2, <3>2, <3>3, <3>4 DEF Greatest
    <3>5. CASE ~(x <= m)
      <4>1. \A y \in T : y <= x
        BY <2>4, <3>2, <3>3, <3>5
      <4> QED BY <2>2, <2>3, <4>1 DEF Greatest
    <3> QED BY <3>4, <3>5
  <2> QED BY <2>5, <2>6
<1> QED BY <1>1

(* The recursion reaches the whole set after as many rounds as it has elements. *)
LEMMA SumsExist ==
    ASSUME NEW S, IsFiniteSet(S), NEW f
    PROVE  \E g : SumsOf(g, f, S)
<1>. DEFINE Reached(g, n) == /\ g = [s \in SUBSET S |-> g[s]]
                             /\ \A s \in SUBSET S : Cardinality(s) <= n => g[s] = SumStep(g, f, s)
            C == {n \in Nat : \A g : ~Reached(g, n)}
<1>1. \A s \in SUBSET S : IsFiniteSet(s) /\ Cardinality(s) \in Nat
  BY FS_Subset, FS_CardinalityType
<1>2. C = {}
  <2>. SUFFICES ASSUME C # {} PROVE FALSE
    OBVIOUS
  <2>1. PICK n \in C : \A m \in C : n <= m
    BY SmallestNumber
  <2>2. CASE n = 0
    <3>. DEFINE g == [s \in SUBSET S |-> 0]
    <3>1. \A s \in SUBSET S : Cardinality(s) <= 0 => s = {}
      BY <1>1, FS_EmptySet
    <3>2. Reached(g, 0)
      BY <3>1 DEF SumStep
    <3> QED BY <2>1, <2>2, <3>2
  <2>3. CASE n # 0
    <3>. HIDE DEF C
    <3>0. n \in Nat
      BY <2>1 DEF C
    <3>5. n - 1 \in Nat /\ ~(n <= n - 1)
      BY <2>3, <3>0
    <3>1. n - 1 \in Nat /\ n - 1 \notin C
      BY <2>1, <3>5
    <3>. USE DEF C
    <3>2. PICK g : Reached(g, n - 1)
      BY <3>1
    <3>. DEFINE h == [s \in SUBSET S |-> SumStep(g, f, s)]
    <3>3. ASSUME NEW s \in SUBSET S, Cardinality(s) <= n PROVE h[s] = SumStep(h, f, s)
      <4>1. CASE s = {}
        BY <4>1 DEF SumStep
      <4>2. CASE s # {}
        <5>. DEFINE t == s \ {TakenFirst(s)}
        <5>1. TakenFirst(s) \in s /\ t \in SUBSET S
          BY <4>2, TakenIn
        <5>2. Cardinality(t) = Cardinality(s) - 1
          BY <1>1, <5>1, FS_RemoveElement
        <5>3. Cardinality(t) <= n - 1
          BY <1>1, <2>1, <3>3, <5>2
        <5>4. g[t] = SumStep(g, f, t)
          BY <3>2, <5>1, <5>3
        <5>5. h[t] = SumStep(g, f, t)
          BY <5>1
        <5> QED BY <4>2, <5>4, <5>5 DEF SumStep
      <4> QED BY <4>1, <4>2
    <3>4. Reached(h, n)
      BY <3>3
    <3> QED BY <2>1, <3>4
  <2> QED BY <2>2, <2>3
<1>3. PICK g : Reached(g, Cardinality(S))
  BY <1>1, <1>2
<1>4. \A s \in SUBSET S : g[s] = SumStep(g, f, s)
  BY <1>3, FS_Subset
<1>5. SumsOf(g, f, S)
  BY <1>3, <1>4 DEF SumsOf
<1> QED BY <1>5

(* Each partial sum is the element taken and the sum of the rest. *)
LEMMA PartialSums ==
    ASSUME NEW S, IsFiniteSet(S), NEW f, NEW s \in SUBSET S
    PROVE  PartialSum(f, S)[s] = IF s = {} THEN 0
                              ELSE f[TakenFirst(s)] + PartialSum(f, S)[s \ {TakenFirst(s)}]
<1>1. SumsOf(PartialSum(f, S), f, S)
  BY SumsExist DEF PartialSum
<1> QED BY <1>1 DEF SumsOf, SumStep

(* Integers sum to an integer. *)
LEMMA PartialType ==
    ASSUME NEW S, IsFiniteSet(S), NEW f, \A x \in S : f[x] \in Int, NEW s \in SUBSET S
    PROVE  PartialSum(f, S)[s] \in Int
<1>. DEFINE g == PartialSum(f, S)
            C == {t \in SUBSET S : g[t] \notin Int}
<1>1. \A t \in SUBSET S : g[t] = IF t = {} THEN 0 ELSE f[TakenFirst(t)] + g[t \ {TakenFirst(t)}]
  BY PartialSums
<1>. HIDE DEF g
<1>2. C = {}
  <2>. SUFFICES ASSUME C # {} PROVE FALSE
    OBVIOUS
  <2>0. C \subseteq SUBSET S /\ \A u \in SUBSET S : u \in C <=> g[u] \notin Int
    OBVIOUS
  <2>. HIDE DEF C
  <2>1. PICK t \in C : \A u \in SUBSET t : u \in C => u = t
    BY <2>0, SmallestSubset
  <2>2. CASE t = {}
    <3>1. t \in SUBSET S /\ g[t] \notin Int
      BY <2>0, <2>1
    <3>2. g[t] = 0
      BY <1>1, <2>2, <3>1
    <3> QED BY <3>1, <3>2
  <2>3. CASE t # {}
    <3>1. TakenFirst(t) \in t
      BY <2>3, TakenIn
    <3>2. g[t \ {TakenFirst(t)}] \in Int
      BY <2>0, <2>1, <3>1
    <3>3. t \in SUBSET S /\ f[TakenFirst(t)] \in Int /\ g[t] \notin Int
      BY <2>0, <2>1, <3>1
    <3>4. g[t] = f[TakenFirst(t)] + g[t \ {TakenFirst(t)}]
      BY <1>1, <2>3, <3>3
    <3> QED BY <3>2, <3>3, <3>4
  <2> QED BY <2>2, <2>3
<1> QED BY <1>2 DEF g

(* The order does not matter: any element can be taken first. *)
LEMMA AnyFirst ==
    ASSUME NEW S, IsFiniteSet(S), NEW f, \A x \in S : f[x] \in Int
    PROVE  \A s \in SUBSET S : \A x \in s :
               PartialSum(f, S)[s] = f[x] + PartialSum(f, S)[s \ {x}]
<1>. DEFINE g == PartialSum(f, S)
            C == {s \in SUBSET S : \E x \in s : g[s] # f[x] + g[s \ {x}]}
<1>1. \A s \in SUBSET S : /\ s # {} => g[s] = f[TakenFirst(s)] + g[s \ {TakenFirst(s)}]
                          /\ g[s] \in Int
  BY PartialSums, PartialType
<1>. HIDE DEF g
<1>2. C = {}
  <2>. SUFFICES ASSUME C # {} PROVE FALSE
    OBVIOUS
  <2>0. /\ C \subseteq SUBSET S
        /\ \A u \in SUBSET S : u \in C <=> \E y \in u : g[u] # f[y] + g[u \ {y}]
    OBVIOUS
  <2>. HIDE DEF C
  <2>1. PICK s \in C : \A u \in SUBSET s : u \in C => u = s
    BY <2>0, SmallestSubset
  <2>. s \in SUBSET S
    BY <2>0, <2>1
  <2>2. PICK x \in s : g[s] # f[x] + g[s \ {x}]
    BY <2>0, <2>1
  <2>. DEFINE p == TakenFirst(s)
  <2>3. p \in s
    BY TakenIn
  <2>4. g[s] = f[p] + g[s \ {p}]
    BY <1>1
  <2>. HIDE DEF p
  <2>5. x # p
    BY <2>2, <2>4
  <2>6. s \ {p} \in SUBSET s /\ s \ {p} # s /\ x \in s \ {p}
    BY <2>3, <2>5
  <2>7. g[s \ {p}] = f[x] + g[(s \ {p}) \ {x}]
    <3>1. s \ {p} \in SUBSET S /\ s \ {p} \notin C
      BY <2>1, <2>6
    <3>2. ~(\E y \in s \ {p} : g[s \ {p}] # f[y] + g[(s \ {p}) \ {y}])
      BY <2>0, <3>1
    <3> QED BY <2>6, <3>2
  <2>8. s \ {x} \in SUBSET s /\ s \ {x} # s /\ p \in s \ {x}
    BY <2>3, <2>5
  <2>9. g[s \ {x}] = f[p] + g[(s \ {x}) \ {p}]
    <3>1. s \ {x} \in SUBSET S /\ s \ {x} \notin C
      BY <2>1, <2>8
    <3>2. ~(\E y \in s \ {x} : g[s \ {x}] # f[y] + g[(s \ {x}) \ {y}])
      BY <2>0, <3>1
    <3> QED BY <2>8, <3>2
  <2>10. (s \ {x}) \ {p} = (s \ {p}) \ {x}
    OBVIOUS
  <2>. DEFINE n == g[(s \ {p}) \ {x}]
  <2>11. n \in Int /\ f[p] \in Int /\ f[x] \in Int
    BY <1>1, <2>3
  <2>12. g[s] = f[p] + (f[x] + n) /\ g[s \ {x}] = f[p] + n
    BY <2>4, <2>7, <2>9, <2>10
  <2>13. \A a, b, c \in Int : a + (b + c) = b + (a + c)
    OBVIOUS
  <2>. HIDE DEF n
  <2>14. g[s] = f[x] + g[s \ {x}]
    BY <2>11, <2>12, <2>13
  <2> QED BY <2>2, <2>14
<1> QED BY <1>2 DEF g

(* A partial sum depends on the values in its set only. *)
LEMMA SameValues ==
    ASSUME NEW S, IsFiniteSet(S), NEW T, IsFiniteSet(T), NEW f, NEW h,
           NEW s, s \subseteq S, s \subseteq T, \A x \in s : f[x] = h[x]
    PROVE  PartialSum(f, S)[s] = PartialSum(h, T)[s]
<1>. DEFINE g == PartialSum(f, S)
            k == PartialSum(h, T)
            C == {t \in SUBSET s : g[t] # k[t]}
<1>1. \A t \in SUBSET s : /\ g[t] = IF t = {} THEN 0 ELSE f[TakenFirst(t)] + g[t \ {TakenFirst(t)}]
                          /\ k[t] = IF t = {} THEN 0 ELSE h[TakenFirst(t)] + k[t \ {TakenFirst(t)}]
  <2>. TAKE t \in SUBSET s
  <2>1. t \in SUBSET S /\ t \in SUBSET T
    OBVIOUS
  <2>2. g[t] = IF t = {} THEN 0 ELSE f[TakenFirst(t)] + g[t \ {TakenFirst(t)}]
    BY <2>1, PartialSums, Zenon
  <2>3. k[t] = IF t = {} THEN 0 ELSE h[TakenFirst(t)] + k[t \ {TakenFirst(t)}]
    BY <2>1, PartialSums, Zenon
  <2> QED BY <2>2, <2>3
<1>. HIDE DEF g, k
<1>2. C = {}
  <2>. SUFFICES ASSUME C # {} PROVE FALSE
    OBVIOUS
  <2>0. /\ IsFiniteSet(s)
        /\ C \subseteq SUBSET s
        /\ \A u \in SUBSET s : u \in C <=> g[u] # k[u]
    BY FS_Subset
  <2>. HIDE DEF C
  <2>1. PICK t \in C : \A u \in SUBSET t : u \in C => u = t
    BY <2>0, SmallestSubset
  <2>2. CASE t = {}
    <3>1. t \in SUBSET s /\ g[t] # k[t]
      BY <2>0, <2>1
    <3>2. g[t] = 0 /\ k[t] = 0
      BY <1>1, <2>2, <3>1
    <3> QED BY <3>1, <3>2
  <2>3. CASE t # {}
    <3>1. TakenFirst(t) \in t
      BY <2>3, TakenIn
    <3>2. g[t \ {TakenFirst(t)}] = k[t \ {TakenFirst(t)}]
      BY <2>0, <2>1, <3>1
    <3> QED BY <1>1, <2>0, <2>1, <2>3, <3>1, <3>2
  <2> QED BY <2>2, <2>3
<1> QED BY <1>2 DEF g, k

-----------------------------------------------------------------------------
(* What the modules that sum need *)

(* A sum of integers is an integer. *)
LEMMA TotalType ==
    ASSUME NEW S, IsFiniteSet(S), NEW f \in [S -> Int]
    PROVE  Total(f) \in Int
<1>1. DOMAIN f = S /\ \A x \in S : f[x] \in Int
  OBVIOUS
<1> QED BY <1>1, TotalIs, PartialType

(* The sum of nothing is zero. *)
LEMMA TotalEmpty == ASSUME NEW f, DOMAIN f = {} PROVE Total(f) = 0
<1>1. IsFiniteSet({})
  BY FS_EmptySet
<1> QED BY <1>1, TotalIs, PartialSums

(* A sum is the value of any one element and the sum of the others. *)
LEMMA TotalSplit ==
    ASSUME NEW S, IsFiniteSet(S), NEW f \in [S -> Int], NEW x \in S
    PROVE  Total(f) = f[x] + Total([y \in S \ {x} |-> f[y]])
<1>. DEFINE T == S \ {x}
            h == [y \in T |-> f[y]]
<1>1. DOMAIN f = S /\ DOMAIN h = T /\ IsFiniteSet(T) /\ T \subseteq S
      /\ (\A y \in S : f[y] \in Int) /\ \A y \in T : f[y] = h[y]
  BY FS_Subset
<1>. HIDE DEF T, h
<1>2. Total(f) = PartialSum(f, S)[S] /\ Total(h) = PartialSum(h, T)[T]
  BY <1>1, TotalIs
<1>3. PartialSum(f, S)[S] = f[x] + PartialSum(f, S)[T]
  BY <1>1, AnyFirst DEF T
<1>4. PartialSum(f, S)[T] = PartialSum(h, T)[T]
  BY <1>1, SameValues
<1> QED BY <1>2, <1>3, <1>4 DEF T, h

(* The same, in the words of the library. *)
LEMMA TotalRest ==
    ASSUME NEW S, IsFiniteSet(S), NEW f \in [S -> Int], NEW x \in S
    PROVE  Total(f) = f[x] + Total(Restrict(f, S \ {x}))
<1>1. Total(f) = f[x] + Total([y \in S \ {x} |-> f[y]])
  BY TotalSplit, ZenonT(40)
<1> QED BY <1>1, Zenon DEF Restrict

(* Changing one value moves the sum by the difference. *)
LEMMA TotalMoved ==
    ASSUME NEW S, IsFiniteSet(S), NEW f \in [S -> Int], NEW h \in [S -> Int], NEW x \in S,
           \A y \in S \ {x} : h[y] = f[y]
    PROVE  Total(h) = Total(f) - f[x] + h[x]
<1>. DEFINE r == [y \in S \ {x} |-> f[y]]
<1>1. r = [y \in S \ {x} |-> h[y]]
  OBVIOUS
<1>2. IsFiniteSet(S \ {x}) /\ r \in [S \ {x} -> Int]
  BY FS_Subset
<1>. HIDE DEF r
<1>3. Total(r) \in Int
  BY <1>2, TotalType
<1>4. Total(f) = f[x] + Total(r) /\ Total(h) = h[x] + Total(r)
  BY <1>1, TotalSplit DEF r
<1>5. f[x] \in Int /\ h[x] \in Int
  OBVIOUS
<1>6. \A a, b, c \in Int : b + c = (a + c) - a + b
  OBVIOUS
<1> QED BY <1>3, <1>4, <1>5, <1>6

(* The partial sums of all subsets. *)
LEMMA AllPartialSums ==
    ASSUME NEW S, IsFiniteSet(S), NEW f
    PROVE  \A t \in SUBSET S :
               PartialSum(f, S)[t] =
                   IF t = {} THEN 0
                   ELSE f[TakenFirst(t)] + PartialSum(f, S)[t \ {TakenFirst(t)}]
  BY PartialSums

(* What is zero everywhere sums to zero. *)
LEMMA TotalZero ==
    ASSUME NEW S, IsFiniteSet(S), NEW f, f = [x \in S |-> 0]
    PROVE  Total(f) = 0
<1>. DEFINE g == PartialSum(f, S)
            C == {t \in SUBSET S : g[t] # 0}
<1>1. \A t \in SUBSET S : g[t] = IF t = {} THEN 0 ELSE f[TakenFirst(t)] + g[t \ {TakenFirst(t)}]
  BY AllPartialSums, ZenonT(40)
<1>2. Total(f) = g[S]
  BY TotalIs
<1>. HIDE DEF g
<1>3. C = {}
  <2>. SUFFICES ASSUME C # {} PROVE FALSE
    OBVIOUS
  <2>0. C \subseteq SUBSET S /\ \A u \in SUBSET S : u \in C <=> g[u] # 0
    OBVIOUS
  <2>. HIDE DEF C
  <2>1. PICK t \in C : \A u \in SUBSET t : u \in C => u = t
    BY <2>0, SmallestSubset
  <2>2. CASE t = {}
    BY <1>1, <2>0, <2>1, <2>2
  <2>3. CASE t # {}
    <3>1. TakenFirst(t) \in t /\ f[TakenFirst(t)] = 0
      BY <2>0, <2>1, <2>3, TakenIn
    <3>2. g[t \ {TakenFirst(t)}] = 0
      BY <2>0, <2>1, <3>1
    <3> QED BY <1>1, <2>0, <2>1, <2>3, <3>1, <3>2
  <2> QED BY <2>2, <2>3
<1> QED BY <1>2, <1>3

(* Appending to a sequence adds to its sum. *)
LEMMA TotalAppend ==
    ASSUME NEW s \in Seq(Int), NEW n \in Int
    PROVE  /\ Total(s) \in Int
           /\ Total(Append(s, n)) = Total(s) + n
<1>. DEFINE t == Append(s, n)
            S == 1 .. Len(s) + 1
<1>1. /\ t \in Seq(Int) /\ Len(t) = Len(s) + 1
      /\ \A i \in 1 .. Len(s) : t[i] = s[i]
      /\ t[Len(s) + 1] = n
  BY AppendProperties
<1>2. Len(s) \in Nat
  OBVIOUS
<1>3. IsFiniteSet(1 .. Len(s)) /\ IsFiniteSet(S)
  BY <1>2, FS_Interval
<1>4. s \in [1 .. Len(s) -> Int] /\ t \in [S -> Int]
  <2>1. \A u \in Seq(Int) : u \in [1 .. Len(u) -> Int]
    OBVIOUS
  <2> QED BY <1>1, <2>1
<1>5. S \ {Len(s) + 1} = 1 .. Len(s)
  BY <1>2
<1>6. [i \in 1 .. Len(s) |-> t[i]] = s
  BY <1>1, <1>4
<1>. HIDE DEF t
<1>7. Total(s) \in Int
  BY <1>3, <1>4, TotalType
<1>8. Len(s) + 1 \in S
  BY <1>2
<1>. HIDE DEF S
<1>9. Total(t) = t[Len(s) + 1] + Total([i \in S \ {Len(s) + 1} |-> t[i]])
  <2>. DEFINE last == Len(s) + 1
  <2>1. last \in S /\ IsFiniteSet(S) /\ t \in [S -> Int]
    BY <1>3, <1>4, <1>8
  <2>. HIDE DEF last
  <2>2. Total(t) = t[last] + Total([i \in S \ {last} |-> t[i]])
    BY <2>1, TotalSplit, ZenonT(40)
  <2> QED BY <2>2 DEF last
<1>10. [i \in S \ {Len(s) + 1} |-> t[i]] = s
  BY <1>5, <1>6
<1>. DEFINE whole == Total(t)
            part == Total(s)
<1>11. whole = n + part /\ part \in Int
  BY <1>1, <1>7, <1>9, <1>10
<1>. HIDE DEF whole, part
<1>12. whole = part + n
  BY <1>11
<1> QED BY <1>7, <1>12 DEF t, whole, part

(* The values of a function under other names. *)
Reindexed(f, b) == [x \in DOMAIN b |-> f[b[x]]]

(* A sum does not depend on what its values are indexed by. *)
LEMMA TotalReindexed ==
    ASSUME NEW S, IsFiniteSet(S), NEW T, IsFiniteSet(T), NEW f \in [T -> Int],
           NEW b \in Bijection(S, T)
    PROVE  Total(Reindexed(f, b)) = Total(f)
<1>0. /\ b \in [S -> T]
      /\ \A x, y \in S : b[x] = b[y] => x = y
      /\ \A z \in T : \E x \in S : b[x] = z
  BY DEF Bijection, Injection, Surjection, IsInjective
<1>. DEFINE Image(u) == {b[x] : x \in u}
            h(u) == [x \in u |-> f[b[x]]]
            k(u) == [z \in Image(u) |-> f[z]]
            C == {u \in SUBSET S : Total(h(u)) # Total(k(u))}
<1>1. \A u \in SUBSET S : /\ IsFiniteSet(u) /\ IsFiniteSet(Image(u)) /\ Image(u) \subseteq T
                          /\ h(u) \in [u -> Int] /\ k(u) \in [Image(u) -> Int]
  <2>. SUFFICES ASSUME NEW u \in SUBSET S
                PROVE  /\ IsFiniteSet(u) /\ IsFiniteSet(Image(u)) /\ Image(u) \subseteq T
                       /\ h(u) \in [u -> Int] /\ k(u) \in [Image(u) -> Int]
    OBVIOUS
  <2>1. Image(u) \subseteq T
    BY <1>0
  <2>2. h(u) \in [u -> Int] /\ k(u) \in [Image(u) -> Int]
    BY <1>0, <2>1
  <2> QED BY <2>1, <2>2, FS_Subset
<1>2. C = {}
  <2>. SUFFICES ASSUME C # {} PROVE FALSE
    OBVIOUS
  <2>0. C \subseteq SUBSET S /\ \A u \in SUBSET S : u \in C <=> Total(h(u)) # Total(k(u))
    OBVIOUS
  <2>. HIDE DEF C
  <2>1. PICK u \in C : \A v \in SUBSET u : v \in C => v = u
    BY <2>0, SmallestSubset
  <2>2. u \in SUBSET S /\ Total(h(u)) # Total(k(u))
    BY <2>0, <2>1
  <2>3. CASE u = {}
    <3>1. DOMAIN h(u) = {} /\ DOMAIN k(u) = {}
      BY <2>3
    <3>2. Total(h(u)) = 0 /\ Total(k(u)) = 0
      BY <3>1, TotalEmpty
    <3> QED BY <2>2, <3>2
  <2>4. CASE u # {}
    <3>1. PICK x \in u : TRUE
      BY <2>4
    <3>. DEFINE v == u \ {x}
    <3>2. v \in SUBSET u /\ v # u /\ v \in SUBSET S /\ x \in S /\ b[x] \in Image(u)
      BY <2>2, <3>1
    <3>3. Total(h(v)) = Total(k(v))
      BY <2>0, <2>1, <3>2
    <3>4. Image(u) \ {b[x]} = Image(v)
      BY <1>0, <2>2, <3>1
    <3>5. [y \in u \ {x} |-> h(u)[y]] = h(v)
      OBVIOUS
    <3>6. [z \in Image(u) \ {b[x]} |-> k(u)[z]] = k(v)
      BY <3>4
    <3>7. h(u)[x] = f[b[x]] /\ k(u)[b[x]] = f[b[x]]
      BY <3>1, <3>2
    <3>8. /\ IsFiniteSet(u) /\ h(u) \in [u -> Int]
          /\ IsFiniteSet(Image(u)) /\ k(u) \in [Image(u) -> Int] /\ b[x] \in Image(u)
      BY <1>1, <2>2, <3>2
    <3>. DEFINE hu == h(u)
                ku == k(u)
                iu == Image(u)
                bx == b[x]
                hv == h(v)
                kv == k(v)
    <3>9. /\ IsFiniteSet(u) /\ hu \in [u -> Int]
          /\ IsFiniteSet(iu) /\ ku \in [iu -> Int] /\ bx \in iu
      BY <3>8
    <3>. HIDE DEF hu, ku, iu, bx
    <3>10. hv = Restrict(hu, u \ {x}) /\ kv = Restrict(ku, iu \ {bx})
      <4>1. hv = [y \in u \ {x} |-> h(u)[y]] /\ kv = [z \in Image(u) \ {b[x]} |-> k(u)[z]]
        BY <3>5, <3>6
      <4>. HIDE DEF h, k, Image, hv, kv
      <4> QED BY <4>1 DEF hu, ku, iu, bx, Restrict
    <3>. HIDE DEF hv, kv
    <3>11. Total(hu) = hu[x] + Total(Restrict(hu, u \ {x}))
      BY <3>1, <3>9, TotalRest, ZenonT(40)
    <3>12. Total(ku) = ku[bx] + Total(Restrict(ku, iu \ {bx}))
      BY <3>9, TotalRest, ZenonT(40)
    <3>13. hu[x] = ku[bx] /\ Total(hv) = Total(kv)
      BY <3>3, <3>7 DEF hu, ku, hv, kv, bx
    <3> QED BY <2>2, <3>10, <3>11, <3>12, <3>13 DEF hu, ku
  <2> QED BY <2>3, <2>4
<1>3. Image(S) = T
  BY <1>0
<1>4. k(S) = f /\ h(S) = Reindexed(f, b)
  BY <1>0, <1>3 DEF Reindexed
<1> QED BY <1>2, <1>4

(* What is inserted into a list adds to its sum. *)
LEMMA TotalInserted ==
    ASSUME NEW n \in Nat, NEW f \in [1 .. n -> Int], NEW g \in [1 .. n + 1 -> Int],
           NEW p \in 1 .. n + 1,
           \A i \in 1 .. p - 1 : g[i] = f[i],
           \A i \in p + 1 .. n + 1 : g[i] = f[i - 1]
    PROVE  Total(g) = Total(f) + g[p] /\ Total(f) \in Int /\ g[p] \in Int
<1>. DEFINE S == (1 .. n + 1) \ {p}
            b == [i \in S |-> IF i < p THEN i ELSE i - 1]
            r == [i \in S |-> f[b[i]]]
<1>1. IsFiniteSet(1 .. n) /\ IsFiniteSet(1 .. n + 1) /\ IsFiniteSet(S)
  <2>1. n + 1 \in Int /\ n \in Int /\ 1 \in Int
    OBVIOUS
  <2>2. IsFiniteSet(1 .. n) /\ IsFiniteSet(1 .. n + 1)
    BY <2>1, FS_Interval
  <2> QED BY <2>2, FS_Subset
<1>2. b \in [S -> 1 .. n] /\ \A i, j \in S : b[i] = b[j] => i = j
  OBVIOUS
<1>3. \A z \in 1 .. n : \E i \in S : b[i] = z
  <2>. TAKE z \in 1 .. n
  <2>1. CASE z < p
    <3>1. z \in S /\ b[z] = z
      BY <2>1
    <3> QED BY <3>1
  <2>2. CASE ~(z < p)
    <3>1. z + 1 \in S /\ b[z + 1] = z
      BY <2>2
    <3> QED BY <3>1
  <2> QED BY <2>1, <2>2
<1>4. \A i \in S : g[i] = f[b[i]]
  OBVIOUS
<1>5. [i \in S |-> g[i]] = r
  BY <1>4
<1>6. Total(r) = Total(f)
  <2>. DEFINE T == 1 .. n
  <2>1. IsFiniteSet(S) /\ IsFiniteSet(T) /\ f \in [T -> Int] /\ b \in Bijection(S, T)
    BY <1>1, <1>2, <1>3 DEF Bijection, Injection, Surjection, IsInjective
  <2>. HIDE DEF S, T, b, r
  <2>2. Total(Reindexed(f, b)) = Total(f)
    BY <2>1, TotalReindexed, SMTT(60)
  <2>3. Reindexed(f, b) = r
    BY <1>2 DEF Reindexed, r
  <2> QED BY <2>2, <2>3
<1>7. Total(f) \in Int /\ g[p] \in Int
  BY <1>1, TotalType
<1>8. Total(g) = g[p] + Total(r)
  <2>. DEFINE T == 1 .. n + 1
  <2>1. IsFiniteSet(T) /\ g \in [T -> Int] /\ p \in T /\ r = Restrict(g, T \ {p})
    BY <1>1, <1>4 DEF Restrict
  <2>. HIDE DEF T, r
  <2>2. Total(g) = g[p] + Total(Restrict(g, T \ {p}))
    BY <2>1, TotalRest, ZenonT(40)
  <2> QED BY <2>1, <2>2
<1>. DEFINE whole == Total(g)
            part == Total(f)
            x == g[p]
<1>9. whole = x + part /\ part \in Int /\ x \in Int
  BY <1>6, <1>7, <1>8
<1>. HIDE DEF whole, part, x
<1>10. whole = part + x
  BY <1>9
<1> QED BY <1>7, <1>10 DEF whole, part, x

(* A sum of natural numbers is one. *)
LEMMA TotalNatural ==
    ASSUME NEW S, IsFiniteSet(S), NEW f \in [S -> Nat]
    PROVE  Total(f) \in Nat
<1>. DEFINE h(u) == [x \in u |-> f[x]]
            C == {u \in SUBSET S : Total(h(u)) \notin Nat}
<1>1. \A u \in SUBSET S : IsFiniteSet(u) /\ h(u) \in [u -> Int]
  BY FS_Subset
<1>2. C = {}
  <2>. SUFFICES ASSUME C # {} PROVE FALSE
    OBVIOUS
  <2>0. C \subseteq SUBSET S /\ \A u \in SUBSET S : u \in C <=> Total(h(u)) \notin Nat
    OBVIOUS
  <2>. HIDE DEF C
  <2>1. PICK u \in C : \A v \in SUBSET u : v \in C => v = u
    BY <2>0, SmallestSubset
  <2>2. u \in SUBSET S /\ Total(h(u)) \notin Nat
    BY <2>0, <2>1
  <2>3. CASE u = {}
    <3>1. DOMAIN h(u) = {}
      BY <2>3
    <3>2. Total(h(u)) = 0
      BY <3>1, TotalEmpty
    <3> QED BY <2>2, <3>2
  <2>4. CASE u # {}
    <3>1. PICK x \in u : TRUE
      BY <2>4
    <3>. DEFINE v == u \ {x}
    <3>2. v \in SUBSET u /\ v # u /\ v \in SUBSET S
      BY <2>2, <3>1
    <3>3. Total(h(v)) \in Nat
      BY <2>0, <2>1, <3>2
    <3>4. [y \in u \ {x} |-> h(u)[y]] = h(v) /\ h(u)[x] \in Nat
      BY <2>2, <3>1
    <3>. DEFINE hu == h(u)
                hv == h(v)
    <3>5. IsFiniteSet(u) /\ hu \in [u -> Int]
      BY <1>1, <2>2
    <3>6. hv = Restrict(hu, u \ {x})
      BY <3>4 DEF Restrict
    <3>. HIDE DEF hu, hv
    <3>7. Total(hu) = hu[x] + Total(hv)
      BY <3>1, <3>5, <3>6, TotalRest
    <3>8. hu[x] \in Nat /\ Total(hv) \in Nat
      BY <3>3, <3>4 DEF hu, hv
    <3>9. Total(hu) \in Nat
      BY <3>7, <3>8
    <3> QED BY <2>2, <3>9 DEF hu
  <2> QED BY <2>3, <2>4
<1>3. h(S) = f
  OBVIOUS
<1> QED BY <1>2, <1>3

-----------------------------------------------------------------------------
(* Remainders, of numbers that wrap *)

(* Division leaves a remainder smaller than the divisor. *)
LEMMA Division ==
    ASSUME NEW x \in Int, NEW m \in Nat \ {0}
    PROVE  /\ x \div m \in Int
           /\ x % m \in 0 .. m - 1
           /\ x = m * (x \div m) + (x % m)
  OBVIOUS

(* A multiple has no remainder. *)
LEMMA MultipleHasNoRemainder ==
    ASSUME NEW k \in Int, NEW m \in Nat \ {0}
    PROVE  (m * k) % m = 0
<1>. DEFINE q == (m * k) \div m
            r == (m * k) % m
<1>1. q \in Int /\ r \in 0 .. m - 1 /\ m * k = m * q + r
  <2>1. m * k \in Int
    OBVIOUS
  <2> QED BY <2>1, Division
<1>. HIDE DEF q, r
<1>2. m * (k - q) = r
  BY <1>1
<1>3. CASE k - q >= 1
  BY <1>1, <1>2, <1>3
<1>4. CASE k - q <= -1
  BY <1>1, <1>2, <1>4
<1>5. CASE k = q
  BY <1>1, <1>5
<1>6. k - q >= 1 \/ k - q <= -1 \/ k = q
  BY <1>1
<1> QED BY <1>3, <1>4, <1>5, <1>6 DEF r

(* Adding a number and taking off its remainder keeps a multiple a multiple. *)
LEMMA RemainderTakenOff ==
    ASSUME NEW m \in Nat \ {0}, NEW n \in Int, n % m = 0, NEW x \in Int
    PROVE  (n + x - (x % m)) % m = 0
<1>. DEFINE j == n \div m
            k == x \div m
            r == x % m
<1>1. j \in Int /\ k \in Int /\ r \in Int /\ n = m * j + (n % m) /\ x = m * k + r
  BY Division
<1>. HIDE DEF j, k, r
<1>2. n = m * j
  BY <1>1
<1>3. n + x - r = m * (j + k)
  BY <1>1, <1>2
<1>4. (m * (j + k)) % m = 0
  BY <1>1, MultipleHasNoRemainder
<1>5. (n + x - r) % m = 0
  BY <1>3, <1>4
<1> QED BY <1>5 DEF r

-----------------------------------------------------------------------------
(* Sums of sums, and of parts *)

(* The sum of the sums of two functions is the sum of their sums. *)
LEMMA TotalPlus ==
    ASSUME NEW S, IsFiniteSet(S), NEW f \in [S -> Int], NEW g \in [S -> Int], NEW h \in [S -> Int],
           \A x \in S : h[x] = f[x] + g[x]
    PROVE  /\ Total(f) \in Int /\ Total(g) \in Int /\ Total(h) \in Int
           /\ Total(h) = Total(f) + Total(g)
<1>. DEFINE pf == PartialSum(f, S)
            pg == PartialSum(g, S)
            ph == PartialSum(h, S)
            C == {t \in SUBSET S : ph[t] # pf[t] + pg[t]}
<1>1. \A t \in SUBSET S :
          /\ pf[t] = IF t = {} THEN 0 ELSE f[TakenFirst(t)] + pf[t \ {TakenFirst(t)}]
          /\ pg[t] = IF t = {} THEN 0 ELSE g[TakenFirst(t)] + pg[t \ {TakenFirst(t)}]
          /\ ph[t] = IF t = {} THEN 0 ELSE h[TakenFirst(t)] + ph[t \ {TakenFirst(t)}]
  <2>1. \A t \in SUBSET S :
            pf[t] = IF t = {} THEN 0 ELSE f[TakenFirst(t)] + pf[t \ {TakenFirst(t)}]
    BY AllPartialSums, ZenonT(40)
  <2>2. \A t \in SUBSET S :
            pg[t] = IF t = {} THEN 0 ELSE g[TakenFirst(t)] + pg[t \ {TakenFirst(t)}]
    BY AllPartialSums, ZenonT(40)
  <2>3. \A t \in SUBSET S :
            ph[t] = IF t = {} THEN 0 ELSE h[TakenFirst(t)] + ph[t \ {TakenFirst(t)}]
    BY AllPartialSums, ZenonT(40)
  <2>. HIDE DEF pf, pg, ph
  <2> QED BY <2>1, <2>2, <2>3
<1>2. \A t \in SUBSET S : pf[t] \in Int /\ pg[t] \in Int
  <2>1. (\A x \in S : f[x] \in Int) /\ \A x \in S : g[x] \in Int
    OBVIOUS
  <2> QED BY <2>1, PartialType
<1>3. Total(f) = pf[S] /\ Total(g) = pg[S] /\ Total(h) = ph[S]
  BY TotalIs
<1>4. \A x \in S : f[x] \in Int /\ g[x] \in Int /\ h[x] = f[x] + g[x]
  OBVIOUS
<1>. HIDE DEF pf, pg, ph
<1>5. C = {}
  <2>. SUFFICES ASSUME C # {} PROVE FALSE
    OBVIOUS
  <2>0. C \subseteq SUBSET S /\ \A u \in SUBSET S : u \in C <=> ph[u] # pf[u] + pg[u]
    OBVIOUS
  <2>. HIDE DEF C
  <2>1. PICK t \in C : \A u \in SUBSET t : u \in C => u = t
    BY <2>0, SmallestSubset
  <2>2. CASE t = {}
    <3>1. pf[t] = 0 /\ pg[t] = 0 /\ ph[t] = 0
      BY <1>1, <2>0, <2>1, <2>2
    <3>2. ph[t] # pf[t] + pg[t]
      BY <2>0, <2>1
    <3> QED BY <3>1, <3>2
  <2>3. CASE t # {}
    <3>. DEFINE x == TakenFirst(t)
                r == t \ {x}
    <3>1. x \in t /\ x \in S /\ r \in SUBSET S /\ r \in SUBSET t /\ r # t
      BY <2>0, <2>1, <2>3, TakenIn
    <3>2. pf[t] = f[x] + pf[r] /\ pg[t] = g[x] + pg[r] /\ ph[t] = h[x] + ph[r]
      BY <1>1, <2>0, <2>1, <2>3
    <3>. HIDE DEF x, r
    <3>3. ph[r] = pf[r] + pg[r]
      BY <2>0, <2>1, <3>1
    <3>4. ph[t] # pf[t] + pg[t]
      BY <2>0, <2>1
    <3>5. \A a, b, c, d \in Int : (a + b) + (c + d) = (a + c) + (b + d)
      OBVIOUS
    <3> QED BY <1>2, <1>4, <3>1, <3>2, <3>3, <3>4, <3>5
  <2> QED BY <2>2, <2>3
<1>6. Total(h) = Total(f) + Total(g)
  BY <1>3, <1>5
<1> QED BY <1>6, TotalType

(* The same of all functions at once. *)
LEMMA TotalsPlus ==
    ASSUME NEW S, IsFiniteSet(S)
    PROVE  \A f, g, h \in [S -> Int] :
               (\A x \in S : h[x] = f[x] + g[x])
               => /\ Total(f) \in Int /\ Total(g) \in Int /\ Total(h) \in Int
                  /\ Total(h) = Total(f) + Total(g)
BY TotalPlus

(* What is zero outside a set sums to what it sums to inside. *)
LEMMA TotalWithin ==
    ASSUME NEW S, IsFiniteSet(S), NEW f \in [S -> Int], NEW T, T \subseteq S,
           \A x \in S \ T : f[x] = 0
    PROVE  Total(f) = Total([x \in T |-> f[x]])
<1>. DEFINE h(t) == [x \in t |-> f[x]]
            C == {t \in SUBSET S : T \subseteq t /\ Total(h(t)) # Total(h(T))}
<1>1. C = {}
  <2>. SUFFICES ASSUME C # {} PROVE FALSE
    OBVIOUS
  <2>0. /\ C \subseteq SUBSET S
        /\ \A u \in SUBSET S : u \in C <=> T \subseteq u /\ Total(h(u)) # Total(h(T))
    OBVIOUS
  <2>. HIDE DEF C
  <2>1. PICK t \in C : \A u \in SUBSET t : u \in C => u = t
    BY <2>0, SmallestSubset
  <2>2. t \in SUBSET S /\ T \subseteq t /\ Total(h(t)) # Total(h(T))
    BY <2>0
  <2>3. PICK x \in t : x \notin T
    BY <2>2
  <2>4. x \in S /\ f[x] = 0 /\ t \ {x} \in SUBSET S /\ t \ {x} \in SUBSET t /\ t \ {x} # t
        /\ T \subseteq t \ {x} /\ IsFiniteSet(t) /\ IsFiniteSet(t \ {x})
    BY <2>2, <2>3, FS_Subset
  <2>5. Total(h(t \ {x})) = Total(h(T))
    BY <2>0, <2>1, <2>4
  <2>6. h(t) \in [t -> Int] /\ h(t)[x] = 0 /\ [y \in t \ {x} |-> h(t)[y]] = h(t \ {x})
        /\ h(t \ {x}) \in [t \ {x} -> Int]
    BY <2>2, <2>4
  <2>. HIDE DEF h
  <2>7. Total(h(t)) = h(t)[x] + Total([y \in t \ {x} |-> h(t)[y]])
    BY <2>4, <2>6, TotalSplit
  <2>8. Total(h(t \ {x})) \in Int
    BY <2>4, <2>6, TotalType
  <2>9. Total(h(t)) = Total(h(t \ {x}))
    BY <2>6, <2>7, <2>8
  <2> QED BY <2>2, <2>5, <2>9
<1>2. Total(h(S)) = Total(h(T))
  BY <1>1
<1>3. f = h(S)
  OBVIOUS
<1> QED BY <1>2, <1>3

(* A sum over two sets that share nothing is the sum over each. *)
LEMMA TotalUnion ==
    ASSUME NEW S, IsFiniteSet(S), NEW T, IsFiniteSet(T), S \cap T = {}, NEW U, U = S \cup T
    PROVE  \A f \in [U -> Int], g \in [S -> Int], h \in [T -> Int] :
               (\A x \in S : g[x] = f[x]) /\ (\A x \in T : h[x] = f[x])
               => Total(g) \in Int /\ Total(h) \in Int /\ Total(f) = Total(g) + Total(h)
<1>. SUFFICES ASSUME NEW f \in [U -> Int],
                     NEW g \in [S -> Int], \A x \in S : g[x] = f[x],
                     NEW h \in [T -> Int], \A x \in T : h[x] = f[x]
              PROVE  Total(g) \in Int /\ Total(h) \in Int /\ Total(f) = Total(g) + Total(h)
  OBVIOUS
<1>. DEFINE k == [x \in U |-> IF x \in S THEN f[x] ELSE 0]
            l == [x \in U |-> IF x \in T THEN f[x] ELSE 0]
<1>0. /\ IsFiniteSet(U) /\ S \subseteq U /\ T \subseteq U
      /\ \A x \in U : x \in S <=> x \notin T
  BY FS_Union
<1>1. k \in [U -> Int] /\ l \in [U -> Int]
  <2>1. f \in [U -> Int] /\ \A x \in U : f[x] \in Int
    OBVIOUS
  <2> QED BY <2>1
<1>2. \A x \in U : f[x] = k[x] + l[x]
  BY <1>0
<1>3. (\A x \in U \ S : k[x] = 0) /\ \A x \in U \ T : l[x] = 0
  OBVIOUS
<1>4. [x \in S |-> k[x]] = g /\ [x \in T |-> l[x]] = h
  BY <1>0
<1>. HIDE DEF k, l
<1>5. /\ Total(k) \in Int /\ Total(l) \in Int
      /\ Total(f) = Total(k) + Total(l)
  BY <1>0, <1>1, <1>2, TotalPlus
<1>6. Total(k) = Total([x \in S |-> k[x]]) /\ Total(l) = Total([x \in T |-> l[x]])
  BY <1>0, <1>1, <1>3, TotalWithin
<1> QED BY <1>4, <1>5, <1>6

(* One of the two may be counted by other indices. *)
LEMMA TotalBeside ==
    ASSUME NEW S, IsFiniteSet(S), NEW T, IsFiniteSet(T), S \cap T = {}, NEW U, U = S \cup T,
           NEW R, IsFiniteSet(R), NEW b \in Bijection(R, T)
    PROVE  \A f \in [S -> Int], g \in [R -> Int], h \in [U -> Int] :
               (\A x \in S : h[x] = f[x]) /\ (\A x \in R : h[b[x]] = g[x])
               => Total(f) \in Int /\ Total(g) \in Int /\ Total(h) = Total(f) + Total(g)
<1>. SUFFICES ASSUME NEW f \in [S -> Int], NEW g \in [R -> Int], NEW h \in [U -> Int],
                     \A x \in S : h[x] = f[x], \A x \in R : h[b[x]] = g[x]
              PROVE  Total(f) \in Int /\ Total(g) \in Int /\ Total(h) = Total(f) + Total(g)
  OBVIOUS
<1>. DEFINE q == [x \in T |-> h[x]]
<1>1. q \in [T -> Int] /\ \A x \in T : q[x] = h[x]
  OBVIOUS
<1>2. Reindexed(q, b) = g
  <2>1. Reindexed(q, b) = [x \in R |-> q[b[x]]] /\ \A x \in R : b[x] \in T
    BY DEF Reindexed, Bijection, Injection
  <2>2. g = [x \in R |-> g[x]]
    OBVIOUS
  <2> QED BY <1>1, <2>1, <2>2
<1>. HIDE DEF q
<1>3. \A i \in [U -> Int], j \in [S -> Int], k \in [T -> Int] :
          (\A x \in S : j[x] = i[x]) /\ (\A x \in T : k[x] = i[x])
          => Total(j) \in Int /\ Total(k) \in Int /\ Total(i) = Total(j) + Total(k)
  BY TotalUnion
<1>4. Total(f) \in Int /\ Total(q) \in Int /\ Total(h) = Total(f) + Total(q)
  <2>1. (\A x \in S : f[x] = h[x]) /\ \A x \in T : q[x] = h[x]
    BY <1>1
  <2>2. \A j \in [S -> Int], k \in [T -> Int] :
            (\A x \in S : j[x] = h[x]) /\ (\A x \in T : k[x] = h[x])
            => Total(j) \in Int /\ Total(k) \in Int /\ Total(h) = Total(j) + Total(k)
    BY <1>3, Zenon
  <2> QED BY <1>1, <2>1, <2>2, Zenon
<1>5. Total(q) = Total(g)
  BY <1>1, <1>2, TotalReindexed
<1> QED BY <1>4, <1>5

(* A sum of values in a row is the sum of the first ones and that of the others. *)
LEMMA TotalRow ==
    ASSUME NEW m \in Nat, NEW n \in Nat
    PROVE  \A f \in [1 .. m -> Int], g \in [1 .. n -> Int], h \in [1 .. m + n -> Int] :
               (\A i \in 1 .. m : h[i] = f[i]) /\ (\A i \in 1 .. n : h[i + m] = g[i])
               => Total(f) \in Int /\ Total(g) \in Int /\ Total(h) = Total(f) + Total(g)
<1>. DEFINE A == 1 .. m
            B == m + 1 .. m + n
            C == 1 .. n
            U == 1 .. m + n
            b == [i \in C |-> i + m]
<1>1. IsFiniteSet(A) /\ IsFiniteSet(B) /\ IsFiniteSet(C) /\ IsFiniteSet(U)
  <2>1. m \in Int /\ n \in Int /\ m + 1 \in Int /\ m + n \in Int /\ 1 \in Int
    OBVIOUS
  <2>2. \A x, y \in Int : IsFiniteSet(x .. y)
    BY FS_Interval
  <2> QED BY <2>1, <2>2
<1>2. A \cap B = {} /\ U = A \cup B
  OBVIOUS
<1>3. \A i \in C : i + m \in B /\ b[i] = i + m
  OBVIOUS
<1>4. b \in Bijection(C, B)
  <2>1. b \in [C -> B]
    BY <1>3
  <2>2. \A i, j \in C : b[i] = b[j] => i = j
    OBVIOUS
  <2>3. \A z \in B : \E i \in C : b[i] = z
    <3>. TAKE z \in B
    <3>1. z - m \in C /\ z - m + m = z
      OBVIOUS
    <3> QED BY <3>1
  <2>. HIDE DEF b, A, B, C
  <2> QED BY <2>1, <2>2, <2>3 DEF Bijection, Injection, Surjection, IsInjective
<1>. HIDE DEF A, B, C, U, b
<1>5. \A f \in [A -> Int], g \in [C -> Int], h \in [U -> Int] :
          (\A x \in A : h[x] = f[x]) /\ (\A x \in C : h[b[x]] = g[x])
          => Total(f) \in Int /\ Total(g) \in Int /\ Total(h) = Total(f) + Total(g)
  BY <1>1, <1>2, <1>4, TotalBeside
<1>6. \A f \in [A -> Int], g \in [C -> Int], h \in [U -> Int] :
          (\A x \in A : h[x] = f[x]) /\ (\A x \in C : h[x + m] = g[x])
          => Total(f) \in Int /\ Total(g) \in Int /\ Total(h) = Total(f) + Total(g)
  <2>. TAKE f \in [A -> Int], g \in [C -> Int], h \in [U -> Int]
  <2>. HAVE (\A x \in A : h[x] = f[x]) /\ (\A x \in C : h[x + m] = g[x])
  <2>1. \A x \in C : b[x] = x + m
    BY <1>3
  <2>2. \A x \in C : h[b[x]] = g[x]
    BY <2>1, Zenon
  <2> QED BY <1>5, <2>2, Zenon
<1> QED BY <1>6, Zenon DEF A, C, U

(* A sum of one value that need not be zero is that value. *)
LEMMA TotalOne ==
    ASSUME NEW S, IsFiniteSet(S), NEW f \in [S -> Int], NEW x \in S, \A y \in S \ {x} : f[y] = 0
    PROVE  Total(f) = f[x]
<1>. DEFINE z == [y \in S |-> 0]
<1>1. z \in [S -> Int] /\ z[x] = 0 /\ \A y \in S \ {x} : f[y] = z[y]
  OBVIOUS
<1>2. Total(z) = 0
  BY TotalZero
<1>. HIDE DEF z
<1>3. Total(f) = Total(z) - z[x] + f[x]
  BY <1>1, TotalMoved
<1> QED BY <1>1, <1>2, <1>3

(* Sums over two sets may be taken in either order. *)
LEMMA TotalSwapped ==
    ASSUME NEW S, IsFiniteSet(S), NEW T, IsFiniteSet(T), NEW F \in [S -> [T -> Int]]
    PROVE  Total([x \in S |-> Total(F[x])]) = Total([y \in T |-> Total([x \in S |-> F[x][y]])])
<1>. DEFINE row(u) == [x \in u |-> Total(F[x])]
            col(u, y) == [x \in u |-> F[x][y]]
            cols(u) == [y \in T |-> Total(col(u, y))]
            C == {u \in SUBSET S : Total(row(u)) # Total(cols(u))}
<1>1. \A u \in SUBSET S : /\ IsFiniteSet(u) /\ row(u) \in [u -> Int] /\ cols(u) \in [T -> Int]
                          /\ \A y \in T : col(u, y) \in [u -> Int]
  <2>. TAKE u \in SUBSET S
  <2>1. IsFiniteSet(u)
    BY FS_Subset
  <2>2. \A x \in S : Total(F[x]) \in Int
    BY TotalType
  <2>3. \A y \in T : col(u, y) \in [u -> Int]
    OBVIOUS
  <2>. HIDE DEF col
  <2>4. \A y \in T : Total(col(u, y)) \in Int
    BY <2>1, <2>3, TotalType
  <2> QED BY <2>1, <2>2, <2>3, <2>4
<1>2. C = {}
  <2>. SUFFICES ASSUME C # {} PROVE FALSE
    OBVIOUS
  <2>0. C \subseteq SUBSET S /\ \A u \in SUBSET S : u \in C <=> Total(row(u)) # Total(cols(u))
    OBVIOUS
  <2>. HIDE DEF C
  <2>1. PICK u \in C : \A v \in SUBSET u : v \in C => v = u
    BY <2>0, SmallestSubset
  <2>2. u \in SUBSET S /\ Total(row(u)) # Total(cols(u))
    BY <2>0
  <2>3. CASE u = {}
    <3>1. DOMAIN row(u) = {} /\ \A y \in T : DOMAIN col(u, y) = {}
      BY <2>3
    <3>. HIDE DEF row, col
    <3>2. Total(row(u)) = 0 /\ \A y \in T : Total(col(u, y)) = 0
      BY <3>1, TotalEmpty
    <3>3. cols(u) = [y \in T |-> 0]
      BY <3>2
    <3>. HIDE DEF cols
    <3>4. Total(cols(u)) = 0
      BY <3>3, TotalZero
    <3> QED BY <2>2, <3>2, <3>4
  <2>4. CASE u # {}
    <3>1. PICK x \in u : TRUE
      BY <2>4
    <3>. DEFINE v == u \ {x}
    <3>2. x \in S /\ v \in SUBSET S /\ v \in SUBSET u /\ v # u
      BY <2>2
    <3>3. Total(row(v)) = Total(cols(v))
      BY <2>0, <2>1, <3>2
    <3>4. row(u)[x] = Total(F[x]) /\ [y \in v |-> row(u)[y]] = row(v)
      OBVIOUS
    <3>5. \A y \in T : col(u, y)[x] = F[x][y] /\ [z \in v |-> col(u, y)[z]] = col(v, y)
      OBVIOUS
    <3>. HIDE DEF v
    <3>6. Total(row(u)) = Total(F[x]) + Total(row(v))
      <4>. DEFINE whole == row(u)
      <4>1. IsFiniteSet(u) /\ whole \in [u -> Int] /\ x \in u
        BY <1>1, <2>2
      <4>. HIDE DEF row, whole
      <4>2. Total(whole) = whole[x] + Total([y \in u \ {x} |-> whole[y]])
        BY <4>1, TotalSplit, ZenonT(40)
      <4> QED BY <3>4, <4>2 DEF v, whole
    <3>7. \A y \in T : Total(col(u, y)) = F[x][y] + Total(col(v, y))
      <4>. TAKE y \in T
      <4>. DEFINE whole == col(u, y)
      <4>1. IsFiniteSet(u) /\ whole \in [u -> Int] /\ x \in u
        BY <1>1, <2>2
      <4>. HIDE DEF col, whole
      <4>2. Total(whole) = whole[x] + Total([z \in u \ {x} |-> whole[z]])
        BY <4>1, TotalSplit, ZenonT(40)
      <4> QED BY <3>5, <4>2 DEF v, whole
    <3>8. F[x] \in [T -> Int] /\ \A y \in T : cols(u)[y] = F[x][y] + cols(v)[y]
      BY <3>2, <3>7
    <3>. HIDE DEF cols
    <3>9. Total(cols(u)) = Total(F[x]) + Total(cols(v))
      <4>1. /\ IsFiniteSet(T) /\ F[x] \in [T -> Int]
            /\ cols(u) \in [T -> Int] /\ cols(v) \in [T -> Int]
            /\ \A y \in T : cols(u)[y] = F[x][y] + cols(v)[y]
        BY <1>1, <2>2, <3>2, <3>8
      <4> QED BY <4>1, TotalPlus, SMTT(30)
    <3> QED BY <2>2, <3>3, <3>6, <3>9
  <2> QED BY <2>3, <2>4
<1>3. Total(row(S)) = Total(cols(S))
  BY <1>2
<1> QED BY <1>3

(* A function of a finite set has finitely many values. *)
LEMMA FiniteImage ==
    ASSUME NEW S, IsFiniteSet(S), NEW f, DOMAIN f = S, f = [x \in S |-> f[x]]
    PROVE  IsFiniteSet({f[x] : x \in S})
<1>. DEFINE T == {f[x] : x \in S}
<1>1. f \in [S -> T] /\ \A t \in T : \E x \in S : f[x] = t
  OBVIOUS
<1>. HIDE DEF T
<1>2. f \in Surjection(S, T)
  BY <1>1 DEF Surjection
<1>3. IsFiniteSet(T)
  BY <1>2, FS_Surjection
<1> QED BY <1>3 DEF T

(* One of finitely many has a greatest value. *)
LEMMA GreatestValue ==
    ASSUME NEW S, IsFiniteSet(S), NEW f \in [S -> Int], S # {}
    PROVE  \E x \in S : \A y \in S : f[y] <= f[x]
<1>. DEFINE T == {f[x] : x \in S}
<1>1. DOMAIN f = S /\ f = [x \in S |-> f[x]] /\ \A x \in S : f[x] \in Int
  OBVIOUS
<1>2. IsFiniteSet(T)
  BY <1>1, FiniteImage
<1>3. T # {} /\ (\A t \in T : t \in Int) /\ (\A x \in S : f[x] \in T) /\ \A t \in T : \E x \in S : t = f[x]
  BY <1>1
<1>. HIDE DEF T
<1>4. PICK t \in T : \A u \in T : u <= t
  BY <1>2, <1>3, GreatestNumber
<1> QED BY <1>3, <1>4

-----------------------------------------------------------------------------
(* Spans, one after the other: the days of the months of a calendar *)

(* A span starts where the one before it ends. *)
SpanStart(g, len, m) == IF m = 0 THEN 0 ELSE g[m - 1] + len[m - 1]

(* The recursion that says where each of n spans starts defines a function. *)
LEMMA SpansExist ==
    ASSUME NEW n \in Nat, NEW len
    PROVE  \E g : g = [m \in 0 .. n - 1 |-> SpanStart(g, len, m)]
<1>. DEFINE Reached(g, k) == /\ g = [m \in 0 .. n - 1 |-> g[m]]
                             /\ \A m \in 0 .. n - 1 : m <= k => g[m] = SpanStart(g, len, m)
            C == {k \in Nat : \A g : ~Reached(g, k)}
<1>1. C = {}
  <2>. SUFFICES ASSUME C # {} PROVE FALSE
    OBVIOUS
  <2>1. PICK k \in C : \A j \in C : k <= j
    BY SmallestNumber
  <2>2. k \in Nat /\ ~\E g : Reached(g, k)
    BY <2>1
  <2>3. CASE k = 0
    <3>. DEFINE g == [m \in 0 .. n - 1 |-> 0]
    <3>1. \A m \in 0 .. n - 1 : m <= 0 => m = 0
      OBVIOUS
    <3>2. g = [m \in 0 .. n - 1 |-> g[m]]
      OBVIOUS
    <3>3. \A m \in 0 .. n - 1 : m <= 0 => g[m] = SpanStart(g, len, m)
      BY <3>1 DEF SpanStart
    <3> QED BY <2>2, <2>3, <3>2, <3>3
  <2>4. CASE k # 0
    <3>1. k - 1 \in Nat /\ ~(k <= k - 1)
      BY <2>2, <2>4
    <3>2. PICK g : Reached(g, k - 1)
      BY <2>1, <3>1
    <3>. DEFINE h == [m \in 0 .. n - 1 |-> SpanStart(g, len, m)]
    <3>3. ASSUME NEW m \in 0 .. n - 1, m <= k PROVE h[m] = SpanStart(h, len, m)
      <4>1. CASE m = 0
        BY <4>1 DEF SpanStart
      <4>2. CASE m # 0
        <5>1. m - 1 \in 0 .. n - 1 /\ m - 1 <= k - 1
          BY <2>2, <3>3, <4>2
        <5>2. h[m - 1] = g[m - 1]
          BY <3>2, <5>1
        <5> QED BY <4>2, <5>2 DEF SpanStart
      <4> QED BY <4>1, <4>2
    <3>4. Reached(h, k)
      BY <3>3
    <3> QED BY <2>2, <3>4
  <2> QED BY <2>3, <2>4
<1>2. PICK g : Reached(g, n)
  BY <1>1
<1>3. g = [m \in 0 .. n - 1 |-> g[m]] /\ \A m \in 0 .. n - 1 : g[m] = SpanStart(g, len, m)
  BY <1>2
<1> QED BY <1>3

(* Spans start later and later, each after the end of those before it. *)
LEMMA SpansInOrder ==
    ASSUME NEW n \in Nat, NEW len, \A m \in 0 .. n - 1 : len[m] \in Nat,
           NEW g, \A m \in 0 .. n - 1 : g[m] = SpanStart(g, len, m)
    PROVE  \A k \in 0 .. n - 1 :
               /\ g[k] \in Nat
               /\ \A m \in 0 .. n - 1 : m < k => g[m] + len[m] <= g[k]
<1>. DEFINE Apart(m, k) == m < k => g[m] + len[m] <= g[k]
            C == {k \in 0 .. n - 1 : g[k] \notin Nat \/ \E m \in 0 .. n - 1 : ~Apart(m, k)}
<1>1. C = {}
  <2>. SUFFICES ASSUME C # {} PROVE FALSE
    OBVIOUS
  <2>0. C \subseteq Nat
    OBVIOUS
  <2>1. PICK k \in C : \A j \in C : k <= j
    BY <2>0, SmallestNumber
  <2>2. k \in 0 .. n - 1 /\ (g[k] \notin Nat \/ \E m \in 0 .. n - 1 : ~Apart(m, k))
    BY <2>1
  <2>3. CASE k = 0
    <3>1. g[0] = 0 /\ \A m \in 0 .. n - 1 : ~(m < 0)
      BY <2>2, <2>3 DEF SpanStart
    <3> QED BY <2>2, <2>3, <3>1
  <2>4. CASE k # 0
    <3>1. k - 1 \in 0 .. n - 1 /\ ~(k <= k - 1)
      BY <2>2, <2>4
    <3>2. k - 1 \notin C
      BY <2>1, <3>1
    <3>3. g[k - 1] \in Nat /\ \A m \in 0 .. n - 1 : Apart(m, k - 1)
      BY <3>1, <3>2
    <3>4. g[k] = g[k - 1] + len[k - 1] /\ len[k - 1] \in Nat
      BY <2>2, <2>4, <3>1 DEF SpanStart
    <3>5. g[k] \in Nat
      BY <3>3, <3>4
    <3>6. ASSUME NEW m \in 0 .. n - 1, m < k PROVE g[m] + len[m] <= g[k]
      <4>1. m = k - 1 \/ m < k - 1
        BY <2>2, <3>6
      <4>2. CASE m = k - 1
        BY <3>4, <3>5, <4>2
      <4>3. CASE m < k - 1
        <5>1. g[m] + len[m] <= g[k - 1]
          BY <3>3, <4>3
        <5>2. m \notin C
          BY <2>1, <2>2, <3>6
        <5>3. g[m] \in Nat /\ len[m] \in Nat
          BY <5>2
        <5> QED BY <3>3, <3>4, <5>1, <5>3
      <4> QED BY <4>1, <4>2, <4>3
    <3> QED BY <2>2, <3>5, <3>6
  <2> QED BY <2>3, <2>4
<1> QED BY <1>1

(* Each day before the end of the last span is in one of them. *)
LEMMA SpansTile ==
    ASSUME NEW n \in Nat, NEW len, \A m \in 0 .. n - 1 : len[m] \in Nat,
           NEW g, \A m \in 0 .. n - 1 : g[m] = SpanStart(g, len, m),
           n # 0, NEW d \in Nat, d < g[n - 1] + len[n - 1]
    PROVE  \E m \in 0 .. n - 1 : g[m] <= d /\ d < g[m] + len[m]
<1>. DEFINE C == {m \in 0 .. n - 1 : d < g[m] + len[m]}
<1>1. n - 1 \in C /\ C \subseteq Nat
  OBVIOUS
<1>2. PICK m \in C : \A j \in C : m <= j
  BY <1>1, SmallestNumber
<1>3. m \in 0 .. n - 1 /\ d < g[m] + len[m]
  BY <1>2
<1>4. g[m] <= d
  <2>1. CASE m = 0
    BY <1>3, <2>1 DEF SpanStart
  <2>2. CASE m # 0
    <3>1. m - 1 \in 0 .. n - 1 /\ ~(m <= m - 1)
      BY <1>3, <2>2
    <3>2. ~(d < g[m - 1] + len[m - 1])
      BY <1>2, <3>1
    <3>3. g[m] = g[m - 1] + len[m - 1] /\ g[m - 1] \in Nat /\ len[m - 1] \in Nat
      BY <1>3, <2>2, <3>1, SpansInOrder DEF SpanStart
    <3> QED BY <3>2, <3>3
  <2> QED BY <2>1, <2>2
<1> QED BY <1>3, <1>4
=============================================================================
