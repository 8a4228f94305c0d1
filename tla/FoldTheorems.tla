------------------------------ MODULE FoldTheorems ------------------------------
(***************************************************************************)
(* Induction and recursion without operator parameters, which the provers  *)
(* cannot instantiate: a property is the set of what has it, the step of a *)
(* fold is a function.  From these, what the folds of the community        *)
(* modules are, unrolled from the first element on.                        *)
(***************************************************************************)
EXTENDS Integers, SequencesExt, FiniteSetTheorems, WellFoundedInduction, TLAPS

(* The empty sequence is one over any set.                                   *)
LEMMA EmptyIsSeq == \A S : <<>> \in Seq(S)
OBVIOUS

-------------------------------------------------------------------------------
(* Induction.                                                                *)

(* A set of natural numbers that has zero, and with a number the next one,   *)
(* has all of them: what is left out would have a least member.              *)
LEMMA SetInduction ==
  ASSUME NEW S, 0 \in S, \A n \in Nat : n \in S => n + 1 \in S
  PROVE  Nat \subseteq S
<1> DEFINE T == Nat \ S
           R == {r \in Nat \X Nat : r[1] < r[2]}
<1> SUFFICES ASSUME T # {} PROVE FALSE
  OBVIOUS
<1>1. \E x \in T : \A y \in T : <<y, x>> \notin R
  <2>1. IsWellFoundedOn(R, Nat)
    BY NatLessThanWellFounded DEF OpToRel
  <2>2. T \subseteq Nat
    OBVIOUS
  <2> HIDE DEF R, T
  <2> QED
    BY <2>1, <2>2, WFMin
<1>2. PICK x \in T : \A y \in T : ~(y < x)
  BY <1>1
<1>3. x # 0 /\ x \in Nat
  OBVIOUS
<1>4. x - 1 \notin T /\ x - 1 \in Nat
  BY <1>2, <1>3
<1> QED
  BY <1>3, <1>4

(* The same for the first numbers.                                           *)
LEMMA IntervalInduction ==
  ASSUME NEW n \in Nat, NEW S, 0 \in S, \A i \in 1..n : i - 1 \in S => i \in S
  PROVE  0..n \subseteq S
<1> DEFINE T == {i \in Nat : i \in 0..n => i \in S}
<1>1. 0 \in T
  OBVIOUS
<1>2. ASSUME NEW i \in Nat, i \in T
      PROVE  i + 1 \in T
  <2>1. CASE i + 1 \in 0..n
    <3>1. i \in 0..n /\ i + 1 \in 1..n /\ (i + 1) - 1 = i
      BY <2>1
    <3> QED
      BY <1>2, <3>1
  <2> QED
    BY <2>1
<1>3. Nat \subseteq T
  <2> HIDE DEF T
  <2> QED
    BY <1>1, <1>2, SetInduction
<1> QED
  BY <1>3

-------------------------------------------------------------------------------
(* The greatest of the first numbers.                                        *)
LEMMA MaxOfSubset ==
  ASSUME NEW n \in Nat, n > 0, NEW s \in SUBSET (1..n), n \in s
  PROVE  Max(s) = n
<1>1. \A y \in s : n >= y
  OBVIOUS
<1>2. \A x \in s : (\A y \in s : x >= y) => x = n
  OBVIOUS
<1> QED
  BY <1>1, <1>2 DEF Max

(* A set of the first numbers has a greatest member.                         *)
LEMMA MaxInSubset ==
  ASSUME NEW n \in Nat, NEW s \in SUBSET (1..n), s # {}
  PROVE  Max(s) \in s
<1> DEFINE P == {i \in 0..n : \A t \in SUBSET (1..i) : t # {} => Max(t) \in t}
<1>1. 0 \in P
  <2>1. ASSUME NEW t \in SUBSET (1..0), t # {}
        PROVE  Max(t) \in t
    <3>1. 1..0 = {}
      OBVIOUS
    <3> QED
      BY <2>1, <3>1
  <2> QED
    BY <2>1
<1>2. ASSUME NEW i \in 1..n, i - 1 \in P
      PROVE  i \in P
  <2> SUFFICES ASSUME NEW t \in SUBSET (1..i), t # {}
               PROVE  Max(t) \in t
    OBVIOUS
  <2>1. CASE i \in t
    BY <2>1, MaxOfSubset
  <2>2. CASE i \notin t
    <3>1. t \in SUBSET (1..(i - 1))
      BY <2>2
    <3> QED
      BY <1>2, <3>1
  <2> QED
    BY <2>1, <2>2
<1>3. 0..n \subseteq P
  <2> HIDE DEF P
  <2> QED
    BY <1>1, <1>2, IntervalInduction
<1> QED
  BY <1>3

(* it goes through any set of the first n numbers from the least to the      *)
(* greatest, as FoldLeft does.                                               *)
Folds(it, base, step, n) ==
  it = [s \in SUBSET (1..n) |->
          IF s = {} THEN base ELSE step[<<it[s \ {Max(s)}], Max(s)>>]]

(* There is such a function.                                                 *)
LEMMA FoldExists ==
  ASSUME NEW n \in Nat, NEW A, NEW base \in A, NEW step \in [A \X (1..n) -> A]
  PROVE  \E it \in [SUBSET (1..n) -> A] : Folds(it, base, step, n)
<1> DEFINE FoldsTo(it, m) == /\ it \in [SUBSET (1..m) -> A]
                             /\ it[{}] = base
                             /\ \A s \in SUBSET (1..m) :
                                  s # {} => it[s] = step[<<it[s \ {Max(s)}], Max(s)>>]
           M == {m \in Nat : m <= n => \E it : FoldsTo(it, m)}
<1> HIDE DEF FoldsTo
<1>1. 0 \in M
  <2> DEFINE it == [s \in SUBSET (1..0) |-> base]
  <2>1. 1..0 = {}
    OBVIOUS
  <2>2. FoldsTo(it, 0)
    BY <2>1 DEF FoldsTo
  <2> HIDE DEF it
  <2> QED
    BY <2>2
<1>2. ASSUME NEW m \in Nat, m \in M
      PROVE  m + 1 \in M
  <2> SUFFICES ASSUME m + 1 <= n
               PROVE  \E it : FoldsTo(it, m + 1)
    OBVIOUS
  <2>1. PICK jt : FoldsTo(jt, m)
    BY <1>2
  <2> DEFINE it == [s \in SUBSET (1..(m + 1)) |->
                      IF m + 1 \in s THEN step[<<jt[s \ {m + 1}], m + 1>>] ELSE jt[s]]
  <2>2. ASSUME NEW s \in SUBSET (1..(m + 1))
        PROVE  s \ {m + 1} \in SUBSET (1..m)
    OBVIOUS
  <2>3. it \in [SUBSET (1..(m + 1)) -> A]
    <3> SUFFICES ASSUME NEW s \in SUBSET (1..(m + 1)) PROVE it[s] \in A
      OBVIOUS
    <3>1. jt[s \ {m + 1}] \in A /\ m + 1 \in 1..n
      BY <2>1, <2>2 DEF FoldsTo
    <3>2. m + 1 \notin s => s \ {m + 1} = s
      OBVIOUS
    <3> QED
      BY <3>1, <3>2
  <2>4. it[{}] = base
    BY <2>1 DEF FoldsTo
  <2>5. ASSUME NEW s \in SUBSET (1..(m + 1)), s # {}
        PROVE  it[s] = step[<<it[s \ {Max(s)}], Max(s)>>]
    <3>1. CASE m + 1 \in s
      <4>1. Max(s) = m + 1
        BY <3>1, MaxOfSubset
      <4>2. it[s \ {m + 1}] = jt[s \ {m + 1}]
        OBVIOUS
      <4> QED
        BY <3>1, <4>1, <4>2
    <3>2. CASE m + 1 \notin s
      <4>1. s \in SUBSET (1..m)
        BY <3>2
      <4>2. jt[s] = step[<<jt[s \ {Max(s)}], Max(s)>>]
        BY <2>1, <2>5, <4>1 DEF FoldsTo
      <4>3. it[s] = jt[s] /\ it[s \ {Max(s)}] = jt[s \ {Max(s)}]
        BY <3>2
      <4> QED
        BY <4>2, <4>3
    <3> QED
      BY <3>1, <3>2
  <2>6. FoldsTo(it, m + 1)
    BY <2>3, <2>4, <2>5 DEF FoldsTo
  <2> HIDE DEF it
  <2> QED
    BY <2>6
<1>3. n \in M
  <2> HIDE DEF M
  <2> QED
    BY <1>1, <1>2, SetInduction
<1>4. PICK it : FoldsTo(it, n)
  BY <1>3
<1>5. Folds(it, base, step, n)
  BY <1>4 DEF FoldsTo, Folds
<1> QED
  BY <1>4, <1>5 DEF FoldsTo

(* FoldLeft goes through the first i numbers before the next one.            *)
LEMMA FirstNumbers ==
  ASSUME NEW n \in Nat, NEW i \in 1..n
  PROVE  /\ 1..i \in SUBSET (1..n) /\ 1..i # {}
         /\ Max(1..i) = i
         /\ (1..i) \ {Max(1..i)} = 1..(i - 1)
<1>1. 1..i \in SUBSET (1..i) /\ i \in 1..i /\ i \in Nat /\ i > 0
  OBVIOUS
<1>2. Max(1..i) = i
  BY <1>1, MaxOfSubset
<1>3. (1..i) \ {i} = 1..(i - 1)
  OBVIOUS
<1> QED
  BY <1>1, <1>2, <1>3

(* run[i] is what has been made of the first i numbers.                      *)
Runs(run, base, step, n) ==
  /\ run[0] = base
  /\ \A i \in 1..n : run[i] = step[<<run[i - 1], i>>]

LEMMA RunExists ==
  ASSUME NEW n \in Nat, NEW A, NEW base \in A, NEW step \in [A \X (1..n) -> A]
  PROVE  \E run \in [0..n -> A] : Runs(run, base, step, n)
<1>1. PICK it \in [SUBSET (1..n) -> A] : Folds(it, base, step, n)
  BY FoldExists
<1> DEFINE run == [i \in 0..n |-> it[1..i]]
<1>2. run \in [0..n -> A]
  OBVIOUS
<1>3. run[0] = base
  BY <1>1 DEF Folds
<1>4. ASSUME NEW i \in 1..n
      PROVE  run[i] = step[<<run[i - 1], i>>]
  <2>1. /\ 1..i \in SUBSET (1..n) /\ 1..i # {}
        /\ Max(1..i) = i /\ (1..i) \ {Max(1..i)} = 1..(i - 1)
    BY FirstNumbers
  <2>2. it[1..i] = step[<<it[(1..i) \ {Max(1..i)}], Max(1..i)>>]
    BY <1>1, <2>1, Zenon DEF Folds
  <2>3. it[1..i] = step[<<it[1..(i - 1)], i>>]
    BY <2>1, <2>2
  <2>4. run[i] = it[1..i] /\ run[i - 1] = it[1..(i - 1)]
    OBVIOUS
  <2> HIDE DEF run
  <2> QED
    BY <2>3, <2>4
<1> HIDE DEF run
<1>5. Runs(run, base, step, n)
  BY <1>3, <1>4 DEF Runs
<1> QED
  BY <1>2, <1>5

-------------------------------------------------------------------------------
(* Finite sets.                                                              *)

(* What holds of the empty set, and of a set when it holds without any one   *)
(* member, holds of all subsets of a finite set.                             *)
LEMMA SubsetInduction ==
  ASSUME NEW D, IsFiniteSet(D), NEW Q, {} \in Q,
         \A s \in SUBSET D : s # {} /\ (\A x \in s : s \ {x} \in Q) => s \in Q
  PROVE  SUBSET D \subseteq Q
<1> DEFINE M == {m \in Nat : \A s \in SUBSET D : Cardinality(s) = m => s \in Q}
<1>1. ASSUME NEW s \in SUBSET D
      PROVE  IsFiniteSet(s) /\ Cardinality(s) \in Nat
  BY FS_Subset, FS_CardinalityType
<1>2. 0 \in M
  BY <1>1, FS_EmptySet
<1>3. ASSUME NEW m \in Nat, m \in M
      PROVE  m + 1 \in M
  <2> SUFFICES ASSUME NEW s \in SUBSET D, Cardinality(s) = m + 1
               PROVE  s \in Q
    OBVIOUS
  <2>1. s # {}
    BY <1>1, FS_EmptySet
  <2>2. ASSUME NEW x \in s
        PROVE  s \ {x} \in Q
    <3>1. Cardinality(s \ {x}) = m /\ s \ {x} \in SUBSET D
      BY <1>1, FS_RemoveElement
    <3> QED
      BY <1>3, <3>1
  <2> QED
    BY <2>1, <2>2
<1>4. Nat \subseteq M
  <2> HIDE DEF M
  <2> QED
    BY <1>2, <1>3, SetInduction
<1> QED
  BY <1>1, <1>4

(* An enumerated set of up to six members is finite.                         *)
LEMMA EnumeratedFinite ==
  ASSUME NEW a, NEW b, NEW c, NEW d, NEW e, NEW f
  PROVE  IsFiniteSet({a, b, c, d, e, f})
<1>1. \A x : IsFiniteSet({x})
  BY FS_Singleton
<1>2. IsFiniteSet({a} \cup {b}) /\ IsFiniteSet({c} \cup {d}) /\ IsFiniteSet({e} \cup {f})
  BY <1>1, FS_Union
<1>3. IsFiniteSet(({a} \cup {b}) \cup ({c} \cup {d}))
  BY <1>2, FS_Union
<1>4. IsFiniteSet((({a} \cup {b}) \cup ({c} \cup {d})) \cup ({e} \cup {f}))
  BY <1>2, <1>3, FS_Union
<1>5. {a, b, c, d, e, f} = (({a} \cup {b}) \cup ({c} \cup {d})) \cup ({e} \cup {f})
  OBVIOUS
<1> QED
  BY <1>4, <1>5

(* What a function takes one to one from a finite set has as many members.   *)
LEMMA OneToOne ==
  ASSUME NEW S, IsFiniteSet(S), NEW T, NEW f \in [S -> T],
         \A x, y \in S : f[x] = f[y] => x = y,
         \A t \in T : \E x \in S : f[x] = t
  PROVE  IsFiniteSet(T) /\ Cardinality(T) = Cardinality(S)
<1>1. f \in Bijection(S, T)
  BY DEF Bijection, Injection, Surjection, IsInjective
<1> QED
  BY <1>1, FS_Bijection DEF ExistsBijection

Some(s) == CHOOSE x \in s : TRUE

(* it adds the values of fun on any subset of D.                             *)
Sums(it, fun, D) ==
  it = [s \in SUBSET D |-> IF s = {} THEN 0 ELSE fun[Some(s)] + it[s \ {Some(s)}]]

(* What is chosen is a member.                                               *)
LEMMA SomeMember == ASSUME NEW s, s # {} PROVE Some(s) \in s
  BY DEF Some

(* There is a function that adds the values of a function on any finite set, *)
(* as FoldFunction does.                                                     *)
LEMMA SumExists ==
  ASSUME NEW D, IsFiniteSet(D), NEW fun \in [D -> Int]
  PROVE  \E it : Sums(it, fun, D)
<1> DEFINE Small(m) == {s \in SUBSET D : Cardinality(s) <= m}
           SumsTo(it, m) == it = [s \in Small(m) |->
                                    IF s = {} THEN 0 ELSE fun[Some(s)] + it[s \ {Some(s)}]]
           M == {m \in Nat : \E it : SumsTo(it, m)}
<1>1. ASSUME NEW s \in SUBSET D
      PROVE  IsFiniteSet(s) /\ Cardinality(s) \in Nat /\ (Cardinality(s) = 0 <=> s = {})
  BY FS_Subset, FS_CardinalityType, FS_EmptySet
<1>2. ASSUME NEW s \in SUBSET D, s # {}
      PROVE  /\ s \ {Some(s)} \in SUBSET D
             /\ Cardinality(s \ {Some(s)}) = Cardinality(s) - 1
  BY <1>1, <1>2, SomeMember, FS_RemoveElement
<1> HIDE DEF SumsTo
<1>3. 0 \in M
  <2> DEFINE it == [s \in Small(0) |-> 0]
  <2>1. \A s \in Small(0) : s = {}
    BY <1>1
  <2>2. SumsTo(it, 0)
    BY <2>1 DEF SumsTo
  <2> HIDE DEF it
  <2> QED
    BY <2>2
<1>4. ASSUME NEW m \in Nat, m \in M
      PROVE  m + 1 \in M
  <2>1. PICK jt : SumsTo(jt, m)
    BY <1>4
  <2> DEFINE it == [s \in Small(m + 1) |->
                      IF s = {} THEN 0 ELSE fun[Some(s)] + jt[s \ {Some(s)}]]
  <2>2. ASSUME NEW s \in Small(m + 1), s # {}
        PROVE  it[s \ {Some(s)}] = jt[s \ {Some(s)}]
    <3>1. s \ {Some(s)} \in Small(m) /\ s \ {Some(s)} \in Small(m + 1)
      BY <1>1, <1>2, <2>2
    <3> QED
      BY <2>1, <3>1 DEF SumsTo
  <2>3. SumsTo(it, m + 1)
    BY <2>2 DEF SumsTo
  <2> HIDE DEF it
  <2> QED
    BY <2>3
<1>5. Nat \subseteq M
  <2> HIDE DEF M
  <2> QED
    BY <1>3, <1>4, SetInduction
<1>6. PICK it : SumsTo(it, Cardinality(D))
  BY <1>1, <1>5
<1>7. Small(Cardinality(D)) = SUBSET D
  BY <1>1, FS_Subset
<1> QED
  BY <1>6, <1>7 DEF SumsTo, Sums

SumOf(fun) == FoldFunction(+, 0, fun)

(* it adds to the sum over a set the value of the member chosen next.        *)
Adds(it, fun, D) ==
  /\ it[{}] = 0
  /\ \A s \in SUBSET D : s # {} =>
       Some(s) \in s /\ it[s] = fun[Some(s)] + it[s \ {Some(s)}]

(* FoldFunction with + is such a sum over the domain.                        *)
LEMMA SumUnrolls ==
  ASSUME NEW D, IsFiniteSet(D), NEW fun \in [D -> Int]
  PROVE  \E it : SumOf(fun) = it[D] /\ Adds(it, fun, D)
<1> DEFINE sum == CHOOSE it : Sums(it, fun, D)
<1>1. SumOf(fun) = sum[D]
  BY DEF SumOf, FoldFunction, FoldFunctionOnSet, MapThenFoldSet, Some, Sums
<1>2. Sums(sum, fun, D)
  BY SumExists
<1> HIDE DEF sum
<1>3. Adds(sum, fun, D)
  BY <1>2, SomeMember DEF Sums, Adds
<1> QED
  BY <1>1, <1>3
===============================================================================
