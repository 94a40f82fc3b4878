----------------------------- MODULE SumTheorems -----------------------------
(***************************************************************************)
(* Sums of figures over finite sets, as the fold of FiniteSetsExt computes *)
(* them, and the two principles of induction that they rest on.            *)
(*                                                                         *)
(* A principle of induction is about a set here, which a proof can name,   *)
(* where the libraries have an operator.                                   *)
(***************************************************************************)
EXTENDS FiniteSetsExt, FiniteSetTheorems, WellFoundedInduction, TLAPS

SumOf(figures, S) == MapThenSumSet(LAMBDA x : figures[x], S)
-----------------------------------------------------------------------------
(* Induction.                                                              *)

\* A set of numbers has a least one.
LEMMA LeastNumber ==
    ASSUME NEW P \in SUBSET Nat, P # {}
    PROVE  \E n \in P : \A m \in P : n <= m
<1> DEFINE R == {ss \in Nat \X Nat : ss[1] < ss[2]}
<1>1. IsWellFoundedOn(R, Nat)
  BY NatLessThanWellFounded DEF OpToRel
<1>2. \A m, n \in Nat : m < n => <<m, n>> \in R
  OBVIOUS
<1> HIDE DEF R
<1>3. PICK n \in P : \A m \in P : <<m, n>> \notin R
  BY <1>1, WFMin
<1>4. ASSUME NEW m \in P PROVE n <= m
  <2>1. m \in Nat /\ n \in Nat /\ ~(m < n)
    BY <1>2, <1>3
  <2> QED
    BY <2>1
<1> QED
  BY <1>4

\* What holds of 0 and of the next number holds of all.
LEMMA AllNumbers ==
    ASSUME NEW P, 0 \in P, \A n \in Nat : n \in P => n + 1 \in P
    PROVE  \A n \in Nat : n \in P
<1> SUFFICES ASSUME NEW k \in Nat, k \notin P PROVE FALSE
  OBVIOUS
<1>1. PICK n \in Nat \ P : \A m \in Nat \ P : n <= m
  <2>1. Nat \ P # {}
    OBVIOUS
  <2> QED
    BY <2>1, LeastNumber
<1>2. n # 0 /\ n - 1 \in Nat
  BY <1>1
<1>3. n - 1 \in P
  BY <1>1, <1>2
<1>4. n \in P
  <2>1. (n - 1) + 1 \in P
    BY <1>2, <1>3
  <2> QED
    BY <1>2, <2>1
<1> QED
  BY <1>1, <1>4

\* What holds of the empty set, and of a set with one more element, holds of
\* every finite set.
LEMMA AllSubsets ==
    ASSUME NEW S, IsFiniteSet(S), NEW P, {} \in P,
           \A T \in SUBSET S : T \in P => \A x \in S \ T : T \cup {x} \in P
    PROVE  \A T \in SUBSET S : T \in P
<1> DEFINE Sized(n) == \A T \in SUBSET S : Cardinality(T) = n => T \in P
           Q == {n \in Nat : Sized(n)}
<1>1. \A T \in SUBSET S : IsFiniteSet(T) /\ Cardinality(T) \in Nat
  BY FS_Subset, FS_CardinalityType
<1>2. 0 \in Q
  <2>1. \A T \in SUBSET S : Cardinality(T) = 0 => T = {}
    BY <1>1, FS_EmptySet
  <2> QED
    BY <2>1
<1>3. ASSUME NEW n \in Nat, n \in Q PROVE n + 1 \in Q
  <2> SUFFICES ASSUME NEW T \in SUBSET S, Cardinality(T) = n + 1
               PROVE  T \in P
    OBVIOUS
  <2>1. T # {}
    <3>1. Cardinality({}) = 0
      BY FS_EmptySet
    <3> QED
      BY <3>1
  <2>2. PICK x \in T : TRUE
    BY <2>1
  <2>3. Cardinality(T \ {x}) = n
    <3>1. Cardinality(T \ {x}) = Cardinality(T) - 1
      BY <1>1, FS_RemoveElement
    <3> QED
      BY <3>1
  <2>4. T \ {x} \in P
    BY <1>3, <2>3
  <2>5. (T \ {x}) \cup {x} = T
    OBVIOUS
  <2> QED
    BY <2>4, <2>5
<1> HIDE DEF Q
<1>4. \A n \in Nat : n \in Q
  BY <1>2, <1>3, AllNumbers
<1> QED
  BY <1>1, <1>4 DEF Q
-----------------------------------------------------------------------------
(* The function that the fold recurs by.                                   *)

Pick(s) == CHOOSE x \in s : TRUE

Body(g, figures, s) ==
    IF s = {} THEN 0 ELSE figures[Pick(s)] + g[s \ {Pick(s)}]

Solves(g, figures, S) == g = [s \in SUBSET S |-> Body(g, figures, s)]

LEMMA SumIsSolution ==
    ASSUME NEW figures, NEW S
    PROVE  SumOf(figures, S) = (CHOOSE g : Solves(g, figures, S))[S]
BY DEF SumOf, MapThenSumSet, MapThenFoldSet, Solves, Body, Pick

LEMMA Picked ==
    ASSUME NEW s, s # {}, IsFiniteSet(s)
    PROVE  /\ Pick(s) \in s
           /\ IsFiniteSet(s \ {Pick(s)})
           /\ Cardinality(s) \in Nat
           /\ Cardinality(s \ {Pick(s)}) = Cardinality(s) - 1
BY FS_RemoveElement, FS_CardinalityType DEF Pick

\* There is such a function: it is found for larger and larger sets.
LEMMA SolutionExists ==
    ASSUME NEW figures, NEW S, IsFiniteSet(S)
    PROVE  \E g : Solves(g, figures, S)
<1> DEFINE UpTo(g, n) == \A s \in SUBSET S :
             Cardinality(s) <= n => g[s] = Body(g, figures, s)
           Q == {n \in Nat : \E g : UpTo(g, n)}
<1>1. \A s \in SUBSET S : IsFiniteSet(s) /\ Cardinality(s) \in Nat
  BY FS_Subset, FS_CardinalityType
<1>2. 0 \in Q
  <2>1. \A s \in SUBSET S : Cardinality(s) <= 0 => s = {}
    BY <1>1, FS_EmptySet
  <2>2. UpTo([s \in SUBSET S |-> 0], 0)
    BY <2>1 DEF Body
  <2> QED
    BY <2>2
<1>3. ASSUME NEW n \in Nat, n \in Q PROVE n + 1 \in Q
  <2>1. PICK g : UpTo(g, n)
    BY <1>3
  <2> DEFINE h == [s \in SUBSET S |-> IF Cardinality(s) <= n THEN g[s]
                                     ELSE Body(g, figures, s)]
  <2>2. ASSUME NEW s \in SUBSET S, Cardinality(s) <= n + 1
        PROVE  h[s] = Body(h, figures, s)
    <3>1. h[s] = Body(g, figures, s)
      BY <2>1
    <3>2. CASE s = {}
      BY <3>1, <3>2 DEF Body
    <3>3. CASE s # {}
      <4>1. /\ s \ {Pick(s)} \in SUBSET S
            /\ Cardinality(s \ {Pick(s)}) <= n
        BY <1>1, <2>2, <3>3, Picked
      <4>2. h[s \ {Pick(s)}] = g[s \ {Pick(s)}]
        BY <4>1
      <4> QED
        BY <3>1, <3>3, <4>2 DEF Body
    <3> QED
      BY <3>2, <3>3
  <2> HIDE DEF h
  <2>3. UpTo(h, n + 1)
    BY <2>2
  <2> QED
    BY <2>3
<1>4. \A n \in Nat : n \in Q
  <2> HIDE DEF Q
  <2> QED
    BY <1>2, <1>3, AllNumbers
<1>5. PICK g : UpTo(g, Cardinality(S))
  BY <1>1, <1>4
<1> DEFINE h == [s \in SUBSET S |-> g[s]]
<1>6. ASSUME NEW s \in SUBSET S
      PROVE  h[s] = Body(h, figures, s)
  <2>1. Cardinality(s) <= Cardinality(S)
    BY FS_Subset
  <2>2. g[s] = Body(g, figures, s)
    BY <1>5, <2>1
  <2>3. s \ {Pick(s)} \in SUBSET S
    OBVIOUS
  <2> QED
    BY <2>2, <2>3 DEF Body
<1>7. h = [s \in SUBSET S |-> Body(h, figures, s)]
  BY <1>6
<1> HIDE DEF h
<1> QED
  BY <1>7 DEF Solves

\* And one only, which depends on no figure but those of the set.
LEMMA SolutionsAgree ==
    ASSUME NEW f, NEW e, NEW S, NEW R, NEW g, NEW h,
           IsFiniteSet(S), IsFiniteSet(R), Solves(g, f, S), Solves(h, e, R),
           NEW T \in SUBSET (S \cap R), \A x \in T : f[x] = e[x]
    PROVE  g[T] = h[T]
<1> DEFINE Q == {n \in Nat : \A s \in SUBSET T : Cardinality(s) = n => g[s] = h[s]}
<1>1. \A s \in SUBSET T : IsFiniteSet(s) /\ Cardinality(s) \in Nat
  BY FS_Subset, FS_CardinalityType
<1>2. ASSUME NEW s \in SUBSET T
      PROVE  g[s] = Body(g, f, s) /\ h[s] = Body(h, e, s)
  <2>1. s \in SUBSET S /\ s \in SUBSET R
    OBVIOUS
  <2>2. g[s] = [x \in SUBSET S |-> Body(g, f, x)][s]
    BY DEF Solves
  <2>3. h[s] = [x \in SUBSET R |-> Body(h, e, x)][s]
    BY DEF Solves
  <2> QED
    BY <2>1, <2>2, <2>3
<1>3. 0 \in Q
  <2>1. \A s \in SUBSET T : Cardinality(s) = 0 => s = {}
    BY <1>1, FS_EmptySet
  <2>2. g[{}] = 0 /\ h[{}] = 0
    BY <1>2 DEF Body
  <2> QED
    BY <2>1, <2>2
<1>4. ASSUME NEW n \in Nat, n \in Q PROVE n + 1 \in Q
  <2> SUFFICES ASSUME NEW s \in SUBSET T, Cardinality(s) = n + 1
               PROVE  g[s] = h[s]
    OBVIOUS
  <2>1. s # {}
    <3>1. Cardinality({}) = 0
      BY FS_EmptySet
    <3> QED
      BY <3>1
  <2>2. /\ Pick(s) \in T /\ s \ {Pick(s)} \in SUBSET T
        /\ Cardinality(s \ {Pick(s)}) = n
    BY <1>1, <2>1, Picked
  <2>3. g[s \ {Pick(s)}] = h[s \ {Pick(s)}]
    BY <1>4, <2>2
  <2>4. f[Pick(s)] = e[Pick(s)]
    BY <2>2
  <2> QED
    BY <1>2, <2>1, <2>3, <2>4 DEF Body
<1>5. \A n \in Nat : n \in Q
  <2> HIDE DEF Q
  <2> QED
    BY <1>3, <1>4, AllNumbers
<1> QED
  BY <1>1, <1>5
-----------------------------------------------------------------------------
(* What a sum is.                                                          *)

\* The sum of figures over every part of a finite set, by one function.
LEMMA Partial ==
    ASSUME NEW f, NEW S, IsFiniteSet(S)
    PROVE  \E g : /\ Solves(g, f, S)
                  /\ \A T \in SUBSET S : SumOf(f, T) = g[T]
<1> DEFINE g(T) == CHOOSE h : Solves(h, f, T)
<1>1. \A T \in SUBSET S : IsFiniteSet(T)
  BY FS_Subset
<1>2. ASSUME NEW T \in SUBSET S PROVE Solves(g(T), f, T)
  BY <1>1, SolutionExists
<1>3. Solves(g(S), f, S)
  BY <1>2
<1>4. ASSUME NEW T \in SUBSET S PROVE SumOf(f, T) = g(S)[T]
  <2>1. SumOf(f, T) = g(T)[T]
    BY SumIsSolution
  <2>2. Solves(g(T), f, T) /\ IsFiniteSet(T)
    BY <1>1, <1>2
  <2>3. g(T)[T] = g(S)[T]
    <3> DEFINE h == g(T)
               k == g(S)
    <3>1. Solves(h, f, T) /\ Solves(k, f, S) /\ T \in SUBSET (T \cap S)
      BY <1>3, <2>2
    <3> HIDE DEF h, k
    <3>2. h[T] = k[T]
      BY <2>2, <3>1, SolutionsAgree
    <3> QED
      BY <3>2 DEF h, k
  <2> QED
    BY <2>1, <2>3
<1> QED
  BY <1>3, <1>4

LEMMA SumEmpty ==
    ASSUME NEW f
    PROVE  SumOf(f, {}) = 0
<1>1. IsFiniteSet({})
  BY FS_EmptySet
<1>2. PICK g : Solves(g, f, {}) /\ SumOf(f, {}) = g[{}]
  BY <1>1, Partial
<1>3. g[{}] = [s \in SUBSET {} |-> Body(g, f, s)][{}]
  BY <1>2 DEF Solves
<1> QED
  BY <1>2, <1>3 DEF Body

\* The sum depends on no figure but those of the set.
LEMMA SumSame ==
    ASSUME NEW f, NEW e, NEW S, IsFiniteSet(S), \A x \in S : f[x] = e[x]
    PROVE  SumOf(f, S) = SumOf(e, S)
<1>1. PICK g : Solves(g, f, S) /\ SumOf(f, S) = g[S]
  BY Partial
<1>2. PICK h : Solves(h, e, S) /\ SumOf(e, S) = h[S]
  BY Partial
<1>3. g[S] = h[S]
  BY <1>1, <1>2, SolutionsAgree
<1> QED
  BY <1>1, <1>2, <1>3

\* It can be taken in any order: whichever element comes first.
LEMMA SumFirst ==
    ASSUME NEW S, IsFiniteSet(S), NEW f, \A x \in S : f[x] \in Int
    PROVE  \A T \in SUBSET S :
             /\ SumOf(f, T) \in Int
             /\ \A x \in T : SumOf(f, T) = f[x] + SumOf(f, T \ {x})
<1>1. PICK g : /\ Solves(g, f, S)
               /\ \A T \in SUBSET S : SumOf(f, T) = g[T]
  BY Partial
<1> DEFINE Fine(s) == /\ g[s] \in Int
                      /\ \A x \in s : g[s] = f[x] + g[s \ {x}]
           Q == {n \in Nat : \A s \in SUBSET S : Cardinality(s) <= n => Fine(s)}
<1>2. \A s \in SUBSET S : IsFiniteSet(s) /\ Cardinality(s) \in Nat
  BY FS_Subset, FS_CardinalityType
<1>3. ASSUME NEW s \in SUBSET S PROVE g[s] = Body(g, f, s)
  <2>1. g[s] = [x \in SUBSET S |-> Body(g, f, x)][s]
    BY <1>1 DEF Solves
  <2> QED
    BY <2>1
<1>4. Fine({}) /\ 0 \in Q
  <2>1. \A s \in SUBSET S : Cardinality(s) <= 0 => s = {}
    BY <1>2, FS_EmptySet
  <2>2. g[{}] = 0
    <3>1. g[{}] = Body(g, f, {})
      BY <1>3
    <3> QED
      BY <3>1 DEF Body
  <2>3. Fine({})
    BY <2>2
  <2> HIDE DEF Fine
  <2> QED
    BY <2>1, <2>3
<1>5. ASSUME NEW n \in Nat, n \in Q PROVE n + 1 \in Q
  <2> SUFFICES ASSUME NEW s \in SUBSET S, Cardinality(s) <= n + 1, s # {}
               PROVE  Fine(s)
    <3> HIDE DEF Fine
    <3> QED
      BY <1>4
  <2> DEFINE p == Pick(s)
  <2>1. /\ p \in s /\ p \in S /\ f[p] \in Int
        /\ s \ {p} \in SUBSET S /\ Cardinality(s \ {p}) <= n
    BY <1>2, Picked
  <2>2. g[s] = f[p] + g[s \ {p}]
    BY <1>3 DEF Body
  <2> HIDE DEF p
  <2>3. Fine(s \ {p})
    BY <1>5, <2>1
  <2>4. ASSUME NEW x \in s, x # p PROVE g[s] = f[x] + g[s \ {x}]
    <3>1. /\ x \in s \ {p} /\ f[x] \in Int
          /\ p \in s \ {x}
      BY <2>1, <2>4
    <3>2. g[s \ {p}] = f[x] + g[(s \ {p}) \ {x}]
      BY <2>3, <3>1
    <3>3. s \ {x} \in SUBSET S /\ Cardinality(s \ {x}) <= n
      <4>1. Cardinality(s \ {x}) = Cardinality(s) - 1
        BY <1>2, FS_RemoveElement
      <4> QED
        BY <1>2, <4>1
    <3>4. Fine(s \ {x})
      BY <1>5, <3>3
    <3>5. g[s \ {x}] = f[p] + g[(s \ {x}) \ {p}]
      BY <3>1, <3>4
    <3>6. (s \ {x}) \ {p} = (s \ {p}) \ {x}
      OBVIOUS
    <3>7. (s \ {p}) \ {x} \in SUBSET S /\ Cardinality((s \ {p}) \ {x}) <= n
      <4>1. Cardinality((s \ {p}) \ {x}) = Cardinality(s \ {p}) - 1
        BY <1>2, <2>1, <3>1, FS_RemoveElement
      <4> QED
        BY <1>2, <2>1, <4>1
    <3>8. g[(s \ {p}) \ {x}] \in Int
      BY <1>5, <3>7
    <3>9. /\ g[s] = f[p] + (f[x] + g[(s \ {p}) \ {x}])
          /\ g[s \ {x}] = f[p] + g[(s \ {p}) \ {x}]
      BY <2>2, <3>2, <3>5, <3>6
    <3>10. \A a, b, c \in Int : a + (b + c) = b + (a + c)
      OBVIOUS
    <3>11. g[s] = f[x] + (f[p] + g[(s \ {p}) \ {x}])
      BY <2>1, <3>1, <3>8, <3>9, <3>10
    <3> QED
      BY <3>9, <3>11
  <2>5. g[s] \in Int
    BY <2>1, <2>2, <2>3
  <2> QED
    BY <2>1, <2>2, <2>4, <2>5
<1>6. \A n \in Nat : n \in Q
  <2> HIDE DEF Q
  <2> QED
    BY <1>4, <1>5, AllNumbers
<1>7. ASSUME NEW T \in SUBSET S PROVE Fine(T)
  BY <1>2, <1>6
<1>8. ASSUME NEW T \in SUBSET S, NEW x \in T
      PROVE  SumOf(f, T \ {x}) = g[T \ {x}]
  BY <1>1
<1> QED
  BY <1>1, <1>7, <1>8

LEMMA SumInt ==
    ASSUME NEW S, IsFiniteSet(S), NEW f, \A x \in S : f[x] \in Int
    PROVE  SumOf(f, S) \in Int
BY SumFirst

LEMMA SumAdd ==
    ASSUME NEW S, IsFiniteSet(S), NEW x, x \notin S,
           NEW f, \A y \in S \cup {x} : f[y] \in Int
    PROVE  SumOf(f, S \cup {x}) = f[x] + SumOf(f, S)
<1>1. IsFiniteSet(S \cup {x})
  BY FS_AddElement
<1>2. (S \cup {x}) \ {x} = S
  OBVIOUS
<1> DEFINE T == S \cup {x}
<1>3. IsFiniteSet(T) /\ x \in T /\ \A y \in T : f[y] \in Int
  BY <1>1
<1> HIDE DEF T
<1>4. SumOf(f, T) = f[x] + SumOf(f, T \ {x})
  BY <1>3, SumFirst
<1> QED
  BY <1>2, <1>4 DEF T

LEMMA SumOne ==
    ASSUME NEW x, NEW f, f[x] \in Int
    PROVE  SumOf(f, {x}) = f[x]
<1>1. SumOf(f, {} \cup {x}) = f[x] + SumOf(f, {})
  <2>1. IsFiniteSet({}) /\ x \notin {} /\ \A y \in {} \cup {x} : f[y] \in Int
    BY FS_EmptySet
  <2> QED
    BY <2>1, SumAdd
<1>2. {} \cup {x} = {x}
  OBVIOUS
<1> QED
  BY <1>1, <1>2, SumEmpty
-----------------------------------------------------------------------------
(* Sums of parts.                                                          *)

LEMMA SumUnion ==
    ASSUME NEW S, IsFiniteSet(S), NEW T, IsFiniteSet(T), S \cap T = {},
           NEW f, \A x \in S \cup T : f[x] \in Int
    PROVE  SumOf(f, S \cup T) = SumOf(f, S) + SumOf(f, T)
<1> DEFINE P == {R \in SUBSET T : SumOf(f, S \cup R) = SumOf(f, S) + SumOf(f, R)}
<1>1. \A R \in SUBSET T :
        /\ IsFiniteSet(R) /\ IsFiniteSet(S \cup R)
        /\ SumOf(f, R) \in Int /\ SumOf(f, S \cup R) \in Int
  <2> SUFFICES ASSUME NEW R \in SUBSET T
               PROVE  /\ IsFiniteSet(R) /\ IsFiniteSet(S \cup R)
                      /\ SumOf(f, R) \in Int /\ SumOf(f, S \cup R) \in Int
    OBVIOUS
  <2>1. IsFiniteSet(R) /\ IsFiniteSet(S \cup R)
    BY FS_Subset, FS_Union
  <2>2. SumOf(f, R) \in Int
    BY <2>1, SumInt
  <2> DEFINE U == S \cup R
  <2>3. IsFiniteSet(U) /\ \A x \in U : f[x] \in Int
    BY <2>1
  <2> HIDE DEF U
  <2>4. SumOf(f, U) \in Int
    BY <2>3, SumInt
  <2> QED
    BY <2>1, <2>2, <2>4 DEF U
<1>2. SumOf(f, S) \in Int
  BY SumInt
<1>3. {} \in P
  <2>1. SumOf(f, {}) = 0 /\ S \cup {} = S
    BY SumEmpty
  <2> QED
    BY <1>2, <2>1
<1>4. ASSUME NEW R \in SUBSET T, R \in P, NEW x \in T \ R
      PROVE  R \cup {x} \in P
  <2> DEFINE U == S \cup R
  <2>1. x \notin U /\ U \cup {x} = S \cup (R \cup {x})
    OBVIOUS
  <2>2. SumOf(f, R \cup {x}) = f[x] + SumOf(f, R)
    BY <1>1, SumAdd
  <2>3. IsFiniteSet(U) /\ \A y \in U \cup {x} : f[y] \in Int
    BY <1>1
  <2>4. SumOf(f, U) = SumOf(f, S) + SumOf(f, R)
    BY <1>4
  <2> HIDE DEF U
  <2>5. SumOf(f, U \cup {x}) = f[x] + SumOf(f, U)
    BY <2>1, <2>3, SumAdd
  <2>6. f[x] \in Int /\ SumOf(f, S) \in Int /\ SumOf(f, R) \in Int
    BY <1>1, <1>2
  <2>7. \A a, b, c \in Int : a + (b + c) = b + (a + c)
    OBVIOUS
  <2>8. f[x] + (SumOf(f, S) + SumOf(f, R)) = SumOf(f, S) + (f[x] + SumOf(f, R))
    BY <2>6, <2>7
  <2>9. SumOf(f, U \cup {x}) = SumOf(f, S) + SumOf(f, R \cup {x})
    BY <2>2, <2>4, <2>5, <2>8
  <2> QED
    BY <2>1, <2>9
<1> HIDE DEF P
<1>5. \A R \in SUBSET T : R \in P
  BY <1>3, <1>4, AllSubsets
<1> QED
  BY <1>5 DEF P

LEMMA SumMinus ==
    ASSUME NEW S, IsFiniteSet(S), NEW f, NEW e, NEW d,
           \A x \in S : f[x] \in Int /\ e[x] \in Int /\ d[x] = f[x] - e[x]
    PROVE  SumOf(d, S) = SumOf(f, S) - SumOf(e, S)
<1> DEFINE P == {T \in SUBSET S : SumOf(d, T) = SumOf(f, T) - SumOf(e, T)}
<1>1. {} \in P
  <2>1. SumOf(d, {}) = 0 /\ SumOf(f, {}) = 0 /\ SumOf(e, {}) = 0
    BY SumEmpty
  <2> QED
    BY <2>1
<1>2. ASSUME NEW T \in SUBSET S, T \in P, NEW x \in S \ T
      PROVE  T \cup {x} \in P
  <2>1. IsFiniteSet(T)
    BY FS_Subset
  <2>2. \A y \in T \cup {x} : f[y] \in Int /\ e[y] \in Int /\ d[y] \in Int
    OBVIOUS
  <2>3. /\ SumOf(d, T \cup {x}) = d[x] + SumOf(d, T)
        /\ SumOf(f, T \cup {x}) = f[x] + SumOf(f, T)
        /\ SumOf(e, T \cup {x}) = e[x] + SumOf(e, T)
    BY <2>1, <2>2, SumAdd
  <2>4. SumOf(f, T) \in Int /\ SumOf(e, T) \in Int
    BY <2>1, <2>2, SumInt
  <2>5. d[x] = f[x] - e[x] /\ f[x] \in Int /\ e[x] \in Int
    OBVIOUS
  <2>6. SumOf(d, T) = SumOf(f, T) - SumOf(e, T)
    BY <1>2
  <2>7. SumOf(d, T \cup {x}) = SumOf(f, T \cup {x}) - SumOf(e, T \cup {x})
    BY <2>3, <2>4, <2>5, <2>6
  <2> QED
    BY <2>7
<1> HIDE DEF P
<1>3. \A T \in SUBSET S : T \in P
  BY <1>1, <1>2, AllSubsets
<1> QED
  BY <1>3 DEF P

\* Figures that are not negative have a sum that is not, and that is zero only
\* if each of them is.
LEMMA SumOfNats ==
    ASSUME NEW S, IsFiniteSet(S), NEW f, \A x \in S : f[x] \in Nat
    PROVE  /\ SumOf(f, S) \in Nat
           /\ SumOf(f, S) = 0 <=> \A x \in S : f[x] = 0
<1> DEFINE Zero(T) == \A x \in T : f[x] = 0
           Fine(T) == SumOf(f, T) \in Nat /\ (SumOf(f, T) = 0 <=> Zero(T))
           P == {T \in SUBSET S : Fine(T)}
<1>1. {} \in P
  <2>1. SumOf(f, {}) = 0
    BY SumEmpty
  <2>2. Fine({})
    BY <2>1
  <2> HIDE DEF Fine
  <2> QED
    BY <2>2
<1>2. ASSUME NEW T \in SUBSET S, T \in P, NEW x \in S \ T
      PROVE  T \cup {x} \in P
  <2>1. IsFiniteSet(T) /\ \A y \in T \cup {x} : f[y] \in Int
    BY FS_Subset
  <2>2. SumOf(f, T \cup {x}) = f[x] + SumOf(f, T)
    BY <2>1, SumAdd
  <2>3. Fine(T)
    <3> HIDE DEF Fine
    <3> QED
      BY <1>2
  <2>4. Zero(T \cup {x}) <=> f[x] = 0 /\ Zero(T)
    OBVIOUS
  <2>5. f[x] \in Nat
    OBVIOUS
  <2> HIDE DEF Zero
  <2>6. Fine(T \cup {x})
    BY <2>2, <2>3, <2>4, <2>5
  <2> HIDE DEF Fine
  <2> QED
    BY <2>6
<1>3. \A T \in SUBSET S : T \in P
  <2> HIDE DEF P
  <2> QED
    BY <1>1, <1>2, AllSubsets
<1>4. Fine(S)
  <2> HIDE DEF Fine
  <2> QED
    BY <1>3
<1> QED
  BY <1>4

\* A finite set in finitely many parts that have nothing in common.
InParts(S, part) ==
    /\ IsFiniteSet(S) /\ IsFiniteSet(DOMAIN part)
    /\ S = UNION {part[k] : k \in DOMAIN part}
    /\ \A k, l \in DOMAIN part : k # l => part[k] \cap part[l] = {}

AddsUp(sums, f, S, part) ==
    /\ InParts(S, part)
    /\ \A x \in S : f[x] \in Int
    /\ \A k \in DOMAIN part : sums[k] = SumOf(f, part[k])

\* A sum is the sum of the sums of the parts.
LEMMA SumOfParts ==
    ASSUME NEW S, NEW part, NEW f, NEW sums, AddsUp(sums, f, S, part)
    PROVE  SumOf(f, S) = SumOf(sums, DOMAIN part)
<1> DEFINE Places == DOMAIN part
           Among(J) == UNION {part[k] : k \in J}
           P == {J \in SUBSET Places : SumOf(f, Among(J)) = SumOf(sums, J)}
<1>1. /\ IsFiniteSet(S) /\ IsFiniteSet(Places) /\ Among(Places) = S
      /\ \A k, l \in Places : k # l => part[k] \cap part[l] = {}
  BY DEF InParts, AddsUp
<1>2. /\ \A k \in Places : sums[k] = SumOf(f, part[k])
      /\ \A x \in S : f[x] \in Int
  BY DEF AddsUp
<1> HIDE DEF Places
<1>3. \A J \in SUBSET Places : IsFiniteSet(J) /\ IsFiniteSet(Among(J))
                             /\ \A x \in Among(J) : f[x] \in Int
  <2> SUFFICES ASSUME NEW J \in SUBSET Places
               PROVE  /\ IsFiniteSet(J) /\ IsFiniteSet(Among(J))
                      /\ \A x \in Among(J) : f[x] \in Int
    OBVIOUS
  <2>1. Among(J) \in SUBSET S
    BY <1>1
  <2> HIDE DEF Among
  <2> QED
    BY <1>1, <1>2, <2>1, FS_Subset
<1>4. \A k \in Places :
        /\ IsFiniteSet(part[k]) /\ \A x \in part[k] : f[x] \in Int
        /\ sums[k] \in Int
  <2> SUFFICES ASSUME NEW k \in Places
               PROVE  /\ IsFiniteSet(part[k]) /\ \A x \in part[k] : f[x] \in Int
                      /\ sums[k] \in Int
    OBVIOUS
  <2>1. part[k] \in SUBSET S
    BY <1>1
  <2> HIDE DEF Among
  <2>2. IsFiniteSet(part[k]) /\ \A x \in part[k] : f[x] \in Int
    BY <1>1, <1>2, <2>1, FS_Subset
  <2>3. SumOf(f, part[k]) \in Int
    BY <2>2, SumInt
  <2> QED
    BY <1>2, <2>2, <2>3
<1>5. {} \in P
  <2>1. Among({}) = {}
    OBVIOUS
  <2>2. SumOf(f, {}) = 0 /\ SumOf(sums, {}) = 0
    BY SumEmpty
  <2> QED
    BY <2>1, <2>2
<1>6. ASSUME NEW J \in SUBSET Places, J \in P, NEW k \in Places \ J
      PROVE  J \cup {k} \in P
  <2> DEFINE T == part[k]
             U == Among(J)
  <2>1. Among(J \cup {k}) = U \cup T
    OBVIOUS
  <2>2. U \cap T = {}
    BY <1>1
  <2>3. /\ IsFiniteSet(T) /\ IsFiniteSet(U)
        /\ \A x \in U \cup T : f[x] \in Int
    BY <1>3, <1>4
  <2>4. sums[k] = SumOf(f, T) /\ SumOf(f, U) = SumOf(sums, J)
    BY <1>2, <1>6
  <2>5. SumOf(sums, J \cup {k}) = sums[k] + SumOf(sums, J)
    <3>1. IsFiniteSet(J) /\ k \notin J /\ \A l \in J \cup {k} : sums[l] \in Int
      BY <1>3, <1>4
    <3> QED
      BY <3>1, SumAdd
  <2> HIDE DEF U, T
  <2>6. SumOf(f, U) \in Int /\ SumOf(f, T) \in Int
    BY <2>3, SumInt
  <2>7. SumOf(f, U \cup T) = SumOf(f, U) + SumOf(f, T)
    BY <2>2, <2>3, SumUnion
  <2>8. \A a, b \in Int : a + b = b + a
    OBVIOUS
  <2>9. SumOf(f, U \cup T) = SumOf(sums, J \cup {k})
    BY <2>4, <2>5, <2>6, <2>7, <2>8
  <2> QED
    BY <2>1, <2>9
<1> HIDE DEF P
<1>7. Places \in P
  <2>1. IsFiniteSet(Places)
    BY <1>1
  <2>2. \A J \in SUBSET Places : J \in P
    BY <1>5, <1>6, <2>1, AllSubsets
  <2> QED
    BY <2>2
<1> QED
  BY <1>1, <1>7 DEF P, Places
-----------------------------------------------------------------------------
(* Counting.                                                               *)

\* A cardinality is a sum of ones.
LEMMA SumOfOnes ==
    ASSUME NEW S, IsFiniteSet(S), NEW f, \A x \in S : f[x] = 1
    PROVE  SumOf(f, S) = Cardinality(S)
<1> DEFINE P == {T \in SUBSET S : SumOf(f, T) = Cardinality(T)}
<1>1. {} \in P
  <2>1. SumOf(f, {}) = 0 /\ Cardinality({}) = 0
    BY SumEmpty, FS_EmptySet
  <2> QED
    BY <2>1
<1>2. ASSUME NEW T \in SUBSET S, T \in P, NEW x \in S \ T
      PROVE  T \cup {x} \in P
  <2>1. IsFiniteSet(T)
    BY FS_Subset
  <2>2. SumOf(f, T) = Cardinality(T) /\ Cardinality(T) \in Nat
    BY <1>2, <2>1, FS_CardinalityType
  <2>3. Cardinality(T \cup {x}) = Cardinality(T) + 1
    BY <2>1, FS_AddElement
  <2>4. SumOf(f, T \cup {x}) = f[x] + SumOf(f, T)
    <3>1. x \notin T /\ \A y \in T \cup {x} : f[y] \in Int
      OBVIOUS
    <3> QED
      BY <2>1, <3>1, SumAdd
  <2>5. f[x] = 1
    OBVIOUS
  <2> QED
    BY <2>2, <2>3, <2>4, <2>5
<1> HIDE DEF P
<1>3. S \in P
  <2>1. \A T \in SUBSET S : T \in P
    BY <1>1, <1>2, AllSubsets
  <2> QED
    BY <2>1
<1> QED
  BY <1>3 DEF P

CountsUp(counts, S, part) ==
    /\ InParts(S, part)
    /\ \A k \in DOMAIN part : counts[k] = Cardinality(part[k])

\* The parts of a set together have as many elements as the set.
LEMMA CountOfParts ==
    ASSUME NEW S, NEW part, NEW counts, CountsUp(counts, S, part)
    PROVE  Cardinality(S) = SumOf(counts, DOMAIN part)
<1> DEFINE one == [x \in S |-> 1]
<1>1. \A x \in S : one[x] = 1
  OBVIOUS
<1> HIDE DEF one
<1>2. IsFiniteSet(S) /\ \A k \in DOMAIN part : part[k] \in SUBSET S
  BY DEF CountsUp, InParts
<1>3. ASSUME NEW k \in DOMAIN part
      PROVE  counts[k] = SumOf(one, part[k])
  <2>1. IsFiniteSet(part[k]) /\ \A x \in part[k] : one[x] = 1
    BY <1>1, <1>2, FS_Subset
  <2>2. SumOf(one, part[k]) = Cardinality(part[k])
    BY <2>1, SumOfOnes
  <2> QED
    BY <2>2 DEF CountsUp
<1>4. AddsUp(counts, one, S, part)
  BY <1>1, <1>3 DEF AddsUp, CountsUp
<1>5. SumOf(one, S) = SumOf(counts, DOMAIN part)
  BY <1>4, SumOfParts
<1>6. SumOf(one, S) = Cardinality(S)
  BY <1>1, <1>2, SumOfOnes
<1> QED
  BY <1>5, <1>6

\* Elements that correspond one to one are as many.
LEMMA SameCount ==
    ASSUME NEW S, IsFiniteSet(S), NEW T, NEW f \in [S -> T],
           \A x, y \in S : f[x] = f[y] => x = y,
           \A z \in T : \E x \in S : z = f[x]
    PROVE  IsFiniteSet(T) /\ Cardinality(T) = Cardinality(S)
<1>1. f \in Bijection(S, T)
  BY DEF Bijection, Injection, IsInjective, Surjection
<1> QED
  BY <1>1, FS_Bijection DEF ExistsBijection
=============================================================================
