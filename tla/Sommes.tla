------------------------------- MODULE Sommes -------------------------------
(***************************************************************************)
(* Facts about SumFunctionOnSet, the sum of the values of a function over  *)
(* a finite set of indices, by which the properties about amounts are      *)
(* stated. The operator is a recursive function on the subsets of the set, *)
(* which takes out an element chosen arbitrarily; the facts say that the   *)
(* choice does not matter. They rest on induction, obtained from WFMin:    *)
(* a set of naturals that is not Nat misses a least number.                *)
(***************************************************************************)
EXTENDS Integers, Sequences, FiniteSets, Functions, FiniteSetTheorems, WellFoundedInduction, TLAPS

(* Induction on the naturals, for a set instead of a predicate.            *)
LEMMA NatMin ==
  ASSUME NEW N, N \subseteq Nat, 0 \in N, \A n \in N : n + 1 \in N
  PROVE  N = Nat
<1> DEFINE R == OpToRel(<, Nat)
<1>1. IsWellFoundedOn(R, Nat)
  BY NatLessThanWellFounded
<1>2. R = {ss \in Nat \X Nat : ss[1] < ss[2]}
  BY DEF OpToRel
<1> SUFFICES ASSUME Nat \ N # {} PROVE FALSE
  OBVIOUS
<1> HIDE DEF R
<1>3. PICK m \in Nat \ N : \A y \in Nat \ N : <<y, m>> \notin R
  BY <1>1, WFMin
<1>4. m # 0 /\ m - 1 \in Nat /\ <<m - 1, m>> \in Nat \X Nat
  OBVIOUS
<1>5. <<m - 1, m>> \in R
  BY <1>2, <1>4
<1>6. m - 1 \in N
  BY <1>3, <1>4, <1>5
<1> QED BY <1>3, <1>4, <1>6

(* Induction on a finite set, for a set of its subsets.                    *)
LEMMA FiniInduction ==
  ASSUME NEW A, IsFiniteSet(A), NEW U, {} \in U,
         \A s \in SUBSET A : \A x \in A : s \in U => s \cup {x} \in U
  PROVE  A \in U
<1> DEFINE N == {n \in Nat : \A s \in SUBSET A : Cardinality(s) = n => s \in U}
<1>1. \A s \in SUBSET A : IsFiniteSet(s)
  BY FS_Subset
<1>2. 0 \in N
  BY <1>1, FS_EmptySet
<1>3. ASSUME NEW n \in N PROVE n + 1 \in N
  <2> SUFFICES ASSUME NEW s \in SUBSET A, Cardinality(s) = n + 1 PROVE s \in U
    OBVIOUS
  <2>0. n \in Nat
    OBVIOUS
  <2>1. s # {}
    <3> HIDE DEF N
    <3>1. Cardinality(s) # 0
      BY <2>0
    <3>2. Cardinality({}) = 0
      BY FS_EmptySet
    <3> QED BY <3>1, <3>2
  <2>2. PICK x \in s : TRUE
    BY <2>1
  <2>3. Cardinality(s \ {x}) = n
    <3> HIDE DEF N
    <3>1. IsFiniteSet(s)
      BY <1>1
    <3>2. Cardinality(s \ {x}) = Cardinality(s) - 1
      BY <3>1, FS_RemoveElement
    <3>3. (n + 1) - 1 = n
      BY <2>0
    <3> QED BY <3>2, <3>3
  <2>4. s \ {x} \in U /\ (s \ {x}) \cup {x} = s
    BY <2>3
  <2> QED BY <2>4
<1> HIDE DEF N
<1>4. N = Nat
  <2>1. N \subseteq Nat
    BY DEF N
  <2> QED BY <1>2, <1>3, <2>1, NatMin
<1>5. Cardinality(A) \in N
  BY <1>4, FS_CardinalityType
<1> QED BY <1>5 DEF N

-----------------------------------------------------------------------------
(* The recursive function behind the sum.                                  *)

Choisi(s) == CHOOSE x \in s : TRUE

Suivant(g, f, s) == IF s = {} THEN 0 ELSE f[Choisi(s)] + g[s \ {Choisi(s)}]

Calcule(g, f, S) == g = [s \in SUBSET S |-> Suivant(g, f, s)]

LEMMA SommeDepliee ==
  ASSUME NEW f, NEW S
  PROVE  SumFunctionOnSet(f, S) = (CHOOSE g : Calcule(g, f, S))[S]
BY DEF SumFunctionOnSet, FoldFunctionOnSet, MapThenFoldSet, Calcule, Suivant, Choisi

(* Such a function exists: it is built one cardinality after the other.    *)
LEMMA CalculExiste ==
  ASSUME NEW S, IsFiniteSet(S), NEW f, \A x \in S : f[x] \in Int
  PROVE  \E g \in [SUBSET S -> Int] : Calcule(g, f, S)
<1> DEFINE N == {n \in Nat : \E g \in [SUBSET S -> Int] :
                   \A s \in SUBSET S : Cardinality(s) <= n => g[s] = Suivant(g, f, s)}
<1>1. \A s \in SUBSET S : IsFiniteSet(s) /\ Cardinality(s) \in Nat
  BY FS_Subset, FS_CardinalityType
<1>2. \A s \in SUBSET S : s # {} =>
        /\ Choisi(s) \in s
        /\ s \ {Choisi(s)} \in SUBSET S
        /\ Cardinality(s \ {Choisi(s)}) = Cardinality(s) - 1
  BY <1>1, FS_RemoveElement DEF Choisi
<1>3. 0 \in N
  <2>1. \A s \in SUBSET S : Cardinality(s) <= 0 => s = {}
    BY <1>1, FS_EmptySet
  <2>2. [s \in SUBSET S |-> 0] \in [SUBSET S -> Int]
    OBVIOUS
  <2>3. \A s \in SUBSET S : Cardinality(s) <= 0 =>
           [v \in SUBSET S |-> 0][s] = Suivant([v \in SUBSET S |-> 0], f, s)
    BY <2>1 DEF Suivant
  <2> QED BY <2>2, <2>3
<1>4. ASSUME NEW n \in N PROVE n + 1 \in N
  <2>1. PICK g \in [SUBSET S -> Int] :
          \A s \in SUBSET S : Cardinality(s) <= n => g[s] = Suivant(g, f, s)
    OBVIOUS
  <2> DEFINE h == [s \in SUBSET S |-> IF Cardinality(s) <= n THEN g[s] ELSE Suivant(g, f, s)]
  <2>2. h \in [SUBSET S -> Int]
    <3>1. \A s \in SUBSET S : Suivant(g, f, s) \in Int
      <4> SUFFICES ASSUME NEW s \in SUBSET S, s # {} PROVE f[Choisi(s)] + g[s \ {Choisi(s)}] \in Int
        BY DEF Suivant
      <4>1. f[Choisi(s)] \in Int /\ g[s \ {Choisi(s)}] \in Int
        BY <1>2
      <4> QED BY <4>1
    <3> QED BY <3>1
  <2>3. ASSUME NEW s \in SUBSET S, Cardinality(s) <= n + 1 PROVE h[s] = Suivant(h, f, s)
    <3>1. CASE s = {}
      <4>1. Cardinality(s) <= n
        BY <3>1, FS_EmptySet
      <4> QED BY <3>1, <4>1, <2>1 DEF Suivant
    <3>2. CASE s # {}
      <4>1. Cardinality(s \ {Choisi(s)}) <= n /\ s \ {Choisi(s)} \in SUBSET S
        BY <3>2, <1>1, <1>2, <2>3
      <4>2. h[s \ {Choisi(s)}] = g[s \ {Choisi(s)}]
        BY <4>1
      <4>3. Suivant(h, f, s) = Suivant(g, f, s)
        BY <3>2, <4>2 DEF Suivant
      <4>4. h[s] = Suivant(g, f, s)
        BY <2>1
      <4> QED BY <4>3, <4>4
    <3> QED BY <3>1, <3>2
  <2> HIDE DEF h
  <2> QED BY <2>2, <2>3
<1>5. Cardinality(S) \in N
  <2>1. N \subseteq Nat
    OBVIOUS
  <2> HIDE DEF N
  <2>2. N = Nat
    BY <1>3, <1>4, <2>1, NatMin
  <2> QED BY <2>2, FS_CardinalityType
<1>6. PICK g \in [SUBSET S -> Int] :
        \A s \in SUBSET S : Cardinality(s) <= Cardinality(S) => g[s] = Suivant(g, f, s)
  BY <1>5
<1>7. \A s \in SUBSET S : g[s] = Suivant(g, f, s)
  BY <1>6, FS_Subset
<1> QED BY <1>7 DEF Calcule

(* It is unique, and the same for every set that contains the indices.     *)
LEMMA CalculUnique ==
  ASSUME NEW S, NEW T, IsFiniteSet(S), T \in SUBSET S, NEW f, NEW g, NEW h,
         Calcule(g, f, S), Calcule(h, f, T)
  PROVE  g[T] = h[T]
<1> DEFINE N == {n \in Nat : \A s \in SUBSET T : Cardinality(s) = n => g[s] = h[s]}
<1>1. \A s \in SUBSET T : IsFiniteSet(s) /\ Cardinality(s) \in Nat
  BY FS_Subset, FS_CardinalityType
<1>2. \A s \in SUBSET T : g[s] = Suivant(g, f, s) /\ h[s] = Suivant(h, f, s)
  <2>1. \A s \in SUBSET T : s \in SUBSET S
    OBVIOUS
  <2>2. \A s \in SUBSET S : g[s] = Suivant(g, f, s)
    BY DEF Calcule
  <2>3. \A s \in SUBSET T : h[s] = Suivant(h, f, s)
    BY DEF Calcule
  <2> QED BY <2>1, <2>2, <2>3
<1>3. 0 \in N
  BY <1>1, <1>2, FS_EmptySet DEF Suivant
<1>4. ASSUME NEW n \in N PROVE n + 1 \in N
  <2> SUFFICES ASSUME NEW s \in SUBSET T, Cardinality(s) = n + 1 PROVE g[s] = h[s]
    OBVIOUS
  <2>1. s # {} /\ Choisi(s) \in s
    BY FS_EmptySet DEF Choisi
  <2>2. s \ {Choisi(s)} \in SUBSET T /\ Cardinality(s \ {Choisi(s)}) = n
    <3>1. n \in Nat /\ IsFiniteSet(s)
      BY <1>1
    <3> HIDE DEF N
    <3>2. Cardinality(s \ {Choisi(s)}) = Cardinality(s) - 1
      BY <2>1, <3>1, FS_RemoveElement
    <3>3. (n + 1) - 1 = n
      BY <3>1
    <3> QED BY <3>2, <3>3
  <2>3. g[s \ {Choisi(s)}] = h[s \ {Choisi(s)}]
    BY <2>2
  <2> QED BY <1>2, <2>1, <2>3 DEF Suivant
<1>5. Cardinality(T) \in N
  <2>1. N \subseteq Nat
    OBVIOUS
  <2> HIDE DEF N
  <2>2. N = Nat
    BY <1>3, <1>4, <2>1, NatMin
  <2> QED BY <2>2, FS_Subset, FS_CardinalityType
<1> QED BY <1>5

-----------------------------------------------------------------------------
(* The facts that are used. *)

LEMMA SommeVide == ASSUME NEW f PROVE SumFunctionOnSet(f, {}) = 0
<1>1. \E g : Calcule(g, f, {})
  BY CalculExiste, FS_EmptySet
<1>2. PICK g : Calcule(g, f, {}) /\ SumFunctionOnSet(f, {}) = g[{}]
  BY <1>1, SommeDepliee
<1> QED BY <1>2 DEF Calcule, Suivant
(* The sums of the subsets of a set satisfy the recursion.                 *)
Totaux(f, S) == [T \in SUBSET S |-> SumFunctionOnSet(f, T)]

LEMMA SommeCalcul ==
  ASSUME NEW S, IsFiniteSet(S), NEW f, \A x \in S : f[x] \in Int
  PROVE  Totaux(f, S) \in [SUBSET S -> Int] /\ Calcule(Totaux(f, S), f, S)
<1>1. PICK g \in [SUBSET S -> Int] : Calcule(g, f, S)
  BY CalculExiste
<1>2. ASSUME NEW T \in SUBSET S PROVE SumFunctionOnSet(f, T) = g[T]
  <2>1. IsFiniteSet(T) /\ \A x \in T : f[x] \in Int
    BY FS_Subset
  <2>2. \E h : Calcule(h, f, T)
    BY <2>1, CalculExiste
  <2>3. PICK h : Calcule(h, f, T) /\ SumFunctionOnSet(f, T) = h[T]
    BY <2>2, SommeDepliee
  <2>4. g[T] = h[T]
    BY <1>1, <2>3, CalculUnique
  <2> QED BY <2>3, <2>4
<1>3. Totaux(f, S) = g
  BY <1>1, <1>2 DEF Totaux
<1> QED BY <1>1, <1>3

(* A sum of integers is an integer.                                        *)
LEMMA SommeType ==
  ASSUME NEW S, IsFiniteSet(S), NEW f, \A x \in S : f[x] \in Int
  PROVE  SumFunctionOnSet(f, S) \in Int
<1>1. Totaux(f, S) \in [SUBSET S -> Int]
  BY SommeCalcul
<1> QED BY <1>1 DEF Totaux

(* Any element can be taken out of the sum.                                *)
LEMMA SommeRetrait ==
  ASSUME NEW S, IsFiniteSet(S), NEW f, \A x \in S : f[x] \in Int, NEW e \in S
  PROVE  SumFunctionOnSet(f, S) = f[e] + SumFunctionOnSet(f, S \ {e})
<1> DEFINE So(T) == SumFunctionOnSet(f, T)
           N == {n \in Nat : \A T \in SUBSET S : Cardinality(T) = n =>
                               \A x \in T : So(T) = f[x] + So(T \ {x})}
<1>1. \A T \in SUBSET S : IsFiniteSet(T) /\ Cardinality(T) \in Nat
  BY FS_Subset, FS_CardinalityType
<1>2. \A T \in SUBSET S : So(T) \in Int
  BY <1>1, SommeType
<1>3. \A T \in SUBSET S : T # {} => So(T) = f[Choisi(T)] + So(T \ {Choisi(T)})
  <2> DEFINE g == Totaux(f, S)
  <2>1. Calcule(g, f, S)
    BY SommeCalcul
  <2> SUFFICES ASSUME NEW T \in SUBSET S, T # {}
               PROVE  So(T) = f[Choisi(T)] + So(T \ {Choisi(T)})
    OBVIOUS
  <2>2. g[T] = So(T) /\ g[T \ {Choisi(T)}] = So(T \ {Choisi(T)})
    BY DEF Totaux
  <2> HIDE DEF So, g
  <2>3. g[T] = Suivant(g, f, T)
    BY <2>1 DEF Calcule
  <2> QED BY <2>2, <2>3 DEF Suivant
<1>4. 0 \in N
  <2>1. \A T \in SUBSET S : Cardinality(T) = 0 => T = {}
    BY <1>1, FS_EmptySet
  <2> HIDE DEF So
  <2> QED BY <2>1
<1> HIDE DEF So
<1>5. ASSUME NEW n \in N PROVE n + 1 \in N
  <2> SUFFICES ASSUME NEW T \in SUBSET S, Cardinality(T) = n + 1, NEW x \in T
               PROVE  So(T) = f[x] + So(T \ {x})
    OBVIOUS
  <2>1. n \in Nat
    OBVIOUS
  <2> DEFINE y == Choisi(T)
  <2>2. y \in T /\ So(T) = f[y] + So(T \ {y})
    BY <1>3 DEF Choisi
  <2>3. CASE x = y
    BY <2>2, <2>3
  <2>4. CASE x # y
    <3> HIDE DEF y
    <3>1. Cardinality(T \ {x}) = n /\ Cardinality(T \ {y}) = n
      <4> HIDE DEF N
      <4>1. IsFiniteSet(T) /\ Cardinality(T) - 1 = n
        BY <1>1, <2>1
      <4>2. Cardinality(T \ {x}) = Cardinality(T) - 1
        BY <4>1, FS_RemoveElement
      <4>3. Cardinality(T \ {y}) = Cardinality(T) - 1
        BY <2>2, <4>1, FS_RemoveElement
      <4> QED BY <4>1, <4>2, <4>3
    <3>2. So(T \ {x}) = f[y] + So((T \ {x}) \ {y})
      BY <2>2, <2>4, <3>1
    <3>3. So(T \ {y}) = f[x] + So((T \ {y}) \ {x})
      BY <2>2, <2>4, <3>1
    <3>4. (T \ {y}) \ {x} = (T \ {x}) \ {y}
      OBVIOUS
    <3>5. f[x] \in Int /\ f[y] \in Int /\ So((T \ {x}) \ {y}) \in Int
      BY <1>2, <2>2
    <3> HIDE DEF N
    <3> DEFINE a == So((T \ {x}) \ {y})
    <3> HIDE DEF a
    <3>6. So(T) = f[y] + (f[x] + a) /\ So(T \ {x}) = f[y] + a
      BY <2>2, <3>2, <3>3, <3>4 DEF a
    <3>7. a \in Int
      BY <3>5 DEF a
    <3> QED BY <3>5, <3>6, <3>7
  <2> QED BY <2>3, <2>4
<1>6. Cardinality(S) \in N
  <2>1. N \subseteq Nat
    OBVIOUS
  <2> HIDE DEF N
  <2>2. N = Nat
    BY <1>4, <1>5, <2>1, NatMin
  <2> QED BY <2>2, FS_CardinalityType
<1> QED BY <1>6 DEF So

(* A new element adds its value.                                           *)
LEMMA SommeAjout ==
  ASSUME NEW S, IsFiniteSet(S), NEW e, e \notin S,
         NEW f, \A x \in S \cup {e} : f[x] \in Int
  PROVE  SumFunctionOnSet(f, S \cup {e}) = f[e] + SumFunctionOnSet(f, S)
<1>1. IsFiniteSet(S \cup {e}) /\ (S \cup {e}) \ {e} = S
  BY FS_AddElement
<1> QED BY <1>1, SommeRetrait

(* Functions that agree on the set have the same sum.                      *)
LEMMA SommeEgale ==
  ASSUME NEW S, IsFiniteSet(S), NEW f, NEW h, \A x \in S : f[x] \in Int /\ f[x] = h[x]
  PROVE  SumFunctionOnSet(f, S) = SumFunctionOnSet(h, S)
<1> DEFINE So(T) == SumFunctionOnSet(f, T)
           Sh(T) == SumFunctionOnSet(h, T)
           U == {T \in SUBSET S : So(T) = Sh(T)}
<1>1. {} \in U
  BY SommeVide
<1>2. ASSUME NEW T \in SUBSET S, NEW e \in S, T \in U PROVE T \cup {e} \in U
  <2>1. CASE e \in T
    <3>1. T \cup {e} = T
      BY <2>1
    <3> QED BY <1>2, <3>1
  <2>2. CASE e \notin T
    <3>1. IsFiniteSet(T)
      BY FS_Subset
    <3>2. So(T \cup {e}) = f[e] + So(T)
      BY <2>2, <3>1, SommeAjout
    <3>3. Sh(T \cup {e}) = h[e] + Sh(T)
      BY <2>2, <3>1, SommeAjout
    <3> HIDE DEF So, Sh
    <3> QED BY <1>2, <3>2, <3>3
  <2> QED BY <2>1, <2>2
<1>3. S \in U
  <2> HIDE DEF U
  <2> QED BY <1>1, <1>2, FiniInduction
<1> QED BY <1>3

(* A sum whose terms are all zero is zero.                                 *)
LEMMA SommeNulle ==
  ASSUME NEW S, IsFiniteSet(S), NEW f, \A x \in S : f[x] = 0
  PROVE  SumFunctionOnSet(f, S) = 0
<1> DEFINE So(T) == SumFunctionOnSet(f, T)
           U == {T \in SUBSET S : So(T) = 0}
<1>1. {} \in U
  BY SommeVide
<1>2. ASSUME NEW T \in SUBSET S, NEW e \in S, T \in U PROVE T \cup {e} \in U
  <2>1. CASE e \in T
    <3>1. T \cup {e} = T
      BY <2>1
    <3> QED BY <1>2, <3>1
  <2>2. CASE e \notin T
    <3>1. IsFiniteSet(T)
      BY FS_Subset
    <3>2. \A x \in T \cup {e} : f[x] \in Int
      OBVIOUS
    <3>3. So(T \cup {e}) = f[e] + So(T)
      BY <2>2, <3>1, <3>2, SommeAjout
    <3> HIDE DEF So
    <3> QED BY <1>2, <3>3
  <2> QED BY <2>1, <2>2
<1>3. S \in U
  <2> HIDE DEF U
  <2> QED BY <1>1, <1>2, FiniInduction
<1> QED BY <1>3

(* When the value of one element changes, the sum changes by as much.      *)
LEMMA SommeChange ==
  ASSUME NEW S, IsFiniteSet(S), NEW e \in S, NEW f, NEW h,
         \A x \in S : f[x] \in Int /\ h[x] \in Int,
         \A x \in S \ {e} : f[x] = h[x]
  PROVE  SumFunctionOnSet(h, S) = SumFunctionOnSet(f, S) + (h[e] - f[e])
<1>1. IsFiniteSet(S \ {e})
  BY FS_RemoveElement
<1>2. SumFunctionOnSet(f, S \ {e}) = SumFunctionOnSet(h, S \ {e})
  BY <1>1, SommeEgale
<1>3. SumFunctionOnSet(f, S) = f[e] + SumFunctionOnSet(f, S \ {e})
  BY SommeRetrait
<1>4. SumFunctionOnSet(h, S) = h[e] + SumFunctionOnSet(h, S \ {e})
  BY SommeRetrait
<1>5. SumFunctionOnSet(f, S \ {e}) \in Int
  BY <1>1, SommeType
<1> DEFINE a == SumFunctionOnSet(f, S)
           b == SumFunctionOnSet(h, S)
           c == SumFunctionOnSet(f, S \ {e})
           d == SumFunctionOnSet(h, S \ {e})
<1> HIDE DEF a, b, c, d
<1>6. f[e] \in Int /\ h[e] \in Int
  OBVIOUS
<1>7. a = f[e] + c /\ b = h[e] + d /\ c = d /\ c \in Int
  BY <1>2, <1>3, <1>4, <1>5 DEF a, b, c, d
<1>8. b = a + (h[e] - f[e])
  BY <1>6, <1>7
<1> QED BY <1>8 DEF a, b

(* A sum with one term that may not be zero is this term.                  *)
LEMMA SommeUn ==
  ASSUME NEW S, IsFiniteSet(S), NEW e \in S, NEW f, f[e] \in Int,
         \A x \in S \ {e} : f[x] = 0
  PROVE  SumFunctionOnSet(f, S) = f[e]
<1>1. IsFiniteSet(S \ {e})
  BY FS_RemoveElement
<1>2. SumFunctionOnSet(f, S \ {e}) = 0
  BY <1>1, SommeNulle
<1>3. \A x \in S : f[x] \in Int
  OBVIOUS
<1>4. SumFunctionOnSet(f, S) = f[e] + SumFunctionOnSet(f, S \ {e})
  BY <1>3, SommeRetrait
<1> QED BY <1>2, <1>4

(* A sum over the first integers goes on with the next one.                *)
LEMMA SommeSuite ==
  ASSUME NEW n \in Nat, NEW f, NEW h, \A i \in 1..n : f[i] \in Int /\ f[i] = h[i],
         h[n + 1] \in Int
  PROVE  SumFunctionOnSet(h, 1..(n + 1)) = SumFunctionOnSet(f, 1..n) + h[n + 1]
<1>1. 1..(n + 1) = (1..n) \cup {n + 1} /\ n + 1 \notin 1..n /\ IsFiniteSet(1..n)
  <2>1. 1..(n + 1) = (1..n) \cup {n + 1} /\ n + 1 \notin 1..n
    OBVIOUS
  <2>2. IsFiniteSet(1..n)
    BY FS_Interval
  <2> QED BY <2>1, <2>2
<1>2. \A i \in (1..n) \cup {n + 1} : h[i] \in Int
  OBVIOUS
<1>3. SumFunctionOnSet(h, (1..n) \cup {n + 1}) = h[n + 1] + SumFunctionOnSet(h, 1..n)
  BY <1>1, <1>2, SommeAjout
<1>4. SumFunctionOnSet(f, 1..n) = SumFunctionOnSet(h, 1..n)
  BY <1>1, SommeEgale
<1>5. SumFunctionOnSet(f, 1..n) \in Int
  BY <1>1, SommeType
<1> DEFINE s == SumFunctionOnSet(f, 1..n)
           u == SumFunctionOnSet(h, 1..(n + 1))
           e == h[n + 1]
<1>6. u = e + s /\ s \in Int /\ e \in Int
  BY <1>1, <1>3, <1>4, <1>5
<1> HIDE DEF s, u, e
<1>7. u = s + e
  BY <1>6
<1> QED BY <1>7 DEF s, u, e

(* A sum whose terms have one value on a first part, another on a second   *)
(* part, and are zero elsewhere, counts the two parts.                     *)
LEMMA SommeDeux ==
  ASSUME NEW S, IsFiniteSet(S), NEW C \in SUBSET S, NEW D \in SUBSET S, C \cap D = {},
         NEW f, NEW c \in Int, NEW d \in Int,
         \A x \in C : f[x] = c, \A x \in D : f[x] = d, \A x \in S \ (C \cup D) : f[x] = 0
  PROVE  SumFunctionOnSet(f, S) = Cardinality(C) * c + Cardinality(D) * d
<1> DEFINE So(T) == SumFunctionOnSet(f, T)
           Co(T) == Cardinality(C \cap T) * c + Cardinality(D \cap T) * d
           U == {T \in SUBSET S : So(T) = Co(T)}
<1>0. \A x \in S : f[x] \in Int
  <2> SUFFICES ASSUME NEW x \in S PROVE f[x] \in Int
    OBVIOUS
  <2>1. x \in C \/ x \in D \/ x \in S \ (C \cup D)
    OBVIOUS
  <2>2. f[x] = c \/ f[x] = d \/ f[x] = 0
    BY <2>1
  <2> QED BY <2>2
<1>1. {} \in U
  <2>1. C \cap {} = {} /\ D \cap {} = {}
    OBVIOUS
  <2>2. Cardinality(C \cap {}) = 0 /\ Cardinality(D \cap {}) = 0
    BY <2>1, FS_EmptySet
  <2>3. 0 * c + 0 * d = 0
    OBVIOUS
  <2> QED BY <2>2, <2>3, SommeVide
<1>2. ASSUME NEW T \in SUBSET S, NEW e \in S, T \in U PROVE T \cup {e} \in U
  <2>1. CASE e \in T
    <3>1. T \cup {e} = T
      BY <2>1
    <3> QED BY <1>2, <3>1
  <2>2. CASE e \notin T
    <3> DEFINE m == Cardinality(C \cap T)
               n == Cardinality(D \cap T)
    <3>1. IsFiniteSet(T) /\ IsFiniteSet(C \cap T) /\ IsFiniteSet(D \cap T)
      BY FS_Subset
    <3>2. m \in Nat /\ n \in Nat
      BY <3>1, FS_CardinalityType
    <3>3. \A x \in T \cup {e} : f[x] \in Int
      BY <1>0
    <3>4. So(T \cup {e}) = f[e] + So(T)
      BY <2>2, <3>1, <3>3, SommeAjout
    <3>5. So(T) = m * c + n * d
      BY <1>2
    <3>6. CASE e \in C
      <4>1. C \cap (T \cup {e}) = (C \cap T) \cup {e} /\ D \cap (T \cup {e}) = D \cap T
        BY <3>6
      <4>2. Cardinality(C \cap (T \cup {e})) = m + 1 /\ Cardinality(D \cap (T \cup {e})) = n
        BY <2>2, <3>1, <4>1, FS_AddElement
      <4>3. f[e] = c
        BY <3>6
      <4> HIDE DEF So, m, n
      <4>4. (m + 1) * c + n * d = c + (m * c + n * d)
        BY <3>2
      <4>5. So(T \cup {e}) = Co(T \cup {e})
        BY <3>4, <3>5, <4>2, <4>3, <4>4
      <4> QED BY <4>5
    <3>7. CASE e \in D
      <4>1. D \cap (T \cup {e}) = (D \cap T) \cup {e} /\ C \cap (T \cup {e}) = C \cap T
        BY <3>7
      <4>2. Cardinality(D \cap (T \cup {e})) = n + 1 /\ Cardinality(C \cap (T \cup {e})) = m
        BY <2>2, <3>1, <4>1, FS_AddElement
      <4>3. f[e] = d
        BY <3>7
      <4> HIDE DEF So, m, n
      <4>4. m * c + (n + 1) * d = d + (m * c + n * d)
        BY <3>2
      <4>5. So(T \cup {e}) = Co(T \cup {e})
        BY <3>4, <3>5, <4>2, <4>3, <4>4
      <4> QED BY <4>5
    <3>8. CASE e \notin C \cup D
      <4>1. D \cap (T \cup {e}) = D \cap T /\ C \cap (T \cup {e}) = C \cap T
        BY <3>8
      <4>2. f[e] = 0
        BY <3>8
      <4> HIDE DEF So, m, n
      <4>3. m * c + n * d = 0 + (m * c + n * d)
        BY <3>2
      <4>4. So(T \cup {e}) = Co(T \cup {e})
        BY <3>4, <3>5, <4>1, <4>2, <4>3 DEF m, n
      <4> QED BY <4>4
    <3> QED BY <3>6, <3>7, <3>8
  <2> QED BY <2>1, <2>2
<1>3. S \in U
  <2> HIDE DEF U
  <2> QED BY <1>1, <1>2, FiniInduction
<1>4. C \cap S = C /\ D \cap S = D
  OBVIOUS
<1> QED BY <1>3, <1>4
=============================================================================
