---------------------------- MODULE SumTheorems ----------------------------
(***************************************************************************)
(* Induction by a least element, and what follows from it for the sums of  *)
(* the community modules.                                                  *)
(***************************************************************************)
EXTENDS Integers, FiniteSetsExt, Functions, FiniteSetTheorems,
        NaturalsInduction, TLAPS

Below == {p \in Nat \X Nat : p[1] < p[2]}

(* A set of naturals that is not empty has a least element: how the proofs *)
(* below use induction, on a counterexample.                               *)
LEMMA LeastNatural ==
  ASSUME NEW T \in SUBSET Nat, T # {}
  PROVE  \E n \in T : \A m \in T : n <= m
<1>1. OpToRel(<, Nat) = Below
  BY DEF OpToRel, Below
<1>2. IsWellFoundedOn(Below, Nat)
  BY <1>1, NatLessThanWellFounded
<1>3. PICK n \in T : \A m \in T : ~(<<m, n>> \in Below)
  BY <1>2, WFMin
<1>4. ASSUME NEW m \in T PROVE n <= m
  <2>1. m \in Nat /\ n \in Nat /\ <<m, n>> \in Nat \X Nat
    OBVIOUS
  <2>2. ~(m < n)
    BY <1>3, <2>1 DEF Below
  <2> QED BY <2>1, <2>2
<1> QED BY <1>4

(* The two forms the proofs need: over the naturals, and over the subsets  *)
(* of a finite set.  What is to be shown is a set, since an operator       *)
(* cannot be instantiated.                                                 *)
LEMMA InductionOverNat ==
  ASSUME NEW P \in SUBSET Nat, 0 \in P, \A n \in P : n + 1 \in P
  PROVE  P = Nat
<1> SUFFICES ASSUME Nat \ P # {} PROVE FALSE
  OBVIOUS
<1>1. PICK n \in Nat \ P : \A m \in Nat \ P : n <= m
  BY LeastNatural
<1>2. n # 0 /\ n - 1 \in Nat
  BY <1>1
<1>3. n - 1 \in P
  BY <1>1, <1>2
<1>4. (n - 1) + 1 = n
  BY <1>1
<1> QED BY <1>1, <1>3, <1>4

LEMMA InductionOverSubsets ==
  ASSUME NEW S, IsFiniteSet(S), NEW P \in SUBSET (SUBSET S),
         \A T \in SUBSET S : (\A x \in T : T \ {x} \in P) => T \in P
  PROVE  P = SUBSET S
<1> DEFINE sized == {n \in Nat : \A T \in SUBSET S : Cardinality(T) = n => T \in P}
<1>1. \A T \in SUBSET S : IsFiniteSet(T) /\ Cardinality(T) \in Nat
  BY FS_Subset, FS_CardinalityType
<1>2. 0 \in sized
  <2>1. {} \in P
    OBVIOUS
  <2> QED BY <1>1, <2>1, FS_EmptySet
<1>3. ASSUME NEW n \in sized PROVE n + 1 \in sized
  <2> SUFFICES ASSUME NEW T \in SUBSET S, Cardinality(T) = n + 1 PROVE T \in P
    OBVIOUS
  <2>1. ASSUME NEW x \in T PROVE T \ {x} \in P
    <3>1. Cardinality(T \ {x}) = n /\ T \ {x} \in SUBSET S
      BY <1>1, FS_RemoveElement
    <3> QED BY <3>1
  <2> QED BY <2>1
<1>4. sized \in SUBSET Nat
  OBVIOUS
<1> HIDE DEF sized
<1>5. sized = Nat
  BY <1>2, <1>3, <1>4, InductionOverNat
<1> USE DEF sized
<1> QED BY <1>1, <1>5

LEMMA MinOfNaturals ==
  ASSUME NEW T \in SUBSET Nat, T # {}
  PROVE  Min(T) \in T /\ \A m \in T : Min(T) <= m
BY LeastNatural DEF Min

LEMMA MaxOfNaturals ==
  ASSUME NEW S \in SUBSET Nat, IsFiniteSet(S), S # {}
  PROVE  Max(S) \in S /\ \A m \in S : Max(S) >= m
<1> DEFINE topped == {T \in SUBSET S : T # {} => \E n \in T : \A m \in T : n >= m}
<1>1. ASSUME NEW T \in SUBSET S, \A x \in T : T \ {x} \in topped
      PROVE  T \in topped
  <2> SUFFICES ASSUME T # {} PROVE \E n \in T : \A m \in T : n >= m
    OBVIOUS
  <2> PICK x \in T : TRUE
    OBVIOUS
  <2>1. x \in Nat /\ \A m \in T : m \in Nat
    OBVIOUS
  <2>2. CASE T \ {x} = {}
    <3>1. \A m \in T : x >= m
      BY <2>1, <2>2
    <3> QED BY <3>1
  <2>3. CASE T \ {x} # {}
    <3>1. PICK n \in T \ {x} : \A m \in T \ {x} : n >= m
      BY <1>1, <2>3
    <3>2. \A m \in T : m # x => n >= m
      BY <3>1
    <3> HIDE DEF topped
    <3>3. CASE n >= x
      BY <2>1, <3>1, <3>2, <3>3
    <3>4. CASE ~(n >= x)
      <4>1. \A m \in T : x >= m
        BY <2>1, <3>1, <3>2, <3>4
      <4> QED BY <4>1
    <3> QED BY <3>3, <3>4
  <2> QED BY <2>2, <2>3
<1>2. topped = SUBSET S
  <2>1. topped \in SUBSET (SUBSET S)
    OBVIOUS
  <2> HIDE DEF topped
  <2> QED BY <1>1, <2>1, InductionOverSubsets
<1>3. \E n \in S : \A m \in S : n >= m
  BY <1>2
<1> QED BY <1>3 DEF Max

-----------------------------------------------------------------------------
(* Sums over a finite set.                                                 *)

Chosen(s) == CHOOSE x \in s : TRUE

(* g gives every subset of S the sum of the values of f over it.           *)
IsFold(g, f, S) ==
  g = [s \in SUBSET S |-> IF s = {} THEN 0 ELSE f[Chosen(s)] + g[s \ {Chosen(s)}]]

LEMMA FoldUnfolds ==
  ASSUME NEW S, NEW f, NEW g, IsFold(g, f, S)
  PROVE  /\ g[{}] = 0
         /\ \A T \in SUBSET S : T # {} =>
              Chosen(T) \in T /\ g[T] = f[Chosen(T)] + g[T \ {Chosen(T)}]
BY DEF IsFold, Chosen

LEMMA FoldExists ==
  ASSUME NEW S, IsFiniteSet(S), NEW f
  PROVE  \E g : IsFold(g, f, S)
<1> DEFINE small(n) == {s \in SUBSET S : Cardinality(s) <= n}
           Fits(g, n) == g = [s \in small(n) |->
                                IF s = {} THEN 0 ELSE f[Chosen(s)] + g[s \ {Chosen(s)}]]
           done == {n \in Nat : \E g : Fits(g, n)}
<1>1. \A T \in SUBSET S : IsFiniteSet(T) /\ Cardinality(T) \in Nat
  BY FS_Subset, FS_CardinalityType
<1>2. 0 \in done
  <2>1. \A s \in small(0) : s = {}
    BY <1>1, FS_EmptySet
  <2>2. Fits([s \in small(0) |-> 0], 0)
    BY <2>1
  <2> QED BY <2>2
<1>3. ASSUME NEW n \in done PROVE n + 1 \in done
  <2>1. PICK g : Fits(g, n)
    OBVIOUS
  <2> DEFINE h == [s \in small(n + 1) |->
                     IF s = {} THEN 0 ELSE f[Chosen(s)] + g[s \ {Chosen(s)}]]
  <2>2. ASSUME NEW s \in small(n + 1), s # {}
        PROVE  h[s \ {Chosen(s)}] = g[s \ {Chosen(s)}]
    <3> DEFINE t == s \ {Chosen(s)}
    <3>1. Chosen(s) \in s
      BY <2>2 DEF Chosen
    <3>2. t \in SUBSET S /\ Cardinality(t) = Cardinality(s) - 1 /\ Cardinality(s) \in Nat
      BY <1>1, <3>1, FS_RemoveElement
    <3>3. t \in small(n) /\ t \in small(n + 1)
      BY <3>2
    <3> QED BY <2>1, <3>3
  <2>3. Fits(h, n + 1)
    BY <2>2
  <2> HIDE DEF h, Fits
  <2> QED BY <2>3
<1>4. done \in SUBSET Nat
  OBVIOUS
<1>5. done = Nat
  <2> HIDE DEF done
  <2> QED BY <1>2, <1>3, <1>4, InductionOverNat
<1>6. Cardinality(S) \in Nat /\ small(Cardinality(S)) = SUBSET S
  BY <1>1, FS_Subset, FS_CardinalityType
<1>7. PICK g : Fits(g, Cardinality(S))
  BY <1>5, <1>6
<1> QED BY <1>6, <1>7 DEF IsFold

(* Two such functions agree where the functions they sum agree.            *)
LEMMA FoldsAgree ==
  ASSUME NEW S, IsFiniteSet(S), NEW f, NEW e, \A x \in S : f[x] = e[x],
         NEW g, IsFold(g, f, S), NEW h, IsFold(h, e, S)
  PROVE  g = h
<1> DEFINE same == {s \in SUBSET S : g[s] = h[s]}
<1>2. ASSUME NEW T \in SUBSET S, \A x \in T : T \ {x} \in same
      PROVE  T \in same
  <2>1. CASE T = {}
    BY <2>1, FoldUnfolds
  <2>2. CASE T # {}
    <3>1. Chosen(T) \in T
      BY <2>2 DEF Chosen
    <3>2. g[T \ {Chosen(T)}] = h[T \ {Chosen(T)}] /\ f[Chosen(T)] = e[Chosen(T)]
      BY <1>2, <3>1
    <3>3. /\ g[T] = f[Chosen(T)] + g[T \ {Chosen(T)}]
          /\ h[T] = e[Chosen(T)] + h[T \ {Chosen(T)}]
      BY <2>2, FoldUnfolds
    <3> QED BY <3>2, <3>3
  <2> QED BY <2>1, <2>2
<1>3. same = SUBSET S
  <2>1. same \in SUBSET (SUBSET S)
    OBVIOUS
  <2> HIDE DEF same
  <2> QED BY <1>2, <2>1, InductionOverSubsets
<1> QED BY <1>3 DEF IsFold

LEMMA FoldType ==
  ASSUME NEW S, IsFiniteSet(S), NEW f, \A x \in S : f[x] \in Nat,
         NEW g, IsFold(g, f, S)
  PROVE  g \in [SUBSET S -> Nat]
<1> DEFINE typed == {s \in SUBSET S : g[s] \in Nat}
<1>2. ASSUME NEW T \in SUBSET S, \A x \in T : T \ {x} \in typed
      PROVE  T \in typed
  <2>1. CASE T = {}
    BY <2>1, FoldUnfolds
  <2>2. CASE T # {}
    <3>1. Chosen(T) \in T
      BY <2>2 DEF Chosen
    <3>2. g[T \ {Chosen(T)}] \in Nat /\ f[Chosen(T)] \in Nat
      BY <1>2, <3>1
    <3>3. g[T] = f[Chosen(T)] + g[T \ {Chosen(T)}]
      BY <2>2, FoldUnfolds
    <3> QED BY <3>2, <3>3
  <2> QED BY <2>1, <2>2
<1>3. typed = SUBSET S
  <2>1. typed \in SUBSET (SUBSET S)
    OBVIOUS
  <2> HIDE DEF typed
  <2> QED BY <1>2, <2>1, InductionOverSubsets
<1> QED BY <1>3 DEF IsFold

(* Any element may be taken first.                                         *)
LEMMA FoldTakesAny ==
  ASSUME NEW S, IsFiniteSet(S), NEW f, \A x \in S : f[x] \in Nat,
         NEW g, IsFold(g, f, S)
  PROVE  \A T \in SUBSET S : \A x \in T : g[T] = f[x] + g[T \ {x}]
<1> DEFINE free == {s \in SUBSET S : \A x \in s : g[s] = f[x] + g[s \ {x}]}
<1>0. g \in [SUBSET S -> Nat]
  BY FoldType
<1>2. ASSUME NEW T \in SUBSET S, \A x \in T : T \ {x} \in free
      PROVE  T \in free
  <2> SUFFICES ASSUME NEW x \in T PROVE g[T] = f[x] + g[T \ {x}]
    OBVIOUS
  <2> DEFINE y == Chosen(T)
  <2>1. y \in T /\ g[T] = f[y] + g[T \ {y}]
    BY DEF Chosen, IsFold
  <2>2. CASE y = x
    BY <2>1, <2>2
  <2>3. CASE y # x
    <3>1. g[T \ {y}] = f[x] + g[(T \ {y}) \ {x}]
      BY <1>2, <2>1, <2>3
    <3>2. g[T \ {x}] = f[y] + g[(T \ {x}) \ {y}]
      BY <1>2, <2>1, <2>3
    <3>3. (T \ {y}) \ {x} = (T \ {x}) \ {y}
      OBVIOUS
    <3>4. f[x] \in Nat /\ f[y] \in Nat /\ g[(T \ {x}) \ {y}] \in Nat
      BY <1>0, <2>1
    <3> HIDE DEF y, free
    <3>5. g[T] = f[y] + (f[x] + g[(T \ {x}) \ {y}])
      BY <2>1, <3>1, <3>3
    <3> QED BY <3>2, <3>4, <3>5
  <2> QED BY <2>2, <2>3
<1>3. free = SUBSET S
  <2>1. free \in SUBSET (SUBSET S)
    OBVIOUS
  <2> HIDE DEF free
  <2> QED BY <1>2, <2>1, InductionOverSubsets
<1> QED BY <1>3

LEMMA FoldRestricts ==
  ASSUME NEW S, NEW T \in SUBSET S, NEW f, NEW g, IsFold(g, f, S)
  PROVE  \E h : IsFold(h, f, T) /\ h[T] = g[T]
<1> DEFINE h == [s \in SUBSET T |-> g[s]]
<1>1. IsFold(h, f, T)
  BY DEF IsFold, Chosen
<1>2. h[T] = g[T]
  OBVIOUS
<1> HIDE DEF h
<1> QED BY <1>1, <1>2

-----------------------------------------------------------------------------
(* SumFunctionOnSet.                                                       *)

LEMMA SumIsFold ==
  ASSUME NEW S, IsFiniteSet(S), NEW f, NEW g, IsFold(g, f, S)
  PROVE  SumFunctionOnSet(f, S) = g[S]
<1> DEFINE h == CHOOSE h : IsFold(h, f, S)
<1>1. IsFold(h, f, S)
  OBVIOUS
<1>2. SumFunctionOnSet(f, S) = h[S]
  BY DEF SumFunctionOnSet, FoldFunctionOnSet, MapThenFoldSet, IsFold, Chosen
<1>3. g = h
  BY <1>1, FoldsAgree
<1> QED BY <1>2, <1>3

LEMMA SumOverNothing ==
  ASSUME NEW f PROVE SumFunctionOnSet(f, {}) = 0
<1>1. IsFiniteSet({})
  BY FS_EmptySet
<1>2. PICK g : IsFold(g, f, {})
  BY <1>1, FoldExists
<1>3. SumFunctionOnSet(f, {}) = g[{}]
  BY <1>1, <1>2, SumIsFold
<1> QED BY <1>2, <1>3 DEF IsFold

LEMMA SumType ==
  ASSUME NEW S, IsFiniteSet(S), NEW f, \A x \in S : f[x] \in Nat
  PROVE  SumFunctionOnSet(f, S) \in Nat
<1>1. PICK g : IsFold(g, f, S)
  BY FoldExists
<1>2. g \in [SUBSET S -> Nat]
  BY <1>1, FoldType
<1>3. SumFunctionOnSet(f, S) = g[S]
  BY <1>1, SumIsFold
<1> QED BY <1>2, <1>3

LEMMA SumsAgree ==
  ASSUME NEW S, IsFiniteSet(S), NEW f, NEW e, \A x \in S : f[x] = e[x]
  PROVE  SumFunctionOnSet(f, S) = SumFunctionOnSet(e, S)
<1>1. PICK g : IsFold(g, f, S)
  BY FoldExists
<1>2. PICK h : IsFold(h, e, S)
  BY FoldExists
<1>3. g = h
  BY <1>1, <1>2, FoldsAgree
<1> QED BY <1>1, <1>2, <1>3, SumIsFold

LEMMA SumTakesAny ==
  ASSUME NEW S, IsFiniteSet(S), NEW f, \A x \in S : f[x] \in Nat, NEW x \in S
  PROVE  SumFunctionOnSet(f, S) = f[x] + SumFunctionOnSet(f, S \ {x})
<1>1. PICK g : IsFold(g, f, S)
  BY FoldExists
<1>2. g[S] = f[x] + g[S \ {x}]
  BY <1>1, FoldTakesAny
<1> DEFINE T == S \ {x}
<1>3. T \in SUBSET S /\ IsFiniteSet(T)
  BY FS_Subset
<1> HIDE DEF T
<1>4. PICK h : IsFold(h, f, T) /\ h[T] = g[T]
  BY <1>1, <1>3, FoldRestricts
<1>5. SumFunctionOnSet(f, S) = g[S] /\ SumFunctionOnSet(f, T) = h[T]
  BY <1>1, <1>3, <1>4, SumIsFold
<1> QED BY <1>2, <1>4, <1>5 DEF T

LEMMA SumOfZeros ==
  ASSUME NEW S, IsFiniteSet(S), NEW f, \A x \in S : f[x] = 0
  PROVE  SumFunctionOnSet(f, S) = 0
<1> DEFINE g == [s \in SUBSET S |-> 0]
<1>1. IsFold(g, f, S)
  BY DEF IsFold, Chosen
<1>2. g[S] = 0
  OBVIOUS
<1> HIDE DEF g
<1> QED BY <1>1, <1>2, SumIsFold

(* One more at one place adds one to the sum.                              *)
LEMMA SumOfIncrement ==
  ASSUME NEW S, IsFiniteSet(S), NEW f \in [S -> Nat], NEW x \in S
  PROVE  SumFunctionOnSet([f EXCEPT ![x] = @ + 1], S) = SumFunctionOnSet(f, S) + 1
<1> DEFINE e == [f EXCEPT ![x] = @ + 1]
<1>1. /\ e \in [S -> Nat] /\ e[x] = f[x] + 1
      /\ \A y \in S \ {x} : e[y] = f[y]
  OBVIOUS
<1> HIDE DEF e
<1>2. IsFiniteSet(S \ {x})
  BY FS_Subset
<1>3. /\ SumFunctionOnSet(e, S) = e[x] + SumFunctionOnSet(e, S \ {x})
      /\ SumFunctionOnSet(f, S) = f[x] + SumFunctionOnSet(f, S \ {x})
  BY <1>1, SumTakesAny
<1>4. SumFunctionOnSet(e, S \ {x}) = SumFunctionOnSet(f, S \ {x})
  BY <1>1, <1>2, SumsAgree
<1>5. SumFunctionOnSet(f, S \ {x}) \in Nat /\ f[x] \in Nat
  BY <1>2, SumType
<1>6. SumFunctionOnSet(e, S) = SumFunctionOnSet(f, S) + 1
  BY <1>1, <1>3, <1>4, <1>5
<1> QED BY <1>6 DEF e

(* A sequence that grows by one element adds it to the sum.                *)
LEMMA SumOfLonger ==
  ASSUME NEW n \in Nat, NEW f, \A i \in 1 .. n : f[i] \in Nat,
         NEW e, \A i \in 1 .. n : e[i] = f[i], e[n + 1] \in Nat
  PROVE  SumFunctionOnSet(e, 1 .. (n + 1)) = SumFunctionOnSet(f, 1 .. n) + e[n + 1]
<1> DEFINE S == 1 .. (n + 1)
<1>1. IsFiniteSet(S) /\ IsFiniteSet(1 .. n)
  BY FS_Interval
<1>2. n + 1 \in S /\ S \ {n + 1} = 1 .. n /\ \A i \in S : i \in 1 .. n \/ i = n + 1
  OBVIOUS
<1> HIDE DEF S
<1>3. \A i \in S : e[i] \in Nat
  BY <1>2
<1>4. SumFunctionOnSet(e, S) = e[n + 1] + SumFunctionOnSet(e, 1 .. n)
  BY <1>1, <1>2, <1>3, SumTakesAny
<1>5. SumFunctionOnSet(e, 1 .. n) = SumFunctionOnSet(f, 1 .. n)
  BY <1>1, SumsAgree
<1>6. SumFunctionOnSet(f, 1 .. n) \in Nat
  BY <1>1, SumType
<1>7. SumFunctionOnSet(e, S) = SumFunctionOnSet(f, 1 .. n) + e[n + 1]
  BY <1>4, <1>5, <1>6
<1> QED BY <1>7 DEF S

(* The sum over two sets that share nothing.                               *)
LEMMA SumOfUnion ==
  ASSUME NEW S, IsFiniteSet(S), NEW T \in SUBSET S, NEW f, \A x \in S : f[x] \in Nat
  PROVE  SumFunctionOnSet(f, S) = SumFunctionOnSet(f, T) + SumFunctionOnSet(f, S \ T)
<1> DEFINE split == {U \in SUBSET T : SumFunctionOnSet(f, (S \ T) \cup U)
                                        = SumFunctionOnSet(f, U) + SumFunctionOnSet(f, S \ T)}
<1>0. /\ IsFiniteSet(T) /\ SumFunctionOnSet(f, S \ T) \in Nat
      /\ \A U \in SUBSET T : /\ SumFunctionOnSet(f, U) \in Nat /\ IsFiniteSet(U)
                             /\ IsFiniteSet((S \ T) \cup U)
  <2>1. \A U \in SUBSET S : IsFiniteSet(U)
    BY FS_Subset
  <2>2. \A U \in SUBSET S : SumFunctionOnSet(f, U) \in Nat
    <3> TAKE U \in SUBSET S
    <3>1. IsFiniteSet(U) /\ \A x \in U : f[x] \in Nat
      BY <2>1
    <3> QED BY <3>1, SumType
  <2> QED BY <2>1, <2>2
<1>1. ASSUME NEW U \in SUBSET T, \A x \in U : U \ {x} \in split
      PROVE  U \in split
  <2>1. CASE U = {}
    <3>1. (S \ T) \cup U = S \ T /\ SumFunctionOnSet(f, U) = 0
      BY <2>1, SumOverNothing
    <3> QED BY <1>0, <3>1
  <2>2. CASE U # {}
    <3> PICK x \in U : TRUE
      BY <2>2
    <3> DEFINE V == (S \ T) \cup U
               W == U \ {x}
    <3>1. x \in V /\ V \ {x} = (S \ T) \cup W /\ W \in SUBSET T /\ f[x] \in Nat
      OBVIOUS
    <3>2. IsFiniteSet(V) /\ IsFiniteSet(U) /\ (\A y \in V : f[y] \in Nat) /\ \A y \in U : f[y] \in Nat
      BY <1>0
    <3>3. SumFunctionOnSet(f, V) = f[x] + SumFunctionOnSet(f, V \ {x})
      <4> HIDE DEF V
      <4> QED BY <3>1, <3>2, SumTakesAny
    <3>4. SumFunctionOnSet(f, U) = f[x] + SumFunctionOnSet(f, W)
      BY <3>2, SumTakesAny
    <3>5. SumFunctionOnSet(f, V \ {x}) = SumFunctionOnSet(f, W) + SumFunctionOnSet(f, S \ T)
      BY <1>1, <3>1
    <3>6. SumFunctionOnSet(f, W) \in Nat
      BY <1>0, <3>1
    <3> HIDE DEF V, W, split
    <3>7. SumFunctionOnSet(f, V) = SumFunctionOnSet(f, U) + SumFunctionOnSet(f, S \ T)
      BY <1>0, <3>1, <3>3, <3>4, <3>5, <3>6
    <3> QED BY <3>7 DEF V, split
  <2> QED BY <2>1, <2>2
<1>2. split = SUBSET T
  <2>1. split \in SUBSET (SUBSET T)
    OBVIOUS
  <2> HIDE DEF split
  <2> QED BY <1>0, <1>1, <2>1, InductionOverSubsets
<1>3. T \in split /\ (S \ T) \cup T = S
  BY <1>2
<1> QED BY <1>3

(* The sum of a function that is the sum of two.                           *)
LEMMA SumOfPlus ==
  ASSUME NEW S, IsFiniteSet(S), NEW f, NEW e, NEW h,
         \A x \in S : f[x] \in Nat /\ e[x] \in Nat /\ h[x] = f[x] + e[x]
  PROVE  SumFunctionOnSet(h, S) = SumFunctionOnSet(f, S) + SumFunctionOnSet(e, S)
<1> DEFINE added == {T \in SUBSET S : SumFunctionOnSet(h, T)
                                        = SumFunctionOnSet(f, T) + SumFunctionOnSet(e, T)}
<1>0. \A T \in SUBSET S : IsFiniteSet(T)
  BY FS_Subset
<1>1. ASSUME NEW T \in SUBSET S, \A x \in T : T \ {x} \in added
      PROVE  T \in added
  <2>1. CASE T = {}
    <3>1. SumFunctionOnSet(h, T) = 0 /\ SumFunctionOnSet(f, T) = 0 /\ SumFunctionOnSet(e, T) = 0
      BY <2>1, SumOverNothing
    <3> QED BY <3>1
  <2>2. CASE T # {}
    <3> PICK x \in T : TRUE
      BY <2>2
    <3> DEFINE U == T \ {x}
    <3>1. IsFiniteSet(T) /\ IsFiniteSet(U) /\ \A y \in T : f[y] \in Nat /\ e[y] \in Nat /\ h[y] \in Nat
      BY <1>0
    <3>2. /\ SumFunctionOnSet(f, T) = f[x] + SumFunctionOnSet(f, U)
          /\ SumFunctionOnSet(e, T) = e[x] + SumFunctionOnSet(e, U)
          /\ SumFunctionOnSet(h, T) = h[x] + SumFunctionOnSet(h, U)
      BY <3>1, SumTakesAny
    <3>3. SumFunctionOnSet(f, U) \in Nat /\ SumFunctionOnSet(e, U) \in Nat
      BY <3>1, SumType
    <3>4. SumFunctionOnSet(h, U) = SumFunctionOnSet(f, U) + SumFunctionOnSet(e, U)
      BY <1>1
    <3>5. f[x] \in Nat /\ e[x] \in Nat /\ h[x] = f[x] + e[x]
      OBVIOUS
    <3> HIDE DEF U, added
    <3>6. SumFunctionOnSet(h, T) = SumFunctionOnSet(f, T) + SumFunctionOnSet(e, T)
      BY <3>2, <3>3, <3>4, <3>5
    <3> QED BY <3>6 DEF added
  <2> QED BY <2>1, <2>2
<1>2. added = SUBSET S
  <2>1. added \in SUBSET (SUBSET S)
    OBVIOUS
  <2> HIDE DEF added
  <2> QED BY <1>1, <2>1, InductionOverSubsets
<1> QED BY <1>2

(* The rows of a table add up to what its columns add up to.               *)
LEMMA SumsSwap ==
  ASSUME NEW S, IsFiniteSet(S), NEW T, IsFiniteSet(T),
         NEW f, \A x \in S : \A y \in T : f[x][y] \in Nat
  PROVE  SumFunctionOnSet([x \in S |-> SumFunctionOnSet(f[x], T)], S)
           = SumFunctionOnSet([y \in T |-> SumFunctionOnSet([x \in S |-> f[x][y]], S)], T)
<1> DEFINE rows == [x \in S |-> SumFunctionOnSet(f[x], T)]
           col == [y \in T |-> [x \in S |-> f[x][y]]]
           cols == [U \in SUBSET S |-> [y \in T |-> SumFunctionOnSet(col[y], U)]]
           swapped == {U \in SUBSET S : SumFunctionOnSet(rows, U) = SumFunctionOnSet(cols[U], T)}
<1>0. \A U \in SUBSET S : IsFiniteSet(U)
  BY FS_Subset
<1>1. \A x \in S : rows[x] \in Nat
  BY SumType
<1>2. \A y \in T : \A x \in S : col[y][x] \in Nat /\ col[y][x] = f[x][y]
  OBVIOUS
<1>3. \A U \in SUBSET S : \A y \in T : cols[U][y] = SumFunctionOnSet(col[y], U)
  OBVIOUS
<1>4. \A U \in SUBSET S : \A y \in T : cols[U][y] \in Nat
  <2> TAKE U \in SUBSET S
  <2> TAKE y \in T
  <2>1. IsFiniteSet(U) /\ \A x \in U : col[y][x] \in Nat
    BY <1>0, <1>2
  <2> HIDE DEF col, cols
  <2>2. SumFunctionOnSet(col[y], U) \in Nat
    BY <2>1, SumType
  <2> QED BY <1>3, <2>2
<1> HIDE DEF col, cols
<1>5. ASSUME NEW U \in SUBSET S, \A x \in U : U \ {x} \in swapped
      PROVE  U \in swapped
  <2>1. CASE U = {}
    <3>1. \A y \in T : cols[U][y] = 0
      BY <1>3, <2>1, SumOverNothing
    <3>2. SumFunctionOnSet(cols[U], T) = 0
      BY <3>1, SumOfZeros
    <3>3. SumFunctionOnSet(rows, U) = 0
      BY <2>1, SumOverNothing
    <3> QED BY <3>2, <3>3
  <2>2. CASE U # {}
    <3> PICK x \in U : TRUE
      BY <2>2
    <3> DEFINE V == U \ {x}
    <3>1. IsFiniteSet(U) /\ V \in SUBSET S /\ x \in S
      BY <1>0
    <3>2. ASSUME NEW y \in T
          PROVE f[x][y] \in Nat /\ cols[V][y] \in Nat /\ cols[U][y] = f[x][y] + cols[V][y]
      <4>1. \A z \in U : col[y][z] \in Nat
        BY <1>2
      <4>2. SumFunctionOnSet(col[y], U) = col[y][x] + SumFunctionOnSet(col[y], V)
        BY <3>1, <4>1, SumTakesAny
      <4>3. col[y][x] = f[x][y]
        BY <1>2, <3>1
      <4> QED BY <1>3, <1>4, <3>1, <4>2, <4>3
    <3>3. SumFunctionOnSet(cols[U], T) = SumFunctionOnSet(f[x], T) + SumFunctionOnSet(cols[V], T)
      BY <3>2, SumOfPlus
    <3>4. SumFunctionOnSet(rows, U) = rows[x] + SumFunctionOnSet(rows, V)
      <4>1. \A z \in U : rows[z] \in Nat
        BY <1>1
      <4> HIDE DEF rows
      <4> QED BY <3>1, <4>1, SumTakesAny
    <3>5. rows[x] = SumFunctionOnSet(f[x], T)
      BY <3>1
    <3>6. SumFunctionOnSet(rows, V) = SumFunctionOnSet(cols[V], T)
      BY <1>5
    <3> HIDE DEF rows, V
    <3> QED BY <3>3, <3>4, <3>5, <3>6
  <2> QED BY <2>1, <2>2
<1>6. swapped = SUBSET S
  <2>1. swapped \in SUBSET (SUBSET S)
    OBVIOUS
  <2> HIDE DEF swapped
  <2> QED BY <1>5, <2>1, InductionOverSubsets
<1>7. SumFunctionOnSet(rows, S) = SumFunctionOnSet(cols[S], T)
  BY <1>6
<1>8. cols[S] = [y \in T |-> SumFunctionOnSet([x \in S |-> f[x][y]], S)]
  BY DEF cols, col
<1> QED BY <1>7, <1>8

(* The sum over a set that is cut into numbered parts.                     *)
LEMMA SumByParts ==
  ASSUME NEW S, IsFiniteSet(S), NEW f, \A x \in S : f[x] \in Nat,
         NEW n \in Nat, NEW part, \A x \in S : part[x] \in 1..n,
         NEW group, \A i \in 1..n : /\ group[i] \in SUBSET S
                                    /\ \A x \in S : x \in group[i] <=> part[x] = i,
         NEW parts, \A i \in 1..n : parts[i] = SumFunctionOnSet(f, group[i])
  PROVE  SumFunctionOnSet(f, S) = SumFunctionOnSet(parts, 1..n)
<1> DEFINE first == [k \in Nat |-> {x \in S : part[x] <= k}]
           done == {k \in Nat : k <= n => SumFunctionOnSet(f, first[k])
                                            = SumFunctionOnSet(parts, 1..k)}
<1>1. \A U \in SUBSET S : IsFiniteSet(U) /\ SumFunctionOnSet(f, U) \in Nat
  <2> TAKE U \in SUBSET S
  <2>1. IsFiniteSet(U) /\ \A x \in U : f[x] \in Nat
    BY FS_Subset
  <2> QED BY <2>1, SumType
<1>2. \A i \in 1..n : parts[i] \in Nat
  BY <1>1
<1>3. 0 \in done
  <2>1. first[0] = {} /\ 1..0 = {}
    OBVIOUS
  <2>2. SumFunctionOnSet(f, first[0]) = SumFunctionOnSet(parts, 1..0)
    BY <2>1, SumOverNothing
  <2> QED BY <2>2
<1>4. ASSUME NEW k \in done PROVE k + 1 \in done
  <2> SUFFICES ASSUME k + 1 <= n
               PROVE  SumFunctionOnSet(f, first[k + 1]) = SumFunctionOnSet(parts, 1..(k + 1))
    OBVIOUS
  <2> DEFINE new == group[k + 1]
  <2>1. /\ k \in Nat /\ k + 1 \in 1..n
        /\ SumFunctionOnSet(f, first[k]) = SumFunctionOnSet(parts, 1..k)
    OBVIOUS
  <2>2. /\ first[k + 1] \in SUBSET S /\ first[k] \in SUBSET first[k + 1]
        /\ first[k + 1] \ first[k] = new
    OBVIOUS
  <2>3. parts[k + 1] = SumFunctionOnSet(f, new)
    BY <2>1
  <2>4. \A i \in 1..k : i \in 1..n
    BY <2>1
  <2> HIDE DEF first, new, done
  <2>5. IsFiniteSet(first[k + 1]) /\ \A x \in first[k + 1] : f[x] \in Nat
    BY <1>1, <2>2
  <2>6. SumFunctionOnSet(f, first[k + 1])
          = SumFunctionOnSet(f, first[k]) + SumFunctionOnSet(f, new)
    <3>1. SumFunctionOnSet(f, first[k + 1])
            = SumFunctionOnSet(f, first[k]) + SumFunctionOnSet(f, first[k + 1] \ first[k])
      BY <2>2, <2>5, SumOfUnion
    <3> QED BY <2>2, <3>1
  <2>7. (\A i \in 1..k : parts[i] \in Nat) /\ parts[k + 1] \in Nat
    BY <1>2, <2>1, <2>4
  <2>8. SumFunctionOnSet(parts, 1..(k + 1)) = SumFunctionOnSet(parts, 1..k) + parts[k + 1]
    BY <2>1, <2>7, SumOfLonger
  <2> QED BY <2>1, <2>3, <2>6, <2>8
<1>5. done = Nat
  <2>1. done \in SUBSET Nat
    OBVIOUS
  <2> HIDE DEF done
  <2> QED BY <1>3, <1>4, <2>1, InductionOverNat
<1>6. first[n] = S
  OBVIOUS
<1>7. SumFunctionOnSet(f, first[n]) = SumFunctionOnSet(parts, 1..n)
  <2>1. n \in done
    <3> HIDE DEF done
    <3> QED BY <1>5
  <2> HIDE DEF first
  <2> QED BY <2>1
<1> QED BY <1>6, <1>7
=============================================================================
