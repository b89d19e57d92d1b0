------------------------------ MODULE BoardProofs ------------------------------
(***************************************************************************)
(* What the operators of Board.tla keep of a board, for any accounts and   *)
(* any curve: the side's rate and share count are sums over positions, the *)
(* queue is ordered and holds the end of every stream that still flows,    *)
(* and catching up, in however many turns, moves neither what the streams  *)
(* have delivered nor anybody's loss.                                      *)
(*                                                                         *)
(* It begins with facts about sums over finite sets (SumFunctionOnSet of   *)
(* the community modules), which are of no board: the proofs about the     *)
(* treasury and about streams cite them too.  Induction is stated over     *)
(* sets, so that no theorem takes an operator: a property to prove by      *)
(* induction is given as the set of those that have it.                    *)
(***************************************************************************)
EXTENDS Board, FiniteSetTheorems, NaturalsInduction, SequenceTheorems, TLAPS

-----------------------------------------------------------------------------
(* Induction.                                                              *)

LEMMA LeastOf ==
  ASSUME NEW T \in SUBSET Nat, T # {}
  PROVE  \E n \in T : \A m \in T : n <= m
<1>1. PICK n \in T : \A m \in T : ~(<<m, n>> \in OpToRel(<, Nat))
  BY NatLessThanWellFounded, WFMin
<1>2. ASSUME NEW m \in T, m < n
      PROVE  FALSE
  <2>1. <<m, n>> \in Nat \X Nat
    OBVIOUS
  <2>2. <<m, n>>[1] < <<m, n>>[2]
    BY <1>2
  <2>3. <<m, n>> \in {p \in Nat \X Nat : p[1] < p[2]}
    BY <2>1, <2>2
  <2> QED BY <1>1, <2>3 DEF OpToRel
<1>3. \A m \in T : n <= m
  BY <1>2
<1> QED BY <1>3

LEMMA NatBySet ==
  ASSUME NEW B, 0 \in B, \A n \in Nat : n \in B => n + 1 \in B
  PROVE  Nat \subseteq B
<1> SUFFICES ASSUME Nat \ B # {}
             PROVE  FALSE
  OBVIOUS
<1>1. PICK n \in Nat \ B : \A m \in Nat \ B : n <= m
  BY LeastOf
<1>2. n # 0 /\ n - 1 \in Nat
  BY <1>1
<1>3. n - 1 \in B
  BY <1>1, <1>2
<1>4. (n - 1) + 1 \in B
  BY <1>2, <1>3
<1> QED BY <1>1, <1>4

\* Over the subsets of a finite set, from the smaller to the larger ones.
LEMMA SetBySet ==
  ASSUME NEW S, IsFiniteSet(S), NEW B,
         \A T \in SUBSET S : (\A x \in T : T \ {x} \in B) => T \in B
  PROVE  SUBSET S \subseteq B
<1> DEFINE C == {n \in Nat : \A T \in SUBSET S : Cardinality(T) = n => T \in B}
<1>1. 0 \in C
  <2> SUFFICES ASSUME NEW T \in SUBSET S, Cardinality(T) = 0
               PROVE  T \in B
    OBVIOUS
  <2>1. IsFiniteSet(T)
    BY FS_Subset
  <2>2. T = {}
    BY <2>1, FS_EmptySet
  <2> QED BY <2>2
<1>2. \A n \in Nat : n \in C => n + 1 \in C
  <2> SUFFICES ASSUME NEW n \in Nat, n \in C, NEW T \in SUBSET S, Cardinality(T) = n + 1
               PROVE  T \in B
    OBVIOUS
  <2>1. IsFiniteSet(T)
    BY FS_Subset
  <2>2. ASSUME NEW x \in T
        PROVE  T \ {x} \in B
    <3>1. Cardinality(T \ {x}) = (n + 1) - 1
      BY <2>1, FS_RemoveElement
    <3>2. Cardinality(T \ {x}) = n /\ T \ {x} \in SUBSET S
      BY <3>1
    <3> QED BY <3>2
  <2> QED BY <2>2
<1> HIDE DEF C
<1>3. Nat \subseteq C
  BY <1>1, <1>2, NatBySet
<1>4. ASSUME NEW T \in SUBSET S
      PROVE  T \in B
  <2>1. Cardinality(T) \in C
    BY <1>3, FS_Subset, FS_CardinalityType
  <2> QED BY <2>1 DEF C
<1> QED BY <1>4

-----------------------------------------------------------------------------
(* The sum is what its recursion says.                                     *)

First(s) == CHOOSE x \in s : TRUE

\* The body of the recursion: what the sum over s is, given those over less.
SumStep(f, g, s) == IF s = {} THEN 0 ELSE f[First(s)] + g[s \ {First(s)}]

SumTable(f, S) == CHOOSE g : g = [s \in SUBSET S |-> SumStep(f, g, s)]

LEMMA SumUnfolds ==
  ASSUME NEW f, NEW S
  PROVE  SumFunctionOnSet(f, S) = SumTable(f, S)[S]
BY DEF SumFunctionOnSet, FoldFunctionOnSet, MapThenFoldSet, SumStep, First, SumTable

LEMMA FirstIn ==
  ASSUME NEW s, s # {}
  PROVE  First(s) \in s
BY DEF First

LEMMA SumTableExists ==
  ASSUME NEW f, NEW S, IsFiniteSet(S)
  PROVE  \E g : g = [s \in SUBSET S |-> SumStep(f, g, s)]
<1> DEFINE Upto(n) == {s \in SUBSET S : Cardinality(s) <= n}
           B == {n \in Nat : \E g : g = [s \in Upto(n) |-> SumStep(f, g, s)]}
<1>1. \A s \in SUBSET S : IsFiniteSet(s) /\ Cardinality(s) \in Nat /\ Cardinality(s) <= Cardinality(S)
  BY FS_Subset, FS_CardinalityType
<1>2. 0 \in B
  <2> DEFINE g == [s \in Upto(0) |-> 0]
  <2>1. \A s \in Upto(0) : s = {}
    BY <1>1, FS_EmptySet
  <2>2. \A s \in Upto(0) : SumStep(f, g, s) = 0
    BY <2>1 DEF SumStep
  <2>3. g = [s \in Upto(0) |-> SumStep(f, g, s)]
    BY <2>2
  <2> QED BY <2>3
<1>3. \A n \in Nat : n \in B => n + 1 \in B
  <2> SUFFICES ASSUME NEW n \in Nat, n \in B
               PROVE  n + 1 \in B
    OBVIOUS
  <2>1. PICK g : g = [s \in Upto(n) |-> SumStep(f, g, s)]
    OBVIOUS
  <2> DEFINE h == [s \in Upto(n + 1) |-> SumStep(f, g, s)]
  <2>2. \A s \in Upto(n) : s \in Upto(n + 1)
    BY <1>1
  <2>3. \A s \in Upto(n) : h[s] = g[s]
    BY <2>1, <2>2
  <2>4. ASSUME NEW s \in Upto(n + 1), s # {}
        PROVE  s \ {First(s)} \in Upto(n)
    <3>1. Cardinality(s \ {First(s)}) = Cardinality(s) - 1
      BY <1>1, <2>4, FirstIn, FS_RemoveElement
    <3> QED BY <1>1, <3>1
  <2> HIDE DEF Upto
  <2>5. ASSUME NEW s \in Upto(n + 1)
        PROVE  SumStep(f, h, s) = SumStep(f, g, s)
    <3>1. CASE s = {}
      BY <3>1 DEF SumStep
    <3>2. CASE s # {}
      <4>1. h[s \ {First(s)}] = g[s \ {First(s)}]
        BY <2>3, <2>4, <3>2
      <4> HIDE DEF h
      <4> QED BY <3>2, <4>1 DEF SumStep
    <3> QED BY <3>1, <3>2
  <2>6. h = [s \in Upto(n + 1) |-> SumStep(f, h, s)]
    BY <2>5
  <2>7. n + 1 \in Nat
    OBVIOUS
  <2> QED BY <2>6, <2>7
<1> HIDE DEF B
<1>4. Cardinality(S) \in B
  BY <1>2, <1>3, NatBySet, FS_CardinalityType
<1>5. Upto(Cardinality(S)) = SUBSET S
  BY <1>1
<1> HIDE DEF Upto
<1>6. \E g : g = [s \in Upto(Cardinality(S)) |-> SumStep(f, g, s)]
  BY <1>4 DEF B
<1> QED BY <1>5, <1>6

LEMMA SumTableIs ==
  ASSUME NEW f, NEW S, IsFiniteSet(S), NEW s \in SUBSET S
  PROVE  SumTable(f, S)[s] = SumStep(f, SumTable(f, S), s)
<1>1. SumTable(f, S) = [u \in SUBSET S |-> SumStep(f, SumTable(f, S), u)]
  BY SumTableExists DEF SumTable
<1> QED BY <1>1

\* The table of a smaller set agrees with that of the larger one.
LEMMA SumTablesAgree ==
  ASSUME NEW f, NEW S, IsFiniteSet(S), NEW T \in SUBSET S
  PROVE  SumTable(f, T)[T] = SumTable(f, S)[T]
<1> DEFINE B == {u \in SUBSET T : SumTable(f, T)[u] = SumTable(f, S)[u]}
<1>1. IsFiniteSet(T)
  BY FS_Subset
<1>2. ASSUME NEW u \in SUBSET T, \A x \in u : u \ {x} \in B
      PROVE  u \in B
  <2>1. u \in SUBSET S
    OBVIOUS
  <2>2. SumTable(f, T)[u] = SumStep(f, SumTable(f, T), u)
    BY <1>1, SumTableIs
  <2>3. SumTable(f, S)[u] = SumStep(f, SumTable(f, S), u)
    BY <2>1, SumTableIs
  <2>4. SumStep(f, SumTable(f, T), u) = SumStep(f, SumTable(f, S), u)
    <3>1. CASE u = {}
      BY <3>1 DEF SumStep
    <3>2. CASE u # {}
      <4>1. u \ {First(u)} \in B
        BY <1>2, <3>2, FirstIn
      <4> QED BY <3>2, <4>1 DEF SumStep
    <3> QED BY <3>1, <3>2
  <2> QED BY <2>2, <2>3, <2>4
<1> HIDE DEF B
<1>3. T \in B
  BY <1>1, <1>2, SetBySet
<1> QED BY <1>3 DEF B

LEMMA SumFirst ==
  ASSUME NEW f, NEW S, IsFiniteSet(S), S # {}
  PROVE  SumFunctionOnSet(f, S) = f[First(S)] + SumFunctionOnSet(f, S \ {First(S)})
<1> DEFINE T == S \ {First(S)}
<1>1. SumFunctionOnSet(f, S) = SumStep(f, SumTable(f, S), S)
  BY SumUnfolds, SumTableIs
<1>2. SumFunctionOnSet(f, T) = SumTable(f, S)[T]
  BY SumUnfolds, SumTablesAgree
<1> QED BY <1>1, <1>2 DEF SumStep

LEMMA SumEmpty ==
  ASSUME NEW f
  PROVE  SumFunctionOnSet(f, {}) = 0
<1>1. SumTable(f, {})[{}] = SumStep(f, SumTable(f, {}), {})
  BY SumTableIs, FS_EmptySet
<1> QED BY <1>1, SumUnfolds DEF SumStep

LEMMA SumInt ==
  ASSUME NEW S, IsFiniteSet(S), NEW f, \A x \in S : f[x] \in Int
  PROVE  SumFunctionOnSet(f, S) \in Int
<1> DEFINE B == {T \in SUBSET S : SumFunctionOnSet(f, T) \in Int}
<1>1. ASSUME NEW T \in SUBSET S, \A x \in T : T \ {x} \in B
      PROVE  T \in B
  <2>1. CASE T = {}
    BY <2>1, SumEmpty
  <2>2. CASE T # {}
    <3>1. SumFunctionOnSet(f, T) = f[First(T)] + SumFunctionOnSet(f, T \ {First(T)})
      BY <2>2, FS_Subset, SumFirst
    <3>2. First(T) \in T
      BY <2>2, FirstIn
    <3> QED BY <1>1, <3>1, <3>2
  <2> QED BY <2>1, <2>2
<1> HIDE DEF B
<1>2. S \in B
  BY <1>1, SetBySet
<1> QED BY <1>2 DEF B

-----------------------------------------------------------------------------
(* What one may do with sums.                                              *)

\* Any member may be taken out.
LEMMA SumSplit ==
  ASSUME NEW S, IsFiniteSet(S), NEW f, \A x \in S : f[x] \in Int, NEW a \in S
  PROVE  SumFunctionOnSet(f, S) = f[a] + SumFunctionOnSet(f, S \ {a})
<1> DEFINE Sum(T) == SumFunctionOnSet(f, T)
           B == {T \in SUBSET S : \A b \in T : Sum(T) = f[b] + Sum(T \ {b})}
<1>0. \A T \in SUBSET S : IsFiniteSet(T) /\ Sum(T) \in Int
  <2> SUFFICES ASSUME NEW T \in SUBSET S
               PROVE  IsFiniteSet(T) /\ Sum(T) \in Int
    OBVIOUS
  <2>1. IsFiniteSet(T)
    BY FS_Subset
  <2> QED BY <2>1, SumInt
<1>1. ASSUME NEW T \in SUBSET S, \A x \in T : T \ {x} \in B
      PROVE  T \in B
  <2> SUFFICES ASSUME NEW b \in T
               PROVE  Sum(T) = f[b] + Sum(T \ {b})
    OBVIOUS
  <2> DEFINE x == First(T)
  <2>1. x \in T /\ Sum(T) = f[x] + Sum(T \ {x})
    BY <1>0, FirstIn, SumFirst
  <2>2. CASE b = x
    BY <2>1, <2>2
  <2>3. CASE b # x
    <3>1. Sum(T \ {x}) = f[b] + Sum((T \ {x}) \ {b})
      BY <1>1, <2>1, <2>3
    <3>2. Sum(T \ {b}) = f[x] + Sum((T \ {b}) \ {x})
      BY <1>1, <2>1, <2>3
    <3>3. (T \ {x}) \ {b} = (T \ {b}) \ {x}
      OBVIOUS
    <3>4. f[x] \in Int /\ f[b] \in Int /\ Sum((T \ {b}) \ {x}) \in Int
      BY <1>0, <2>1
    <3>5. Sum(T \ {x}) = f[b] + Sum((T \ {b}) \ {x})
      BY <3>1, <3>3
    <3>6. Sum(T) = f[x] + Sum(T \ {x})
      BY <2>1
    <3> HIDE DEF Sum, x
    <3> QED BY <3>2, <3>4, <3>5, <3>6
  <2> QED BY <2>2, <2>3
<1> HIDE DEF B
<1>2. S \in B
  BY <1>1, SetBySet
<1> QED BY <1>2 DEF B

LEMMA SumAdds ==
  ASSUME NEW S, IsFiniteSet(S), NEW f, NEW g, NEW h,
         \A x \in S : f[x] \in Int /\ g[x] \in Int /\ h[x] = f[x] + g[x]
  PROVE  SumFunctionOnSet(h, S) = SumFunctionOnSet(f, S) + SumFunctionOnSet(g, S)
<1> DEFINE B == {T \in SUBSET S :
                   SumFunctionOnSet(h, T) = SumFunctionOnSet(f, T) + SumFunctionOnSet(g, T)}
<1>1. ASSUME NEW T \in SUBSET S, \A x \in T : T \ {x} \in B
      PROVE  T \in B
  <2>1. CASE T = {}
    BY <2>1, SumEmpty
  <2>2. CASE T # {}
    <3>1. PICK x : x \in T
      BY <2>2
    <3> DEFINE U == T \ {x}
    <3>2. IsFiniteSet(T) /\ IsFiniteSet(U) /\ U \in B
      BY <1>1, <3>1, FS_Subset
    <3>3. \A y \in T : f[y] \in Int /\ g[y] \in Int /\ h[y] \in Int
      OBVIOUS
    <3>4. /\ SumFunctionOnSet(f, T) = f[x] + SumFunctionOnSet(f, U)
          /\ SumFunctionOnSet(g, T) = g[x] + SumFunctionOnSet(g, U)
          /\ SumFunctionOnSet(h, T) = h[x] + SumFunctionOnSet(h, U)
      BY <3>1, <3>2, <3>3, SumSplit
    <3>5. SumFunctionOnSet(f, U) \in Int /\ SumFunctionOnSet(g, U) \in Int
      BY <3>2, <3>3, SumInt
    <3>6. SumFunctionOnSet(h, U) = SumFunctionOnSet(f, U) + SumFunctionOnSet(g, U)
      BY <3>2
    <3>7. h[x] = f[x] + g[x] /\ f[x] \in Int /\ g[x] \in Int
      BY <3>1
    <3> HIDE DEF U
    <3> QED BY <3>4, <3>5, <3>6, <3>7
  <2> QED BY <2>1, <2>2
<1> HIDE DEF B
<1>2. S \in B
  BY <1>1, SetBySet
<1> QED BY <1>2 DEF B

LEMMA SumScales ==
  ASSUME NEW S, IsFiniteSet(S), NEW f, NEW h, NEW k \in Int,
         \A x \in S : f[x] \in Int /\ h[x] = k * f[x]
  PROVE  SumFunctionOnSet(h, S) = k * SumFunctionOnSet(f, S)
<1> DEFINE B == {T \in SUBSET S : SumFunctionOnSet(h, T) = k * SumFunctionOnSet(f, T)}
<1>1. ASSUME NEW T \in SUBSET S, \A x \in T : T \ {x} \in B
      PROVE  T \in B
  <2>1. CASE T = {}
    BY <2>1, SumEmpty
  <2>2. CASE T # {}
    <3>1. PICK x : x \in T
      BY <2>2
    <3> DEFINE U == T \ {x}
    <3>2. IsFiniteSet(T) /\ IsFiniteSet(U) /\ U \in B
      BY <1>1, <3>1, FS_Subset
    <3>3. \A y \in T : f[y] \in Int /\ h[y] \in Int
      OBVIOUS
    <3>4. /\ SumFunctionOnSet(f, T) = f[x] + SumFunctionOnSet(f, U)
          /\ SumFunctionOnSet(h, T) = h[x] + SumFunctionOnSet(h, U)
      BY <3>1, <3>2, <3>3, SumSplit
    <3>5. SumFunctionOnSet(f, U) \in Int
      BY <3>2, <3>3, SumInt
    <3>6. SumFunctionOnSet(h, U) = k * SumFunctionOnSet(f, U)
      BY <3>2
    <3>7. h[x] = k * f[x] /\ f[x] \in Int
      BY <3>1
    <3> HIDE DEF U
    <3> QED BY <3>4, <3>5, <3>6, <3>7
  <2> QED BY <2>1, <2>2
<1> HIDE DEF B
<1>2. S \in B
  BY <1>1, SetBySet
<1> QED BY <1>2 DEF B

LEMMA SumOrdered ==
  ASSUME NEW S, IsFiniteSet(S), NEW f, NEW h,
         \A x \in S : f[x] \in Int /\ h[x] \in Int /\ f[x] <= h[x]
  PROVE  SumFunctionOnSet(f, S) <= SumFunctionOnSet(h, S)
<1> DEFINE B == {T \in SUBSET S : SumFunctionOnSet(f, T) <= SumFunctionOnSet(h, T)}
<1>1. ASSUME NEW T \in SUBSET S, \A x \in T : T \ {x} \in B
      PROVE  T \in B
  <2>1. CASE T = {}
    BY <2>1, SumEmpty
  <2>2. CASE T # {}
    <3>1. PICK x : x \in T
      BY <2>2
    <3> DEFINE U == T \ {x}
    <3>2. IsFiniteSet(T) /\ IsFiniteSet(U) /\ U \in B
      BY <1>1, <3>1, FS_Subset
    <3>3. \A y \in T : f[y] \in Int /\ h[y] \in Int
      OBVIOUS
    <3>4. /\ SumFunctionOnSet(f, T) = f[x] + SumFunctionOnSet(f, U)
          /\ SumFunctionOnSet(h, T) = h[x] + SumFunctionOnSet(h, U)
      BY <3>1, <3>2, <3>3, SumSplit
    <3>5. SumFunctionOnSet(f, U) \in Int /\ SumFunctionOnSet(h, U) \in Int
      BY <3>2, <3>3, SumInt
    <3>6. SumFunctionOnSet(f, U) <= SumFunctionOnSet(h, U)
      BY <3>2
    <3>7. f[x] <= h[x] /\ f[x] \in Int /\ h[x] \in Int
      BY <3>1
    <3> HIDE DEF U
    <3> QED BY <3>4, <3>5, <3>6, <3>7
  <2> QED BY <2>1, <2>2
<1> HIDE DEF B
<1>2. S \in B
  BY <1>1, SetBySet
<1> QED BY <1>2 DEF B

LEMMA SumSame ==
  ASSUME NEW S, IsFiniteSet(S), NEW f, NEW h, \A x \in S : f[x] \in Int /\ h[x] = f[x]
  PROVE  SumFunctionOnSet(h, S) = SumFunctionOnSet(f, S)
<1>1. \A x \in S : f[x] \in Int /\ h[x] \in Int /\ f[x] <= h[x] /\ h[x] <= f[x]
  OBVIOUS
<1>2. SumFunctionOnSet(f, S) <= SumFunctionOnSet(h, S) /\ SumFunctionOnSet(h, S) <= SumFunctionOnSet(f, S)
  BY <1>1, SumOrdered
<1>3. SumFunctionOnSet(f, S) \in Int /\ SumFunctionOnSet(h, S) \in Int
  BY <1>1, SumInt
<1> QED BY <1>2, <1>3

\* One member changes.
LEMMA SumPut ==
  ASSUME NEW S, IsFiniteSet(S), NEW f, NEW h, NEW a \in S,
         \A x \in S : f[x] \in Int, h[a] \in Int, \A x \in S \ {a} : h[x] = f[x]
  PROVE  SumFunctionOnSet(h, S) = SumFunctionOnSet(f, S) - f[a] + h[a]
<1> DEFINE U == S \ {a}
<1>1. IsFiniteSet(U)
  BY FS_Subset
<1>2. SumFunctionOnSet(h, U) = SumFunctionOnSet(f, U) /\ SumFunctionOnSet(f, U) \in Int
  BY <1>1, SumSame, SumInt
<1>3. SumFunctionOnSet(f, S) = f[a] + SumFunctionOnSet(f, U)
  BY SumSplit
<1>4. \A x \in S : h[x] \in Int
  OBVIOUS
<1>5. SumFunctionOnSet(h, S) = h[a] + SumFunctionOnSet(h, U)
  BY <1>4, SumSplit
<1> HIDE DEF U
<1> QED BY <1>2, <1>3, <1>5

LEMMA SumConstant ==
  ASSUME NEW S, IsFiniteSet(S), NEW f, NEW k \in Int, \A x \in S : f[x] = k
  PROVE  SumFunctionOnSet(f, S) = k * Cardinality(S)
<1> DEFINE B == {T \in SUBSET S : SumFunctionOnSet(f, T) = k * Cardinality(T)}
<1>1. ASSUME NEW T \in SUBSET S, \A x \in T : T \ {x} \in B
      PROVE  T \in B
  <2>1. CASE T = {}
    BY <2>1, SumEmpty, FS_EmptySet
  <2>2. CASE T # {}
    <3>1. PICK x : x \in T
      BY <2>2
    <3> DEFINE U == T \ {x}
    <3>2. IsFiniteSet(T) /\ IsFiniteSet(U) /\ U \in B
      BY <1>1, <3>1, FS_Subset
    <3>3. Cardinality(T) = Cardinality(U) + 1 /\ Cardinality(U) \in Nat
      <4>1. Cardinality(T) \in Nat /\ Cardinality(U) \in Nat /\ Cardinality(U) = Cardinality(T) - 1
        BY <3>1, <3>2, FS_RemoveElement, FS_CardinalityType
      <4> HIDE DEF U
      <4> QED BY <4>1
    <3>4. SumFunctionOnSet(f, T) = k + SumFunctionOnSet(f, U)
      BY <3>1, <3>2, SumSplit
    <3>5. SumFunctionOnSet(f, U) = k * Cardinality(U)
      BY <3>2
    <3> HIDE DEF U
    <3>6. k + k * Cardinality(U) = k * (Cardinality(U) + 1)
      BY <3>3
    <3> QED BY <3>3, <3>4, <3>5, <3>6
  <2> QED BY <2>1, <2>2
<1> HIDE DEF B
<1>2. S \in B
  BY <1>1, SetBySet
<1> QED BY <1>2 DEF B

LEMMA SumNat ==
  ASSUME NEW S, IsFiniteSet(S), NEW f, \A x \in S : f[x] \in Nat
  PROVE  /\ SumFunctionOnSet(f, S) \in Nat
         /\ \A a \in S : f[a] <= SumFunctionOnSet(f, S)
<1>1. \A T \in SUBSET S : SumFunctionOnSet(f, T) \in Nat
  <2> SUFFICES ASSUME NEW T \in SUBSET S
               PROVE  SumFunctionOnSet(f, T) \in Nat
    OBVIOUS
  <2> DEFINE zero == [x \in T |-> 0]
  <2>1. IsFiniteSet(T) /\ Cardinality(T) \in Nat
    BY FS_Subset, FS_CardinalityType
  <2>2. SumFunctionOnSet(zero, T) = 0
    <3>1. \A x \in T : zero[x] = 0
      OBVIOUS
    <3> HIDE DEF zero
    <3>2. SumFunctionOnSet(zero, T) = 0 * Cardinality(T)
      BY <2>1, <3>1, SumConstant
    <3> QED BY <2>1, <3>2
  <2>3. \A x \in T : zero[x] \in Int /\ f[x] \in Int /\ zero[x] <= f[x]
    OBVIOUS
  <2>4. SumFunctionOnSet(zero, T) <= SumFunctionOnSet(f, T) /\ SumFunctionOnSet(f, T) \in Int
    BY <2>1, <2>3, SumOrdered, SumInt
  <2> HIDE DEF zero
  <2> QED BY <2>1, <2>2, <2>4
<1>2. ASSUME NEW a \in S
      PROVE  f[a] <= SumFunctionOnSet(f, S)
  <2>1. \A x \in S : f[x] \in Int
    OBVIOUS
  <2>2. SumFunctionOnSet(f, S) = f[a] + SumFunctionOnSet(f, S \ {a})
    BY <2>1, SumSplit
  <2>3. SumFunctionOnSet(f, S \ {a}) \in Nat
    BY <1>1
  <2> QED BY <2>2, <2>3
<1> QED BY <1>1, <1>2

\* Two sets that share nothing are summed one after the other.
LEMMA SumBoth ==
  ASSUME NEW S, IsFiniteSet(S), NEW T, IsFiniteSet(T), S \cap T = {},
         NEW f, \A x \in S \cup T : f[x] \in Int
  PROVE  SumFunctionOnSet(f, S \cup T) = SumFunctionOnSet(f, S) + SumFunctionOnSet(f, T)
<1> DEFINE B == {U \in SUBSET S :
                   SumFunctionOnSet(f, U \cup T) = SumFunctionOnSet(f, U) + SumFunctionOnSet(f, T)}
<1>0. SumFunctionOnSet(f, T) \in Int
  BY SumInt
<1>1. ASSUME NEW U \in SUBSET S, \A x \in U : U \ {x} \in B
      PROVE  U \in B
  <2>1. CASE U = {}
    <3>1. U \cup T = T /\ U = {}
      BY <2>1
    <3>2. SumFunctionOnSet(f, U) = 0
      BY <3>1, SumEmpty
    <3> QED BY <3>1, <3>2, <1>0
  <2>2. CASE U # {}
    <3>1. PICK x \in U : TRUE
      BY <2>2
    <3> DEFINE V == U \ {x}
    <3>2. IsFiniteSet(U) /\ IsFiniteSet(V) /\ IsFiniteSet(U \cup T)
      BY FS_Subset, FS_Union
    <3>3. /\ SumFunctionOnSet(f, V \cup T) = SumFunctionOnSet(f, V) + SumFunctionOnSet(f, T)
          /\ (U \cup T) \ {x} = V \cup T
      BY <3>1, <1>1
    <3>4. SumFunctionOnSet(f, U \cup T) = f[x] + SumFunctionOnSet(f, V \cup T)
      BY <3>1, <3>2, <3>3, SumSplit
    <3>5. SumFunctionOnSet(f, U) = f[x] + SumFunctionOnSet(f, V)
      BY <3>1, <3>2, SumSplit
    <3>6. f[x] \in Int /\ SumFunctionOnSet(f, V) \in Int
      BY <3>1, <3>2, SumInt
    <3> HIDE DEF V
    <3> QED BY <1>0, <3>3, <3>4, <3>5, <3>6
  <2> QED BY <2>1, <2>2
<1>2. SUBSET S \subseteq B
  <2> HIDE DEF B
  <2> QED BY <1>1, SetBySet
<1> QED BY <1>2

LEMMA SumZero ==
  ASSUME NEW S, IsFiniteSet(S), NEW f, \A x \in S : f[x] = 0
  PROVE  SumFunctionOnSet(f, S) = 0
<1>1. SumFunctionOnSet(f, S) = 0 * Cardinality(S) /\ Cardinality(S) \in Nat
  BY SumConstant, FS_CardinalityType
<1> QED BY <1>1

\* A sum over some of the elements is one over all of them.
LEMMA SumPartOf ==
  ASSUME NEW S, IsFiniteSet(S), NEW T \in SUBSET S, NEW f, NEW h,
         \A x \in T : f[x] \in Int /\ h[x] = f[x],
         \A x \in S \ T : h[x] = 0
  PROVE  SumFunctionOnSet(h, S) = SumFunctionOnSet(f, T)
<1> DEFINE R == S \ T
<1>1. IsFiniteSet(T) /\ IsFiniteSet(R)
  BY FS_Subset
<1>2. SumFunctionOnSet(h, R) = 0
  BY <1>1, SumZero
<1>3. SumFunctionOnSet(h, T) = SumFunctionOnSet(f, T) /\ SumFunctionOnSet(f, T) \in Int
  BY <1>1, SumSame, SumInt
<1>4. S = T \cup R /\ T \cap R = {} /\ \A x \in T \cup R : h[x] \in Int
  OBVIOUS
<1>5. SumFunctionOnSet(h, S) = SumFunctionOnSet(h, T) + SumFunctionOnSet(h, R)
  <2> HIDE DEF R
  <2> QED BY <1>1, <1>4, SumBoth
<1> QED BY <1>2, <1>3, <1>5

\* What is summed may be named otherwise.
LEMMA SumRenamed ==
  ASSUME NEW S, IsFiniteSet(S), NEW f, NEW g, NEW h,
         \A x, y \in S : g[x] = g[y] => x = y,
         \A x \in S : h[x] \in Int /\ f[g[x]] = h[x]
  PROVE  /\ SumFunctionOnSet(f, {g[x] : x \in S}) = SumFunctionOnSet(h, S)
         /\ IsFiniteSet({g[x] : x \in S})
<1> DEFINE Image(U) == {g[x] : x \in U}
           B == {U \in SUBSET S : /\ IsFiniteSet(Image(U))
                                  /\ SumFunctionOnSet(f, Image(U)) = SumFunctionOnSet(h, U)}
<1>1. ASSUME NEW U \in SUBSET S, \A x \in U : U \ {x} \in B
      PROVE  U \in B
  <2>1. CASE U = {}
    <3>1. Image(U) = {} /\ IsFiniteSet({}) /\ SumFunctionOnSet(f, {}) = 0 /\ SumFunctionOnSet(h, {}) = 0
      BY <2>1, SumEmpty, FS_EmptySet
    <3> QED BY <2>1, <3>1
  <2>2. CASE U # {}
    <3>1. PICK x \in U : TRUE
      BY <2>2
    <3> DEFINE V == U \ {x}
    <3>2. IsFiniteSet(Image(V)) /\ SumFunctionOnSet(f, Image(V)) = SumFunctionOnSet(h, V)
      BY <3>1, <1>1
    <3>3. Image(U) = Image(V) \cup {g[x]} /\ g[x] \notin Image(V) /\ Image(U) \ {g[x]} = Image(V)
      BY <3>1
    <3>4. IsFiniteSet(Image(U))
      <4> HIDE DEF Image, V
      <4>1. IsFiniteSet(Image(V) \cup {g[x]})
        BY <3>2, FS_AddElement
      <4> QED BY <4>1, <3>3
    <3>5. \A y \in Image(U) : f[y] \in Int
      OBVIOUS
    <3>9. g[x] \in Image(U)
      BY <3>1
    <3>6. SumFunctionOnSet(f, Image(U)) = f[g[x]] + SumFunctionOnSet(f, Image(V))
      <4> DEFINE I == Image(U)
                 y == g[x]
      <4>1. IsFiniteSet(I) /\ y \in I /\ I \ {y} = Image(V) /\ \A z \in I : f[z] \in Int
        BY <3>9, <3>3, <3>4, <3>5
      <4> HIDE DEF I, y
      <4>2. SumFunctionOnSet(f, I) = f[y] + SumFunctionOnSet(f, I \ {y})
        BY <4>1, SumSplit
      <4> QED BY <4>1, <4>2 DEF I, y
    <3>7. SumFunctionOnSet(h, U) = h[x] + SumFunctionOnSet(h, V)
      BY <3>1, SumSplit, FS_Subset
    <3>8. f[g[x]] = h[x]
      BY <3>1
    <3> QED BY <3>2, <3>4, <3>6, <3>7, <3>8
  <2> QED BY <2>1, <2>2
<1>2. SUBSET S \subseteq B
  <2> HIDE DEF B
  <2> QED BY <1>1, SetBySet
<1>3. S \in B
  BY <1>2
<1> QED BY <1>3

\* The rows of table a are the columns of table b; h holds the sums of a's rows.
Transposed(a, b, S, T) == \A x \in S, y \in T : a[x][y] \in Int /\ b[y][x] = a[x][y]
RowSums(h, S, a, T) == \A x \in S : h[x] = SumFunctionOnSet(a[x], T)

\* Rows first or columns first.
LEMMA SumExchange ==
  ASSUME NEW S, IsFiniteSet(S), NEW T, IsFiniteSet(T), NEW a, NEW b, NEW h, NEW k,
         Transposed(a, b, S, T), RowSums(h, S, a, T), RowSums(k, T, b, S)
  PROVE  SumFunctionOnSet(h, S) = SumFunctionOnSet(k, T)
<1> USE DEF Transposed, RowSums
<1> DEFINE part(U) == [y \in T |-> SumFunctionOnSet(b[y], U)]
           B == {U \in SUBSET S : SumFunctionOnSet(h, U) = SumFunctionOnSet(part(U), T)}
<1>1. ASSUME NEW U \in SUBSET S, \A x \in U : U \ {x} \in B
      PROVE  U \in B
  <2>1. CASE U = {}
    <3>1. \A y \in T : part(U)[y] = 0
      BY <2>1, SumEmpty
    <3>2. SumFunctionOnSet(part(U), T) = 0
      <4> HIDE DEF part
      <4> QED BY <3>1, SumZero
    <3> QED BY <2>1, <3>2, SumEmpty
  <2>2. CASE U # {}
    <3>1. PICK x \in U : TRUE
      BY <2>2
    <3> DEFINE V == U \ {x}
    <3>2. SumFunctionOnSet(h, V) = SumFunctionOnSet(part(V), T)
      BY <3>1, <1>1
    <3>3. IsFiniteSet(U) /\ IsFiniteSet(V)
      BY FS_Subset
    <3>4. \A z \in U : h[z] \in Int
      BY SumInt
    <3>5. SumFunctionOnSet(h, U) = h[x] + SumFunctionOnSet(h, V)
      BY <3>1, <3>3, <3>4, SumSplit
    <3>6. ASSUME NEW y \in T
          PROVE  a[x][y] \in Int /\ part(V)[y] \in Int /\ part(U)[y] = a[x][y] + part(V)[y]
      <4>1. \A z \in U : b[y][z] \in Int
        OBVIOUS
      <4>2. SumFunctionOnSet(b[y], U) = b[y][x] + SumFunctionOnSet(b[y], V)
        BY <3>1, <3>3, <4>1, SumSplit
      <4>3. SumFunctionOnSet(b[y], V) \in Int
        BY <3>3, <4>1, SumInt
      <4> QED BY <3>1, <4>2, <4>3
    <3>7. SumFunctionOnSet(part(U), T) = SumFunctionOnSet(a[x], T) + SumFunctionOnSet(part(V), T)
      <4> HIDE DEF part, V
      <4> QED BY <3>6, SumAdds
    <3>8. h[x] = SumFunctionOnSet(a[x], T)
      BY <3>1
    <3> QED BY <3>2, <3>5, <3>7, <3>8
  <2> QED BY <2>1, <2>2
<1>2. SUBSET S \subseteq B
  <2> HIDE DEF B
  <2> QED BY <1>1, SetBySet
<1>3. \A y \in T : part(S)[y] \in Int /\ k[y] = part(S)[y]
  BY SumInt
<1>4. SumFunctionOnSet(k, T) = SumFunctionOnSet(part(S), T)
  <2> HIDE DEF part
  <2> QED BY <1>3, SumSame
<1>5. SumFunctionOnSet(h, S) = SumFunctionOnSet(part(S), T)
  BY <1>2
<1> QED BY <1>4, <1>5

-----------------------------------------------------------------------------
(* Boards.                                                                 *)

BoardRecords == [pool : Nat, sideRate : Nat, g : Nat, last : Nat, shares : Nat,
                 pos : [Accounts -> Positions], queue : Seq(Boundaries)]

-----------------------------------------------------------------------------
(* The curve.                                                              *)

LEMMA DivNat ==
  ASSUME NEW x \in Nat, NEW d \in Nat \ {0}
  PROVE  x \div d \in Nat
OBVIOUS

LEMMA DivIs ==
  ASSUME NEW x \in Nat, NEW d \in Nat \ {0}
  PROVE  /\ d * (x \div d) <= x
         /\ x < d * (x \div d) + d
OBVIOUS

LEMMA Factor ==
  ASSUME NEW d \in Nat \ {0}, NEW q \in Nat, NEW r \in Nat, q < r
  PROVE  d * q + d <= d * r
<1>1. r = q + 1 + (r - q - 1) /\ r - q - 1 \in Nat
  OBVIOUS
<1>2. PICK e \in Nat : r = q + 1 + e
  BY <1>1
<1>3. d * r = d * q + d + d * e
  BY <1>2
<1>4. d * e \in Nat /\ d * q \in Nat
  OBVIOUS
<1> QED BY <1>3, <1>4

LEMMA DivOrdered ==
  ASSUME NEW x \in Nat, NEW y \in Nat, x <= y, NEW d \in Nat \ {0}
  PROVE  x \div d <= y \div d
<1> SUFFICES ASSUME y \div d < x \div d
             PROVE  FALSE
  BY DivNat
<1>1. x \div d \in Nat /\ y \div d \in Nat
  BY DivNat
<1>2. d * (y \div d) + d <= d * (x \div d)
  BY <1>1, Factor
<1>3. d * (x \div d) <= x /\ y < d * (y \div d) + d
  BY DivIs
<1>4. d * (x \div d) \in Nat /\ d * (y \div d) \in Nat
  BY <1>1
<1> QED BY <1>2, <1>3, <1>4

LEMMA NatTimes ==
  ASSUME NEW x \in Nat, NEW y \in Nat
  PROVE  x * y \in Nat
OBVIOUS

LEMMA TimesOrdered ==
  ASSUME NEW x \in Nat, NEW y \in Nat, NEW z \in Nat, y <= z
  PROVE  x * y <= x * z
<1>1. z = y + (z - y) /\ z - y \in Nat
  OBVIOUS
<1>2. PICK e \in Nat : z = y + e
  BY <1>1
<1>3. x * z = x * y + x * e /\ x * e \in Nat /\ x * y \in Nat
  BY <1>2
<1> QED BY <1>3

LEMMA PriceIs ==
  ASSUME NEW pool \in Nat
  PROVE  /\ Price(pool) \in Nat \ {0}
         /\ \A more \in Nat : pool <= more => Price(pool) <= Price(more)
<1>1. BasePrice \in Nat \ {0} /\ CurveK \in Nat \ {0}
  BY BoardAssumption
<1>2. \A x \in Nat : BasePrice * x \in Nat /\ (BasePrice * x) \div CurveK \in Nat
  BY <1>1, NatTimes, DivNat
<1>3. Price(pool) \in Nat \ {0}
  BY <1>1, <1>2 DEF Price
<1>4. ASSUME NEW more \in Nat, pool <= more
      PROVE  Price(pool) <= Price(more)
  <2>1. BasePrice * pool <= BasePrice * more
    BY <1>1, <1>4, TimesOrdered
  <2>2. (BasePrice * pool) \div CurveK <= (BasePrice * more) \div CurveK
    BY <1>1, <1>2, <2>1, DivOrdered
  <2> QED BY <1>1, <1>2, <2>2 DEF Price
<1> QED BY <1>3, <1>4

\* A side's index never falls.
LEMMA IndexGainIs ==
  ASSUME NEW pool \in Nat, NEW more \in Nat, pool <= more, NEW rate \in Nat \ {0}
  PROVE  IndexGain(pool, more, rate) \in Nat
<1> DEFINE p0 == Price(pool)
           p1 == Price(more)
<1>1. p0 \in Nat \ {0} /\ p1 \in Nat \ {0} /\ p0 <= p1
  BY PriceIs
<1> HIDE DEF p0, p1
<1>2. Scale \in Nat \ {0}
  BY BoardAssumption
<1>3. p1 - p0 \in Nat /\ p1 + p0 \in Nat \ {0} /\ 2 * Scale \in Nat
  BY <1>1, <1>2
<1>4. (2 * Scale) * (p1 - p0) \in Nat
  BY <1>3, NatTimes
<1>5. (p1 + p0) * rate \in Nat \ {0}
  <2>1. (p1 + p0) * 1 <= (p1 + p0) * rate
    BY <1>3, TimesOrdered
  <2>2. (p1 + p0) * rate \in Nat
    BY <1>3, NatTimes
  <2> QED BY <1>3, <2>1, <2>2
<1>6. (2 * Scale * (p1 - p0)) \div ((p1 + p0) * rate) \in Nat
  BY <1>4, <1>5, DivNat
<1> QED BY <1>6 DEF IndexGain, p0, p1

-----------------------------------------------------------------------------
(* What each step writes.                                                  *)

\* By how much the index grows until t.
Gain(b, t) ==
    IF t <= b.last \/ b.sideRate = 0 THEN 0
    ELSE IndexGain(b.pool, b.pool + b.sideRate * (t - b.last), b.sideRate)

LEMMA MovedIs ==
  ASSUME NEW b \in BoardRecords, NEW t \in Nat, b.last <= t, NEW c, c = Moved(b, t)
  PROVE  /\ c \in BoardRecords /\ Gain(b, t) \in Nat
         /\ c.last = t /\ c.pos = b.pos /\ c.queue = b.queue /\ c.sideRate = b.sideRate
         /\ c.pool = b.pool + b.sideRate * (t - b.last)
         /\ c.g = b.g + Gain(b, t) /\ c.shares = b.shares + b.sideRate * Gain(b, t)
<1> DEFINE more == b.pool + b.sideRate * (t - b.last)
           s == Segment(b, b.last, t)
<1>1. /\ b.pool \in Nat /\ b.sideRate \in Nat /\ b.last \in Nat /\ b.g \in Nat /\ b.shares \in Nat
      /\ t - b.last \in Nat
  BY DEF BoardRecords
<1>2. b.sideRate * (t - b.last) \in Nat
  BY <1>1, NatTimes
<1>3. more \in Nat /\ b.pool <= more
  BY <1>1, <1>2
<1>4. CASE t <= b.last \/ b.sideRate = 0
  <2>1. s = b /\ Gain(b, t) = 0
    BY <1>4 DEF Segment, Gain
  <2>2. c = [b EXCEPT !.last = t]
    BY <2>1 DEF Moved
  <2>3. b.sideRate * (t - b.last) = 0 /\ b.sideRate * 0 = 0
    BY <1>1, <1>4
  <2>4. /\ c \in BoardRecords /\ c.last = t /\ c.pos = b.pos /\ c.queue = b.queue
        /\ c.sideRate = b.sideRate /\ c.pool = b.pool /\ c.g = b.g /\ c.shares = b.shares
    BY <2>2 DEF BoardRecords
  <2> HIDE DEF s, more
  <2>5. c.pool = b.pool + b.sideRate * (t - b.last) /\ c.g = b.g + Gain(b, t)
    <3>1. c.pool = b.pool + 0 /\ c.g = b.g + 0
      BY <1>1, <2>4
    <3> QED BY ONLY <3>1, <2>1, <2>3
  <2>6. b.sideRate * Gain(b, t) = 0
    BY <2>1, <2>3
  <2>7. c.shares = b.shares + b.sideRate * Gain(b, t)
    BY <1>1, <2>4, <2>6
  <2> QED BY <2>1, <2>4, <2>5, <2>7
<1>5. CASE ~(t <= b.last \/ b.sideRate = 0)
  <2> DEFINE dG == IndexGain(b.pool, more, b.sideRate)
  <2>1. dG \in Nat /\ Gain(b, t) = dG
    BY <1>1, <1>3, <1>5, IndexGainIs DEF Gain
  <2>2. s = [b EXCEPT !.pool = more, !.g = @ + dG, !.shares = @ + b.sideRate * dG]
    BY <1>5 DEF Segment
  <2>3. b.sideRate * dG \in Nat
    BY <1>1, <2>1, NatTimes
  <2>4. c = [s EXCEPT !.last = t]
    BY DEF Moved
  <2> DEFINE g == b.g + dG
             shares == b.shares + b.sideRate * dG
             one == [b EXCEPT !.pool = more]
             two == [one EXCEPT !.g = g]
  <2> HIDE DEF dG, more, s
  <2>5. /\ s \in BoardRecords /\ s.pool = more /\ s.g = g /\ s.shares = shares
        /\ s.pos = b.pos /\ s.queue = b.queue /\ s.sideRate = b.sideRate
    <3>1. g \in Nat /\ shares \in Nat
      BY <1>1, <2>1, <2>3
    <3>2. s = [two EXCEPT !.shares = shares]
      BY <2>2 DEF BoardRecords
    <3> HIDE DEF g, shares
    <3>3. /\ one \in BoardRecords /\ one.pool = more
          /\ one.pos = b.pos /\ one.queue = b.queue /\ one.sideRate = b.sideRate
      BY <1>3 DEF BoardRecords
    <3> HIDE DEF one
    <3>4. /\ two \in BoardRecords /\ two.pool = more /\ two.g = g
          /\ two.pos = b.pos /\ two.queue = b.queue /\ two.sideRate = b.sideRate
      BY <3>1, <3>3 DEF BoardRecords
    <3> HIDE DEF two
    <3> QED BY <3>1, <3>2, <3>4 DEF BoardRecords
  <2>6. /\ c \in BoardRecords /\ c.last = t /\ c.pos = s.pos /\ c.queue = s.queue
        /\ c.sideRate = s.sideRate /\ c.pool = s.pool /\ c.g = s.g /\ c.shares = s.shares
    BY <2>4, <2>5 DEF BoardRecords
  <2> QED BY <2>1, <2>5, <2>6 DEF more
<1> QED BY <1>4, <1>5

\* A board whose positions differ in one account.
SameButPosition(b, c, a) ==
    /\ c \in BoardRecords
    /\ c.pool = b.pool /\ c.g = b.g /\ c.last = b.last /\ c.shares = b.shares
    /\ \A o \in Accounts \ {a} : c.pos[o] = b.pos[o]

LEMMA PositionIs ==
  ASSUME NEW b \in BoardRecords, NEW a \in Accounts
  PROVE  /\ b.pos[a] \in Positions
         /\ b.pos[a].rate \in Nat /\ b.pos[a].gPaid \in Nat /\ b.pos[a].accrued \in Nat
         /\ b.pos[a].maxEnd \in Nat /\ b.pos[a].depleted \in BOOLEAN
         /\ b.pos[a].fundStart \in Nat /\ b.pos[a].lost \in Nat
<1>1. b.pos[a] \in Positions
  BY DEF BoardRecords
<1> QED BY <1>1 DEF Positions

LEMMA BoardIs ==
  ASSUME NEW b \in BoardRecords
  PROVE  /\ b.pool \in Nat /\ b.sideRate \in Nat /\ b.g \in Nat /\ b.last \in Nat /\ b.shares \in Nat
         /\ b.pos \in [Accounts -> Positions] /\ b.queue \in Seq(Boundaries)
BY DEF BoardRecords

LEMMA SettledIs ==
  ASSUME NEW b \in BoardRecords, NEW a \in Accounts, b.pos[a].gPaid <= b.g,
         NEW c, c = Settled(b, a)
  PROVE  /\ SameButPosition(b, c, a) /\ c.sideRate = b.sideRate /\ c.queue = b.queue
         /\ c.pos[a].rate = b.pos[a].rate /\ c.pos[a].maxEnd = b.pos[a].maxEnd
         /\ c.pos[a].depleted = b.pos[a].depleted /\ c.pos[a].fundStart = b.pos[a].fundStart
         /\ c.pos[a].lost = b.pos[a].lost /\ c.pos[a].gPaid = b.g
         /\ c.pos[a].accrued = b.pos[a].accrued + b.pos[a].rate * (b.g - b.pos[a].gPaid)
<1> DEFINE p == b.pos[a]
           more == p.accrued + p.rate * (b.g - p.gPaid)
           one == [p EXCEPT !.accrued = more]
           two == [one EXCEPT !.gPaid = b.g]
<1>1. p \in Positions /\ p.rate \in Nat /\ p.gPaid \in Nat /\ p.accrued \in Nat /\ b.g \in Nat
  BY PositionIs, BoardIs
<1>2. more \in Nat
  <2>1. b.g - p.gPaid \in Nat
    BY <1>1
  <2> QED BY <1>1, <2>1, NatTimes
<1>3. c = [b EXCEPT !.pos = [b.pos EXCEPT ![a] = two]]
  BY BoardIs DEF Settled, BoardRecords
<1> HIDE DEF more, p
<1>4. /\ one \in Positions /\ one.rate = p.rate /\ one.maxEnd = p.maxEnd /\ one.gPaid = p.gPaid
      /\ one.depleted = p.depleted /\ one.fundStart = p.fundStart /\ one.lost = p.lost
      /\ one.accrued = more
  BY <1>1, <1>2 DEF Positions
<1> HIDE DEF one
<1>5. /\ two \in Positions /\ two.rate = p.rate /\ two.maxEnd = p.maxEnd /\ two.gPaid = b.g
      /\ two.depleted = p.depleted /\ two.fundStart = p.fundStart /\ two.lost = p.lost
      /\ two.accrued = more
  BY <1>1, <1>4 DEF Positions
<1> HIDE DEF two
<1>6. SameButPosition(b, c, a) /\ c.pos[a] = two /\ c.sideRate = b.sideRate /\ c.queue = b.queue
  <2> DEFINE q == [b.pos EXCEPT ![a] = two]
  <2>1. two \in Positions
    BY <1>5
  <2>2. q = [b.pos EXCEPT ![a] = two] /\ c = [b EXCEPT !.pos = q]
    BY <1>3
  <2>3. q \in [Accounts -> Positions] /\ q[a] = two /\ \A o \in Accounts \ {a} : q[o] = b.pos[o]
    BY <2>1, BoardIs
  <2> HIDE DEF q
  <2>4. c \in BoardRecords /\ c.pos = q
    BY <2>2, <2>3 DEF BoardRecords
  <2>5. /\ c.pool = b.pool /\ c.g = b.g /\ c.last = b.last /\ c.shares = b.shares
        /\ c.sideRate = b.sideRate /\ c.queue = b.queue
    BY <2>2 DEF BoardRecords
  <2> QED BY <2>3, <2>4, <2>5 DEF SameButPosition
<1> QED BY <1>5, <1>6 DEF p, more

LEMMA ClosedIs ==
  ASSUME NEW b \in BoardRecords, NEW a \in Accounts, NEW end \in Nat, NEW dry \in BOOLEAN,
         b.pos[a].rate <= b.sideRate, NEW c, c = Closed(b, a, end, dry)
  PROVE  /\ SameButPosition(b, c, a) /\ c.sideRate = b.sideRate - b.pos[a].rate
         /\ c.queue = b.queue
         /\ c.pos[a].rate = 0 /\ c.pos[a].maxEnd = b.pos[a].maxEnd
         /\ c.pos[a].fundStart = b.pos[a].fundStart
         /\ c.pos[a].gPaid = b.pos[a].gPaid /\ c.pos[a].accrued = b.pos[a].accrued
         /\ c.pos[a].lost = b.pos[a].lost + Streamed(b.pos[a], end)
         /\ dry => c.pos[a].depleted
<1> DEFINE p == b.pos[a]
           more == p.lost + Streamed(p, end)
           over == p.depleted \/ dry
           less == b.sideRate - p.rate
           one == [p EXCEPT !.lost = more]
           two == [one EXCEPT !.rate = 0]
           three == [two EXCEPT !.depleted = over]
           q == [b.pos EXCEPT ![a] = three]
           d == [b EXCEPT !.pos = q]
<1>1. p \in Positions /\ p.rate \in Nat /\ p.lost \in Nat /\ p.fundStart \in Nat
      /\ b.sideRate \in Nat /\ p.rate <= b.sideRate
  BY PositionIs, BoardIs
<1>2. less \in Nat
  BY <1>1
<1>3. more \in Nat
  <2>1. CASE end > p.fundStart
    <3>1. end - p.fundStart \in Nat
      BY <1>1, <2>1
    <3>2. p.rate * (end - p.fundStart) \in Nat
      BY <1>1, <3>1, NatTimes
    <3> QED BY <1>1, <2>1, <3>2 DEF Streamed
  <2>2. CASE ~(end > p.fundStart)
    BY <1>1, <2>2 DEF Streamed
  <2> QED BY <2>1, <2>2
<1>4. over \in BOOLEAN /\ (dry => over)
  OBVIOUS
<1>5. c = [d EXCEPT !.sideRate = less]
  BY BoardIs, ZenonT(60) DEF Closed, BoardRecords
<1>6. more = b.pos[a].lost + Streamed(b.pos[a], end) /\ less = b.sideRate - b.pos[a].rate
      /\ p = b.pos[a]
  OBVIOUS
<1> HIDE DEF more, over, less, p
<1>7. /\ one \in Positions /\ one.rate = p.rate /\ one.maxEnd = p.maxEnd /\ one.gPaid = p.gPaid
      /\ one.fundStart = p.fundStart /\ one.accrued = p.accrued /\ one.lost = more
  BY <1>1, <1>3 DEF Positions
<1> HIDE DEF one
<1>8. /\ two \in Positions /\ two.rate = 0 /\ two.maxEnd = p.maxEnd /\ two.gPaid = p.gPaid
      /\ two.fundStart = p.fundStart /\ two.accrued = p.accrued /\ two.lost = more
  BY <1>7 DEF Positions
<1> HIDE DEF two
<1>9. /\ three \in Positions /\ three.rate = 0 /\ three.maxEnd = p.maxEnd /\ three.gPaid = p.gPaid
      /\ three.fundStart = p.fundStart /\ three.accrued = p.accrued /\ three.lost = more
      /\ three.depleted = over
  BY <1>4, <1>8 DEF Positions
<1> HIDE DEF three
<1>10. /\ q \in [Accounts -> Positions] /\ q[a] = three
       /\ \A o \in Accounts \ {a} : q[o] = b.pos[o]
  BY <1>9, BoardIs
<1> HIDE DEF q
<1>11. /\ d \in BoardRecords /\ d.pos = q /\ d.pool = b.pool /\ d.g = b.g /\ d.last = b.last
       /\ d.shares = b.shares /\ d.queue = b.queue
  BY <1>10 DEF BoardRecords
<1> HIDE DEF d
<1>12. /\ c \in BoardRecords /\ c.pos = q /\ c.pool = b.pool /\ c.g = b.g /\ c.last = b.last
       /\ c.shares = b.shares /\ c.queue = b.queue /\ c.sideRate = less
  BY <1>2, <1>5, <1>11 DEF BoardRecords
<1>13. SameButPosition(b, c, a) /\ c.pos[a] = three
  BY <1>10, <1>12 DEF SameButPosition
<1> QED BY <1>4, <1>6, <1>9, <1>12, <1>13

LEMMA QueuePut ==
  ASSUME NEW b \in BoardRecords, NEW q \in Seq(Boundaries), NEW c, c = [b EXCEPT !.queue = q]
  PROVE  /\ c \in BoardRecords /\ c.queue = q /\ c.pos = b.pos /\ c.pool = b.pool
         /\ c.sideRate = b.sideRate /\ c.g = b.g /\ c.last = b.last /\ c.shares = b.shares
BY DEF BoardRecords

\* The lane a hook opens, before its boundary is queued.
Funding(b, a, rate, maxEnd, now) ==
    [b EXCEPT !.pos[a] = [@ EXCEPT !.rate = rate, !.gPaid = b.g, !.maxEnd = maxEnd,
                                   !.depleted = FALSE, !.fundStart = now],
              !.sideRate = @ + rate]

LEMMA FundingIs ==
  ASSUME NEW b \in BoardRecords, NEW a \in Accounts, NEW rate \in Nat, NEW maxEnd \in Nat,
         NEW now \in Nat, NEW c, c = Funding(b, a, rate, maxEnd, now)
  PROVE  /\ SameButPosition(b, c, a) /\ c.sideRate = b.sideRate + rate /\ c.queue = b.queue
         /\ c.pos[a].rate = rate /\ c.pos[a].maxEnd = maxEnd /\ c.pos[a].fundStart = now
         /\ c.pos[a].gPaid = b.g /\ c.pos[a].accrued = b.pos[a].accrued
         /\ c.pos[a].lost = b.pos[a].lost /\ ~c.pos[a].depleted
<1> DEFINE p == b.pos[a]
           one == [p EXCEPT !.rate = rate]
           two == [one EXCEPT !.gPaid = b.g]
           three == [two EXCEPT !.maxEnd = maxEnd]
           four == [three EXCEPT !.depleted = FALSE]
           five == [four EXCEPT !.fundStart = now]
           q == [b.pos EXCEPT ![a] = five]
           d == [b EXCEPT !.pos = q]
           total == b.sideRate + rate
<1>1. p \in Positions /\ b.g \in Nat /\ b.sideRate \in Nat
  BY PositionIs, BoardIs
<1>2. total \in Nat
  BY <1>1
<1>3. c = [d EXCEPT !.sideRate = total]
  BY BoardIs DEF Funding, BoardRecords
<1>4. p = b.pos[a] /\ total = b.sideRate + rate
  OBVIOUS
<1> HIDE DEF p, total
<1>5. /\ one \in Positions /\ one.rate = rate /\ one.accrued = p.accrued /\ one.lost = p.lost
  BY <1>1 DEF Positions
<1> HIDE DEF one
<1>6. /\ two \in Positions /\ two.rate = rate /\ two.accrued = p.accrued /\ two.lost = p.lost
      /\ two.gPaid = b.g
  BY <1>1, <1>5 DEF Positions
<1> HIDE DEF two
<1>7. /\ three \in Positions /\ three.rate = rate /\ three.accrued = p.accrued
      /\ three.lost = p.lost /\ three.gPaid = b.g /\ three.maxEnd = maxEnd
  BY <1>6 DEF Positions
<1> HIDE DEF three
<1>8. /\ four \in Positions /\ four.rate = rate /\ four.accrued = p.accrued /\ four.lost = p.lost
      /\ four.gPaid = b.g /\ four.maxEnd = maxEnd /\ four.depleted = FALSE
  BY <1>7 DEF Positions
<1> HIDE DEF four
<1>9. /\ five \in Positions /\ five.rate = rate /\ five.accrued = p.accrued /\ five.lost = p.lost
      /\ five.gPaid = b.g /\ five.maxEnd = maxEnd /\ five.depleted = FALSE /\ five.fundStart = now
  BY <1>8 DEF Positions
<1> HIDE DEF five
<1>10. /\ q \in [Accounts -> Positions] /\ q[a] = five
       /\ \A o \in Accounts \ {a} : q[o] = b.pos[o]
  BY <1>9, BoardIs
<1> HIDE DEF q
<1>11. /\ d \in BoardRecords /\ d.pos = q /\ d.pool = b.pool /\ d.g = b.g /\ d.last = b.last
       /\ d.shares = b.shares /\ d.queue = b.queue
  BY <1>10 DEF BoardRecords
<1> HIDE DEF d
<1>12. /\ c \in BoardRecords /\ c.pos = q /\ c.pool = b.pool /\ c.g = b.g /\ c.last = b.last
       /\ c.shares = b.shares /\ c.queue = b.queue /\ c.sideRate = total
  BY <1>2, <1>3, <1>11 DEF BoardRecords
<1>13. SameButPosition(b, c, a) /\ c.pos[a] = five
  BY <1>10, <1>12 DEF SameButPosition
<1> QED BY <1>4, <1>9, <1>12, <1>13

\* The lane a hook re-pegs, before its new boundary is queued.
Pegged(b, a, maxEnd) == [b EXCEPT !.pos[a].maxEnd = maxEnd]

LEMMA PeggedIs ==
  ASSUME NEW b \in BoardRecords, NEW a \in Accounts, NEW maxEnd \in Nat,
         NEW c, c = Pegged(b, a, maxEnd)
  PROVE  /\ SameButPosition(b, c, a) /\ c.sideRate = b.sideRate /\ c.queue = b.queue
         /\ c.pos[a].rate = b.pos[a].rate /\ c.pos[a].maxEnd = maxEnd
         /\ c.pos[a].fundStart = b.pos[a].fundStart /\ c.pos[a].depleted = b.pos[a].depleted
         /\ c.pos[a].gPaid = b.pos[a].gPaid /\ c.pos[a].accrued = b.pos[a].accrued
         /\ c.pos[a].lost = b.pos[a].lost
<1> DEFINE p == b.pos[a]
           one == [p EXCEPT !.maxEnd = maxEnd]
           q == [b.pos EXCEPT ![a] = one]
<1>1. p \in Positions
  BY PositionIs
<1>2. c = [b EXCEPT !.pos = q]
  BY BoardIs DEF Pegged, BoardRecords
<1>3. p = b.pos[a]
  OBVIOUS
<1> HIDE DEF p
<1>4. /\ one \in Positions /\ one.rate = p.rate /\ one.maxEnd = maxEnd /\ one.gPaid = p.gPaid
      /\ one.depleted = p.depleted /\ one.fundStart = p.fundStart /\ one.lost = p.lost
      /\ one.accrued = p.accrued
  BY <1>1 DEF Positions
<1> HIDE DEF one
<1>5. /\ q \in [Accounts -> Positions] /\ q[a] = one
      /\ \A o \in Accounts \ {a} : q[o] = b.pos[o]
  BY <1>4, BoardIs
<1> HIDE DEF q
<1>6. /\ c \in BoardRecords /\ c.pos = q /\ c.pool = b.pool /\ c.g = b.g /\ c.last = b.last
      /\ c.shares = b.shares /\ c.queue = b.queue /\ c.sideRate = b.sideRate
  BY <1>2, <1>5 DEF BoardRecords
<1>7. SameButPosition(b, c, a) /\ c.pos[a] = one
  BY <1>5, <1>6 DEF SameButPosition
<1> QED BY <1>3, <1>4, <1>6, <1>7

-----------------------------------------------------------------------------
(* The queue.                                                              *)

Ordered(b) == \A i, j \in DOMAIN b.queue : i <= j => b.queue[i].maxEnd <= b.queue[j].maxEnd

LEMMA QueueIs ==
  ASSUME NEW b \in BoardRecords
  PROVE  /\ Len(b.queue) \in Nat /\ DOMAIN b.queue = 1..Len(b.queue)
         /\ \A i \in DOMAIN b.queue : /\ b.queue[i] \in Boundaries
                                      /\ b.queue[i].maxEnd \in Nat
                                      /\ b.queue[i].account \in Accounts
<1>1. b.queue \in Seq(Boundaries)
  BY BoardIs
<1>2. Len(b.queue) \in Nat /\ DOMAIN b.queue = 1..Len(b.queue)
      /\ \A i \in DOMAIN b.queue : b.queue[i] \in Boundaries
  BY <1>1
<1> QED BY <1>2 DEF Boundaries

\* What is left of the queue once its head is processed.
LEMMA TailIs ==
  ASSUME NEW b \in BoardRecords, b.queue # << >>
  PROVE  LET q == Tail(b.queue) IN
         /\ q \in Seq(Boundaries) /\ Len(q) = Len(b.queue) - 1 /\ DOMAIN q = 1..Len(q)
         /\ \A i \in DOMAIN q : i + 1 \in DOMAIN b.queue /\ q[i] = b.queue[i + 1]
         /\ \A i \in DOMAIN b.queue : i # 1 => i - 1 \in DOMAIN q /\ b.queue[i] = q[i - 1]
         /\ 1 \in DOMAIN b.queue /\ Head(b.queue) = b.queue[1] /\ Head(b.queue) \in Boundaries
<1> DEFINE q == Tail(b.queue)
<1>1. b.queue \in Seq(Boundaries)
  BY BoardIs
<1>2. /\ Head(b.queue) \in Boundaries /\ q \in Seq(Boundaries) /\ Len(q) = Len(b.queue) - 1
      /\ \A i \in 1..Len(q) : q[i] = b.queue[i + 1]
  BY <1>1
<1>3. Len(b.queue) \in Nat /\ DOMAIN b.queue = 1..Len(b.queue) /\ Len(b.queue) # 0
  BY <1>1
<1>4. DOMAIN q = 1..Len(q)
  BY <1>2
<1>5. \A i \in DOMAIN q : i + 1 \in DOMAIN b.queue /\ q[i] = b.queue[i + 1]
  BY <1>2, <1>3, <1>4
<1>6. \A i \in DOMAIN b.queue : i # 1 => i - 1 \in DOMAIN q /\ i - 1 + 1 = i
  BY <1>2, <1>3, <1>4
<1>7. 1 \in DOMAIN b.queue /\ Head(b.queue) = b.queue[1]
  BY <1>1, <1>3
<1> HIDE DEF q
<1> QED BY <1>2, <1>4, <1>5, <1>6, <1>7 DEF q

\* The boundary goes behind every one that is not later, and no other moves.
LEMMA ScheduledIs ==
  ASSUME NEW b \in BoardRecords, Ordered(b), NEW maxEnd \in Nat, NEW a \in Accounts,
         NEW c, c = Scheduled(b, maxEnd, a)
  PROVE  /\ c \in BoardRecords /\ c.pos = b.pos /\ c.pool = b.pool /\ c.sideRate = b.sideRate
         /\ c.g = b.g /\ c.last = b.last /\ c.shares = b.shares
         /\ Ordered(c)
         /\ \A i \in DOMAIN b.queue : \E j \in DOMAIN c.queue : c.queue[j] = b.queue[i]
         /\ \E j \in DOMAIN c.queue : c.queue[j] = [maxEnd |-> maxEnd, account |-> a]
         /\ \A j \in DOMAIN c.queue : \/ \E i \in DOMAIN b.queue : c.queue[j] = b.queue[i]
                                      \/ c.queue[j].maxEnd = maxEnd
<1> DEFINE n == Len(b.queue)
           before == {i \in DOMAIN b.queue : b.queue[i].maxEnd <= maxEnd}
           Ats == {i \in 0..n : (i = 0 \/ i \in before) /\ \A j \in before : j <= i}
           at == CHOOSE i \in 0..n : (i = 0 \/ i \in before) /\ \A j \in before : j <= i
           new == [maxEnd |-> maxEnd, account |-> a]
           q == [i \in 1..n + 1 |-> IF i <= at THEN b.queue[i]
                                    ELSE IF i = at + 1 THEN new ELSE b.queue[i - 1]]
<1>1. /\ n \in Nat /\ DOMAIN b.queue = 1..n
      /\ \A i \in 1..n : /\ b.queue[i] \in Boundaries
                         /\ b.queue[i].maxEnd \in Nat /\ b.queue[i].account \in Accounts
  BY QueueIs
<1>2. c = [b EXCEPT !.queue = q]
  BY DEF Scheduled
<1>3. \E i \in 0..n : (i = 0 \/ i \in before) /\ \A j \in before : j <= i
  <2> DEFINE T == {k \in 0..n : n - k = 0 \/ n - k \in before}
  <2>1. T \in SUBSET Nat /\ n \in T
    BY <1>1
  <2>2. PICK k \in T : \A m \in T : k <= m
    BY <2>1, LeastOf
  <2>3. ASSUME NEW j \in before
        PROVE  n - j \in T
    <3>1. j \in 1..n /\ n \in Nat
      BY <1>1
    <3> HIDE DEF n, before
    <3>2. n - j \in 0..n /\ n - (n - j) = j
      BY ONLY <3>1
    <3> QED BY <3>2
  <2>4. n - k \in 0..n /\ (n - k = 0 \/ n - k \in before)
    BY <1>1
  <2>5. ASSUME NEW j \in before
        PROVE  j <= n - k
    <3>1. j \in 1..n
      BY <1>1
    <3>2. k <= n - j /\ k \in Int
      BY <2>2, <2>3
    <3> HIDE DEF n
    <3> QED BY <1>1, <3>1, <3>2
  <2> QED BY <2>4, <2>5
<1>4. at \in 0..n /\ (at = 0 \/ at \in before) /\ \A j \in before : j <= at
  BY <1>3
<1>5. new \in Boundaries /\ new.maxEnd = maxEnd
  BY DEF Boundaries
<1>6. \A i \in 1..n : b.queue[i].maxEnd <= maxEnd <=> i <= at
  <2> SUFFICES ASSUME NEW i \in 1..n
               PROVE  b.queue[i].maxEnd <= maxEnd <=> i <= at
    OBVIOUS
  <2>1. ASSUME b.queue[i].maxEnd <= maxEnd
        PROVE  i <= at
    BY <1>1, <1>4, <2>1
  <2>2. ASSUME i <= at
        PROVE  b.queue[i].maxEnd <= maxEnd
    <3>1. at \in before /\ at \in 1..n
      BY <1>1, <1>4, <2>2, SMTT(30)
    <3>2. b.queue[i].maxEnd <= b.queue[at].maxEnd
      BY <1>1, <2>2, <3>1 DEF Ordered
    <3>3. b.queue[at].maxEnd <= maxEnd
      BY <3>1
    <3>4. b.queue[i].maxEnd \in Nat /\ b.queue[at].maxEnd \in Nat
      BY <1>1, <3>1
    <3> QED BY ONLY <3>2, <3>3, <3>4, SMTT(30), maxEnd \in Nat
  <2> QED BY <2>1, <2>2
<1> HIDE DEF at
<1>7. \A i \in 1..n + 1 : /\ i <= at => i \in 1..n /\ q[i] = b.queue[i]
                          /\ i = at + 1 => q[i] = new
                          /\ at + 1 < i => i - 1 \in 1..n /\ q[i] = b.queue[i - 1]
  BY <1>1, <1>4
<1>8. q \in Seq(Boundaries) /\ DOMAIN q = 1..n + 1
  <2>1. \A i \in 1..n + 1 : q[i] \in Boundaries
    BY <1>1, <1>4, <1>5, <1>7
  <2>2. q = [i \in 1..n + 1 |-> q[i]]
    OBVIOUS
  <2> HIDE DEF q, n
  <2>3. q \in [1..n + 1 -> Boundaries] /\ n + 1 \in Nat
    BY <1>1, <2>1, <2>2
  <2>4. q \in Seq(Boundaries)
    BY <2>3
  <2> QED BY <2>3, <2>4
<1> HIDE DEF q, new
<1>9. /\ c \in BoardRecords /\ c.queue = q /\ c.pos = b.pos /\ c.pool = b.pool
      /\ c.sideRate = b.sideRate /\ c.g = b.g /\ c.last = b.last /\ c.shares = b.shares
  BY <1>2, <1>8, QueuePut
<1>10. ASSUME NEW i \in 1..n + 1, NEW j \in 1..n + 1, i <= j
       PROVE  q[i].maxEnd <= q[j].maxEnd
  <2>0. \A k, l \in 1..n : k <= l => b.queue[k].maxEnd <= b.queue[l].maxEnd
    BY <1>1 DEF Ordered
  <2>1. CASE j <= at
    <3>1. i \in 1..n /\ j \in 1..n /\ q[i] = b.queue[i] /\ q[j] = b.queue[j]
      BY <1>1, <1>4, <1>7, <1>10, <2>1
    <3> QED BY <1>10, <2>0, <3>1
  <2>2. CASE j = at + 1
    <3>1. CASE i = j
      BY <1>5, <1>7, <2>2, <3>1
    <3>2. CASE i # j
      <4>1. i <= at /\ i \in 1..n /\ q[i] = b.queue[i] /\ q[j] = new
        BY <1>1, <1>4, <1>7, <1>10, <2>2, <3>2
      <4> QED BY <1>5, <1>6, <4>1
    <3> QED BY <3>1, <3>2
  <2>3. CASE at + 1 < j
    <3>1. j - 1 \in 1..n /\ q[j] = b.queue[j - 1] /\ ~(j - 1 <= at)
      BY <1>1, <1>4, <1>7, <2>3
    <3>2. b.queue[j - 1].maxEnd \in Nat /\ maxEnd <= b.queue[j - 1].maxEnd
      BY <1>1, <1>6, <3>1
    <3>3. CASE i <= at
      <4>1. i \in 1..n /\ q[i] = b.queue[i] /\ i <= j - 1
        BY <1>1, <1>4, <1>7, <2>3, <3>3
      <4> QED BY <2>0, <3>1, <4>1
    <3>4. CASE i = at + 1
      BY <1>5, <1>7, <3>1, <3>2, <3>4
    <3>5. CASE at + 1 < i
      <4>1. i - 1 \in 1..n /\ q[i] = b.queue[i - 1] /\ i - 1 <= j - 1
        BY <1>1, <1>4, <1>7, <1>10, <3>5
      <4> QED BY <2>0, <3>1, <4>1
    <3> QED BY <1>1, <1>4, <3>3, <3>4, <3>5
  <2> QED BY <1>1, <1>4, <2>1, <2>2, <2>3
<1>11. Ordered(c)
  BY <1>8, <1>9, <1>10 DEF Ordered
<1>12. ASSUME NEW i \in 1..n
       PROVE  \E j \in 1..n + 1 : q[j] = b.queue[i]
  <2>1. CASE i <= at
    BY <1>1, <1>7, <2>1
  <2>2. CASE ~(i <= at)
    <3>1. i + 1 \in 1..n + 1 /\ at + 1 < i + 1 /\ i + 1 - 1 = i
      BY <1>1, <1>4, <2>2
    <3> QED BY <1>7, <3>1
  <2> QED BY <2>1, <2>2
<1>13. at + 1 \in 1..n + 1 /\ q[at + 1] = new
  BY <1>1, <1>4, <1>7
<1>14. ASSUME NEW j \in 1..n + 1
       PROVE  (\E i \in 1..n : q[j] = b.queue[i]) \/ q[j].maxEnd = maxEnd
  <2>1. CASE j <= at
    BY <1>7, <2>1
  <2>2. CASE j = at + 1
    BY <1>5, <1>7, <2>2
  <2>3. CASE at + 1 < j
    BY <1>7, <2>3
  <2> QED BY <1>1, <1>4, <2>1, <2>2, <2>3
<1>15. \E j \in 1..n + 1 : q[j] = [maxEnd |-> maxEnd, account |-> a]
  BY <1>13 DEF new
<1> HIDE DEF n
<1> QED BY <1>1, <1>8, <1>9, <1>11, <1>12, <1>14, <1>15

-----------------------------------------------------------------------------
(* The invariant of a board.                                               *)

\* The shares of a position, its unsettled tail with them.
Holding(b, a) == b.pos[a].accrued + b.pos[a].rate * (b.g - b.pos[a].gPaid)

\* What a position's streams have put into the pool by lastAdvance.
Booked(b, a) == b.pos[a].lost + b.pos[a].rate * (b.last - b.pos[a].fundStart)

RatesOf(b) == [a \in Accounts |-> b.pos[a].rate]
HoldingsOf(b) == [a \in Accounts |-> Holding(b, a)]
BookedOf(b) == [a \in Accounts |-> Booked(b, a)]

\* The side's rate, shares and pool are sums over its positions.
Tallied(b) ==
    /\ b.sideRate = SumFunctionOnSet(RatesOf(b), Accounts)
    /\ b.shares = SumFunctionOnSet(HoldingsOf(b), Accounts)
    /\ b.pool = SumFunctionOnSet(BookedOf(b), Accounts)

Queued(b, a) ==
    \E i \in DOMAIN b.queue : b.queue[i] = [maxEnd |-> b.pos[a].maxEnd, account |-> a]

\* Nothing that is queued was due before lastAdvance.
Ahead(b) ==
    /\ b.last = 0 => b.queue = << >>
    /\ \A i \in DOMAIN b.queue : b.last <= b.queue[i].maxEnd

\* A position that still flows began by lastAdvance and will be closed.
Placed(b, a) ==
    /\ b.pos[a].gPaid <= b.g
    /\ b.pos[a].rate > 0 =>
         /\ ~b.pos[a].depleted
         /\ 0 < b.pos[a].fundStart /\ b.pos[a].fundStart <= b.last
         /\ b.last <= b.pos[a].maxEnd
         /\ Queued(b, a)

Good(b) ==
    /\ b \in BoardRecords
    /\ Tallied(b)
    /\ Ordered(b)
    /\ Ahead(b)
    /\ \A a \in Accounts : Placed(b, a)

LEMMA TermsAreInts ==
  ASSUME NEW b \in BoardRecords
  PROVE  /\ \A a \in Accounts : /\ RatesOf(b)[a] = b.pos[a].rate /\ b.pos[a].rate \in Nat
                                /\ HoldingsOf(b)[a] = Holding(b, a) /\ Holding(b, a) \in Int
                                /\ BookedOf(b)[a] = Booked(b, a) /\ Booked(b, a) \in Int
         /\ IsFiniteSet(Accounts)
<1>1. ASSUME NEW a \in Accounts
      PROVE  b.pos[a].rate \in Nat /\ Holding(b, a) \in Int /\ Booked(b, a) \in Int
  <2>1. /\ b.pos[a].rate \in Nat /\ b.pos[a].gPaid \in Nat /\ b.pos[a].accrued \in Nat
        /\ b.pos[a].fundStart \in Nat /\ b.pos[a].lost \in Nat /\ b.g \in Nat /\ b.last \in Nat
    BY PositionIs, BoardIs
  <2>2. \A x, y \in Int : x * y \in Int
    OBVIOUS
  <2>3. b.g - b.pos[a].gPaid \in Int /\ b.last - b.pos[a].fundStart \in Int
    BY <2>1
  <2>4. /\ b.pos[a].rate * (b.g - b.pos[a].gPaid) \in Int
        /\ b.pos[a].rate * (b.last - b.pos[a].fundStart) \in Int
    BY <2>1, <2>2, <2>3
  <2> QED BY <2>1, <2>4 DEF Holding, Booked
<1> QED BY <1>1, BoardAssumption DEF RatesOf, HoldingsOf, BookedOf

\* What a caught-up good board promises of a position.
LEMMA GoodTerms ==
  ASSUME NEW b, Good(b), NEW a \in Accounts
  PROVE  /\ Holding(b, a) \in Nat /\ b.pos[a].accrued <= Holding(b, a)
         /\ b.pos[a].rate * (b.g - b.pos[a].gPaid) \in Nat
         /\ b.pos[a].rate <= b.sideRate
<1>0. b \in BoardRecords /\ b.pos[a].gPaid <= b.g /\ Tallied(b)
  BY DEF Good, Placed
<1>1. /\ b.pos[a].rate \in Nat /\ b.pos[a].gPaid \in Nat /\ b.pos[a].accrued \in Nat /\ b.g \in Nat
  BY <1>0, PositionIs, BoardIs
<1>2. b.g - b.pos[a].gPaid \in Nat
  BY <1>0, <1>1
<1>3. b.pos[a].rate * (b.g - b.pos[a].gPaid) \in Nat
  BY <1>1, <1>2, NatTimes
<1>4. RatesOf(b)[a] <= SumFunctionOnSet(RatesOf(b), Accounts)
  <2>1. IsFiniteSet(Accounts) /\ \A x \in Accounts : RatesOf(b)[x] \in Nat
    BY <1>0, TermsAreInts
  <2> QED BY <2>1, SumNat
<1>5. b.pos[a].rate <= b.sideRate
  BY <1>0, <1>4, TermsAreInts DEF Tallied
<1> QED BY <1>1, <1>3, <1>5 DEF Holding

\* The sums follow a board through time.
LEMMA TalliedMoved ==
  ASSUME NEW b \in BoardRecords, Tallied(b), NEW t \in Nat, b.last <= t,
         NEW c, c = Moved(b, t)
  PROVE  Tallied(c)
<1> DEFINE dG == Gain(b, t)
           dt == t - b.last
           gains == [a \in Accounts |-> dG * b.pos[a].rate]
           flows == [a \in Accounts |-> dt * b.pos[a].rate]
<1>1. /\ c \in BoardRecords /\ dG \in Nat /\ c.last = t /\ c.pos = b.pos
      /\ c.sideRate = b.sideRate /\ c.pool = b.pool + b.sideRate * dt
      /\ c.g = b.g + dG /\ c.shares = b.shares + b.sideRate * dG
  BY MovedIs
<1>2. /\ b.sideRate \in Nat /\ b.last \in Nat /\ b.g \in Nat /\ dt \in Nat
      /\ b.last + dt = t /\ b.shares \in Nat /\ b.pool \in Nat
  BY BoardIs
<1> HIDE DEF dG, dt
<1>3. \A a \in Accounts : gains[a] = dG * RatesOf(b)[a] /\ flows[a] = dt * RatesOf(b)[a]
  BY TermsAreInts
<1>4. /\ \A a \in Accounts : RatesOf(b)[a] \in Int
      /\ IsFiniteSet(Accounts)
  BY TermsAreInts
<1>5. SumFunctionOnSet(gains, Accounts) = dG * b.sideRate
  <2>1. SumFunctionOnSet(gains, Accounts) = dG * SumFunctionOnSet(RatesOf(b), Accounts)
    BY <1>1, <1>3, <1>4, SumScales
  <2> QED BY <2>1 DEF Tallied
<1>6. SumFunctionOnSet(flows, Accounts) = dt * b.sideRate
  <2>1. SumFunctionOnSet(flows, Accounts) = dt * SumFunctionOnSet(RatesOf(b), Accounts)
    BY <1>2, <1>3, <1>4, SumScales
  <2> QED BY <2>1 DEF Tallied
<1>7. ASSUME NEW a \in Accounts
      PROVE  /\ gains[a] \in Int /\ flows[a] \in Int
             /\ Holding(c, a) = Holding(b, a) + gains[a]
             /\ Booked(c, a) = Booked(b, a) + flows[a]
  <2>1. /\ b.pos[a].rate \in Nat /\ b.pos[a].gPaid \in Nat /\ b.pos[a].accrued \in Nat
        /\ b.pos[a].fundStart \in Nat /\ b.pos[a].lost \in Nat
    BY PositionIs
  <2>2. gains[a] = dG * b.pos[a].rate /\ flows[a] = dt * b.pos[a].rate
    OBVIOUS
  <2> HIDE DEF gains, flows
  <2>3. dG * b.pos[a].rate \in Int /\ dt * b.pos[a].rate \in Int
    BY <1>1, <1>2, <2>1, NatTimes
  <2>4. \A r, x, y, z \in Int : r * (x + y - z) = r * (x - z) + y * r
    OBVIOUS
  <2>5. b.pos[a].rate * (b.g + dG - b.pos[a].gPaid)
          = b.pos[a].rate * (b.g - b.pos[a].gPaid) + dG * b.pos[a].rate
    BY <1>1, <1>2, <2>1, <2>4
  <2>6. b.pos[a].rate * (b.last + dt - b.pos[a].fundStart)
          = b.pos[a].rate * (b.last - b.pos[a].fundStart) + dt * b.pos[a].rate
    BY <1>1, <1>2, <2>1, <2>4
  <2>7. \A x, y \in Int : x * y \in Int
    OBVIOUS
  <2>8. /\ b.pos[a].rate * (b.g - b.pos[a].gPaid) \in Int
        /\ b.pos[a].rate * (b.last - b.pos[a].fundStart) \in Int
    BY <1>2, <2>1, <2>7
  <2>9. Holding(c, a) = Holding(b, a) + gains[a]
    BY <1>1, <1>2, <2>1, <2>2, <2>3, <2>5, <2>8 DEF Holding
  <2>10. Booked(c, a) = Booked(b, a) + flows[a]
    BY <1>1, <1>2, <2>1, <2>2, <2>3, <2>6, <2>8 DEF Booked
  <2> QED BY <2>2, <2>3, <2>9, <2>10
<1> HIDE DEF gains, flows
<1>8. SumFunctionOnSet(HoldingsOf(c), Accounts)
        = SumFunctionOnSet(HoldingsOf(b), Accounts) + SumFunctionOnSet(gains, Accounts)
  <2>1. \A a \in Accounts : /\ HoldingsOf(b)[a] \in Int /\ gains[a] \in Int
                            /\ HoldingsOf(c)[a] = HoldingsOf(b)[a] + gains[a]
    BY <1>1, <1>7, TermsAreInts
  <2> QED BY <1>4, <2>1, SumAdds
<1>9. SumFunctionOnSet(BookedOf(c), Accounts)
        = SumFunctionOnSet(BookedOf(b), Accounts) + SumFunctionOnSet(flows, Accounts)
  <2>1. \A a \in Accounts : /\ BookedOf(b)[a] \in Int /\ flows[a] \in Int
                            /\ BookedOf(c)[a] = BookedOf(b)[a] + flows[a]
    BY <1>1, <1>7, TermsAreInts
  <2> QED BY <1>4, <2>1, SumAdds
<1>10. RatesOf(c) = RatesOf(b)
  BY <1>1 DEF RatesOf
<1>11. b.sideRate * dG = dG * b.sideRate /\ b.sideRate * dt = dt * b.sideRate
  BY <1>1, <1>2
<1>12. c.shares = SumFunctionOnSet(HoldingsOf(c), Accounts)
  BY <1>1, <1>5, <1>8, <1>11 DEF Tallied
<1>13. c.pool = SumFunctionOnSet(BookedOf(c), Accounts)
  BY <1>1, <1>6, <1>9, <1>11 DEF Tallied
<1> QED BY <1>1, <1>10, <1>12, <1>13 DEF Tallied

\* They follow it through the change of one position.
LEMMA TalliedPut ==
  ASSUME NEW b \in BoardRecords, Tallied(b), NEW a \in Accounts, NEW c, SameButPosition(b, c, a),
         Holding(c, a) = Holding(b, a), Booked(c, a) = Booked(b, a),
         c.sideRate = b.sideRate - b.pos[a].rate + c.pos[a].rate
  PROVE  Tallied(c)
<1>1. /\ c \in BoardRecords /\ c.pool = b.pool /\ c.g = b.g /\ c.last = b.last /\ c.shares = b.shares
      /\ \A o \in Accounts \ {a} : c.pos[o] = b.pos[o]
  BY DEF SameButPosition
<1>2. \A o \in Accounts : /\ RatesOf(b)[o] \in Int /\ HoldingsOf(b)[o] \in Int /\ BookedOf(b)[o] \in Int
                          /\ RatesOf(c)[o] \in Int /\ HoldingsOf(c)[o] \in Int /\ BookedOf(c)[o] \in Int
  BY <1>1, TermsAreInts
<1>3. \A o \in Accounts \ {a} : /\ RatesOf(c)[o] = RatesOf(b)[o]
                                /\ HoldingsOf(c)[o] = HoldingsOf(b)[o]
                                /\ BookedOf(c)[o] = BookedOf(b)[o]
  BY <1>1 DEF RatesOf, HoldingsOf, BookedOf, Holding, Booked
<1>4. /\ HoldingsOf(c)[a] = HoldingsOf(b)[a] /\ BookedOf(c)[a] = BookedOf(b)[a]
      /\ RatesOf(c)[a] = c.pos[a].rate /\ RatesOf(b)[a] = b.pos[a].rate
  BY <1>1, TermsAreInts
<1>5. IsFiniteSet(Accounts)
  BY BoardAssumption
<1>6. SumFunctionOnSet(HoldingsOf(c), Accounts) = SumFunctionOnSet(HoldingsOf(b), Accounts)
  <2>1. \A o \in Accounts : HoldingsOf(b)[o] \in Int /\ HoldingsOf(c)[o] = HoldingsOf(b)[o]
    BY <1>2, <1>3, <1>4
  <2> QED BY <1>5, <2>1, SumSame
<1>7. SumFunctionOnSet(BookedOf(c), Accounts) = SumFunctionOnSet(BookedOf(b), Accounts)
  <2>1. \A o \in Accounts : BookedOf(b)[o] \in Int /\ BookedOf(c)[o] = BookedOf(b)[o]
    BY <1>2, <1>3, <1>4
  <2> QED BY <1>5, <2>1, SumSame
<1>8. SumFunctionOnSet(RatesOf(c), Accounts)
        = SumFunctionOnSet(RatesOf(b), Accounts) - RatesOf(b)[a] + RatesOf(c)[a]
  <2>1. /\ \A o \in Accounts : RatesOf(b)[o] \in Int
        /\ RatesOf(c)[a] \in Int
        /\ \A o \in Accounts \ {a} : RatesOf(c)[o] = RatesOf(b)[o]
    BY <1>2, <1>3
  <2> QED BY <1>5, <2>1, SumPut
<1> QED BY <1>1, <1>4, <1>6, <1>7, <1>8 DEF Tallied

-----------------------------------------------------------------------------
(* Each step keeps the invariant.                                          *)

LEMMA NewBoardGood == Good(NewBoard)
<1> DEFINE b == NewBoard
           p == NoPosition
<1>1. p \in Positions /\ p.rate = 0 /\ p.gPaid = 0 /\ p.accrued = 0 /\ p.lost = 0
      /\ p.fundStart = 0
  BY DEF NoPosition, Positions
<1>2. /\ b \in BoardRecords /\ b.pool = 0 /\ b.sideRate = 0 /\ b.g = 0 /\ b.last = 0
      /\ b.shares = 0 /\ b.queue = << >>
      /\ \A a \in Accounts : b.pos[a] = p
  <2>1. [a \in Accounts |-> p] \in [Accounts -> Positions] /\ << >> \in Seq(Boundaries)
    BY <1>1
  <2> HIDE DEF p
  <2> QED BY <2>1 DEF NewBoard, BoardRecords, p
<1> HIDE DEF b, p
<1>3. \A a \in Accounts : RatesOf(b)[a] = 0 /\ HoldingsOf(b)[a] = 0 /\ BookedOf(b)[a] = 0
  BY <1>1, <1>2 DEF RatesOf, HoldingsOf, BookedOf, Holding, Booked
<1>4. \A n \in Int : 0 * n = 0
  OBVIOUS
<1>5. IsFiniteSet(Accounts) /\ Cardinality(Accounts) \in Int
  BY BoardAssumption, FS_CardinalityType
<1>6. 0 * Cardinality(Accounts) = 0
  BY <1>4, <1>5
<1>7. SumFunctionOnSet(RatesOf(b), Accounts) = 0 * Cardinality(Accounts)
  BY <1>3, <1>5, SumConstant
<1>8. SumFunctionOnSet(HoldingsOf(b), Accounts) = 0 * Cardinality(Accounts)
  BY <1>3, <1>5, SumConstant
<1>9. SumFunctionOnSet(BookedOf(b), Accounts) = 0 * Cardinality(Accounts)
  BY <1>3, <1>5, SumConstant
<1>10. Tallied(b)
  BY <1>2, <1>6, <1>7, <1>8, <1>9 DEF Tallied
<1>11. Ordered(b) /\ Ahead(b)
  <2>1. DOMAIN << >> = {}
    OBVIOUS
  <2> QED BY <1>2, <2>1 DEF Ordered, Ahead
<1>12. \A a \in Accounts : Placed(b, a)
  BY <1>1, <1>2 DEF Placed
<1>13. Good(b)
  BY <1>2, <1>10, <1>11, <1>12 DEF Good
<1> QED BY <1>13 DEF b

LEMMA GoodMoved ==
  ASSUME NEW b, Good(b), NEW t \in Nat, b.last <= t,
         \A i \in DOMAIN b.queue : t <= b.queue[i].maxEnd,
         NEW c, c = Moved(b, t)
  PROVE  Good(c)
<1>1. b \in BoardRecords /\ Tallied(b) /\ Ordered(b) /\ Ahead(b) /\ \A a \in Accounts : Placed(b, a)
  BY DEF Good
<1>2. /\ c \in BoardRecords /\ Gain(b, t) \in Nat
      /\ c.last = t /\ c.pos = b.pos /\ c.queue = b.queue /\ c.g = b.g + Gain(b, t)
  BY <1>1, MovedIs
<1>3. Tallied(c)
  BY <1>1, TalliedMoved
<1>4. Ordered(c)
  BY <1>1, <1>2 DEF Ordered
<1>5. b.last \in Nat /\ b.g \in Nat
  BY <1>1, BoardIs
<1>6. Ahead(c)
  BY <1>1, <1>2, <1>5 DEF Ahead
<1>7. ASSUME NEW a \in Accounts
      PROVE  Placed(c, a)
  <2>1. b.pos[a].gPaid \in Nat /\ b.pos[a].fundStart \in Nat /\ b.pos[a].maxEnd \in Nat
    BY <1>1, PositionIs
  <2>2. c.pos[a].gPaid <= c.g
    BY <1>1, <1>2, <1>5, <2>1 DEF Placed
  <2>3. ASSUME c.pos[a].rate > 0
        PROVE  /\ ~c.pos[a].depleted
               /\ 0 < c.pos[a].fundStart /\ c.pos[a].fundStart <= c.last
               /\ c.last <= c.pos[a].maxEnd
               /\ Queued(c, a)
    <3>1. /\ ~b.pos[a].depleted /\ 0 < b.pos[a].fundStart /\ b.pos[a].fundStart <= b.last
          /\ Queued(b, a)
      BY <1>1, <1>2, <2>3 DEF Placed
    <3>2. t <= b.pos[a].maxEnd
      BY <3>1 DEF Queued
    <3> QED BY <1>2, <1>5, <2>1, <3>1, <3>2 DEF Queued
  <2> QED BY <2>2, <2>3 DEF Placed
<1> QED BY <1>2, <1>3, <1>4, <1>6, <1>7 DEF Good

LeavesOthers(b, c, a) ==
    \A i \in DOMAIN b.queue : \/ b.queue[i].account = a
                              \/ \E j \in DOMAIN c.queue : c.queue[j] = b.queue[i]

\* One position may change, and the queue with it, as long as the sums allow
\* it, that position stays in its place and the others keep their boundaries.
LEMMA GoodPut ==
  ASSUME NEW b, Good(b), NEW a \in Accounts, NEW c, SameButPosition(b, c, a),
         Holding(c, a) = Holding(b, a), Booked(c, a) = Booked(b, a),
         c.sideRate = b.sideRate - b.pos[a].rate + c.pos[a].rate,
         Ordered(c), Ahead(c), Placed(c, a), LeavesOthers(b, c, a)
  PROVE  Good(c)
<1>1. b \in BoardRecords /\ Tallied(b) /\ \A o \in Accounts : Placed(b, o)
  BY DEF Good
<1>2. /\ c \in BoardRecords /\ c.g = b.g /\ c.last = b.last
      /\ \A o \in Accounts \ {a} : c.pos[o] = b.pos[o]
  BY DEF SameButPosition
<1>3. Tallied(c)
  BY <1>1, TalliedPut
<1>4. ASSUME NEW o \in Accounts \ {a}
      PROVE  Placed(c, o)
  <2>1. c.pos[o] = b.pos[o] /\ Placed(b, o)
    BY <1>1, <1>2
  <2>2. ASSUME Queued(b, o)
        PROVE  Queued(c, o)
    <3>1. PICK i \in DOMAIN b.queue : b.queue[i] = [maxEnd |-> b.pos[o].maxEnd, account |-> o]
      BY <2>2 DEF Queued
    <3>2. b.queue[i].account # a
      BY <3>1
    <3>3. PICK j \in DOMAIN c.queue : c.queue[j] = b.queue[i]
      BY <3>2 DEF LeavesOthers
    <3> QED BY <2>1, <3>1, <3>3 DEF Queued
  <2> QED BY <1>2, <2>1, <2>2 DEF Placed
<1> QED BY <1>2, <1>3, <1>4 DEF Good

LEMMA GoodSettled ==
  ASSUME NEW b, Good(b), NEW a \in Accounts, NEW c, c = Settled(b, a)
  PROVE  /\ Good(c)
         /\ SameButPosition(b, c, a) /\ c.sideRate = b.sideRate /\ c.queue = b.queue
         /\ c.pos[a].rate = b.pos[a].rate /\ c.pos[a].maxEnd = b.pos[a].maxEnd
         /\ c.pos[a].depleted = b.pos[a].depleted /\ c.pos[a].fundStart = b.pos[a].fundStart
         /\ c.pos[a].lost = b.pos[a].lost /\ c.pos[a].gPaid = b.g
         /\ c.pos[a].accrued = Holding(b, a) /\ Holding(c, a) = Holding(b, a)
<1>1. b \in BoardRecords /\ Ordered(b) /\ Ahead(b) /\ Placed(b, a)
  BY DEF Good
<1>2. b.pos[a].gPaid <= b.g
  BY <1>1 DEF Placed
<1>3. /\ SameButPosition(b, c, a) /\ c.sideRate = b.sideRate /\ c.queue = b.queue
      /\ c.pos[a].rate = b.pos[a].rate /\ c.pos[a].maxEnd = b.pos[a].maxEnd
      /\ c.pos[a].depleted = b.pos[a].depleted /\ c.pos[a].fundStart = b.pos[a].fundStart
      /\ c.pos[a].lost = b.pos[a].lost /\ c.pos[a].gPaid = b.g
      /\ c.pos[a].accrued = b.pos[a].accrued + b.pos[a].rate * (b.g - b.pos[a].gPaid)
  BY <1>1, <1>2, SettledIs
<1>4. c.pos[a].accrued = Holding(b, a)
  BY <1>3 DEF Holding
<1>5. c \in BoardRecords /\ c.g = b.g /\ c.last = b.last
  BY <1>3 DEF SameButPosition
<1>6. b.g \in Nat /\ b.sideRate \in Nat /\ b.pos[a].rate \in Nat /\ Holding(b, a) \in Nat
  BY <1>1, BoardIs, PositionIs, GoodTerms
<1>7. Holding(c, a) = Holding(b, a)
  <2>1. Holding(c, a) = Holding(b, a) + b.pos[a].rate * (b.g - b.g)
    BY <1>3, <1>4, <1>5 DEF Holding
  <2>2. b.g - b.g = 0 /\ b.pos[a].rate * 0 = 0
    BY <1>6
  <2> QED BY <1>6, <2>1, <2>2
<1>8. Booked(c, a) = Booked(b, a)
  BY <1>3, <1>5 DEF Booked
<1>9. c.sideRate = b.sideRate - b.pos[a].rate + c.pos[a].rate
  BY <1>3, <1>6
<1>10. Ordered(c) /\ Ahead(c)
  BY <1>1, <1>3, <1>5 DEF Ordered, Ahead
<1>11. Placed(c, a)
  <2>1. Queued(b, a) => Queued(c, a)
    BY <1>3 DEF Queued
  <2> QED BY <1>1, <1>3, <1>5, <1>6, <2>1 DEF Placed
<1>12. LeavesOthers(b, c, a)
  BY <1>3 DEF LeavesOthers
<1>13. Good(c)
  BY <1>3, <1>7, <1>8, <1>9, <1>10, <1>11, <1>12, GoodPut
<1> QED BY <1>3, <1>4, <1>7, <1>13

\* A settled position may be closed at lastAdvance.
LEMMA GoodShut ==
  ASSUME NEW b, Good(b), NEW a \in Accounts, b.pos[a].rate > 0, b.pos[a].gPaid = b.g,
         NEW c, SameButPosition(b, c, a), c.sideRate = b.sideRate - b.pos[a].rate,
         c.pos[a].rate = 0, c.pos[a].gPaid = b.pos[a].gPaid,
         c.pos[a].accrued = b.pos[a].accrued,
         c.pos[a].fundStart = b.pos[a].fundStart,
         c.pos[a].lost = b.pos[a].lost + Streamed(b.pos[a], b.last),
         Ordered(c), Ahead(c), LeavesOthers(b, c, a)
  PROVE  Good(c) /\ Holding(c, a) = Holding(b, a)
<1>1. b \in BoardRecords /\ Placed(b, a)
  BY DEF Good
<1>2. c \in BoardRecords /\ c.g = b.g /\ c.last = b.last
  BY DEF SameButPosition
<1>3. /\ b.g \in Nat /\ b.sideRate \in Nat /\ b.last \in Nat
      /\ b.pos[a].rate \in Nat /\ b.pos[a].accrued \in Nat
      /\ b.pos[a].fundStart \in Nat /\ b.pos[a].lost \in Nat
  BY <1>1, BoardIs, PositionIs
<1>4. b.pos[a].fundStart <= b.last
  BY <1>1 DEF Placed
<1>5. \A x \in Int : 0 * x = 0 /\ x * 0 = 0
  OBVIOUS
<1>6. Holding(c, a) = Holding(b, a)
  <2>1. Holding(b, a) = b.pos[a].accrued + b.pos[a].rate * (b.g - b.g)
    BY DEF Holding
  <2>2. Holding(c, a) = b.pos[a].accrued + 0 * (b.g - b.g)
    BY <1>2 DEF Holding
  <2>3. b.g - b.g = 0
    BY <1>3
  <2> QED BY <1>3, <1>5, <2>1, <2>2, <2>3
<1>7. Booked(c, a) = Booked(b, a)
  <2>1. Streamed(b.pos[a], b.last) = b.pos[a].rate * (b.last - b.pos[a].fundStart)
    <3>1. CASE b.last > b.pos[a].fundStart
      BY <3>1 DEF Streamed
    <3>2. CASE ~(b.last > b.pos[a].fundStart)
      <4>1. b.last - b.pos[a].fundStart = 0
        BY <1>3, <1>4, <3>2
      <4> QED BY <1>3, <1>5, <3>2, <4>1 DEF Streamed
    <3> QED BY <3>1, <3>2
  <2>2. b.last - b.pos[a].fundStart \in Nat
    BY <1>3, <1>4
  <2>3. b.pos[a].rate * (b.last - b.pos[a].fundStart) \in Nat
    BY <1>3, <2>2, NatTimes
  <2>4. Booked(c, a) = Booked(b, a) + 0 * (b.last - b.pos[a].fundStart)
    BY <1>2, <2>1 DEF Booked
  <2>5. Booked(b, a) \in Int
    BY <1>3, <2>3 DEF Booked
  <2> QED BY <1>5, <2>2, <2>4, <2>5
<1>8. c.sideRate = b.sideRate - b.pos[a].rate + c.pos[a].rate
  BY <1>3
<1>9. Placed(c, a)
  BY <1>2, <1>3 DEF Placed
<1> QED BY <1>6, <1>7, <1>8, <1>9, GoodPut

-----------------------------------------------------------------------------
(* Catching up.                                                            *)

\* The loss basis of a position, as Vault.tla reads it.
Loss(b, a, cap) ==
    b.pos[a].lost + IF b.pos[a].rate > 0 THEN Streamed(b.pos[a], Least(b.pos[a].maxEnd, cap)) ELSE 0

\* What catching up from b to c keeps of a position ...
KeptOf(b, c, cap, a) ==
    /\ Loss(c, a, cap) = Loss(b, a, cap)
    /\ c.pos[a].maxEnd = b.pos[a].maxEnd
    /\ \/ /\ c.pos[a].rate = b.pos[a].rate
          /\ c.pos[a].fundStart = b.pos[a].fundStart
          /\ c.pos[a].depleted = b.pos[a].depleted
       \/ c.pos[a].rate = 0 /\ c.pos[a].depleted /\ b.pos[a].maxEnd <= cap
    /\ cap <= b.last => Holding(c, a) = Holding(b, a)

\* ... and of the side: once it has reached the cap, its sums stand still.
Kept(b, c, cap) ==
    /\ \A a \in Accounts : KeptOf(b, c, cap, a)
    /\ b.last <= c.last
    /\ c.last = b.last \/ c.last <= cap
    /\ cap <= b.last => c.pool = b.pool /\ c.shares = b.shares

LEMMA KeptOnAndOn ==
  ASSUME NEW cap \in Nat, NEW b \in BoardRecords, NEW c \in BoardRecords, NEW d \in BoardRecords,
         Kept(b, c, cap), Kept(c, d, cap)
  PROVE  Kept(b, d, cap)
<1>1. b.last \in Nat /\ c.last \in Nat /\ d.last \in Nat
  BY BoardIs
<1>2. ASSUME NEW a \in Accounts
      PROVE  KeptOf(b, d, cap, a)
  <2>1. KeptOf(b, c, cap, a) /\ KeptOf(c, d, cap, a)
    BY DEF Kept
  <2>2. b.last <= c.last
    BY DEF Kept
  <2> QED BY <1>1, <2>1, <2>2 DEF KeptOf
<1> QED BY <1>1, <1>2 DEF Kept

LEMMA KeptSame ==
  ASSUME NEW cap \in Nat, NEW b \in BoardRecords
  PROVE  Kept(b, b, cap)
<1>1. b.last \in Nat
  BY BoardIs
<1> QED BY <1>1 DEF Kept, KeptOf

LEMMA KeptMoved ==
  ASSUME NEW cap \in Nat, NEW b \in BoardRecords, NEW t \in Nat, b.last <= t, t <= cap,
         NEW c, c = Moved(b, t)
  PROVE  Kept(b, c, cap)
<1>1. /\ b.pool \in Nat /\ b.sideRate \in Nat /\ b.g \in Nat /\ b.last \in Nat /\ b.shares \in Nat
  BY BoardIs
<1>2. /\ c.last = t /\ c.pos = b.pos
      /\ c.pool = b.pool + b.sideRate * (t - b.last)
      /\ c.g = b.g + Gain(b, t) /\ c.shares = b.shares + b.sideRate * Gain(b, t)
  BY MovedIs
<1>3. ASSUME cap <= b.last
      PROVE  c.pool = b.pool /\ c.g = b.g /\ c.shares = b.shares
  <2>1. t = b.last /\ t - b.last = 0
    BY <1>1, <1>3
  <2>2. Gain(b, t) = 0
    BY <2>1 DEF Gain
  <2>3. b.sideRate * 0 = 0
    BY <1>1
  <2>4. c.pool = b.pool + 0 /\ c.g = b.g + 0 /\ c.shares = b.shares + 0
    BY <1>2, <2>1, <2>2, <2>3
  <2> QED BY <1>1, <2>4
<1>4. ASSUME NEW a \in Accounts
      PROVE  KeptOf(b, c, cap, a)
  <2>1. Loss(c, a, cap) = Loss(b, a, cap)
    BY <1>2 DEF Loss
  <2>2. cap <= b.last => Holding(c, a) = Holding(b, a)
    BY <1>2, <1>3 DEF Holding
  <2> QED BY <1>2, <2>1, <2>2 DEF KeptOf
<1> QED BY <1>1, <1>2, <1>3, <1>4 DEF Kept

Applied(b, e) == [Depleted(b, e) EXCEPT !.queue = Tail(@)]

\* What a depletion leaves of the board moved to the boundary.
DepletedTo(m, c, a) ==
    /\ c.pool = m.pool /\ c.g = m.g /\ c.shares = m.shares /\ c.last = m.last
    /\ c.sideRate = m.sideRate - m.pos[a].rate
    /\ \A o \in Accounts : /\ c.pos[o].maxEnd = m.pos[o].maxEnd
                           /\ c.pos[o].rate = IF o = a THEN 0 ELSE m.pos[o].rate
                           /\ Holding(c, o) = Holding(m, o)

\* A valid boundary is applied: the board moves up to it, the account is
\* settled there, and its position is closed with the boundary.
LEMMA TurnDepletes ==
  ASSUME NEW cap \in Nat, NEW b, Good(b), b.queue # << >>,
         NEW e, e = Head(b.queue), e.maxEnd <= cap, Valid(b, e),
         NEW c, c = Applied(b, e)
  PROVE  /\ Good(c) /\ Kept(b, c, cap)
         /\ c.queue = Tail(b.queue) /\ c.last = e.maxEnd
         /\ DepletedTo(Moved(b, e.maxEnd), c, e.account)
<1> DEFINE a == e.account
           t == e.maxEnd
           m == Moved(b, t)
           s == Settled(m, a)
           k == Closed(s, a, t, TRUE)
           q == Tail(b.queue)
<1>1. /\ b \in BoardRecords /\ Ordered(b) /\ Ahead(b)
      /\ \A o \in Accounts : Placed(b, o)
  BY DEF Good
<1>2. /\ q \in Seq(Boundaries) /\ DOMAIN q = 1..Len(q)
      /\ \A i \in DOMAIN q : i + 1 \in DOMAIN b.queue /\ q[i] = b.queue[i + 1]
      /\ \A i \in DOMAIN b.queue : i # 1 => i - 1 \in DOMAIN q /\ b.queue[i] = q[i - 1]
      /\ 1 \in DOMAIN b.queue /\ e = b.queue[1] /\ e \in Boundaries
  BY <1>1, TailIs
<1>3. a \in Accounts /\ t \in Nat
  BY <1>2 DEF Boundaries
<1>4. b.last <= t /\ \A i \in DOMAIN b.queue : t <= b.queue[i].maxEnd
  <2>1. \A i \in DOMAIN b.queue : 1 <= i
    BY <1>1, QueueIs
  <2> QED BY <1>1, <1>2, <2>1 DEF Ahead, Ordered
<1>5. b.pos[a].rate > 0 /\ ~b.pos[a].depleted /\ b.pos[a].maxEnd = t
  BY DEF Valid, Active
<1>6. c = [k EXCEPT !.queue = Tail(k.queue)]
  BY DEF Depleted, Applied
<1>7. e.account = a /\ e.maxEnd = t
  OBVIOUS
<1> HIDE DEF a, t, k, s, m, q
<1>8. /\ Good(m) /\ m \in BoardRecords /\ m.last = t /\ m.pos = b.pos /\ m.queue = b.queue
  <2>1. m \in BoardRecords /\ m.last = t /\ m.pos = b.pos /\ m.queue = b.queue
    BY <1>1, <1>3, <1>4, MovedIs DEF m
  <2>2. Good(m)
    BY <1>3, <1>4, GoodMoved DEF m
  <2> QED BY <2>1, <2>2
<1>9. /\ Good(s)
      /\ SameButPosition(m, s, a) /\ s.sideRate = m.sideRate /\ s.queue = m.queue
      /\ s.pos[a].rate = m.pos[a].rate /\ s.pos[a].maxEnd = m.pos[a].maxEnd
      /\ s.pos[a].fundStart = m.pos[a].fundStart
      /\ s.pos[a].lost = m.pos[a].lost /\ s.pos[a].gPaid = m.g
      /\ Holding(s, a) = Holding(m, a)
  BY <1>3, <1>8, GoodSettled DEF s
<1>10. /\ s \in BoardRecords /\ s.pool = m.pool /\ s.g = m.g /\ s.last = m.last
       /\ s.shares = m.shares
       /\ \A o \in Accounts \ {a} : s.pos[o] = m.pos[o]
  BY <1>9 DEF SameButPosition
<1>11. s.pos[a].rate <= s.sideRate
  BY <1>3, <1>9, GoodTerms
<1>12. /\ SameButPosition(s, k, a) /\ k.sideRate = s.sideRate - s.pos[a].rate
       /\ k.queue = s.queue
       /\ k.pos[a].rate = 0 /\ k.pos[a].maxEnd = s.pos[a].maxEnd
       /\ k.pos[a].fundStart = s.pos[a].fundStart
       /\ k.pos[a].gPaid = s.pos[a].gPaid /\ k.pos[a].accrued = s.pos[a].accrued
       /\ k.pos[a].lost = s.pos[a].lost + Streamed(s.pos[a], t)
       /\ k.pos[a].depleted
  <2>1. PICK dry \in BOOLEAN : dry = TRUE
    OBVIOUS
  <2>2. k = Closed(s, a, t, dry) /\ s \in BoardRecords
    BY <1>10, <2>1 DEF k
  <2>3. dry => k.pos[a].depleted
    BY <1>3, <1>11, <2>2, ClosedIs
  <2>4. k.pos[a].depleted
    BY ONLY <2>1, <2>3
  <2> QED BY <1>3, <1>11, <2>2, <2>4, ClosedIs
<1>13. k \in BoardRecords /\ c = [k EXCEPT !.queue = q]
  BY <1>6, <1>8, <1>9, <1>12 DEF SameButPosition, q
<1>14. /\ c \in BoardRecords /\ c.queue = q /\ c.pos = k.pos /\ c.pool = k.pool
       /\ c.sideRate = k.sideRate /\ c.g = k.g /\ c.last = k.last /\ c.shares = k.shares
  <2>1. q \in Seq(Boundaries)
    BY <1>2
  <2> QED BY <1>13, <2>1 DEF BoardRecords
<1>15. SameButPosition(s, c, a) /\ c.last = t
  BY <1>8, <1>10, <1>12, <1>14 DEF SameButPosition
<1>16. Ordered(c)
  <2>1. \A i, j \in DOMAIN q : i <= j => q[i].maxEnd <= q[j].maxEnd
    <3> SUFFICES ASSUME NEW i \in DOMAIN q, NEW j \in DOMAIN q, i <= j
                 PROVE  q[i].maxEnd <= q[j].maxEnd
      OBVIOUS
    <3>1. i + 1 \in DOMAIN b.queue /\ j + 1 \in DOMAIN b.queue /\ i + 1 <= j + 1
      BY <1>2
    <3>2. b.queue[i + 1].maxEnd <= b.queue[j + 1].maxEnd
      BY <1>1, <3>1 DEF Ordered
    <3> QED BY <1>2, <3>2
  <2> QED BY <1>14, <2>1 DEF Ordered
<1>17. Ahead(c)
  <2>1. \A i \in DOMAIN q : t <= q[i].maxEnd
    BY <1>2, <1>4
  <2>2. t = 0 => q = << >>
    <3>1. SUFFICES ASSUME t = 0
                   PROVE  FALSE
      OBVIOUS
    <3>2. 0 < b.pos[a].fundStart /\ b.pos[a].fundStart <= b.last
      BY <1>1, <1>3, <1>5 DEF Placed
    <3>3. b.last \in Nat /\ b.pos[a].fundStart \in Nat
      BY <1>1, <1>3, BoardIs, PositionIs
    <3> QED BY <1>4, <3>1, <3>2, <3>3
  <2> QED BY <1>14, <1>15, <2>1, <2>2 DEF Ahead
<1>18. LeavesOthers(s, c, a)
  <2>1. s.queue = b.queue /\ c.queue = q
    BY <1>8, <1>9, <1>14
  <2> SUFFICES ASSUME NEW i \in DOMAIN b.queue
               PROVE  b.queue[i].account = a \/ \E j \in DOMAIN q : q[j] = b.queue[i]
    BY <2>1 DEF LeavesOthers
  <2>2. CASE i = 1
    BY <1>2, <1>7, <2>2
  <2>3. CASE i # 1
    BY <1>2, <2>3
  <2> QED BY <2>2, <2>3
<1>19. Good(c) /\ Holding(c, a) = Holding(s, a)
  <2>1. s.pos[a].rate > 0 /\ s.pos[a].gPaid = s.g
    BY <1>5, <1>8, <1>9, <1>10
  <2>2. /\ c.sideRate = s.sideRate - s.pos[a].rate
        /\ c.pos[a].rate = 0 /\ c.pos[a].gPaid = s.pos[a].gPaid
        /\ c.pos[a].accrued = s.pos[a].accrued
        /\ c.pos[a].fundStart = s.pos[a].fundStart
    BY <1>12, <1>14
  <2>3. c.pos[a].lost = s.pos[a].lost + Streamed(s.pos[a], s.last)
    BY <1>8, <1>10, <1>12, <1>14
  <2>4. Good(s) /\ SameButPosition(s, c, a)
    BY <1>9, <1>15
  <2> QED BY <1>3, <1>16, <1>17, <1>18, <2>1, <2>2, <2>3, <2>4, GoodShut
<1>20. Kept(b, m, cap)
  BY <1>1, <1>3, <1>4, <1>7, KeptMoved DEF m
<1>21. KeptOf(m, c, cap, a)
  <2>1. Loss(m, a, cap) = m.pos[a].lost + Streamed(m.pos[a], t)
    BY <1>3, <1>5, <1>7, <1>8 DEF Loss, Least
  <2>2. Loss(c, a, cap) = s.pos[a].lost + Streamed(s.pos[a], t)
    <3>1. c.pos[a].rate = 0 /\ c.pos[a].lost = s.pos[a].lost + Streamed(s.pos[a], t)
      BY <1>12, <1>14
    <3>2. c.pos[a].lost \in Nat
      BY <1>3, <1>14, PositionIs
    <3> QED BY <3>1, <3>2 DEF Loss
  <2>3. Streamed(s.pos[a], t) = Streamed(m.pos[a], t)
    BY <1>9 DEF Streamed
  <2>4. Holding(c, a) = Holding(m, a)
    BY <1>9, <1>19
  <2> QED BY <1>5, <1>7, <1>8, <1>9, <1>12, <1>14, <2>1, <2>2, <2>3, <2>4 DEF KeptOf
<1>22. ASSUME NEW o \in Accounts \ {a}
       PROVE  KeptOf(m, c, cap, o)
  <2>1. c.pos[o] = m.pos[o] /\ c.g = m.g
    BY <1>10, <1>15 DEF SameButPosition
  <2> QED BY <2>1 DEF KeptOf, Loss, Holding
<1>23. Kept(m, c, cap)
  <2>1. c.pool = m.pool /\ c.shares = m.shares /\ c.last = m.last
    BY <1>10, <1>15 DEF SameButPosition
  <2>2. \A o \in Accounts : KeptOf(m, c, cap, o)
    BY <1>21, <1>22
  <2>3. m.last <= c.last
    BY <1>3, <1>8, <2>1
  <2> QED BY ONLY <2>1, <2>2, <2>3 DEF Kept
<1>24. Kept(b, c, cap)
  BY <1>1, <1>8, <1>14, <1>20, <1>23, KeptOnAndOn
<1>25. DepletedTo(m, c, a)
  <2>1. /\ c.pool = m.pool /\ c.g = m.g /\ c.shares = m.shares /\ c.last = m.last
    BY <1>10, <1>15 DEF SameButPosition
  <2>2. c.sideRate = m.sideRate - m.pos[a].rate
    BY <1>9, <1>12, <1>14
  <2>3. /\ c.pos[a].maxEnd = m.pos[a].maxEnd /\ c.pos[a].rate = 0
        /\ Holding(c, a) = Holding(m, a)
    BY <1>9, <1>12, <1>14, <1>19
  <2>4. \A o \in Accounts \ {a} : c.pos[o] = m.pos[o]
    BY <1>10, <1>15 DEF SameButPosition
  <2>5. \A o \in Accounts \ {a} : Holding(c, o) = Holding(m, o)
    BY <2>1, <2>4 DEF Holding
  <2>6. ASSUME NEW o \in Accounts
        PROVE  /\ c.pos[o].maxEnd = m.pos[o].maxEnd
               /\ c.pos[o].rate = IF o = a THEN 0 ELSE m.pos[o].rate
               /\ Holding(c, o) = Holding(m, o)
    <3>1. CASE o = a
      BY <2>3, <3>1
    <3>2. CASE o # a
      <4>1. o \in Accounts \ {a}
        BY <3>2
      <4> QED BY <2>4, <2>5, <3>2, <4>1
    <3> QED BY <3>1, <3>2
  <2> QED BY ONLY <2>1, <2>2, <2>6 DEF DepletedTo
<1>26. DepletedTo(Moved(b, e.maxEnd), c, e.account)
  BY <1>25 DEF m, t, a
<1> HIDE DEF m, t, a
<1> QED BY <1>7, <1>14, <1>15, <1>19, <1>24, <1>26 DEF q, t

\* A boundary that was left behind is dropped.
LEMMA TurnDrops ==
  ASSUME NEW cap \in Nat, NEW b, Good(b), b.queue # << >>,
         NEW e, e = Head(b.queue), ~Valid(b, e),
         NEW c, c = [b EXCEPT !.queue = Tail(@)]
  PROVE  /\ Good(c) /\ Kept(b, c, cap)
         /\ c.queue = Tail(b.queue) /\ c.last = b.last
<1> DEFINE a == e.account
           q == Tail(b.queue)
<1>1. /\ b \in BoardRecords /\ Ordered(b) /\ Ahead(b)
      /\ \A o \in Accounts : Placed(b, o)
  BY DEF Good
<1>2. /\ q \in Seq(Boundaries) /\ DOMAIN q = 1..Len(q)
      /\ \A i \in DOMAIN q : i + 1 \in DOMAIN b.queue /\ q[i] = b.queue[i + 1]
      /\ \A i \in DOMAIN b.queue : i # 1 => i - 1 \in DOMAIN q /\ b.queue[i] = q[i - 1]
      /\ 1 \in DOMAIN b.queue /\ e = b.queue[1] /\ e \in Boundaries
  BY <1>1, TailIs
<1>3. a \in Accounts
  BY <1>2 DEF Boundaries
<1>4. /\ c \in BoardRecords /\ c.queue = q /\ c.pos = b.pos /\ c.pool = b.pool
      /\ c.sideRate = b.sideRate /\ c.g = b.g /\ c.last = b.last /\ c.shares = b.shares
  <2>1. q \in Seq(Boundaries) /\ c = [b EXCEPT !.queue = q]
    BY <1>2
  <2> HIDE DEF q
  <2> QED BY <1>1, <2>1 DEF BoardRecords
<1>5. e.account = a
  OBVIOUS
<1> HIDE DEF a, q
<1>6. Ordered(c)
  <2>1. \A i, j \in DOMAIN q : i <= j => q[i].maxEnd <= q[j].maxEnd
    <3> SUFFICES ASSUME NEW i \in DOMAIN q, NEW j \in DOMAIN q, i <= j
                 PROVE  q[i].maxEnd <= q[j].maxEnd
      OBVIOUS
    <3>1. i + 1 \in DOMAIN b.queue /\ j + 1 \in DOMAIN b.queue /\ i + 1 <= j + 1
      BY <1>2
    <3>2. b.queue[i + 1].maxEnd <= b.queue[j + 1].maxEnd
      BY <1>1, <3>1 DEF Ordered
    <3> QED BY <1>2, <3>2
  <2> QED BY <1>4, <2>1 DEF Ordered
<1>7. Ahead(c)
  BY <1>1, <1>2, <1>4 DEF Ahead
<1>8. SameButPosition(b, c, a)
  BY <1>4 DEF SameButPosition
<1>9. Holding(c, a) = Holding(b, a) /\ Booked(c, a) = Booked(b, a)
  BY <1>4 DEF Holding, Booked
<1>10. c.sideRate = b.sideRate - b.pos[a].rate + c.pos[a].rate
  BY <1>1, <1>3, <1>4, BoardIs, PositionIs
<1>11. Placed(c, a)
  <2>1. ASSUME b.pos[a].rate > 0
        PROVE  Queued(c, a)
    <3>1. ~b.pos[a].depleted /\ Queued(b, a)
      BY <1>1, <1>3, <2>1 DEF Placed
    <3>2. b.pos[a].maxEnd # e.maxEnd
      BY <1>5, <2>1, <3>1 DEF Valid, Active
    <3>3. PICK i \in DOMAIN b.queue : b.queue[i] = [maxEnd |-> b.pos[a].maxEnd, account |-> a]
      BY <3>1 DEF Queued
    <3>4. b.queue[i].maxEnd = b.pos[a].maxEnd
      BY <3>3
    <3>5. i # 1
      BY <1>2, <3>2, <3>4
    <3> QED BY <1>2, <1>4, <3>3, <3>5 DEF Queued
  <2> QED BY <1>1, <1>3, <1>4, <2>1 DEF Placed
<1>12. LeavesOthers(b, c, a)
  BY <1>2, <1>4, <1>5 DEF LeavesOthers
<1>13. Good(c)
  <2>1. Holding(c, a) = Holding(b, a)
    BY <1>9
  <2>2. Booked(c, a) = Booked(b, a)
    BY <1>9
  <2> QED BY <1>3, <1>6, <1>7, <1>8, <1>10, <1>11, <1>12, <2>1, <2>2, GoodPut
<1>14. Kept(b, c, cap)
  <2>1. b.last \in Nat
    BY <1>1, BoardIs
  <2> QED BY <1>4, <2>1 DEF Kept, KeptOf, Loss, Holding
<1> QED BY <1>4, <1>13, <1>14 DEF q

LEMMA TurnIs ==
  ASSUME NEW cap \in Nat, NEW b, Good(b), NEW c, c = Turn(b, cap)
  PROVE  /\ Good(c) /\ Kept(b, c, cap)
         /\ DueAt(b, cap) => c.queue = Tail(b.queue)
         /\ ~DueAt(b, cap) => c = b
<1>1. CASE ~DueAt(b, cap)
  <2>1. c = b
    BY <1>1 DEF Turn
  <2>2. Kept(b, b, cap)
    BY KeptSame DEF Good
  <2> QED BY <1>1, <2>1, <2>2
<1>2. CASE DueAt(b, cap)
  <2> DEFINE e == Head(b.queue)
  <2>1. b.queue # << >> /\ e.maxEnd <= cap
    BY <1>2 DEF DueAt
  <2>2. CASE Valid(b, e)
    <3>1. c = Applied(b, e)
      BY <1>2, <2>2 DEF Turn, Applied
    <3>2. e = Head(b.queue)
      OBVIOUS
    <3> HIDE DEF e
    <3>3. /\ Good(c) /\ Kept(b, c, cap)
          /\ c.queue = Tail(b.queue) /\ c.last = e.maxEnd
      BY <2>1, <2>2, <3>1, <3>2, TurnDepletes
    <3> QED BY <1>2, <3>3
  <2>3. CASE ~Valid(b, e)
    <3>1. c = [b EXCEPT !.queue = Tail(@)]
      BY <1>2, <2>3 DEF Turn
    <3> QED BY <1>2, <2>1, <2>3, <3>1, TurnDrops
  <2> QED BY <2>2, <2>3
<1> QED BY <1>1, <1>2

\* The body of the recursion in Turns, and its table.
Stepped(S, cap) == {Turn(c, cap) : c \in S}

TurnStep(b, cap, run, k) == IF k = 0 THEN {b} ELSE Stepped(run[k - 1], cap)

TurnTable(b, cap, n) == CHOOSE run : run = [k \in 0..n |-> TurnStep(b, cap, run, k)]

LEMMA TurnTableExists ==
  ASSUME NEW b, NEW cap, NEW n \in Nat
  PROVE  \E run : run = [k \in 0..n |-> TurnStep(b, cap, run, k)]
<1> DEFINE B == {m \in Nat : \E run : run = [k \in 0..m |-> TurnStep(b, cap, run, k)]}
<1>1. 0 \in B
  <2> DEFINE run == [k \in 0..0 |-> {b}]
  <2>1. \A k \in 0..0 : TurnStep(b, cap, run, k) = {b}
    BY DEF TurnStep
  <2>2. run = [k \in 0..0 |-> TurnStep(b, cap, run, k)]
    BY <2>1
  <2> QED BY <2>2
<1>2. ASSUME NEW m \in Nat, m \in B
      PROVE  m + 1 \in B
  <2>1. PICK run : run = [k \in 0..m |-> TurnStep(b, cap, run, k)]
    BY <1>2
  <2> DEFINE more == [k \in 0..m + 1 |-> IF k = m + 1 THEN Stepped(run[m], cap) ELSE run[k]]
  <2>2. \A k \in 0..m + 1 : /\ k # m + 1 => k \in 0..m
                            /\ k # 0 => k - 1 \in 0..m
                            /\ k = m + 1 => k # 0 /\ k - 1 = m
    OBVIOUS
  <2>3. \A k \in 0..m : run[k] = TurnStep(b, cap, run, k)
    BY <2>1
  <2>4. \A k \in 0..m : more[k] = run[k]
    BY <2>2
  <2>5. m + 1 \in 0..m + 1 /\ more[m + 1] = Stepped(run[m], cap)
    OBVIOUS
  <2>6. more = [k \in 0..m + 1 |-> more[k]]
    OBVIOUS
  <2> HIDE DEF more
  <2>7. ASSUME NEW k \in 0..m + 1
        PROVE  more[k] = TurnStep(b, cap, more, k)
    <3>1. CASE k = m + 1
      <4>1. k # 0 /\ k - 1 = m
        BY <2>2, <3>1
      <4>2. more[m] = run[m]
        BY <2>4
      <4> QED BY <2>5, <3>1, <4>1, <4>2 DEF TurnStep
    <3>2. CASE k # m + 1 /\ k = 0
      BY <2>2, <2>3, <2>4, <3>2 DEF TurnStep
    <3>3. CASE k # m + 1 /\ k # 0
      <4>1. k \in 0..m /\ k - 1 \in 0..m
        BY <2>2, <3>3
      <4>2. more[k] = run[k] /\ more[k - 1] = run[k - 1]
        BY <2>4, <4>1
      <4>3. run[k] = TurnStep(b, cap, run, k)
        BY <2>3, <4>1
      <4> QED BY <3>3, <4>2, <4>3 DEF TurnStep
    <3> QED BY <3>1, <3>2, <3>3
  <2>8. more = [k \in 0..m + 1 |-> TurnStep(b, cap, more, k)]
    BY <2>6, <2>7
  <2> QED BY <2>8
<1> HIDE DEF B
<1>3. Nat \subseteq B
  BY <1>1, <1>2, NatBySet
<1> QED BY <1>3 DEF B

LEMMA TurnTableIs ==
  ASSUME NEW b, NEW cap, NEW n \in Nat, NEW k \in 0..n
  PROVE  TurnTable(b, cap, n)[k] = TurnStep(b, cap, TurnTable(b, cap, n), k)
<1>1. TurnTable(b, cap, n) = [i \in 0..n |-> TurnStep(b, cap, TurnTable(b, cap, n), i)]
  BY TurnTableExists DEF TurnTable
<1> QED BY <1>1

\* n + 1 turns are n turns and one more.
LEMMA TurnsUnfold ==
  ASSUME NEW b, NEW cap
  PROVE  /\ Turns(b, cap, 0) = {b}
         /\ \A n \in Nat : Turns(b, cap, n + 1) = Stepped(Turns(b, cap, n), cap)
<1>1. \A n : Turns(b, cap, n) = TurnTable(b, cap, n)[n]
  BY DEF Turns, TurnTable, TurnStep, Stepped
<1>2. Turns(b, cap, 0) = {b}
  <2>1. 0 \in Nat /\ 0 \in 0..0
    OBVIOUS
  <2>2. TurnTable(b, cap, 0)[0] = TurnStep(b, cap, TurnTable(b, cap, 0), 0)
    BY <2>1, TurnTableIs
  <2> QED BY <1>1, <2>2 DEF TurnStep
<1>3. ASSUME NEW n \in Nat
      PROVE  Turns(b, cap, n + 1) = Stepped(Turns(b, cap, n), cap)
  <2> DEFINE less == TurnTable(b, cap, n)
             more == TurnTable(b, cap, n + 1)
             B == {k \in Nat : k \in 0..n => more[k] = less[k]}
  <2>1. \A k \in 0..n : less[k] = TurnStep(b, cap, less, k)
    BY TurnTableIs
  <2>2. \A k \in 0..n + 1 : more[k] = TurnStep(b, cap, more, k)
    <3>1. n + 1 \in Nat
      OBVIOUS
    <3> QED BY <3>1, TurnTableIs
  <2>3. Turns(b, cap, n) = less[n] /\ Turns(b, cap, n + 1) = more[n + 1]
    BY <1>1
  <2> HIDE DEF less, more
  <2>4. 0 \in B
    <3>1. 0 \in 0..n /\ 0 \in 0..n + 1
      OBVIOUS
    <3>2. less[0] = TurnStep(b, cap, less, 0) /\ more[0] = TurnStep(b, cap, more, 0)
      BY <2>1, <2>2, <3>1
    <3> QED BY <3>2 DEF TurnStep
  <2>5. ASSUME NEW k \in Nat, k \in B
        PROVE  k + 1 \in B
    <3> SUFFICES ASSUME k + 1 \in 0..n
                 PROVE  more[k + 1] = less[k + 1]
      OBVIOUS
    <3>1. k \in 0..n /\ k + 1 \in 0..n + 1 /\ k + 1 # 0 /\ k + 1 - 1 = k
      OBVIOUS
    <3>2. more[k] = less[k]
      BY <2>5, <3>1
    <3>3. less[k + 1] = TurnStep(b, cap, less, k + 1)
      BY <2>1
    <3>4. more[k + 1] = TurnStep(b, cap, more, k + 1)
      BY <2>2, <3>1
    <3> QED BY <3>1, <3>2, <3>3, <3>4 DEF TurnStep
  <2> HIDE DEF B
  <2>6. Nat \subseteq B
    BY <2>4, <2>5, NatBySet
  <2>7. more[n] = less[n]
    <3>1. n \in 0..n
      OBVIOUS
    <3> QED BY <2>6, <3>1 DEF B
  <2>8. more[n + 1] = TurnStep(b, cap, more, n + 1)
    <3>1. n + 1 \in 0..n + 1
      OBVIOUS
    <3> QED BY <2>2, <3>1
  <2>9. n + 1 # 0 /\ n + 1 - 1 = n
    OBVIOUS
  <2> QED BY <2>3, <2>7, <2>8, <2>9 DEF TurnStep
<1> QED BY <1>2, <1>3

\* Turns leads to one board.
LEMMA TurnsLead ==
  ASSUME NEW cap, NEW b, NEW G, b \in G[0],
         \A k \in Nat : \A c \in G[k] : Turn(c, cap) \in G[k + 1]
  PROVE  \A n \in Nat : \E x \in G[n] : Turns(b, cap, n) = {x}
<1> DEFINE B == {n \in Nat : \E x \in G[n] : Turns(b, cap, n) = {x}}
<1>1. 0 \in B
  BY TurnsUnfold
<1>2. ASSUME NEW n \in Nat, n \in B
      PROVE  n + 1 \in B
  <2>1. PICK x \in G[n] : Turns(b, cap, n) = {x}
    BY <1>2
  <2>2. Turns(b, cap, n + 1) = Stepped({x}, cap)
    <3>1. Turns(b, cap, n + 1) = Stepped(Turns(b, cap, n), cap)
      BY TurnsUnfold
    <3> QED BY ONLY <2>1, <3>1
  <2>3. Stepped({x}, cap) = {Turn(x, cap)}
    BY DEF Stepped
  <2>4. Turn(x, cap) \in G[n + 1] /\ n + 1 \in Nat
    OBVIOUS
  <2> QED BY <2>2, <2>3, <2>4
<1> HIDE DEF B
<1>3. Nat \subseteq B
  BY <1>1, <1>2, NatBySet
<1> QED BY <1>3 DEF B

\* What k turns from b lead to: some head of the queue is gone, k boundaries
\* long unless nothing was due any more.
Reached(b, c, cap, k) ==
    /\ Good(c)
    /\ Kept(b, c, cap)
    /\ \E m \in 0..Len(b.queue) :
         /\ c.queue = SubSeq(b.queue, m + 1, Len(b.queue))
         /\ m <= k
         /\ m = k \/ ~DueAt(c, cap)

LEMMA TurnReaches ==
  ASSUME NEW cap \in Nat, NEW b, Good(b), NEW k \in Nat, NEW c, Reached(b, c, cap, k)
  PROVE  Reached(b, Turn(c, cap), cap, k + 1)
<1> DEFINE d == Turn(c, cap)
           n == Len(b.queue)
<1>1. b \in BoardRecords /\ b.queue \in Seq(Boundaries) /\ n \in Nat
  BY BoardIs, QueueIs DEF Good
<1>2. Good(c) /\ Kept(b, c, cap)
  BY DEF Reached
<1>3. PICK m \in 0..n : /\ c.queue = SubSeq(b.queue, m + 1, n)
                        /\ m <= k
                        /\ m = k \/ ~DueAt(c, cap)
  BY DEF Reached
<1>4. /\ Good(d) /\ Kept(c, d, cap)
      /\ DueAt(c, cap) => d.queue = Tail(c.queue)
      /\ ~DueAt(c, cap) => d = c
  BY <1>2, TurnIs
<1>5. Kept(b, d, cap)
  BY <1>1, <1>2, <1>4, KeptOnAndOn DEF Good
<1> HIDE DEF d
<1>6. CASE ~DueAt(c, cap)
  <2>1. d = c /\ m <= k + 1
    BY <1>3, <1>4, <1>6
  <2> HIDE DEF n
  <2>2. \E i \in 0..n : /\ d.queue = SubSeq(b.queue, i + 1, n)
                        /\ i <= k + 1
                        /\ i = k + 1 \/ ~DueAt(d, cap)
    BY <1>3, <1>6, <2>1
  <2> QED BY <1>4, <1>5, <2>2 DEF Reached, n, d
<1>7. CASE DueAt(c, cap)
  <2>1. c.queue # << >> /\ m = k
    BY <1>3, <1>7 DEF DueAt
  <2>2. m + 1 \in 1..n
    <3>1. CASE m = n
      <4>1. SubSeq(b.queue, n + 1, n) = << >>
        BY <1>1, SubSeqEmpty
      <4> QED BY <1>3, <2>1, <3>1, <4>1
    <3> QED BY <1>1, <1>3, <3>1
  <2>3. Tail(c.queue) = SubSeq(b.queue, m + 1 + 1, n)
    <3> HIDE DEF n
    <3>1. m + 1 \in 1..Len(b.queue) /\ n \in m + 1..Len(b.queue)
      BY <2>2 DEF n
    <3> QED BY <1>1, <1>3, <3>1, HeadTailOfSubSeq
  <2>4. m + 1 \in 0..n /\ m + 1 <= k + 1 /\ m + 1 = k + 1
    BY <1>1, <2>1, <2>2
  <2>5. d.queue = SubSeq(b.queue, m + 1 + 1, n)
    BY <1>4, <1>7, <2>3
  <2> QED BY <1>4, <1>5, <2>4, <2>5 DEF Reached, d
<1> QED BY <1>6, <1>7

LEMMA ReachedAtOnce ==
  ASSUME NEW cap \in Nat, NEW b, Good(b)
  PROVE  Reached(b, b, cap, 0)
<1> DEFINE n == Len(b.queue)
<1>1. b \in BoardRecords /\ b.queue \in Seq(Boundaries) /\ n \in Nat
  BY BoardIs, QueueIs DEF Good
<1>2. Kept(b, b, cap)
  BY <1>1, KeptSame
<1>3. SubSeq(b.queue, 0 + 1, n) = b.queue
  <2>1. 0 + 1 = 1
    OBVIOUS
  <2> QED BY <1>1, <2>1, SubSeqFull
<1>4. 0 \in 0..n /\ 0 <= 0
  BY <1>1
<1> QED BY <1>2, <1>3, <1>4 DEF Reached

LEMMA TurnsReach ==
  ASSUME NEW cap \in Nat, NEW b, Good(b), NEW n \in Nat
  PROVE  \E c : Turns(b, cap, n) = {c} /\ Reached(b, c, cap, n)
<1> DEFINE G == [k \in Nat |-> {c \in BoardRecords : Reached(b, c, cap, k)}]
<1>1. b \in G[0]
  BY ReachedAtOnce DEF Good
<1>2. ASSUME NEW k \in Nat, NEW c \in G[k]
      PROVE  Turn(c, cap) \in G[k + 1]
  <2>1. Reached(b, c, cap, k)
    OBVIOUS
  <2>2. Reached(b, Turn(c, cap), cap, k + 1)
    BY <2>1, TurnReaches
  <2>3. Turn(c, cap) \in BoardRecords
    BY <2>2 DEF Reached, Good
  <2> QED BY <2>2, <2>3
<1>3. \A k \in Nat : G[k] = {c \in BoardRecords : Reached(b, c, cap, k)}
  OBVIOUS
<1> HIDE DEF G
<1>4. \E x \in G[n] : Turns(b, cap, n) = {x}
  BY <1>1, <1>2, TurnsLead
<1> QED BY <1>3, <1>4

LEMMA FinishIs ==
  ASSUME NEW cap \in Nat, NEW b, Good(b), NEW c, c = Finish(b, cap)
  PROVE  /\ Good(c) /\ Kept(b, c, cap) /\ c.queue = b.queue
         /\ DueAt(b, cap) => c = b
         /\ ~DueAt(b, cap) => cap <= c.last /\ ~DueAt(c, cap)
<1>1. b \in BoardRecords /\ Ordered(b) /\ b.last \in Nat
  BY BoardIs DEF Good
<1>2. CASE DueAt(b, cap)
  <2>1. c = b
    BY <1>2 DEF Finish
  <2> QED BY <1>1, <1>2, <2>1, KeptSame
<1>3. CASE ~DueAt(b, cap) /\ b.last >= cap
  <2>1. c = b /\ cap <= b.last
    BY <1>1, <1>3 DEF Finish
  <2> QED BY <1>1, <1>3, <2>1, KeptSame
<1>4. CASE ~DueAt(b, cap) /\ ~(b.last >= cap)
  <2>1. c = Moved(b, cap) /\ b.last <= cap
    BY <1>1, <1>4 DEF Finish
  <2>2. c.last = cap /\ c.queue = b.queue
    BY <1>1, <2>1, MovedIs
  <2>3. ASSUME NEW i \in DOMAIN b.queue
        PROVE  cap <= b.queue[i].maxEnd
    <3>1. /\ 1 \in DOMAIN b.queue /\ 1 <= i /\ b.queue # << >> /\ Head(b.queue) = b.queue[1]
          /\ b.queue[1].maxEnd \in Nat /\ b.queue[i].maxEnd \in Nat
      <4>1. b.queue # << >>
        OBVIOUS
      <4> QED BY <1>1, <4>1, QueueIs, TailIs
    <3>2. cap <= b.queue[1].maxEnd
      BY <1>4, <3>1 DEF DueAt
    <3>3. b.queue[1].maxEnd <= b.queue[i].maxEnd
      BY <1>1, <3>1 DEF Ordered
    <3> QED BY <3>1, <3>2, <3>3
  <2>4. Good(c)
    BY <2>1, <2>3, GoodMoved
  <2>5. Kept(b, c, cap)
    <3>1. cap <= cap
      OBVIOUS
    <3> QED BY <1>1, <2>1, <3>1, KeptMoved
  <2>6. ~DueAt(c, cap)
    BY <1>4, <2>2 DEF DueAt
  <2> QED BY <1>4, <2>2, <2>4, <2>5, <2>6
<1> QED BY <1>2, <1>3, <1>4

\* The first touch of a side.
LEMMA TouchedIs ==
  ASSUME NEW b, Good(b), b.last = 0, NEW now \in Nat \ {0}, NEW c, c = [b EXCEPT !.last = now]
  PROVE  /\ Good(c) /\ c.pos = b.pos /\ c.g = b.g /\ c.pool = b.pool /\ c.shares = b.shares
         /\ c.queue = << >> /\ b.queue = << >> /\ c.last = now
         /\ \A a \in Accounts : b.pos[a].rate = 0
<1>1. /\ b \in BoardRecords /\ Tallied(b) /\ b.queue = << >>
      /\ \A a \in Accounts : Placed(b, a)
  BY DEF Good, Ahead
<1>2. DOMAIN << >> = {}
  OBVIOUS
<1>3. ASSUME NEW a \in Accounts
      PROVE  b.pos[a].rate = 0
  <2>1. ~Queued(b, a)
    BY <1>1, <1>2 DEF Queued
  <2>2. b.pos[a].rate \in Nat
    BY <1>1, PositionIs
  <2> QED BY <1>1, <2>1, <2>2 DEF Placed
<1>4. /\ c \in BoardRecords /\ c.pos = b.pos /\ c.g = b.g /\ c.pool = b.pool
      /\ c.shares = b.shares /\ c.sideRate = b.sideRate /\ c.queue = b.queue /\ c.last = now
  BY <1>1 DEF BoardRecords
<1>5. Tallied(c)
  <2>1. RatesOf(c) = RatesOf(b)
    BY <1>4 DEF RatesOf
  <2>2. HoldingsOf(c) = HoldingsOf(b)
    BY <1>4 DEF HoldingsOf, Holding
  <2>3. ASSUME NEW a \in Accounts
        PROVE  Booked(c, a) = Booked(b, a)
    <3>1. \A x \in Int : 0 * x = 0
      OBVIOUS
    <3>2. b.pos[a].fundStart \in Nat /\ b.last \in Nat /\ now \in Nat
      BY <1>1, PositionIs, BoardIs
    <3>3. 0 * (now - b.pos[a].fundStart) = 0 /\ 0 * (b.last - b.pos[a].fundStart) = 0
      BY <3>1, <3>2
    <3> QED BY <1>3, <1>4, <3>3 DEF Booked
  <2>4. BookedOf(c) = BookedOf(b)
    BY <2>3 DEF BookedOf
  <2> QED BY <1>1, <1>4, <2>1, <2>2, <2>4 DEF Tallied
<1>6. Ordered(c) /\ Ahead(c)
  <2>1. DOMAIN c.queue = {}
    BY <1>1, <1>2, <1>4
  <2> QED BY <1>4, <2>1 DEF Ordered, Ahead
<1>7. \A a \in Accounts : Placed(c, a)
  BY <1>1, <1>3, <1>4 DEF Placed
<1>8. Good(c)
  BY <1>4, <1>5, <1>6, <1>7 DEF Good
<1> QED BY <1>1, <1>3, <1>4, <1>8

\* What a catch-up with a budget of n turns keeps, and how far it gets.
Advanced(b, c, now, cap, n) ==
    /\ Good(c) /\ 0 < c.last /\ b.last <= c.last
    /\ \A a \in Accounts : KeptOf(b, c, cap, a)
    /\ cap <= b.last => c.pool = b.pool /\ c.shares = b.shares
    /\ \/ b.last = 0 /\ c.last = now /\ c.queue = << >>
       \/ b.last # 0 /\ (c.last = b.last \/ c.last <= cap)
    /\ \E m \in 0..Len(b.queue) : m <= n /\ c.queue = SubSeq(b.queue, m + 1, Len(b.queue))

\* Advance finishes the one board that the turns lead to.
LEMMA AdvanceFinishes ==
  ASSUME NEW b, b.last # 0, NEW now, NEW cap, NEW n, NEW d, Turns(b, cap, n) = {d}
  PROVE  Advance(b, now, cap, n) = Finish(d, cap)
<1>1. {Finish(c, cap) : c \in Turns(b, cap, n)} = {Finish(d, cap)}
  OBVIOUS
<1>2. Advance(b, now, cap, n) = CHOOSE done \in {Finish(d, cap)} : TRUE
  BY <1>1 DEF Advance
<1>3. \A x : (CHOOSE done \in {x} : TRUE) = x
  OBVIOUS
<1> QED BY <1>2, <1>3

LEMMA AdvanceIs ==
  ASSUME NEW now \in Nat \ {0}, NEW cap \in Nat, NEW n \in Nat, NEW b, Good(b),
         NEW c, c = Advance(b, now, cap, n)
  PROVE  /\ Advanced(b, c, now, cap, n)
         /\ n = Len(b.queue) /\ cap <= now => cap <= c.last /\ ~DueAt(c, cap)
<1>1. b \in BoardRecords /\ b.last \in Nat /\ Len(b.queue) \in Nat /\ b.queue \in Seq(Boundaries)
  BY BoardIs, QueueIs DEF Good
<1>2. CASE b.last = 0
  <2>1. c = [b EXCEPT !.last = now]
    BY <1>2 DEF Advance
  <2>2. /\ Good(c) /\ c.pos = b.pos /\ c.g = b.g /\ c.pool = b.pool /\ c.shares = b.shares
        /\ c.queue = << >> /\ b.queue = << >> /\ c.last = now
        /\ \A a \in Accounts : b.pos[a].rate = 0
    BY <1>2, <2>1, TouchedIs
  <2>3. \A a \in Accounts : KeptOf(b, c, cap, a)
    BY <2>2 DEF KeptOf, Loss, Holding
  <2>4. \E m \in 0..Len(b.queue) : m <= n /\ c.queue = SubSeq(b.queue, m + 1, Len(b.queue))
    <3>1. Len(b.queue) = 0
      BY <2>2
    <3>2. SubSeq(b.queue, 0 + 1, 0) = << >>
      <4>1. 0 + 1 \in Int /\ 0 \in Int /\ 0 < 0 + 1
        OBVIOUS
      <4> QED BY <4>1, SubSeqEmpty
    <3> QED BY <2>2, <3>1, <3>2
  <2>5. ~DueAt(c, cap)
    BY <2>2 DEF DueAt
  <2>6. 0 < c.last /\ b.last <= c.last
    BY <1>2, <2>2
  <2>7. cap <= now => cap <= c.last
    BY <2>2
  <2> QED BY <1>2, <2>2, <2>3, <2>4, <2>5, <2>6, <2>7 DEF Advanced
<1>3. CASE b.last # 0
  <2>1. PICK d : Turns(b, cap, n) = {d} /\ Reached(b, d, cap, n)
    BY TurnsReach
  <2>2. c = Finish(d, cap)
    BY <1>3, <2>1, AdvanceFinishes
  <2>3. PICK m \in 0..Len(b.queue) : /\ d.queue = SubSeq(b.queue, m + 1, Len(b.queue))
                                     /\ m <= n
                                     /\ m = n \/ ~DueAt(d, cap)
    BY <2>1 DEF Reached
  <2>4. Good(d) /\ Kept(b, d, cap)
    BY <2>1 DEF Reached
  <2>5. /\ Good(c) /\ Kept(d, c, cap) /\ c.queue = d.queue
        /\ DueAt(d, cap) => c = d
        /\ ~DueAt(d, cap) => cap <= c.last /\ ~DueAt(c, cap)
    BY <2>2, <2>4, FinishIs
  <2>6. Kept(b, c, cap)
    BY <1>1, <2>4, <2>5, KeptOnAndOn DEF Good
  <2>7. c.last \in Nat /\ b.last <= c.last /\ 0 < c.last
    <3>1. c.last \in Nat /\ b.last <= c.last
      BY <2>5, <2>6, BoardIs DEF Good, Kept
    <3> QED BY <1>1, <1>3, <3>1
  <2>8. Advanced(b, c, now, cap, n)
    <3>1. \E i \in 0..Len(b.queue) : i <= n /\ c.queue = SubSeq(b.queue, i + 1, Len(b.queue))
      BY <2>3, <2>5
    <3> QED BY <1>3, <2>5, <2>6, <2>7, <3>1 DEF Advanced, Kept
  <2>9. ASSUME n = Len(b.queue)
        PROVE  cap <= c.last /\ ~DueAt(c, cap)
    <3>1. ~DueAt(d, cap)
      <4>1. CASE m = n
        <5>1. SubSeq(b.queue, n + 1, n) = << >>
          <6>1. n + 1 \in Int /\ n \in Int /\ n < n + 1
            OBVIOUS
          <6> QED BY <6>1, SubSeqEmpty
        <5> QED BY <2>3, <2>9, <4>1, <5>1 DEF DueAt
      <4> QED BY <2>3, <4>1
    <3> QED BY <2>5, <3>1
  <2> QED BY <2>8, <2>9
<1> QED BY <1>2, <1>3

-----------------------------------------------------------------------------
(* The hooks, on a board that has reached the cap.                         *)

\* A hook moves no sum and nobody's shares or loss.
HookKeeps(b, c) ==
    /\ Good(c)
    /\ c.last = b.last /\ c.pool = b.pool /\ c.shares = b.shares
    /\ \A o \in Accounts : Holding(c, o) = Holding(b, o) /\ Loss(c, o, b.last) = Loss(b, o, b.last)

LEMMA HookedSettled ==
  ASSUME NEW b, Good(b), NEW a \in Accounts, NEW c, c = Settled(b, a)
  PROVE  /\ HookKeeps(b, c) /\ c.queue = b.queue
         /\ \A o \in Accounts : /\ c.pos[o].rate = b.pos[o].rate
                                /\ c.pos[o].maxEnd = b.pos[o].maxEnd
                                /\ c.pos[o].depleted = b.pos[o].depleted
                                /\ c.pos[o].fundStart = b.pos[o].fundStart
                                /\ c.pos[o].lost = b.pos[o].lost
         /\ c.pos[a].accrued = Holding(b, a) /\ c.pos[a].gPaid = c.g
<1>1. /\ Good(c)
      /\ SameButPosition(b, c, a) /\ c.sideRate = b.sideRate /\ c.queue = b.queue
      /\ c.pos[a].rate = b.pos[a].rate /\ c.pos[a].maxEnd = b.pos[a].maxEnd
      /\ c.pos[a].depleted = b.pos[a].depleted /\ c.pos[a].fundStart = b.pos[a].fundStart
      /\ c.pos[a].lost = b.pos[a].lost /\ c.pos[a].gPaid = b.g
      /\ c.pos[a].accrued = Holding(b, a) /\ Holding(c, a) = Holding(b, a)
  BY GoodSettled
<1>2. /\ c.last = b.last /\ c.pool = b.pool /\ c.shares = b.shares /\ c.g = b.g
      /\ \A o \in Accounts \ {a} : c.pos[o] = b.pos[o]
  BY <1>1 DEF SameButPosition
<1>3. ASSUME NEW o \in Accounts
      PROVE  /\ c.pos[o].rate = b.pos[o].rate
             /\ c.pos[o].maxEnd = b.pos[o].maxEnd
             /\ c.pos[o].depleted = b.pos[o].depleted
             /\ c.pos[o].fundStart = b.pos[o].fundStart
             /\ c.pos[o].lost = b.pos[o].lost
  <2>1. CASE o = a
    BY <1>1, <2>1
  <2>2. CASE o # a
    BY <1>2, <2>2
  <2> QED BY <2>1, <2>2
<1>4. ASSUME NEW o \in Accounts
      PROVE  Holding(c, o) = Holding(b, o)
  <2>1. CASE o = a
    BY <1>1, <2>1
  <2>2. CASE o # a
    BY <1>2, <2>2 DEF Holding
  <2> QED BY <2>1, <2>2
<1>5. ASSUME NEW o \in Accounts
      PROVE  Loss(c, o, b.last) = Loss(b, o, b.last)
  BY <1>3 DEF Loss, Streamed
<1> QED BY <1>1, <1>2, <1>3, <1>4, <1>5 DEF HookKeeps

LEMMA HookedClosed ==
  ASSUME NEW b, Good(b), NEW a \in Accounts, b.pos[a].rate > 0, b.pos[a].gPaid = b.g,
         NEW dry \in BOOLEAN, NEW c, c = Closed(b, a, b.last, dry)
  PROVE  /\ HookKeeps(b, c) /\ c.queue = b.queue /\ c.pos[a].rate = 0
         /\ \A o \in Accounts \ {a} : c.pos[o] = b.pos[o]
<1>1. /\ b \in BoardRecords /\ Ordered(b) /\ Ahead(b) /\ Placed(b, a)
  BY DEF Good
<1>2. /\ b.last \in Nat /\ b.pos[a].maxEnd \in Nat /\ b.pos[a].fundStart \in Nat
      /\ b.pos[a].lost \in Nat
  BY <1>1, BoardIs, PositionIs
<1>3. b.pos[a].rate <= b.sideRate
  BY GoodTerms
<1>4. /\ SameButPosition(b, c, a) /\ c.sideRate = b.sideRate - b.pos[a].rate
      /\ c.queue = b.queue
      /\ c.pos[a].rate = 0 /\ c.pos[a].maxEnd = b.pos[a].maxEnd
      /\ c.pos[a].fundStart = b.pos[a].fundStart
      /\ c.pos[a].gPaid = b.pos[a].gPaid /\ c.pos[a].accrued = b.pos[a].accrued
      /\ c.pos[a].lost = b.pos[a].lost + Streamed(b.pos[a], b.last)
  BY <1>1, <1>2, <1>3, ClosedIs
<1>5. /\ c.last = b.last /\ c.pool = b.pool /\ c.shares = b.shares /\ c.g = b.g
      /\ \A o \in Accounts \ {a} : c.pos[o] = b.pos[o]
      /\ c \in BoardRecords
  BY <1>4 DEF SameButPosition
<1>6. Ordered(c) /\ Ahead(c) /\ LeavesOthers(b, c, a)
  BY <1>1, <1>4, <1>5 DEF Ordered, Ahead, LeavesOthers
<1>7. Good(c) /\ Holding(c, a) = Holding(b, a)
  BY <1>4, <1>6, GoodShut
<1>8. ASSUME NEW o \in Accounts
      PROVE  Holding(c, o) = Holding(b, o)
  <2>1. CASE o = a
    BY <1>7, <2>1
  <2>2. CASE o # a
    BY <1>5, <2>2 DEF Holding
  <2> QED BY <2>1, <2>2
<1>9. ASSUME NEW o \in Accounts
      PROVE  Loss(c, o, b.last) = Loss(b, o, b.last)
  <2>1. CASE o = a
    <3>1. Least(b.pos[a].maxEnd, b.last) = b.last
      BY <1>1, <1>2 DEF Placed, Least
    <3>2. Loss(b, a, b.last) = b.pos[a].lost + Streamed(b.pos[a], b.last)
      BY <3>1 DEF Loss
    <3>3. c.pos[a].lost \in Nat
      BY <1>5, PositionIs
    <3>4. Loss(c, a, b.last) = c.pos[a].lost + 0
      BY <1>4 DEF Loss
    <3> QED BY <1>4, <2>1, <3>2, <3>3, <3>4
  <2>2. CASE o # a
    BY <1>5, <2>2 DEF Loss
  <2> QED BY <2>1, <2>2
<1> QED BY <1>4, <1>5, <1>7, <1>8, <1>9 DEF HookKeeps

LEMMA HookedOpened ==
  ASSUME NEW b, Good(b), NEW a \in Accounts, b.pos[a].rate = 0, b.last # 0,
         NEW rate \in Nat \ {0}, NEW maxEnd \in Nat, b.last <= maxEnd,
         NEW c, c = Opened(b, a, rate, maxEnd, b.last)
  PROVE  /\ HookKeeps(b, c)
         /\ c.pos[a].rate = rate /\ c.pos[a].maxEnd = maxEnd /\ ~c.pos[a].depleted
         /\ \A o \in Accounts \ {a} : c.pos[o] = b.pos[o]
<1> DEFINE d == Funding(b, a, rate, maxEnd, b.last)
<1>1. /\ b \in BoardRecords /\ Ordered(b) /\ Ahead(b)
  BY DEF Good
<1>2. /\ b.last \in Nat /\ b.g \in Nat /\ b.sideRate \in Nat /\ b.pos[a].accrued \in Nat
      /\ b.pos[a].gPaid \in Nat /\ b.pos[a].lost \in Nat /\ b.pos[a].fundStart \in Nat
  BY <1>1, BoardIs, PositionIs
<1>3. c = Scheduled(d, maxEnd, a)
  BY DEF Opened, Funding
<1>4. /\ SameButPosition(b, d, a) /\ d.sideRate = b.sideRate + rate /\ d.queue = b.queue
      /\ d.pos[a].rate = rate /\ d.pos[a].maxEnd = maxEnd /\ d.pos[a].fundStart = b.last
      /\ d.pos[a].gPaid = b.g /\ d.pos[a].accrued = b.pos[a].accrued
      /\ d.pos[a].lost = b.pos[a].lost /\ ~d.pos[a].depleted
  <2>1. d = Funding(b, a, rate, maxEnd, b.last)
    OBVIOUS
  <2>2. rate \in Nat /\ b.last \in Nat
    BY <1>2
  <2> HIDE DEF d
  <2> QED BY <1>1, <2>1, <2>2, FundingIs
<1> HIDE DEF d
<1>5. /\ d \in BoardRecords /\ d.pool = b.pool /\ d.g = b.g /\ d.last = b.last
      /\ d.shares = b.shares
      /\ \A o \in Accounts \ {a} : d.pos[o] = b.pos[o]
  BY <1>4 DEF SameButPosition
<1>6. Ordered(d)
  BY <1>1, <1>4 DEF Ordered
<1>7. /\ c \in BoardRecords /\ c.pos = d.pos /\ c.pool = d.pool /\ c.sideRate = d.sideRate
      /\ c.g = d.g /\ c.last = d.last /\ c.shares = d.shares
      /\ Ordered(c)
      /\ \A i \in DOMAIN d.queue : \E j \in DOMAIN c.queue : c.queue[j] = d.queue[i]
      /\ \E j \in DOMAIN c.queue : c.queue[j] = [maxEnd |-> maxEnd, account |-> a]
      /\ \A j \in DOMAIN c.queue : \/ \E i \in DOMAIN d.queue : c.queue[j] = d.queue[i]
                                   \/ c.queue[j].maxEnd = maxEnd
  BY <1>3, <1>5, <1>6, ScheduledIs
<1>8. Ahead(c)
  <2>1. ASSUME NEW j \in DOMAIN c.queue
        PROVE  b.last <= c.queue[j].maxEnd
    <3>1. CASE \E i \in DOMAIN d.queue : c.queue[j] = d.queue[i]
      BY <1>1, <1>4, <3>1 DEF Ahead
    <3>2. CASE c.queue[j].maxEnd = maxEnd
      BY <3>2
    <3> QED BY <1>7, <3>1, <3>2
  <2> QED BY <1>5, <1>7, <2>1 DEF Ahead
<1>9. SameButPosition(b, c, a)
  BY <1>5, <1>7 DEF SameButPosition
<1>10. \A x \in Int : 0 * x = 0 /\ x * 0 = 0
  OBVIOUS
<1>11. Holding(c, a) = Holding(b, a)
  <2>1. Holding(b, a) = b.pos[a].accrued + 0 * (b.g - b.pos[a].gPaid)
    BY DEF Holding
  <2>2. Holding(c, a) = b.pos[a].accrued + rate * (b.g - b.g)
    BY <1>4, <1>5, <1>7 DEF Holding
  <2>3. b.g - b.g = 0 /\ b.g - b.pos[a].gPaid \in Int
    BY <1>2
  <2> QED BY <1>2, <1>10, <2>1, <2>2, <2>3
<1>12. Booked(c, a) = Booked(b, a)
  <2>1. Booked(b, a) = b.pos[a].lost + 0 * (b.last - b.pos[a].fundStart)
    BY DEF Booked
  <2>2. Booked(c, a) = b.pos[a].lost + rate * (b.last - b.last)
    BY <1>4, <1>5, <1>7 DEF Booked
  <2>3. b.last - b.last = 0 /\ b.last - b.pos[a].fundStart \in Int
    BY <1>2
  <2> QED BY <1>2, <1>10, <2>1, <2>2, <2>3
<1>13. c.sideRate = b.sideRate - b.pos[a].rate + c.pos[a].rate
  BY <1>2, <1>4, <1>7
<1>14. Placed(c, a)
  <2>1. Queued(c, a)
    BY <1>4, <1>7 DEF Queued
  <2> QED BY <1>2, <1>4, <1>5, <1>7, <2>1 DEF Placed
<1>15. LeavesOthers(b, c, a)
  BY <1>4, <1>7 DEF LeavesOthers
<1>16. Good(c)
  BY <1>7, <1>8, <1>9, <1>11, <1>12, <1>13, <1>14, <1>15, GoodPut
<1>17. ASSUME NEW o \in Accounts
       PROVE  Holding(c, o) = Holding(b, o)
  <2>1. CASE o = a
    BY <1>11, <2>1
  <2>2. CASE o # a
    BY <1>5, <1>7, <2>2 DEF Holding
  <2> QED BY <2>1, <2>2
<1>18. ASSUME NEW o \in Accounts
       PROVE  Loss(c, o, b.last) = Loss(b, o, b.last)
  <2>1. CASE o = a
    <3>1. ~(Least(maxEnd, b.last) > b.last)
      BY <1>2 DEF Least
    <3>2. Streamed(c.pos[a], Least(c.pos[a].maxEnd, b.last)) = 0
      BY <1>4, <1>7, <3>1 DEF Streamed
    <3>3. Loss(c, a, b.last) = b.pos[a].lost + 0
      BY <1>4, <1>7, <3>2 DEF Loss
    <3>4. Loss(b, a, b.last) = b.pos[a].lost + 0
      BY DEF Loss
    <3> QED BY <2>1, <3>3, <3>4
  <2>2. CASE o # a
    BY <1>5, <1>7, <2>2 DEF Loss
  <2> QED BY <2>1, <2>2
<1>19. HookKeeps(b, c)
  BY <1>5, <1>7, <1>16, <1>17, <1>18 DEF HookKeeps
<1> QED BY <1>4, <1>5, <1>7, <1>19

LEMMA HookedRepegged ==
  ASSUME NEW b, Good(b), NEW a \in Accounts, NEW maxEnd \in Nat, b.last <= maxEnd,
         NEW c, c = Repegged(b, a, maxEnd)
  PROVE  /\ HookKeeps(b, c)
         /\ \A o \in Accounts : c.pos[o].rate = b.pos[o].rate
         /\ \A o \in Accounts \ {a} : c.pos[o] = b.pos[o]
         /\ c.pos[a].maxEnd \in {maxEnd, b.pos[a].maxEnd}
         /\ c.pos[a].depleted = b.pos[a].depleted
         /\ Active(b, a) => c.pos[a].maxEnd = maxEnd
<1> DEFINE d == Pegged(b, a, maxEnd)
<1>0. CASE ~(Active(b, a) /\ b.pos[a].maxEnd # maxEnd)
  BY <1>0 DEF Repegged, HookKeeps
<1>1. CASE Active(b, a) /\ b.pos[a].maxEnd # maxEnd
  <2>1. /\ b \in BoardRecords /\ Ordered(b) /\ Ahead(b) /\ Placed(b, a)
    BY DEF Good
  <2>2. /\ b.last \in Nat /\ b.sideRate \in Nat /\ b.pos[a].rate \in Nat
        /\ b.pos[a].maxEnd \in Nat
    BY <2>1, BoardIs, PositionIs
  <2>3. c = Scheduled(d, maxEnd, a)
    BY <1>1 DEF Repegged, Pegged
  <2>4. /\ SameButPosition(b, d, a) /\ d.sideRate = b.sideRate /\ d.queue = b.queue
        /\ d.pos[a].rate = b.pos[a].rate /\ d.pos[a].maxEnd = maxEnd
        /\ d.pos[a].fundStart = b.pos[a].fundStart /\ d.pos[a].depleted = b.pos[a].depleted
        /\ d.pos[a].gPaid = b.pos[a].gPaid /\ d.pos[a].accrued = b.pos[a].accrued
        /\ d.pos[a].lost = b.pos[a].lost
    BY <2>1, PeggedIs
  <2> HIDE DEF d
  <2>5. /\ d \in BoardRecords /\ d.pool = b.pool /\ d.g = b.g /\ d.last = b.last
        /\ d.shares = b.shares
        /\ \A o \in Accounts \ {a} : d.pos[o] = b.pos[o]
    BY <2>4 DEF SameButPosition
  <2>6. Ordered(d)
    BY <2>1, <2>4 DEF Ordered
  <2>7. /\ c \in BoardRecords /\ c.pos = d.pos /\ c.pool = d.pool /\ c.sideRate = d.sideRate
        /\ c.g = d.g /\ c.last = d.last /\ c.shares = d.shares
        /\ Ordered(c)
        /\ \A i \in DOMAIN d.queue : \E j \in DOMAIN c.queue : c.queue[j] = d.queue[i]
        /\ \E j \in DOMAIN c.queue : c.queue[j] = [maxEnd |-> maxEnd, account |-> a]
        /\ \A j \in DOMAIN c.queue : \/ \E i \in DOMAIN d.queue : c.queue[j] = d.queue[i]
                                     \/ c.queue[j].maxEnd = maxEnd
    BY <2>3, <2>5, <2>6, ScheduledIs
  <2>8. Ahead(c)
    <3>1. ASSUME NEW j \in DOMAIN c.queue
          PROVE  b.last <= c.queue[j].maxEnd
      <4>1. CASE \E i \in DOMAIN d.queue : c.queue[j] = d.queue[i]
        BY <2>1, <2>4, <4>1 DEF Ahead
      <4>2. CASE c.queue[j].maxEnd = maxEnd
        BY <4>2
      <4> QED BY <2>7, <4>1, <4>2
    <3>2. b.last # 0
      BY <1>1, <2>1, <2>2, PositionIs DEF Placed, Active
    <3> QED BY <2>5, <2>7, <3>1, <3>2 DEF Ahead
  <2>9. SameButPosition(b, c, a)
    BY <2>5, <2>7 DEF SameButPosition
  <2>10. Holding(c, a) = Holding(b, a) /\ Booked(c, a) = Booked(b, a)
    BY <2>4, <2>5, <2>7 DEF Holding, Booked
  <2>11. c.sideRate = b.sideRate - b.pos[a].rate + c.pos[a].rate
    BY <2>2, <2>4, <2>7
  <2>12. Placed(c, a)
    <3>1. Queued(c, a)
      BY <2>4, <2>7 DEF Queued
    <3> QED BY <2>1, <2>4, <2>5, <2>7, <3>1 DEF Placed
  <2>13. LeavesOthers(b, c, a)
    BY <2>4, <2>7 DEF LeavesOthers
  <2>14. Good(c)
    BY <2>7, <2>8, <2>9, <2>10, <2>11, <2>12, <2>13, GoodPut
  <2>15. ASSUME NEW o \in Accounts
         PROVE  Holding(c, o) = Holding(b, o) /\ c.pos[o].rate = b.pos[o].rate
    <3>1. CASE o = a
      BY <2>4, <2>7, <2>10, <3>1
    <3>2. CASE o # a
      BY <2>5, <2>7, <3>2 DEF Holding
    <3> QED BY <3>1, <3>2
  <2>16. ASSUME NEW o \in Accounts
         PROVE  Loss(c, o, b.last) = Loss(b, o, b.last)
    <3>1. CASE o = a
      <4>1. Least(b.pos[a].maxEnd, b.last) = b.last /\ Least(maxEnd, b.last) = b.last
        BY <1>1, <2>1, <2>2 DEF Placed, Active, Least
      <4>2. Streamed(c.pos[a], b.last) = Streamed(b.pos[a], b.last)
        BY <2>4, <2>7 DEF Streamed
      <4> QED BY <2>4, <2>7, <3>1, <4>1, <4>2 DEF Loss
    <3>2. CASE o # a
      BY <2>5, <2>7, <3>2 DEF Loss
    <3> QED BY <3>1, <3>2
  <2>17. HookKeeps(b, c)
    BY <2>5, <2>7, <2>14, <2>15, <2>16 DEF HookKeeps
  <2> QED BY <2>4, <2>5, <2>7, <2>15, <2>17
<1> QED BY <1>0, <1>1

-----------------------------------------------------------------------------
(* One board through one call.                                             *)

\* A board with something in its queue has not passed the accrual cap.
Within(b, cap) == b.queue = << >> \/ b.last <= cap

\* A call moves nobody's loss basis; once the board has reached the cap, it
\* moves neither its sums nor anybody's shares.
Follows(b, c, cap) ==
    /\ Good(c) /\ Within(c, cap)
    /\ \A a \in Accounts : Loss(c, a, cap) = Loss(b, a, cap)
    /\ cap <= b.last =>
         /\ cap <= c.last /\ c.pool = b.pool /\ c.shares = b.shares
         /\ \A a \in Accounts : Holding(c, a) = Holding(b, a)

LEMMA FollowsItself ==
  ASSUME NEW b, NEW cap, Good(b), Within(b, cap)
  PROVE  Follows(b, b, cap)
BY DEF Follows

LEMMA FollowsOn ==
  ASSUME NEW b, NEW c, NEW d, NEW cap, Follows(b, c, cap), Follows(c, d, cap)
  PROVE  Follows(b, d, cap)
BY DEF Follows

LEMMA FollowsAdvance ==
  ASSUME NEW t \in Nat \ {0}, NEW cap \in Nat, NEW n \in Nat, NEW b, Good(b), Within(b, cap),
         NEW c, c = Advance(b, t, cap, n)
  PROVE  Follows(b, c, cap) /\ 0 < c.last
<1>1. Advanced(b, c, t, cap, n)
  BY AdvanceIs
<1>2. /\ Good(c) /\ 0 < c.last /\ b.last <= c.last
      /\ \A a \in Accounts : KeptOf(b, c, cap, a)
      /\ cap <= b.last => c.pool = b.pool /\ c.shares = b.shares
      /\ \/ b.last = 0 /\ c.last = t /\ c.queue = << >>
         \/ b.last # 0 /\ (c.last = b.last \/ c.last <= cap)
  BY <1>1 DEF Advanced
<1>3. b.last \in Nat /\ c.last \in Nat
  BY <1>2, BoardIs DEF Good
<1>4. b.queue = << >> => c.queue = << >>
  <2> SUFFICES ASSUME b.queue = << >>
               PROVE  c.queue = << >>
    OBVIOUS
  <2>1. PICK m \in 0..Len(b.queue) : c.queue = SubSeq(b.queue, m + 1, Len(b.queue))
    BY <1>1 DEF Advanced
  <2>2. Len(b.queue) = 0
    OBVIOUS
  <2>3. m = 0 /\ m + 1 \in Int /\ 0 \in Int /\ 0 < m + 1
    BY <2>2
  <2>4. SubSeq(b.queue, m + 1, 0) = << >>
    BY <2>3, SubSeqEmpty
  <2> QED BY <2>1, <2>2, <2>4
<1>5. Within(c, cap)
  BY <1>2, <1>4 DEF Within
<1>6. \A a \in Accounts : Loss(c, a, cap) = Loss(b, a, cap)
  BY <1>2 DEF KeptOf
<1>7. cap <= b.last => /\ cap <= c.last
                       /\ \A a \in Accounts : Holding(c, a) = Holding(b, a)
  BY <1>2, <1>3 DEF KeptOf
<1> QED BY <1>2, <1>5, <1>6, <1>7 DEF Follows

LEMMA FollowsHook ==
  ASSUME NEW b, NEW c, NEW cap \in Nat, b.last = cap, HookKeeps(b, c)
  PROVE  Follows(b, c, cap) /\ c.last = cap
BY DEF HookKeeps, Follows, Within

LEMMA FollowsSettled ==
  ASSUME NEW b, Good(b), NEW cap \in Nat, Within(b, cap), NEW a \in Accounts,
         NEW c, c = Settled(b, a)
  PROVE  Follows(b, c, cap) /\ c.last = b.last
<1>1. /\ HookKeeps(b, c) /\ c.queue = b.queue
      /\ \A o \in Accounts : /\ c.pos[o].rate = b.pos[o].rate
                             /\ c.pos[o].maxEnd = b.pos[o].maxEnd
                             /\ c.pos[o].fundStart = b.pos[o].fundStart
                             /\ c.pos[o].lost = b.pos[o].lost
  BY HookedSettled
<1>2. \A o \in Accounts : Loss(c, o, cap) = Loss(b, o, cap)
  BY <1>1 DEF Loss, Streamed
<1> QED BY <1>1, <1>2 DEF Follows, HookKeeps, Within

LEMMA SumOverAccounts ==
  ASSUME NEW f, DOMAIN f = Accounts
  PROVE  SumFunction(f) = SumFunctionOnSet(f, Accounts)
BY DEF SumFunction

\* A second adds a stream's rate to its loss basis while it has not run dry.
LEMMA LossTicks ==
  ASSUME NEW cap \in Nat, NEW b, Good(b), Within(b, cap), NEW a \in Accounts
  PROVE  Loss(b, a, cap + 1) = Loss(b, a, cap)
           + IF b.pos[a].rate > 0 /\ cap < b.pos[a].maxEnd THEN b.pos[a].rate ELSE 0
<1>1. /\ b.pos[a].rate \in Nat /\ b.pos[a].maxEnd \in Nat /\ b.pos[a].fundStart \in Nat
      /\ b.pos[a].lost \in Nat /\ b.last \in Nat
  BY PositionIs, BoardIs DEF Good
<1>2. CASE b.pos[a].rate = 0
  BY <1>1, <1>2 DEF Loss
<1>3. CASE b.pos[a].rate > 0
  <2> DEFINE rate == b.pos[a].rate
             end == b.pos[a].maxEnd
             start == b.pos[a].fundStart
             lost == b.pos[a].lost
  <2>1. start <= b.last /\ b.last <= end /\ Queued(b, a)
    BY <1>3 DEF Good, Placed
  <2>2. DOMAIN << >> = {}
    OBVIOUS
  <2>3. b.queue # << >>
    BY <2>1, <2>2 DEF Queued
  <2>4. b.last <= cap
    BY <2>3 DEF Within
  <2>5. /\ Loss(b, a, cap) = lost + (IF Least(end, cap) > start
                                     THEN rate * (Least(end, cap) - start) ELSE 0)
        /\ Loss(b, a, cap + 1) = lost + (IF Least(end, cap + 1) > start
                                         THEN rate * (Least(end, cap + 1) - start) ELSE 0)
    BY <1>3 DEF Loss, Streamed
  <2>6. rate \in Nat /\ end \in Nat /\ start \in Nat /\ lost \in Nat /\ start <= cap /\ start <= end
    BY <1>1, <2>1, <2>4
  <2> HIDE DEF rate, end, start, lost
  <2>7. CASE cap < end
    <3>1. Least(end, cap) = cap /\ Least(end, cap + 1) = cap + 1
      BY <2>6, <2>7 DEF Least
    <3>2. rate * (cap + 1 - start) = rate * (cap - start) + rate
      BY <2>6
    <3>3. cap = start => rate * (cap - start) = 0
      BY <2>6
    <3>4. Loss(b, a, cap) = lost + rate * (cap - start)
      BY <2>5, <2>6, <3>1, <3>3
    <3>5. Loss(b, a, cap + 1) = lost + rate * (cap + 1 - start)
      BY <2>5, <2>6, <3>1
    <3>6. rate * (cap - start) \in Int /\ lost \in Int /\ rate \in Int
      BY <2>6
    <3> DEFINE u == rate * (cap - start)
               v == rate * (cap + 1 - start)
    <3>7. v = u + rate /\ Loss(b, a, cap) = lost + u /\ Loss(b, a, cap + 1) = lost + v /\ u \in Int
      BY <3>2, <3>4, <3>5, <3>6
    <3> HIDE DEF u, v
    <3>8. Loss(b, a, cap + 1) = Loss(b, a, cap) + rate
      BY <3>6, <3>7
    <3> QED BY <1>3, <2>7, <3>8 DEF rate, end
  <2>8. CASE end <= cap
    <3>1. Least(end, cap) = end /\ Least(end, cap + 1) = end
      BY <2>6, <2>8 DEF Least
    <3>2. Loss(b, a, cap + 1) = Loss(b, a, cap)
      BY <2>5, <3>1
    <3>3. rate * (end - start) \in Int
      BY <2>6
    <3>4. Loss(b, a, cap) \in Int
      BY <2>5, <2>6, <3>1, <3>3
    <3>5. ~(cap < b.pos[a].maxEnd)
      BY <2>6, <2>8 DEF end
    <3> QED BY <3>2, <3>4, <3>5
  <2> QED BY <2>6, <2>7, <2>8
<1> QED BY <1>1, <1>2, <1>3

\* What an account put in is what its board has booked of it and what it will
\* book when it catches up.
LEMMA LossSplits ==
  ASSUME NEW cap \in Nat, NEW b, Good(b), Within(b, cap), NEW a \in Accounts
  PROVE  LET unbooked == IF Active(b, a)
                         THEN b.pos[a].rate * (Least(b.pos[a].maxEnd, cap) - b.last) ELSE 0
         IN  unbooked \in Int /\ Loss(b, a, cap) = Booked(b, a) + unbooked
<1>1. /\ b.pos[a].rate \in Nat /\ b.pos[a].maxEnd \in Nat /\ b.pos[a].fundStart \in Nat
      /\ b.pos[a].lost \in Nat /\ b.last \in Nat
  BY PositionIs, BoardIs DEF Good
<1>2. CASE b.pos[a].rate = 0
  <2>1. 0 * (b.last - b.pos[a].fundStart) = 0
    BY <1>1
  <2> QED BY <1>1, <1>2, <2>1 DEF Loss, Booked, Active
<1>3. CASE b.pos[a].rate > 0
  <2> DEFINE rate == b.pos[a].rate
             end == Least(b.pos[a].maxEnd, cap)
             start == b.pos[a].fundStart
  <2>1. start <= b.last /\ b.last <= b.pos[a].maxEnd /\ Queued(b, a) /\ Active(b, a)
    BY <1>3 DEF Good, Placed, Active
  <2>2. DOMAIN << >> = {}
    OBVIOUS
  <2>3. b.last <= cap
    BY <2>1, <2>2 DEF Queued, Within
  <2>4. end \in Nat /\ b.last <= end
    BY <1>1, <2>1, <2>3 DEF Least
  <2>5. Loss(b, a, cap) = b.pos[a].lost + IF end > start THEN rate * (end - start) ELSE 0
    BY <1>3 DEF Loss, Streamed
  <2>6. rate \in Nat /\ start \in Nat /\ start <= end
    BY <1>1, <2>1, <2>4
  <2> HIDE DEF rate, end, start
  <2>7. rate * (end - start) = rate * (b.last - start) + rate * (end - b.last)
    BY <1>1, <2>4, <2>6
  <2>8. end = start => rate * (end - start) = 0
    BY <2>4, <2>6
  <2>9. Loss(b, a, cap) = b.pos[a].lost + rate * (end - start)
    BY <2>4, <2>5, <2>6, <2>8
  <2>10. rate * (end - b.last) \in Int /\ rate * (b.last - start) \in Int
    BY <1>1, <2>4, <2>6
  <2> DEFINE u == rate * (b.last - start)
             v == rate * (end - b.last)
  <2>11. /\ Loss(b, a, cap) = b.pos[a].lost + (u + v) /\ u \in Int /\ v \in Int
         /\ Booked(b, a) = b.pos[a].lost + u
    BY <2>7, <2>9, <2>10 DEF Booked, rate, start
  <2> HIDE DEF u, v
  <2>12. v \in Int /\ Loss(b, a, cap) = Booked(b, a) + v
    BY <1>1, <2>11
  <2> QED BY <2>1, <2>12 DEF v, rate, end
<1> QED BY <1>1, <1>2, <1>3

-----------------------------------------------------------------------------
(* What a full catch-up makes of a board, however it is reached.           *)

\* Turns compose.
LEMMA TurnsCompose ==
  ASSUME NEW cap, NEW b, NEW n \in Nat, NEW d, Turns(b, cap, n) = {d}, NEW k \in Nat
  PROVE  Turns(d, cap, k) = Turns(b, cap, n + k)
<1> DEFINE B == {i \in Nat : Turns(d, cap, i) = Turns(b, cap, n + i)}
<1>1. 0 \in B
  <2>1. n + 0 = n
    OBVIOUS
  <2> QED BY <2>1, TurnsUnfold
<1>2. ASSUME NEW i \in Nat, i \in B
      PROVE  i + 1 \in B
  <2>1. n + i \in Nat /\ n + (i + 1) = (n + i) + 1 /\ i + 1 \in Nat
    OBVIOUS
  <2>2. Turns(d, cap, i) = Turns(b, cap, n + i)
    BY <1>2
  <2>3. Turns(b, cap, (n + i) + 1) = Stepped(Turns(b, cap, n + i), cap)
    BY <2>1, TurnsUnfold
  <2>4. Turns(d, cap, i + 1) = Stepped(Turns(d, cap, i), cap)
    BY TurnsUnfold
  <2>5. Turns(d, cap, i + 1) = Turns(b, cap, n + (i + 1))
    BY ONLY <2>1, <2>2, <2>3, <2>4
  <2> QED BY <2>1, <2>5
<1> HIDE DEF B
<1>3. Nat \subseteq B
  BY <1>1, <1>2, NatBySet
<1> QED BY <1>3 DEF B

\* With nothing due, turns change nothing.
LEMMA TurnsRest ==
  ASSUME NEW cap, NEW d, ~DueAt(d, cap), NEW k \in Nat
  PROVE  Turns(d, cap, k) = {d}
<1> DEFINE B == {i \in Nat : Turns(d, cap, i) = {d}}
<1>1. 0 \in B
  BY TurnsUnfold
<1>2. ASSUME NEW i \in Nat, i \in B
      PROVE  i + 1 \in B
  <2>1. Turns(d, cap, i) = {d}
    BY <1>2
  <2>2. Turns(d, cap, i + 1) = Stepped(Turns(d, cap, i), cap)
    BY TurnsUnfold
  <2>3. Stepped({d}, cap) = {Turn(d, cap)}
    BY DEF Stepped
  <2>4. Turn(d, cap) = d
    BY DEF Turn
  <2>5. Turns(d, cap, i + 1) = {d}
    BY ONLY <2>1, <2>2, <2>3, <2>4
  <2> QED BY <2>5
<1> HIDE DEF B
<1>3. Nat \subseteq B
  BY <1>1, <1>2, NatBySet
<1> QED BY <1>3 DEF B

\* Enough turns leave nothing due.
LEMMA TurnsExhaust ==
  ASSUME NEW cap \in Nat, NEW b, Good(b), NEW d, Turns(b, cap, Len(b.queue)) = {d}
  PROVE  ~DueAt(d, cap)
<1>1. PICK n \in Nat : n = Len(b.queue)
  BY QueueIs DEF Good
<1>2. PICK c : Turns(b, cap, n) = {c} /\ Reached(b, c, cap, n)
  BY TurnsReach
<1>3. c = d
  BY <1>1, <1>2
<1>4. PICK m \in 0..n : /\ d.queue = SubSeq(b.queue, m + 1, n)
                        /\ m = n \/ ~DueAt(d, cap)
  BY <1>1, <1>2, <1>3 DEF Reached
<1>5. SubSeq(b.queue, n + 1, n) = << >>
  <2>1. n + 1 \in Int /\ n \in Int /\ n < n + 1
    OBVIOUS
  <2> QED BY <2>1, SubSeqEmpty
<1> QED BY <1>4, <1>5 DEF DueAt

\* A bounded catch-up on the way changes nothing of where a full one ends.
LEMMA AdvanceOnTheWay ==
  ASSUME NEW now \in Nat \ {0}, NEW cap \in Nat, cap <= now, NEW n \in Nat, NEW b, Good(b),
         NEW c, c = Advance(b, now, cap, n), NEW a \in Accounts
  PROVE  Holding(AdvanceAll(c, now, cap), a) = Holding(AdvanceAll(b, now, cap), a)
<1>1. Advanced(b, c, now, cap, n)
  BY AdvanceIs
<1>2. Good(c)
  BY <1>1 DEF Advanced
<1>3. PICK l \in Nat : l = Len(b.queue)
  BY QueueIs DEF Good
<1>4. PICK k \in Nat : k = Len(c.queue)
  BY <1>2, QueueIs DEF Good
<1>5. AdvanceAll(b, now, cap) = Advance(b, now, cap, l)
      /\ AdvanceAll(c, now, cap) = Advance(c, now, cap, k)
  BY <1>3, <1>4 DEF AdvanceAll
<1>6. c = AdvanceAll(b, now, cap) /\ cap <= c.last
      => Holding(AdvanceAll(c, now, cap), a) = Holding(AdvanceAll(b, now, cap), a)
  <2> SUFFICES ASSUME c = AdvanceAll(b, now, cap), cap <= c.last
               PROVE  Holding(AdvanceAll(c, now, cap), a) = Holding(c, a)
    OBVIOUS
  <2>1. Advanced(c, AdvanceAll(c, now, cap), now, cap, k)
    BY <1>2, <1>5, AdvanceIs
  <2> QED BY <2>1 DEF Advanced, KeptOf
<1>7. CASE b.last = 0
  <2>1. c = [b EXCEPT !.last = now] /\ AdvanceAll(b, now, cap) = [b EXCEPT !.last = now]
    BY <1>7 DEF Advance, AdvanceAll
  <2>2. c.last = now
    BY <1>7, <2>1, TouchedIs
  <2> QED BY <1>6, <2>1, <2>2
<1>8. CASE b.last # 0
  <2>1. PICK d : Turns(b, cap, n) = {d} /\ Reached(b, d, cap, n)
    BY TurnsReach
  <2>2. c = Finish(d, cap)
    BY <1>8, <2>1, AdvanceFinishes
  <2>3. Good(d)
    BY <2>1 DEF Reached
  <2>4. PICK e : Turns(b, cap, l) = {e} /\ Reached(b, e, cap, l)
    BY TurnsReach
  <2>5. AdvanceAll(b, now, cap) = Finish(e, cap)
    BY <1>5, <1>8, <2>4, AdvanceFinishes
  <2>6. CASE DueAt(d, cap)
    <3>1. c = d
      BY <2>2, <2>3, <2>6, FinishIs
    <3>2. PICK m \in 0..l : d.queue = SubSeq(b.queue, m + 1, l) /\ m = n
      BY <1>3, <2>1, <2>6 DEF Reached
    <3>3. n \in 0..l /\ d.queue = SubSeq(b.queue, n + 1, l)
      BY <3>2
    <3>4. k = l - n
      <4>1. \A i \in (n + 1)..l : b.queue[i] \in Boundaries
        <5>1. \A i \in 1..l : b.queue[i] \in Boundaries
          BY <1>3, QueueIs DEF Good
        <5> QED BY <3>3, <5>1
      <4>2. Len(SubSeq(b.queue, n + 1, l)) = IF n + 1 <= l THEN l - (n + 1) + 1 ELSE 0
        <5>1. n + 1 \in Int /\ l \in Int
          OBVIOUS
        <5> QED BY <4>1, <5>1, SubSeqProperties
      <4> QED BY <1>4, <3>1, <3>3, <4>2
    <3>5. Turns(c, cap, k) = {e}
      <4>1. n + k = l
        BY <3>3, <3>4
      <4>2. Turns(d, cap, k) = Turns(b, cap, n + k)
        <5>1. Turns(b, cap, n) = {d} /\ k \in Nat /\ n \in Nat
          BY <2>1
        <5> QED BY ONLY <5>1, TurnsCompose
      <4> QED BY <2>4, <3>1, <4>1, <4>2
    <3>6. c.last # 0
      BY <1>1 DEF Advanced
    <3>7. AdvanceAll(c, now, cap) = Finish(e, cap)
      BY <1>5, <3>5, <3>6, AdvanceFinishes
    <3> QED BY <2>5, <3>7
  <2>7. CASE ~DueAt(d, cap)
    <3>1. e = d
      <4>1. CASE n <= l
        <5>1. l - n \in Nat /\ n + (l - n) = l
          BY <4>1
        <5>2. Turns(d, cap, l - n) = {d}
          BY <2>7, <5>1, TurnsRest
        <5>3. Turns(d, cap, l - n) = Turns(b, cap, n + (l - n))
          BY <2>1, <5>1, TurnsCompose
        <5> QED BY <2>4, <5>1, <5>2, <5>3
      <4>2. CASE l < n
        <5>1. n - l \in Nat /\ l + (n - l) = n
          BY <4>2
        <5>2. ~DueAt(e, cap)
          BY <1>3, <2>4, TurnsExhaust
        <5>3. Turns(e, cap, n - l) = {e}
          BY <5>1, <5>2, TurnsRest
        <5>4. Turns(e, cap, n - l) = Turns(b, cap, l + (n - l))
          BY <2>4, <5>1, TurnsCompose
        <5> QED BY <2>1, <5>1, <5>3, <5>4
      <4> QED BY <4>1, <4>2
    <3>2. c = AdvanceAll(b, now, cap)
      BY <2>2, <2>5, <3>1
    <3>3. cap <= c.last
      BY <2>2, <2>3, <2>7, FinishIs
    <3> QED BY <1>6, <3>2, <3>3
  <2> QED BY <2>6, <2>7
<1> QED BY <1>7, <1>8

-----------------------------------------------------------------------------
(* A settle ahead of time: boards that differ in what is settled only.     *)

\* The same side, and everybody holds the same, settled or not.
Alike(b, c) ==
    /\ c.pool = b.pool /\ c.sideRate = b.sideRate /\ c.g = b.g /\ c.last = b.last
    /\ c.shares = b.shares /\ c.queue = b.queue
    /\ \A o \in Accounts : /\ c.pos[o].rate = b.pos[o].rate
                           /\ c.pos[o].maxEnd = b.pos[o].maxEnd
                           /\ Holding(c, o) = Holding(b, o)

LEMMA HoldingMoved ==
  ASSUME NEW b \in BoardRecords, NEW t \in Nat, b.last <= t,
         NEW c, c = Moved(b, t), NEW a \in Accounts
  PROVE  Holding(c, a) = Holding(b, a) + b.pos[a].rate * Gain(b, t)
<1> DEFINE dG == Gain(b, t)
<1>1. dG \in Nat /\ c.pos = b.pos /\ c.g = b.g + dG
  BY MovedIs
<1> HIDE DEF dG
<1>2. /\ b.pos[a].rate \in Nat /\ b.pos[a].gPaid \in Nat /\ b.pos[a].accrued \in Nat
      /\ b.g \in Nat
  BY PositionIs, BoardIs
<1>3. \A r, x, y, z \in Int : r * (x + y - z) = r * (x - z) + r * y
  OBVIOUS
<1>4. b.pos[a].rate * (b.g + dG - b.pos[a].gPaid)
        = b.pos[a].rate * (b.g - b.pos[a].gPaid) + b.pos[a].rate * dG
  BY <1>1, <1>2, <1>3
<1>5. \A x, y \in Int : x * y \in Int
  OBVIOUS
<1>6. b.pos[a].rate * (b.g - b.pos[a].gPaid) \in Int /\ b.pos[a].rate * dG \in Int
  BY <1>1, <1>2, <1>5
<1>7. Holding(c, a) = b.pos[a].accrued + b.pos[a].rate * (b.g + dG - b.pos[a].gPaid)
  <2>1. Holding(c, a) = c.pos[a].accrued + c.pos[a].rate * (c.g - c.pos[a].gPaid)
    BY DEF Holding
  <2>2. c.pos[a] = b.pos[a]
    BY <1>1
  <2>3. /\ c.pos[a].rate = b.pos[a].rate /\ c.pos[a].gPaid = b.pos[a].gPaid
        /\ c.pos[a].accrued = b.pos[a].accrued
    BY <2>2
  <2>4. c.g = b.g + dG
    BY <1>1
  <2> QED BY ONLY <1>1, <1>2, <2>1, <2>3, <2>4
<1>8. Holding(b, a) = b.pos[a].accrued + b.pos[a].rate * (b.g - b.pos[a].gPaid)
  BY DEF Holding
<1>9. Holding(c, a) = Holding(b, a) + b.pos[a].rate * dG
  BY ONLY <1>2, <1>4, <1>6, <1>7, <1>8
<1> QED BY <1>9 DEF dG

LEMMA AlikeMoved ==
  ASSUME NEW b \in BoardRecords, NEW c \in BoardRecords, Alike(b, c), NEW t \in Nat, b.last <= t
  PROVE  Alike(Moved(b, t), Moved(c, t))
<1> DEFINE d == Moved(b, t)
           e == Moved(c, t)
<1>1. c.last <= t
  BY DEF Alike
<1>2. /\ d.last = t /\ d.pos = b.pos /\ d.queue = b.queue /\ d.sideRate = b.sideRate
      /\ d.pool = b.pool + b.sideRate * (t - b.last)
      /\ d.g = b.g + Gain(b, t) /\ d.shares = b.shares + b.sideRate * Gain(b, t)
  BY MovedIs
<1>3. /\ e.last = t /\ e.pos = c.pos /\ e.queue = c.queue /\ e.sideRate = c.sideRate
      /\ e.pool = c.pool + c.sideRate * (t - c.last)
      /\ e.g = c.g + Gain(c, t) /\ e.shares = c.shares + c.sideRate * Gain(c, t)
  BY <1>1, MovedIs
<1>4. Gain(c, t) = Gain(b, t)
  BY DEF Alike, Gain
<1>5. ASSUME NEW o \in Accounts
      PROVE  /\ Holding(d, o) = Holding(b, o) + b.pos[o].rate * Gain(b, t)
             /\ Holding(e, o) = Holding(c, o) + c.pos[o].rate * Gain(c, t)
  BY <1>1, HoldingMoved
<1> HIDE DEF d, e
<1>6. ASSUME NEW o \in Accounts
      PROVE  /\ e.pos[o].rate = d.pos[o].rate
             /\ e.pos[o].maxEnd = d.pos[o].maxEnd
             /\ Holding(e, o) = Holding(d, o)
  <2>1. /\ c.pos[o].rate = b.pos[o].rate /\ c.pos[o].maxEnd = b.pos[o].maxEnd
        /\ Holding(c, o) = Holding(b, o)
    BY DEF Alike
  <2> QED BY ONLY <1>2, <1>3, <1>4, <1>5, <2>1
<1>7. /\ e.pool = d.pool /\ e.sideRate = d.sideRate /\ e.g = d.g /\ e.last = d.last
      /\ e.shares = d.shares /\ e.queue = d.queue
  <2>1. /\ c.pool = b.pool /\ c.sideRate = b.sideRate /\ c.g = b.g /\ c.last = b.last
        /\ c.shares = b.shares /\ c.queue = b.queue
    BY DEF Alike
  <2> QED BY ONLY <1>2, <1>3, <1>4, <2>1
<1>8. Alike(d, e)
  BY <1>6, <1>7 DEF Alike
<1> QED BY <1>8 DEF d, e

\* On a board that is in order a boundary is valid for the account that still
\* flows up to it.
LEMMA ValidIs ==
  ASSUME NEW b, Good(b), NEW e \in Boundaries
  PROVE  Valid(b, e) <=> b.pos[e.account].rate > 0 /\ b.pos[e.account].maxEnd = e.maxEnd
<1>1. e.account \in Accounts
  BY DEF Boundaries
<1>2. b.pos[e.account].rate > 0 => ~b.pos[e.account].depleted
  BY <1>1 DEF Good, Placed
<1> QED BY <1>2 DEF Valid, Active

LEMMA AlikeTurn ==
  ASSUME NEW cap \in Nat, NEW b, Good(b), NEW c, Good(c), Alike(b, c)
  PROVE  Alike(Turn(b, cap), Turn(c, cap))
<1>0. c.queue = b.queue /\ b \in BoardRecords /\ c \in BoardRecords
  BY DEF Alike, Good
<1>1. CASE ~DueAt(b, cap)
  <2>1. ~DueAt(c, cap)
    BY <1>0, <1>1 DEF DueAt
  <2>2. Turn(b, cap) = b /\ Turn(c, cap) = c
    BY <1>1, <2>1 DEF Turn
  <2> QED BY <2>2
<1>2. CASE DueAt(b, cap)
  <2>0. PICK e : e = Head(b.queue)
    OBVIOUS
  <2>1. /\ DueAt(c, cap) /\ b.queue # << >> /\ e.maxEnd <= cap /\ e = Head(c.queue)
        /\ c.queue # << >>
    BY <1>0, <1>2, <2>0 DEF DueAt
  <2>2. e \in Boundaries /\ 1 \in DOMAIN b.queue /\ e = b.queue[1]
    <3>1. b.queue \in Seq(Boundaries)
      BY <1>0, BoardIs
    <3> QED BY <2>0, <2>1, <3>1, TailIs
  <2>3. e.account \in Accounts /\ e.maxEnd \in Nat
    BY <2>2 DEF Boundaries
  <2>4. Valid(c, e) <=> Valid(b, e)
    BY <2>2, <2>3, ValidIs DEF Alike
  <2>5. CASE Valid(b, e)
    <3>1. PICK f : f = Applied(b, e)
      OBVIOUS
    <3>2. PICK h : h = Applied(c, e)
      OBVIOUS
    <3>3. Turn(b, cap) = f /\ Turn(c, cap) = h
      BY <1>2, <2>0, <2>1, <2>4, <2>5, <3>1, <3>2 DEF Turn, Applied
    <3>4. f.queue = Tail(b.queue) /\ DepletedTo(Moved(b, e.maxEnd), f, e.account)
      BY <2>0, <2>1, <2>5, <3>1, TurnDepletes
    <3>5. h.queue = Tail(c.queue) /\ DepletedTo(Moved(c, e.maxEnd), h, e.account)
      BY <2>1, <2>4, <2>5, <3>2, TurnDepletes
    <3>6. b.last <= e.maxEnd
      BY <2>2 DEF Good, Ahead
    <3>7. Alike(Moved(b, e.maxEnd), Moved(c, e.maxEnd))
      BY <1>0, <2>3, <3>6, AlikeMoved
    <3>8. Alike(f, h)
      BY ONLY <1>0, <2>3, <3>4, <3>5, <3>7 DEF Alike, DepletedTo
    <3> QED BY <3>3, <3>8
  <2>6. CASE ~Valid(b, e)
    <3>1. PICK q : q = Tail(b.queue)
      OBVIOUS
    <3>2. PICK f : f = [b EXCEPT !.queue = q]
      OBVIOUS
    <3>3. PICK h : h = [c EXCEPT !.queue = q]
      OBVIOUS
    <3>4. Turn(b, cap) = f
      BY <1>2, <2>0, <2>6, <3>1, <3>2 DEF Turn
    <3>5. Turn(c, cap) = h
      BY <1>0, <2>1, <2>4, <2>6, <3>1, <3>3 DEF Turn
    <3>6. /\ f.pool = b.pool /\ f.sideRate = b.sideRate /\ f.g = b.g /\ f.last = b.last
          /\ f.shares = b.shares /\ f.pos = b.pos /\ f.queue = q
      BY <1>0, <3>2 DEF BoardRecords
    <3>7. /\ h.pool = c.pool /\ h.sideRate = c.sideRate /\ h.g = c.g /\ h.last = c.last
          /\ h.shares = c.shares /\ h.pos = c.pos /\ h.queue = q
      BY <1>0, <3>3 DEF BoardRecords
    <3>8. \A o \in Accounts : Holding(f, o) = Holding(b, o) /\ Holding(h, o) = Holding(c, o)
      BY <3>6, <3>7 DEF Holding
    <3>9. Alike(f, h)
      BY ONLY <3>6, <3>7, <3>8, Alike(b, c) DEF Alike
    <3> QED BY <3>4, <3>5, <3>9
  <2> QED BY <2>5, <2>6
<1> QED BY <1>1, <1>2

LEMMA AlikeFinish ==
  ASSUME NEW cap \in Nat, NEW b, Good(b), NEW c, Good(c), Alike(b, c)
  PROVE  Alike(Finish(b, cap), Finish(c, cap))
<1>1. /\ c.queue = b.queue /\ c.last = b.last /\ b \in BoardRecords /\ c \in BoardRecords
      /\ b.last \in Nat
  BY BoardIs DEF Alike, Good
<1>2. DueAt(c, cap) <=> DueAt(b, cap)
  BY <1>1 DEF DueAt
<1>3. CASE DueAt(b, cap) \/ b.last >= cap
  <2>1. Finish(b, cap) = b /\ Finish(c, cap) = c
    BY <1>1, <1>2, <1>3 DEF Finish
  <2> QED BY <2>1
<1>4. CASE ~(DueAt(b, cap) \/ b.last >= cap)
  <2>1. Finish(b, cap) = Moved(b, cap) /\ Finish(c, cap) = Moved(c, cap)
    BY <1>1, <1>2, <1>4 DEF Finish
  <2>2. Alike(Moved(b, cap), Moved(c, cap))
    BY <1>1, <1>4, AlikeMoved
  <2> QED BY <2>1, <2>2
<1> QED BY <1>3, <1>4

\* n turns keep boards alike.
BothLead(b, c, cap, n) ==
    \E d, e : /\ Turns(b, cap, n) = {d} /\ Turns(c, cap, n) = {e}
              /\ Good(d) /\ Good(e) /\ Alike(d, e)

LEMMA AlikeTurns ==
  ASSUME NEW cap \in Nat, NEW b, Good(b), NEW c, Good(c), Alike(b, c), NEW n \in Nat
  PROVE  BothLead(b, c, cap, n)
<1> DEFINE B == {i \in Nat : BothLead(b, c, cap, i)}
<1>1. 0 \in B
  <2>1. Turns(b, cap, 0) = {b} /\ Turns(c, cap, 0) = {c}
    BY TurnsUnfold
  <2> QED BY <2>1 DEF BothLead
<1>2. ASSUME NEW i \in Nat, i \in B
      PROVE  i + 1 \in B
  <2>1. PICK d, e : /\ Turns(b, cap, i) = {d} /\ Turns(c, cap, i) = {e}
                    /\ Good(d) /\ Good(e) /\ Alike(d, e)
    BY <1>2 DEF BothLead
  <2>2. /\ Turns(b, cap, i + 1) = Stepped(Turns(b, cap, i), cap)
        /\ Turns(c, cap, i + 1) = Stepped(Turns(c, cap, i), cap)
    BY TurnsUnfold
  <2>3. Stepped({d}, cap) = {Turn(d, cap)} /\ Stepped({e}, cap) = {Turn(e, cap)}
    BY DEF Stepped
  <2>4. Good(Turn(d, cap)) /\ Good(Turn(e, cap))
    BY <2>1, TurnIs
  <2>5. Alike(Turn(d, cap), Turn(e, cap))
    BY <2>1, AlikeTurn
  <2>6. Turns(b, cap, i + 1) = {Turn(d, cap)} /\ Turns(c, cap, i + 1) = {Turn(e, cap)}
    BY ONLY <2>1, <2>2, <2>3
  <2>7. BothLead(b, c, cap, i + 1)
    BY ONLY <2>4, <2>5, <2>6 DEF BothLead
  <2> QED BY <2>7
<1> HIDE DEF B
<1>3. Nat \subseteq B
  BY <1>1, <1>2, NatBySet
<1> QED BY <1>3 DEF B

\* So a full catch-up credits the same on either.
LEMMA AlikeWorth ==
  ASSUME NEW now \in Nat \ {0}, NEW cap \in Nat, NEW b, Good(b), NEW c, Good(c), Alike(b, c),
         NEW a \in Accounts
  PROVE  Holding(AdvanceAll(c, now, cap), a) = Holding(AdvanceAll(b, now, cap), a)
<1>1. c.last = b.last /\ c.queue = b.queue /\ b \in BoardRecords /\ c \in BoardRecords
  BY DEF Alike, Good
<1>2. PICK n \in Nat : n = Len(b.queue)
  BY <1>1, QueueIs
<1>3. AdvanceAll(b, now, cap) = Advance(b, now, cap, n)
      /\ AdvanceAll(c, now, cap) = Advance(c, now, cap, n)
  BY <1>1, <1>2 DEF AdvanceAll
<1>4. CASE b.last = 0
  <2>1. AdvanceAll(b, now, cap) = [b EXCEPT !.last = now]
        /\ AdvanceAll(c, now, cap) = [c EXCEPT !.last = now]
    BY <1>1, <1>3, <1>4 DEF Advance
  <2>2. Holding([b EXCEPT !.last = now], a) = Holding(b, a)
    BY <1>1 DEF BoardRecords, Holding
  <2>3. Holding([c EXCEPT !.last = now], a) = Holding(c, a)
    BY <1>1 DEF BoardRecords, Holding
  <2> QED BY <2>1, <2>2, <2>3 DEF Alike
<1>5. CASE b.last # 0
  <2>1. PICK d, e : /\ Turns(b, cap, n) = {d} /\ Turns(c, cap, n) = {e}
                    /\ Good(d) /\ Good(e) /\ Alike(d, e)
    BY AlikeTurns DEF BothLead
  <2>2. Advance(b, now, cap, n) = Finish(d, cap)
    BY <1>5, <2>1, AdvanceFinishes
  <2>3. Advance(c, now, cap, n) = Finish(e, cap)
    BY <1>1, <1>5, <2>1, AdvanceFinishes
  <2>4. Alike(Finish(d, cap), Finish(e, cap))
    BY <2>1, AlikeFinish
  <2>5. Holding(Finish(e, cap), a) = Holding(Finish(d, cap), a)
    BY <2>4 DEF Alike
  <2> QED BY <1>3, <2>2, <2>3, <2>5
<1> QED BY <1>4, <1>5

\* Settling an account makes nobody's holding another.
LEMMA AlikeSettled ==
  ASSUME NEW b, Good(b), NEW a \in Accounts
  PROVE  Good(Settled(b, a)) /\ Alike(b, Settled(b, a))
<1>1. PICK c : c = Settled(b, a)
  OBVIOUS
<1>2. HookKeeps(b, c) /\ c.queue = b.queue
      /\ \A o \in Accounts : c.pos[o].rate = b.pos[o].rate /\ c.pos[o].maxEnd = b.pos[o].maxEnd
  BY <1>1, HookedSettled
<1>3. b \in BoardRecords /\ b.pos[a].gPaid <= b.g
  BY DEF Good, Placed
<1>4. c.g = b.g /\ c.sideRate = b.sideRate
  BY <1>1, <1>3, SettledIs DEF SameButPosition
<1>5. Good(c) /\ Alike(b, c)
  BY <1>2, <1>4 DEF HookKeeps, Alike
<1> QED BY <1>1, <1>5

-----------------------------------------------------------------------------
(* What one account holds along the way.                                   *)

\* A turn with something due, with what it does to the side's figures.
LEMMA TurnCases ==
  ASSUME NEW cap \in Nat, NEW b, Good(b), DueAt(b, cap), NEW e, e = Head(b.queue),
         NEW c, c = Turn(b, cap)
  PROVE  /\ Good(c) /\ c.queue = Tail(b.queue) /\ e \in Boundaries /\ e.account \in Accounts
         /\ e.maxEnd \in Nat /\ b.last <= e.maxEnd /\ e.maxEnd <= cap
         /\ Valid(b, e) => c.last = e.maxEnd /\ DepletedTo(Moved(b, e.maxEnd), c, e.account)
         /\ ~Valid(b, e) => /\ c.pos = b.pos /\ c.pool = b.pool /\ c.sideRate = b.sideRate
                            /\ c.g = b.g /\ c.last = b.last
<1>1. b.queue # << >> /\ e.maxEnd <= cap /\ b \in BoardRecords
  BY DEF DueAt, Good
<1>2. e \in Boundaries /\ 1 \in DOMAIN b.queue /\ e = b.queue[1]
  <2>1. b.queue \in Seq(Boundaries)
    BY <1>1, BoardIs
  <2> QED BY <1>1, <2>1, TailIs
<1>3. e.account \in Accounts /\ e.maxEnd \in Nat
  BY <1>2 DEF Boundaries
<1>4. b.last <= e.maxEnd
  BY <1>2 DEF Good, Ahead
<1>5. CASE Valid(b, e)
  <2>1. c = Applied(b, e)
    BY <1>5 DEF Turn, Applied
  <2>2. /\ Good(c) /\ c.queue = Tail(b.queue) /\ c.last = e.maxEnd
        /\ DepletedTo(Moved(b, e.maxEnd), c, e.account)
    BY <1>1, <1>5, <2>1, TurnDepletes
  <2> QED BY <1>1, <1>2, <1>3, <1>4, <1>5, <2>2
<1>6. CASE ~Valid(b, e)
  <2>1. PICK q : q = Tail(b.queue)
    OBVIOUS
  <2>2. c = [b EXCEPT !.queue = q]
    BY <1>6, <2>1 DEF Turn
  <2>3. Good(c)
    BY <1>1, <1>6, <2>1, <2>2, TurnDrops
  <2>4. /\ c.pos = b.pos /\ c.pool = b.pool /\ c.sideRate = b.sideRate
        /\ c.g = b.g /\ c.last = b.last /\ c.queue = q
    BY <1>1, <2>2 DEF BoardRecords
  <2> QED BY <1>1, <1>2, <1>3, <1>4, <1>6, <2>1, <2>3, <2>4
<1> QED BY <1>5, <1>6

\* From b to d an account has earned by the index as if nobody settled it, and
\* if it flows no more then not before `at`.
Earning(b, d, at, a) ==
    /\ Good(d)
    /\ d.pos[a].maxEnd = b.pos[a].maxEnd
    /\ Holding(d, a) = b.pos[a].accrued + b.pos[a].rate * (d.g - b.pos[a].gPaid)
    /\ d.pos[a].rate = b.pos[a].rate \/ (d.pos[a].rate = 0 /\ at <= d.last)

LEMMA EarningItself ==
  ASSUME NEW b, Good(b), NEW at, NEW a \in Accounts
  PROVE  Earning(b, b, at, a)
BY DEF Earning, Holding

\* Time moves on for it, up to `at`.
LEMMA EarningMoved ==
  ASSUME NEW at \in Nat, NEW b \in BoardRecords, NEW a \in Accounts,
         NEW d, Earning(b, d, at, a), NEW t \in Nat, d.last <= t, t <= at,
         NEW m, m = Moved(d, t)
  PROVE  /\ Holding(m, a) = b.pos[a].accrued + b.pos[a].rate * (m.g - b.pos[a].gPaid)
         /\ m.pos = d.pos /\ m.last = t
<1>1. d \in BoardRecords
  BY DEF Earning, Good
<1>2. PICK dG \in Nat : dG = Gain(d, t)
  BY <1>1, MovedIs
<1>3. m.g = d.g + dG /\ m.pos = d.pos /\ m.last = t
  BY <1>1, <1>2, MovedIs
<1>4. Holding(m, a) = Holding(d, a) + d.pos[a].rate * dG
  BY <1>1, <1>2, HoldingMoved
<1>5. /\ b.pos[a].rate \in Nat /\ b.pos[a].gPaid \in Nat /\ b.pos[a].accrued \in Nat
      /\ d.g \in Nat /\ d.last \in Nat
  BY <1>1, PositionIs, BoardIs
<1>6. d.pos[a].rate * dG = b.pos[a].rate * dG
  <2>1. CASE d.pos[a].rate = b.pos[a].rate
    BY <2>1
  <2>2. CASE d.pos[a].rate = 0 /\ at <= d.last
    <3>1. t <= d.last
      BY <1>5, <2>2
    <3>2. dG = 0
      BY <1>2, <3>1 DEF Gain
    <3> QED BY <1>5, <2>2, <3>2
  <2> QED BY <2>1, <2>2 DEF Earning
<1>7. \A r, x, y, z \in Int : r * (x + y - z) = r * (x - z) + r * y
  OBVIOUS
<1>8. b.pos[a].rate * (d.g + dG - b.pos[a].gPaid)
        = b.pos[a].rate * (d.g - b.pos[a].gPaid) + b.pos[a].rate * dG
  BY <1>5, <1>7
<1>9. \A x, y \in Int : x * y \in Int
  OBVIOUS
<1>10. b.pos[a].rate * (d.g - b.pos[a].gPaid) \in Int /\ b.pos[a].rate * dG \in Int
  BY <1>5, <1>9
<1>11. Holding(d, a) = b.pos[a].accrued + b.pos[a].rate * (d.g - b.pos[a].gPaid)
  BY DEF Earning
<1>12. Holding(m, a) = b.pos[a].accrued + b.pos[a].rate * (m.g - b.pos[a].gPaid)
  BY ONLY <1>3, <1>4, <1>5, <1>6, <1>8, <1>10, <1>11
<1> QED BY <1>3, <1>12

\* The account's own end is not before `at`, or it does not flow.
LastsTo(b, at, a) == at <= b.pos[a].maxEnd \/ b.pos[a].rate = 0

LEMMA EarningTurn ==
  ASSUME NEW at \in Nat, NEW b, Good(b), NEW a \in Accounts, LastsTo(b, at, a),
         NEW d, Earning(b, d, at, a)
  PROVE  Earning(b, Turn(d, at), at, a)
<1>0. b \in BoardRecords /\ Good(d) /\ d \in BoardRecords
  BY DEF Good, Earning
<1>1. CASE ~DueAt(d, at)
  <2>1. Turn(d, at) = d
    BY <1>1 DEF Turn
  <2> QED BY <2>1
<1>2. CASE DueAt(d, at)
  <2>1. PICK e : e = Head(d.queue)
    OBVIOUS
  <2>2. PICK c : c = Turn(d, at)
    OBVIOUS
  <2>3. /\ Good(c) /\ c.queue = Tail(d.queue) /\ e \in Boundaries /\ e.account \in Accounts
        /\ e.maxEnd \in Nat /\ d.last <= e.maxEnd /\ e.maxEnd <= at
        /\ Valid(d, e) => c.last = e.maxEnd /\ DepletedTo(Moved(d, e.maxEnd), c, e.account)
        /\ ~Valid(d, e) => /\ c.pos = d.pos /\ c.pool = d.pool /\ c.sideRate = d.sideRate
                           /\ c.g = d.g /\ c.last = d.last
    BY <1>0, <1>2, <2>1, <2>2, TurnCases
  <2>4. CASE ~Valid(d, e)
    <3>1. c.pos = d.pos /\ c.g = d.g /\ c.last = d.last /\ Good(c)
      BY <2>3, <2>4
    <3>2. Earning(b, c, at, a)
      BY <3>1 DEF Earning, Holding
    <3> QED BY <2>2, <3>2
  <2>5. CASE Valid(d, e)
    <3>1. PICK m : m = Moved(d, e.maxEnd)
      OBVIOUS
    <3>2. c.last = e.maxEnd /\ DepletedTo(m, c, e.account)
      BY <2>3, <2>5, <3>1
    <3>3. /\ Holding(m, a) = b.pos[a].accrued + b.pos[a].rate * (m.g - b.pos[a].gPaid)
          /\ m.pos = d.pos
      BY <1>0, <2>3, <3>1, EarningMoved
    <3>4. /\ c.g = m.g /\ Holding(c, a) = Holding(m, a)
          /\ c.pos[a].maxEnd = d.pos[a].maxEnd
          /\ c.pos[a].rate = IF a = e.account THEN 0 ELSE d.pos[a].rate
      BY <3>2, <3>3 DEF DepletedTo
    <3>5. d.pos[a].maxEnd = b.pos[a].maxEnd
          /\ (d.pos[a].rate = b.pos[a].rate \/ (d.pos[a].rate = 0 /\ at <= d.last))
      BY DEF Earning
    <3>6. d.last \in Nat /\ b.pos[a].rate \in Nat /\ b.pos[a].maxEnd \in Nat
      BY <1>0, BoardIs, PositionIs
    <3>7. c.pos[a].rate = b.pos[a].rate \/ (c.pos[a].rate = 0 /\ at <= c.last)
      <4>1. CASE a # e.account /\ d.pos[a].rate = b.pos[a].rate
        BY <3>4, <4>1
      <4>2. CASE d.pos[a].rate = 0 /\ at <= d.last
        BY <2>3, <3>2, <3>4, <3>6, <4>2
      <4>3. CASE a = e.account /\ d.pos[a].rate = b.pos[a].rate
        <5>1. d.pos[a].rate > 0 /\ d.pos[a].maxEnd = e.maxEnd
          BY <1>0, <2>3, <2>5, <4>3, ValidIs
        <5>2. at <= e.maxEnd
          BY <3>5, <3>6, <4>3, <5>1 DEF LastsTo
        <5> QED BY <3>2, <3>4, <4>3, <5>2
      <4> QED BY <3>5, <4>1, <4>2, <4>3
    <3>8. Earning(b, c, at, a)
      BY <2>3, <3>3, <3>4, <3>5, <3>7 DEF Earning
    <3> QED BY <2>2, <3>8
  <2> QED BY <2>4, <2>5
<1> QED BY <1>1, <1>2

EarningLed(b, at, a, n) == \E d : Turns(b, at, n) = {d} /\ Earning(b, d, at, a)

LEMMA EarningTurns ==
  ASSUME NEW at \in Nat, NEW b, Good(b), NEW a \in Accounts, LastsTo(b, at, a), NEW n \in Nat
  PROVE  EarningLed(b, at, a, n)
<1> DEFINE B == {i \in Nat : EarningLed(b, at, a, i)}
<1>1. 0 \in B
  <2>1. Turns(b, at, 0) = {b} /\ Earning(b, b, at, a)
    BY TurnsUnfold, EarningItself
  <2> QED BY <2>1 DEF EarningLed
<1>2. ASSUME NEW i \in Nat, i \in B
      PROVE  i + 1 \in B
  <2>1. PICK d : Turns(b, at, i) = {d} /\ Earning(b, d, at, a)
    BY <1>2 DEF EarningLed
  <2>2. Turns(b, at, i + 1) = Stepped(Turns(b, at, i), at)
    BY TurnsUnfold
  <2>3. Stepped({d}, at) = {Turn(d, at)}
    BY DEF Stepped
  <2>4. Earning(b, Turn(d, at), at, a)
    BY <2>1, EarningTurn
  <2>5. Turns(b, at, i + 1) = {Turn(d, at)}
    BY ONLY <2>1, <2>2, <2>3
  <2>6. EarningLed(b, at, a, i + 1)
    BY ONLY <2>4, <2>5 DEF EarningLed
  <2> QED BY <2>6
<1> HIDE DEF B
<1>3. Nat \subseteq B
  BY <1>1, <1>2, NatBySet
<1> QED BY <1>3 DEF B

LEMMA EarningFinish ==
  ASSUME NEW at \in Nat, NEW b, Good(b), NEW a \in Accounts, NEW d, Earning(b, d, at, a),
         NEW c, c = Finish(d, at)
  PROVE  Holding(c, a) = b.pos[a].accrued + b.pos[a].rate * (c.g - b.pos[a].gPaid)
<1>0. b \in BoardRecords /\ d \in BoardRecords
  BY DEF Good, Earning
<1>1. CASE DueAt(d, at) \/ d.last >= at
  <2>1. c = d
    BY <1>1 DEF Finish
  <2> QED BY <2>1 DEF Earning
<1>2. CASE ~(DueAt(d, at) \/ d.last >= at)
  <2>1. c = Moved(d, at)
    BY <1>2 DEF Finish
  <2>2. d.last <= at /\ at <= at
    BY <1>0, <1>2, BoardIs
  <2> QED BY <1>0, <2>1, <2>2, EarningMoved
<1> QED BY <1>1, <1>2

\* A full catch-up to `at` credits by the index it reaches.
LEMMA HoldingAt ==
  ASSUME NEW t \in Nat \ {0}, NEW at \in Nat, NEW b, Good(b), NEW a \in Accounts,
         LastsTo(b, at, a), NEW c, c = AdvanceAll(b, t, at)
  PROVE  Holding(c, a) = b.pos[a].accrued + b.pos[a].rate * (c.g - b.pos[a].gPaid)
<1>1. CASE b.last = 0
  <2>1. c = [b EXCEPT !.last = t]
    BY <1>1 DEF AdvanceAll, Advance
  <2>2. c.pos = b.pos
    BY <1>1, <2>1, TouchedIs
  <2> QED BY <2>2 DEF Holding
<1>2. CASE b.last # 0
  <2>1. PICK n \in Nat : n = Len(b.queue)
    BY QueueIs DEF Good
  <2>2. PICK d : Turns(b, at, n) = {d} /\ Earning(b, d, at, a)
    BY EarningTurns DEF EarningLed
  <2>3. c = Finish(d, at)
    BY <1>2, <2>1, <2>2, AdvanceFinishes DEF AdvanceAll
  <2> QED BY <2>2, <2>3, EarningFinish
<1> QED BY <1>1, <1>2

\* A shorter catch-up is on the way of a longer one.
TurnsShared(b, at, cap, k) == \E m \in 0..k : Turns(b, at, k) = Turns(b, cap, m)

LEMMA TurnsOnTheWay ==
  ASSUME NEW at \in Nat, NEW cap \in Nat, at <= cap, NEW b, Good(b), NEW k \in Nat
  PROVE  TurnsShared(b, at, cap, k)
<1> DEFINE B == {i \in Nat : TurnsShared(b, at, cap, i)}
<1>1. 0 \in B
  <2>1. Turns(b, at, 0) = Turns(b, cap, 0) /\ 0 \in 0..0
    BY TurnsUnfold
  <2> QED BY <2>1 DEF TurnsShared
<1>2. ASSUME NEW i \in Nat, i \in B
      PROVE  i + 1 \in B
  <2>1. PICK m \in 0..i : Turns(b, at, i) = Turns(b, cap, m)
    BY <1>2 DEF TurnsShared
  <2>2. PICK d : Turns(b, at, i) = {d} /\ Reached(b, d, at, i)
    BY TurnsReach
  <2>3. /\ Turns(b, at, i + 1) = Stepped(Turns(b, at, i), at)
        /\ Turns(b, cap, m + 1) = Stepped(Turns(b, cap, m), cap)
    <3>1. m \in Nat
      OBVIOUS
    <3> QED BY <3>1, TurnsUnfold
  <2>4. Stepped({d}, at) = {Turn(d, at)} /\ Stepped({d}, cap) = {Turn(d, cap)}
    BY DEF Stepped
  <2>5. Turns(b, at, i + 1) = {Turn(d, at)} /\ Turns(b, cap, m + 1) = {Turn(d, cap)}
    BY ONLY <2>1, <2>2, <2>3, <2>4
  <2>6. CASE ~DueAt(d, at)
    <3>1. Turn(d, at) = d
      BY <2>6 DEF Turn
    <3>2. Turns(b, at, i + 1) = Turns(b, cap, m)
      BY ONLY <2>1, <2>2, <2>5, <3>1
    <3> QED BY <3>2 DEF TurnsShared
  <2>7. CASE DueAt(d, at)
    <3>1. PICK e : e = Head(d.queue)
      OBVIOUS
    <3>2. e.maxEnd \in Nat /\ e.maxEnd <= at
      BY <2>2, <2>7, <3>1, TurnCases DEF Reached
    <3>3. DueAt(d, cap)
      BY <2>7, <3>1, <3>2 DEF DueAt
    <3>4. Turn(d, at) = Turn(d, cap)
      BY <2>7, <3>3 DEF Turn
    <3>5. m + 1 \in 0..i + 1 /\ Turns(b, at, i + 1) = Turns(b, cap, m + 1)
      BY <2>5, <3>4
    <3> QED BY <3>5 DEF TurnsShared
  <2> QED BY <2>6, <2>7
<1> HIDE DEF B
<1>3. Nat \subseteq B
  BY <1>1, <1>2, NatBySet
<1> QED BY <1>3 DEF B

\* Past its own end an account earns nothing more.
LEMMA HoldingPast ==
  ASSUME NEW t \in Nat \ {0}, NEW cap \in Nat, NEW b, Good(b), NEW a \in Accounts,
         b.pos[a].rate > 0, b.pos[a].maxEnd <= cap
  PROVE  Holding(AdvanceAll(b, t, cap), a) = Holding(AdvanceAll(b, t, b.pos[a].maxEnd), a)
<1>0. b \in BoardRecords /\ b.pos[a].rate \in Nat /\ b.last \in Nat
  BY PositionIs, BoardIs DEF Good
<1>1. PICK at \in Nat : at = b.pos[a].maxEnd
  BY <1>0, PositionIs
<1>2. b.last # 0 /\ LastsTo(b, at, a) /\ at <= cap
  BY <1>0, <1>1, PositionIs DEF Good, Placed, LastsTo
<1>3. PICK n \in Nat : n = Len(b.queue)
  BY QueueIs DEF Good
<1>4. PICK d : Turns(b, at, n) = {d} /\ Earning(b, d, at, a)
  BY <1>2, EarningTurns DEF EarningLed
<1>5. ~DueAt(d, at) /\ Good(d) /\ d \in BoardRecords /\ d.pos[a].maxEnd = at
  BY <1>1, <1>3, <1>4, TurnsExhaust DEF Earning, Good
<1>6. d.pos[a].rate = 0
  <2> SUFFICES ASSUME d.pos[a].rate # 0
               PROVE  FALSE
    OBVIOUS
  <2>1. d.pos[a].rate > 0
    BY <1>5, PositionIs
  <2>2. PICK i \in DOMAIN d.queue : d.queue[i] = [maxEnd |-> at, account |-> a]
    BY <1>5, <2>1 DEF Good, Placed, Queued
  <2>3. d.queue # << >> /\ d.queue[i].maxEnd = at
    BY <2>2
  <2>4. d.queue \in Seq(Boundaries)
    BY <1>5, BoardIs
  <2>5. 1 \in DOMAIN d.queue /\ Head(d.queue) = d.queue[1] /\ 1 <= i /\ d.queue[1].maxEnd \in Nat
    BY <1>5, <2>3, <2>4, QueueIs, TailIs
  <2>6. d.queue[1].maxEnd <= at
    BY <1>5, <2>3, <2>5 DEF Good, Ordered
  <2> QED BY <1>5, <2>3, <2>5, <2>6 DEF DueAt
<1>7. at <= d.last /\ d.last \in Nat
  BY <1>0, <1>4, <1>5, <1>6, BoardIs DEF Earning
<1>8. AdvanceAll(b, t, at) = d
  <2>1. AdvanceAll(b, t, at) = Finish(d, at)
    BY <1>2, <1>3, <1>4, AdvanceFinishes DEF AdvanceAll
  <2> QED BY <1>5, <1>7, <2>1 DEF Finish
<1>9. PICK m \in 0..n : Turns(b, at, n) = Turns(b, cap, m)
  BY <1>2, TurnsOnTheWay DEF TurnsShared
<1>10. PICK k \in Nat : k = n - m /\ m + k = n /\ m \in Nat
  BY <1>9
<1>11. Turns(d, cap, k) = Turns(b, cap, n)
  <2>1. Turns(b, cap, m) = {d} /\ m \in Nat /\ k \in Nat
    BY <1>4, <1>9, <1>10
  <2>2. Turns(d, cap, k) = Turns(b, cap, m + k)
    BY ONLY <2>1, TurnsCompose
  <2> QED BY <1>10, <2>2
<1>12. LastsTo(d, cap, a)
  BY <1>6 DEF LastsTo
<1>13. PICK e : Turns(d, cap, k) = {e} /\ Earning(d, e, cap, a)
  BY <1>5, <1>12, EarningTurns DEF EarningLed
<1>14. PICK c : c = Finish(e, cap)
  OBVIOUS
<1>15. AdvanceAll(b, t, cap) = c
  <2>1. Turns(b, cap, n) = {e}
    BY ONLY <1>11, <1>13
  <2> QED BY <1>2, <1>3, <1>14, <2>1, AdvanceFinishes DEF AdvanceAll
<1>16. Holding(c, a) = d.pos[a].accrued + d.pos[a].rate * (c.g - d.pos[a].gPaid)
  BY <1>5, <1>13, <1>14, EarningFinish
<1>17. Holding(d, a) = d.pos[a].accrued + d.pos[a].rate * (d.g - d.pos[a].gPaid)
  BY DEF Holding
<1>18. Good(c)
  BY <1>13, <1>14, FinishIs DEF Earning
<1>19. /\ d.g \in Nat /\ c.g \in Nat /\ d.pos[a].gPaid \in Nat
  BY <1>5, <1>18, BoardIs, PositionIs DEF Good
<1>20. \A x \in Int : 0 * x = 0
  OBVIOUS
<1>21. d.pos[a].rate * (c.g - d.pos[a].gPaid) = d.pos[a].rate * (d.g - d.pos[a].gPaid)
  BY <1>6, <1>19, <1>20
<1>22. Holding(c, a) = Holding(d, a)
  BY ONLY <1>16, <1>17, <1>21, SMTT(30)
<1> QED BY <1>1, <1>8, <1>15, <1>22

-----------------------------------------------------------------------------
(* The preview walks where a full catch-up goes.                           *)

\* No two boundaries of the queue are the same.
OneEach(b) == \A i, j \in DOMAIN b.queue : b.queue[i] = b.queue[j] => i = j

\* What the preview keeps of a board, and its step over one boundary.
WalkOf(d) == [pool |-> d.pool, rate |-> d.sideRate, g |-> d.g, t |-> d.last]

WalkOn(b, at, w, e) ==
    IF e.maxEnd > at \/ ~Valid(b, e) THEN w
    ELSE [Grown(w, e.maxEnd) EXCEPT !.rate = @ - b.pos[e.account].rate, !.t = e.maxEnd]

WalkStep(b, at, walk, k) ==
    IF k = 0 THEN WalkOf(b) ELSE WalkOn(b, at, walk[k-1], b.queue[k])

WalkTable(b, at) == CHOOSE walk : walk = [k \in 0..Len(b.queue) |-> WalkStep(b, at, walk, k)]

LEMMA PreviewWalks ==
  ASSUME NEW b, NEW at, NEW w, w = WalkTable(b, at)[Len(b.queue)]
  PROVE  PreviewIndex(b, at) = CASE b.last = 0 -> b.g
                                 [] b.last # 0 /\ w.rate < 0 -> Reverts
                                 [] OTHER -> Grown(w, at).g
BY DEF PreviewIndex, WalkTable, WalkStep, WalkOf, WalkOn

\* Growing what is kept of a board keeps what moving the board would.
LEMMA GrownIs ==
  ASSUME NEW d \in BoardRecords, NEW t \in Nat, d.last <= t, NEW m, m = Moved(d, t)
  PROVE  Grown(WalkOf(d), t) = [pool |-> m.pool, rate |-> d.sideRate, g |-> m.g, t |-> d.last]
<1> DEFINE w == WalkOf(d)
<1>1. w.pool = d.pool /\ w.rate = d.sideRate /\ w.g = d.g /\ w.t = d.last
  BY DEF WalkOf
<1>2. d.pool \in Nat /\ d.sideRate \in Nat /\ d.g \in Nat /\ d.last \in Nat
  BY BoardIs
<1>3. m.pool = d.pool + d.sideRate * (t - d.last) /\ m.g = d.g + Gain(d, t)
  BY MovedIs
<1>4. CASE t <= d.last \/ d.sideRate = 0
  <2>1. Gain(d, t) = 0
    BY <1>4 DEF Gain
  <2>2. d.sideRate * (t - d.last) = 0
    <3>1. \A x \in Int : x * 0 = 0 /\ 0 * x = 0
      OBVIOUS
    <3>2. d.sideRate = 0 \/ t - d.last = 0
      BY <1>2, <1>4
    <3> QED BY <1>2, <3>1, <3>2
  <2>3. m.pool = d.pool /\ m.g = d.g
    BY <1>2, <1>3, <2>1, <2>2
  <2>4. Grown(w, t) = w
    BY <1>1, <1>2, <1>4 DEF Grown
  <2> QED BY <2>3, <2>4 DEF WalkOf
<1>5. CASE ~(t <= d.last \/ d.sideRate = 0)
  <2>1. Gain(d, t) = IndexGain(d.pool, m.pool, d.sideRate)
    BY <1>3, <1>5 DEF Gain
  <2>2. ~(w.rate <= 0 \/ t <= w.t)
    BY <1>1, <1>2, <1>5
  <2>3. w.pool + w.rate * (t - w.t) = m.pool
    BY <1>1, <1>3
  <2>4. Grown(w, t) = [w EXCEPT !.pool = m.pool,
                                !.g = @ + IndexGain(w.pool, m.pool, w.rate)]
    BY ONLY <2>2, <2>3 DEF Grown
  <2>5. PICK q : q = d.g + IndexGain(d.pool, m.pool, d.sideRate)
    OBVIOUS
  <2>6. [w EXCEPT !.pool = m.pool, !.g = @ + IndexGain(w.pool, m.pool, w.rate)]
          = [w EXCEPT !.pool = m.pool, !.g = q]
    BY <1>1, <2>5
  <2>7. m.g = q
    BY <1>3, <2>1, <2>5
  <2> QED BY ONLY <2>4, <2>6, <2>7 DEF WalkOf, w
<1> QED BY <1>4, <1>5

\* The next boundary of the queue, when k turns have been taken.
LEMMA NextBoundary ==
  ASSUME NEW at \in Nat, NEW b, Good(b), NEW k \in Nat, NEW d, Reached(b, d, at, k),
         k + 1 \in DOMAIN b.queue, NEW e, e = b.queue[k + 1]
  PROVE  /\ DueAt(d, at) => Head(d.queue) = e /\ e.maxEnd <= at
         /\ ~DueAt(d, at) => e.maxEnd > at
<1>1. PICK n \in Nat : n = Len(b.queue)
  BY QueueIs DEF Good
<1>2. /\ b.queue \in Seq(Boundaries) /\ DOMAIN b.queue = 1..n
      /\ \A i \in DOMAIN b.queue : b.queue[i].maxEnd \in Nat
      /\ \A i, j \in DOMAIN b.queue : i <= j => b.queue[i].maxEnd <= b.queue[j].maxEnd
  BY <1>1, QueueIs, BoardIs DEF Good, Ordered
<1>3. PICK m \in 0..n : /\ d.queue = SubSeq(b.queue, m + 1, n)
                        /\ m <= k
                        /\ m = k \/ ~DueAt(d, at)
  BY <1>1 DEF Reached
<1>4. m + 1 \in 1..n /\ k + 1 \in 1..n
  BY <1>2, <1>3
<1>5. d.queue # << >> /\ Head(d.queue) = b.queue[m + 1]
  <2>1. \A i \in 1..n : b.queue[i] \in Boundaries
    BY <1>2
  <2>2. Len(d.queue) = n - m /\ d.queue[1] = b.queue[m + 1] /\ d.queue \in Seq(Boundaries)
    BY <1>2, <1>3, <1>4, <2>1
  <2> QED BY <1>4, <2>2
<1>6. b.queue[m + 1].maxEnd <= e.maxEnd /\ b.queue[m + 1].maxEnd \in Nat /\ e.maxEnd \in Nat
  <2>1. m + 1 \in DOMAIN b.queue /\ k + 1 \in DOMAIN b.queue /\ m + 1 <= k + 1
    BY <1>2, <1>3, <1>4
  <2> QED BY <1>2, <2>1
<1>7. DueAt(d, at) <=> b.queue[m + 1].maxEnd <= at
  BY <1>5 DEF DueAt
<1>8. CASE DueAt(d, at)
  <2>1. m = k
    BY <1>3, <1>8
  <2> QED BY <1>5, <1>7, <1>8, <2>1
<1>9. CASE ~DueAt(d, at)
  BY <1>6, <1>7, <1>9
<1> QED BY <1>8, <1>9

\* A position flows as it did, or one of the k boundaries behind was its own.
SpentBy(b, d, k, o) ==
    /\ d.pos[o].maxEnd = b.pos[o].maxEnd
    /\ \/ d.pos[o].rate = b.pos[o].rate
       \/ d.pos[o].rate = 0 /\ \E i \in 1..k : b.queue[i] = [maxEnd |-> b.pos[o].maxEnd, account |-> o]

Walked(b, d, at, k) == Reached(b, d, at, k) /\ \A o \in Accounts : SpentBy(b, d, k, o)

LEMMA SpentMore ==
  ASSUME NEW b, NEW d, NEW k \in Nat, NEW o \in Accounts, SpentBy(b, d, k, o)
  PROVE  SpentBy(b, d, k + 1, o)
<1>1. \A i \in 1..k : i \in 1..k + 1
  OBVIOUS
<1> QED BY <1>1 DEF SpentBy

\* The boundary a turn comes to is valid in the preview, where nothing was
\* closed, exactly when it is valid on the board.
LEMMA ValidAlike ==
  ASSUME NEW at \in Nat, NEW b, Good(b), OneEach(b), NEW k \in Nat, NEW d, Walked(b, d, at, k),
         k + 1 \in DOMAIN b.queue, NEW e, e = b.queue[k + 1]
  PROVE  /\ e \in Boundaries
         /\ Valid(d, e) <=> Valid(b, e)
         /\ Valid(d, e) => d.pos[e.account].rate = b.pos[e.account].rate
<1>1. /\ b \in BoardRecords /\ Good(d) /\ d \in BoardRecords
      /\ DOMAIN b.queue = 1..Len(b.queue) /\ Len(b.queue) \in Nat
      /\ e \in Boundaries
  BY QueueIs DEF Walked, Reached, Good
<1>2. PICK o \in Accounts : o = e.account
  BY <1>1 DEF Boundaries
<1>3. /\ Valid(b, e) <=> b.pos[o].rate > 0 /\ b.pos[o].maxEnd = e.maxEnd
      /\ Valid(d, e) <=> d.pos[o].rate > 0 /\ d.pos[o].maxEnd = e.maxEnd
  BY <1>1, <1>2, ValidIs
<1>4. SpentBy(b, d, k, o)
  BY DEF Walked
<1>5. CASE d.pos[o].rate = b.pos[o].rate
  BY <1>1, <1>2, <1>3, <1>4, <1>5 DEF SpentBy
<1>6. CASE d.pos[o].rate # b.pos[o].rate
  <2>1. d.pos[o].rate = 0
    BY <1>4, <1>6 DEF SpentBy
  <2>2. PICK i \in 1..k : b.queue[i] = [maxEnd |-> b.pos[o].maxEnd, account |-> o]
    BY <1>4, <1>6 DEF SpentBy
  <2>3. b.pos[o].maxEnd # e.maxEnd
    <3> SUFFICES ASSUME b.pos[o].maxEnd = e.maxEnd
                 PROVE  FALSE
      OBVIOUS
    <3>1. e = [maxEnd |-> b.pos[o].maxEnd, account |-> o]
      BY <1>1, <1>2 DEF Boundaries
    <3>2. b.queue[i] = b.queue[k + 1]
      BY <2>2, <3>1
    <3>3. i \in DOMAIN b.queue /\ i # k + 1
      BY <1>1
    <3> QED BY <3>2, <3>3 DEF OneEach
  <2>4. ~Valid(d, e)
    BY <1>3, <2>1
  <2>5. ~Valid(b, e)
    BY <1>3, <2>3
  <2> QED BY <1>1, <2>4, <2>5
<1> QED BY <1>5, <1>6

WalkPut(w, x, t) == [w EXCEPT !.rate = @ - x, !.t = t]

LEMMA WalkPutIs ==
  ASSUME NEW p, NEW r, NEW g, NEW l, NEW x, NEW t, NEW w,
         w = [pool |-> p, rate |-> r, g |-> g, t |-> l]
  PROVE  WalkPut(w, x, t) = [pool |-> p, rate |-> r - x, g |-> g, t |-> t]
<1>1. PICK y : y = r - x
  OBVIOUS
<1>2. w.rate = r
  OBVIOUS
<1>3. WalkPut(w, x, t) = [w EXCEPT !.rate = y, !.t = t]
  BY <1>1, <1>2 DEF WalkPut
<1>4. [w EXCEPT !.rate = y, !.t = t] = [pool |-> p, rate |-> y, g |-> g, t |-> t]
  <2>1. PICK u : u = [w EXCEPT !.rate = y]
    OBVIOUS
  <2>2. u = [pool |-> p, rate |-> y, g |-> g, t |-> l]
    BY <2>1
  <2>3. [u EXCEPT !.t = t] = [pool |-> p, rate |-> y, g |-> g, t |-> t]
    BY ONLY <2>2
  <2>4. [w EXCEPT !.rate = y, !.t = t] = [u EXCEPT !.t = t]
    BY <2>1
  <2> QED BY ONLY <2>3, <2>4
<1> QED BY ONLY <1>1, <1>3, <1>4

\* A turn takes the preview one boundary on.
LEMMA WalkTurns ==
  ASSUME NEW at \in Nat, NEW b, Good(b), OneEach(b), NEW k \in Nat, NEW d, Walked(b, d, at, k),
         k + 1 \in DOMAIN b.queue, NEW e, e = b.queue[k + 1], NEW c, c = Turn(d, at)
  PROVE  Walked(b, c, at, k + 1) /\ WalkOn(b, at, WalkOf(d), e) = WalkOf(c)
<1>1. /\ b \in BoardRecords /\ Reached(b, d, at, k) /\ Good(d) /\ d \in BoardRecords
      /\ \A o \in Accounts : SpentBy(b, d, k, o)
  BY DEF Walked, Reached, Good
<1>2. Reached(b, c, at, k + 1)
  BY <1>1, TurnReaches
<1>3. /\ e \in Boundaries
      /\ Valid(d, e) <=> Valid(b, e)
      /\ Valid(d, e) => d.pos[e.account].rate = b.pos[e.account].rate
  BY ValidAlike
<1>4. /\ DueAt(d, at) => Head(d.queue) = e /\ e.maxEnd <= at
      /\ ~DueAt(d, at) => e.maxEnd > at
  BY <1>1, NextBoundary
<1>5. ASSUME \A o \in Accounts : c.pos[o] = d.pos[o]
      PROVE  \A o \in Accounts : SpentBy(b, c, k + 1, o)
  <2> SUFFICES ASSUME NEW o \in Accounts
               PROVE  SpentBy(b, c, k + 1, o)
    OBVIOUS
  <2>1. SpentBy(b, d, k + 1, o)
    BY <1>1, SpentMore
  <2> QED BY <1>5, <2>1 DEF SpentBy
<1>6. CASE ~DueAt(d, at)
  <2>1. c = d
    BY <1>6 DEF Turn
  <2>2. WalkOn(b, at, WalkOf(d), e) = WalkOf(d)
    BY <1>4, <1>6 DEF WalkOn
  <2> QED BY <1>2, <1>5, <2>1, <2>2 DEF Walked
<1>7. CASE DueAt(d, at)
  <2>1. e = Head(d.queue)
    BY <1>4, <1>7
  <2>2. /\ e.account \in Accounts /\ e.maxEnd \in Nat /\ d.last <= e.maxEnd /\ e.maxEnd <= at
        /\ Valid(d, e) => c.last = e.maxEnd /\ DepletedTo(Moved(d, e.maxEnd), c, e.account)
        /\ ~Valid(d, e) => /\ c.pos = d.pos /\ c.pool = d.pool /\ c.sideRate = d.sideRate
                           /\ c.g = d.g /\ c.last = d.last
    BY <1>1, <1>7, <2>1, TurnCases
  <2>3. CASE ~Valid(d, e)
    <3>1. WalkOn(b, at, WalkOf(d), e) = WalkOf(d)
      BY <1>3, <2>3 DEF WalkOn
    <3>2. WalkOf(c) = WalkOf(d)
      BY <2>2, <2>3 DEF WalkOf
    <3> QED BY <1>2, <1>5, <2>2, <2>3, <3>1, <3>2 DEF Walked
  <2>4. CASE Valid(d, e)
    <3>1. PICK m : m = Moved(d, e.maxEnd)
      OBVIOUS
    <3>2. PICK a \in Accounts : a = e.account
      BY <2>2
    <3>3. c.last = e.maxEnd /\ DepletedTo(m, c, a)
      BY <2>2, <2>4, <3>1, <3>2
    <3>4. m.pos = d.pos /\ m.sideRate = d.sideRate
      BY <1>1, <2>2, <3>1, MovedIs
    <3>5. /\ c.pool = m.pool /\ c.g = m.g
          /\ c.sideRate = d.sideRate - b.pos[a].rate
      BY <1>3, <2>4, <3>2, <3>3, <3>4 DEF DepletedTo
    <3>6. Grown(WalkOf(d), e.maxEnd)
            = [pool |-> m.pool, rate |-> d.sideRate, g |-> m.g, t |-> d.last]
      BY <1>1, <2>2, <3>1, GrownIs
    <3>7. WalkOn(b, at, WalkOf(d), e)
            = WalkPut(Grown(WalkOf(d), e.maxEnd), b.pos[a].rate, e.maxEnd)
      <4>1. ~(e.maxEnd > at \/ ~Valid(b, e))
        BY <1>3, <2>2, <2>4
      <4> QED BY <3>2, <4>1 DEF WalkOn, WalkPut
    <3>8. WalkOn(b, at, WalkOf(d), e) = [pool |-> m.pool, rate |-> d.sideRate - b.pos[a].rate,
                                         g |-> m.g, t |-> e.maxEnd]
      BY ONLY <3>6, <3>7, WalkPutIs
    <3>9. WalkOn(b, at, WalkOf(d), e) = WalkOf(c)
      BY <3>3, <3>5, <3>8 DEF WalkOf
    <3>10. ASSUME NEW o \in Accounts
           PROVE  SpentBy(b, c, k + 1, o)
      <4>1. SpentBy(b, d, k + 1, o)
        BY <1>1, SpentMore
      <4>2. /\ c.pos[o].maxEnd = d.pos[o].maxEnd
            /\ c.pos[o].rate = IF o = a THEN 0 ELSE d.pos[o].rate
        BY <3>3, <3>4 DEF DepletedTo
      <4>3. CASE o # a
        BY <4>1, <4>2, <4>3 DEF SpentBy
      <4>4. CASE o = a
        <5>1. b.pos[a].maxEnd = e.maxEnd
          <6>1. Valid(b, e)
            BY <1>3, <2>4
          <6> QED BY <1>3, <3>2, <6>1, ValidIs
        <5>2. b.queue[k + 1] = [maxEnd |-> b.pos[a].maxEnd, account |-> a]
          BY <1>3, <3>2, <5>1 DEF Boundaries
        <5>3. k + 1 \in 1..k + 1
          OBVIOUS
        <5> QED BY <4>1, <4>2, <4>4, <5>2, <5>3 DEF SpentBy
      <4> QED BY <4>3, <4>4
    <3> QED BY <1>2, <3>9, <3>10 DEF Walked
  <2> QED BY <2>3, <2>4
<1> QED BY <1>6, <1>7

\* The board k turns lead to.
LedTo(b, at, k) == CHOOSE d : Turns(b, at, k) = {d}

LEMMA LedToIs ==
  ASSUME NEW b, NEW at, NEW k, NEW d, Turns(b, at, k) = {d}
  PROVE  LedTo(b, at, k) = d
<1>1. \E x : Turns(b, at, k) = {x}
  OBVIOUS
<1>2. Turns(b, at, k) = {LedTo(b, at, k)}
  BY <1>1, Zenon DEF LedTo
<1> QED BY <1>2

\* k turns are taken along the queue, and the preview is there too.
WalksAlong(b, at, k) ==
    k \in 0..Len(b.queue) => /\ Turns(b, at, k) = {LedTo(b, at, k)}
                             /\ Walked(b, LedTo(b, at, k), at, k)

LEMMA WalksOn ==
  ASSUME NEW at \in Nat, NEW b, Good(b), OneEach(b), NEW k \in Nat, WalksAlong(b, at, k),
         k + 1 \in 0..Len(b.queue)
  PROVE  /\ WalksAlong(b, at, k + 1)
         /\ WalkOn(b, at, WalkOf(LedTo(b, at, k)), b.queue[k + 1]) = WalkOf(LedTo(b, at, k + 1))
<1>1. PICK n \in Nat : n = Len(b.queue) /\ DOMAIN b.queue = 1..n
  BY QueueIs DEF Good
<1>2. k \in 0..Len(b.queue) /\ k + 1 \in DOMAIN b.queue
  BY <1>1
<1>3. PICK d : d = LedTo(b, at, k)
  OBVIOUS
<1>4. Turns(b, at, k) = {d} /\ Walked(b, d, at, k)
  BY <1>2, <1>3 DEF WalksAlong
<1>5. PICK c : c = Turn(d, at)
  OBVIOUS
<1>6. PICK e : e = b.queue[k + 1]
  OBVIOUS
<1>7. Walked(b, c, at, k + 1) /\ WalkOn(b, at, WalkOf(d), e) = WalkOf(c)
  BY <1>2, <1>4, <1>5, <1>6, WalkTurns
<1>8. Turns(b, at, k + 1) = {c}
  <2>1. Turns(b, at, k + 1) = Stepped(Turns(b, at, k), at)
    BY TurnsUnfold
  <2>2. Stepped({d}, at) = {Turn(d, at)}
    BY DEF Stepped
  <2> QED BY ONLY <1>4, <1>5, <2>1, <2>2
<1>9. LedTo(b, at, k + 1) = c
  BY <1>8, LedToIs
<1>10. WalksAlong(b, at, k + 1)
  BY <1>7, <1>8, <1>9 DEF WalksAlong
<1> QED BY <1>3, <1>6, <1>7, <1>9, <1>10

LEMMA WalksAll ==
  ASSUME NEW at \in Nat, NEW b, Good(b), OneEach(b), NEW k \in Nat
  PROVE  WalksAlong(b, at, k)
<1> DEFINE B == {i \in Nat : WalksAlong(b, at, i)}
<1>1. 0 \in B
  <2>1. Turns(b, at, 0) = {b}
    BY TurnsUnfold
  <2>2. LedTo(b, at, 0) = b
    BY <2>1, LedToIs
  <2>3. \A o \in Accounts : SpentBy(b, b, 0, o)
    BY DEF SpentBy
  <2>4. Walked(b, b, at, 0)
    BY <2>3, ReachedAtOnce DEF Walked
  <2> QED BY <2>1, <2>2, <2>4 DEF WalksAlong
<1>2. ASSUME NEW i \in Nat, i \in B
      PROVE  i + 1 \in B
  <2>1. WalksAlong(b, at, i)
    BY <1>2
  <2>2. CASE i + 1 \in 0..Len(b.queue)
    BY <2>1, <2>2, WalksOn
  <2>3. CASE i + 1 \notin 0..Len(b.queue)
    BY <2>3 DEF WalksAlong
  <2> QED BY <2>2, <2>3
<1> HIDE DEF B
<1>3. Nat \subseteq B
  BY <1>1, <1>2, NatBySet
<1> QED BY <1>3 DEF B

\* The table of the preview's walk holds what is kept of those boards.
LEMMA WalkTableIs ==
  ASSUME NEW at \in Nat, NEW b, Good(b), OneEach(b), NEW k \in 0..Len(b.queue)
  PROVE  WalkTable(b, at)[k] = WalkOf(LedTo(b, at, k))
<1>1. PICK n \in Nat : n = Len(b.queue)
  BY QueueIs DEF Good
<1> DEFINE f == [i \in 0..n |-> WalkOf(LedTo(b, at, i))]
           w == WalkTable(b, at)
<1>2. LedTo(b, at, 0) = b
  <2>1. Turns(b, at, 0) = {b}
    BY TurnsUnfold
  <2> QED BY <2>1, LedToIs
<1>3. ASSUME NEW i \in 0..n, i # 0
      PROVE  WalkOn(b, at, WalkOf(LedTo(b, at, i - 1)), b.queue[i]) = WalkOf(LedTo(b, at, i))
  <2>1. PICK j \in Nat : j = i - 1 /\ j + 1 = i
    BY <1>3
  <2>2. j + 1 \in 0..Len(b.queue)
    BY <1>1, <2>1
  <2> QED BY <2>1, <2>2, WalksAll, WalksOn
<1>4. f = [i \in 0..n |-> WalkStep(b, at, f, i)]
  <2>1. ASSUME NEW i \in 0..n
        PROVE  f[i] = WalkStep(b, at, f, i)
    <3>1. CASE i = 0
      BY <1>2, <3>1 DEF WalkStep
    <3>2. CASE i # 0
      <4>1. i - 1 \in 0..n
        BY <3>2
      <4>2. f[i] = WalkOf(LedTo(b, at, i)) /\ f[i - 1] = WalkOf(LedTo(b, at, i - 1))
        BY <4>1
      <4> QED BY <1>3, <3>2, <4>2 DEF WalkStep
    <3> QED BY <3>1, <3>2
  <2>2. f = [i \in 0..n |-> f[i]]
    OBVIOUS
  <2> HIDE DEF f
  <2> QED BY <2>1, <2>2
<1>5. w = [i \in 0..n |-> WalkStep(b, at, w, i)]
  <2> HIDE DEF f
  <2>1. \E walk : walk = [i \in 0..n |-> WalkStep(b, at, walk, i)]
    BY <1>4
  <2> QED BY <1>1, <2>1 DEF WalkTable
<1>6. \A i \in 0..n : w[i] = WalkStep(b, at, w, i)
  <2> HIDE DEF w
  <2> QED BY <1>5
<1> DEFINE B == {i \in Nat : i \in 0..n => w[i] = WalkOf(LedTo(b, at, i))}
<1> HIDE DEF w, f
<1>7. 0 \in B
  <2>1. 0 \in 0..n
    OBVIOUS
  <2> QED BY <1>2, <1>6, <2>1 DEF WalkStep
<1>8. ASSUME NEW i \in Nat, i \in B
      PROVE  i + 1 \in B
  <2> SUFFICES ASSUME i + 1 \in 0..n
               PROVE  w[i + 1] = WalkOf(LedTo(b, at, i + 1))
    OBVIOUS
  <2>1. i \in 0..n /\ i + 1 # 0 /\ i + 1 - 1 = i
    OBVIOUS
  <2>2. w[i] = WalkOf(LedTo(b, at, i))
    BY <1>8, <2>1
  <2>3. w[i + 1] = WalkOn(b, at, w[i], b.queue[i + 1])
    BY <1>6, <2>1 DEF WalkStep
  <2>4. WalkOn(b, at, WalkOf(LedTo(b, at, i)), b.queue[i + 1]) = WalkOf(LedTo(b, at, i + 1))
    BY <1>3, <2>1
  <2> QED BY ONLY <2>2, <2>3, <2>4
<1> HIDE DEF B
<1>9. Nat \subseteq B
  BY <1>7, <1>8, NatBySet
<1>10. k \in Nat /\ k \in 0..n
  BY <1>1
<1>11. w[k] = WalkOf(LedTo(b, at, k))
  BY <1>9, <1>10 DEF B
<1> QED BY <1>11 DEF w

\* The preview's index is the one a full catch-up reaches.
LEMMA PreviewIndexIs ==
  ASSUME NEW t \in Nat \ {0}, NEW at \in Nat, NEW b, Good(b), OneEach(b),
         NEW c, c = AdvanceAll(b, t, at)
  PROVE  PreviewIndex(b, at) = c.g /\ c.g \in Nat
<1>1. b \in BoardRecords /\ b.g \in Nat
  BY BoardIs DEF Good
<1>2. PICK w : w = WalkTable(b, at)[Len(b.queue)]
  OBVIOUS
<1>3. PreviewIndex(b, at) = CASE b.last = 0 -> b.g
                              [] b.last # 0 /\ w.rate < 0 -> Reverts
                              [] OTHER -> Grown(w, at).g
  BY <1>2, PreviewWalks
<1>4. CASE b.last = 0
  <2>1. c = [b EXCEPT !.last = t]
    BY <1>4 DEF AdvanceAll, Advance
  <2>2. c.g = b.g
    BY <1>4, <2>1, TouchedIs
  <2> QED BY <1>1, <1>3, <1>4, <2>2
<1>5. CASE b.last # 0
  <2>1. PICK n \in Nat : n = Len(b.queue)
    BY QueueIs DEF Good
  <2>2. PICK d : d = LedTo(b, at, n)
    OBVIOUS
  <2>3. WalksAlong(b, at, n) /\ n \in 0..Len(b.queue)
    BY <2>1, WalksAll
  <2>4. Turns(b, at, n) = {d} /\ Walked(b, d, at, n)
    BY <2>2, <2>3 DEF WalksAlong
  <2>5. w = WalkOf(d)
    BY <1>2, <2>1, <2>2, <2>3, WalkTableIs
  <2>6. Good(d) /\ d \in BoardRecords /\ ~DueAt(d, at)
    BY <2>1, <2>4, TurnsExhaust DEF Walked, Reached, Good
  <2>7. d.sideRate \in Nat /\ d.g \in Nat /\ d.last \in Nat
    BY <2>6, BoardIs
  <2>8. w.rate = d.sideRate /\ w.g = d.g /\ w.t = d.last
    BY <2>5 DEF WalkOf
  <2>9. PreviewIndex(b, at) = Grown(w, at).g
    BY <1>3, <1>5, <2>7, <2>8
  <2>10. c = Finish(d, at)
    BY <1>5, <2>1, <2>4, AdvanceFinishes DEF AdvanceAll
  <2>11. CASE d.last >= at
    <3>1. c = d
      BY <2>10, <2>11 DEF Finish
    <3>2. Grown(w, at) = w
      BY <2>7, <2>8, <2>11 DEF Grown
    <3> QED BY <2>7, <2>8, <2>9, <3>1, <3>2
  <2>12. CASE ~(d.last >= at)
    <3>1. c = Moved(d, at)
      BY <2>6, <2>10, <2>12 DEF Finish
    <3>2. d.last <= at
      BY <2>7, <2>12
    <3>3. Grown(w, at).g = c.g
      BY <2>5, <2>6, <3>1, <3>2, GrownIs
    <3>4. c.g \in Nat
      BY <2>6, <3>1, <3>2, MovedIs, BoardIs
    <3> QED BY <2>9, <3>3, <3>4
  <2> QED BY <2>11, <2>12
<1> QED BY <1>4, <1>5

\* The preview of an account is what a full catch-up and a settle give it.
LEMMA PendingIs ==
  ASSUME NEW t \in Nat \ {0}, NEW cap \in Nat, NEW b, Good(b), OneEach(b), NEW a \in Accounts
  PROVE  PendingShares(b, a, cap) = Holding(AdvanceAll(b, t, cap), a)
<1>1. /\ b.pos[a].rate \in Nat /\ b.pos[a].accrued \in Nat /\ b.pos[a].gPaid \in Nat
      /\ b.pos[a].maxEnd \in Nat /\ b.last \in Nat
  BY PositionIs, BoardIs DEF Good
<1>2. PICK at : at = IF ~b.pos[a].depleted /\ b.pos[a].maxEnd # 0
                     THEN Least(b.pos[a].maxEnd, cap) ELSE cap
  OBVIOUS
<1>3. at \in Nat
  BY <1>1, <1>2 DEF Least
<1>4. PICK c : c = AdvanceAll(b, t, at)
  OBVIOUS
<1>5. PreviewIndex(b, at) = c.g /\ c.g \in Nat
  BY <1>3, <1>4, PreviewIndexIs
<1>6. PendingShares(b, a, cap) = b.pos[a].accrued + b.pos[a].rate * (c.g - b.pos[a].gPaid)
  <2>1. PICK g : g = PreviewIndex(b, at)
    OBVIOUS
  <2>2. PendingShares(b, a, cap)
          = IF g = Reverts THEN Reverts
            ELSE b.pos[a].accrued + b.pos[a].rate * (g - b.pos[a].gPaid)
    BY <1>2, <2>1 DEF PendingShares
  <2>3. g = c.g /\ g # Reverts
    BY <1>5, <2>1 DEF Reverts
  <2> QED BY ONLY <2>2, <2>3
<1>7. CASE b.pos[a].rate = 0
  <2>1. PICK d : d = AdvanceAll(b, t, cap)
    OBVIOUS
  <2>2. LastsTo(b, cap, a)
    BY <1>7 DEF LastsTo
  <2>3. Holding(d, a) = b.pos[a].accrued + b.pos[a].rate * (d.g - b.pos[a].gPaid)
    BY <2>1, <2>2, HoldingAt
  <2>4. d.g \in Nat
    BY <2>1, PreviewIndexIs
  <2>5. \A x \in Int : 0 * x = 0
    OBVIOUS
  <2>6. /\ b.pos[a].rate * (d.g - b.pos[a].gPaid) = 0
        /\ b.pos[a].rate * (c.g - b.pos[a].gPaid) = 0
    BY <1>1, <1>5, <1>7, <2>4, <2>5
  <2> QED BY ONLY <1>6, <2>1, <2>3, <2>6
<1>8. CASE b.pos[a].rate > 0
  <2>1. ~b.pos[a].depleted /\ b.pos[a].maxEnd # 0
    <3>1. Placed(b, a)
      BY DEF Good
    <3>2. ~b.pos[a].depleted /\ 0 < b.pos[a].fundStart /\ b.pos[a].fundStart <= b.last
          /\ b.last <= b.pos[a].maxEnd
      BY ONLY <1>8, <3>1 DEF Placed
    <3>3. b.pos[a].fundStart \in Nat
      BY PositionIs DEF Good
    <3> QED BY <1>1, <3>2, <3>3
  <2>2. CASE b.pos[a].maxEnd <= cap
    <3>1. at = b.pos[a].maxEnd
      BY <1>1, <1>2, <2>1, <2>2 DEF Least
    <3>2. LastsTo(b, at, a)
      BY <1>1, <3>1 DEF LastsTo
    <3>3. Holding(c, a) = b.pos[a].accrued + b.pos[a].rate * (c.g - b.pos[a].gPaid)
      BY <1>3, <1>4, <3>2, HoldingAt
    <3>4. Holding(AdvanceAll(b, t, cap), a) = Holding(c, a)
      BY <1>4, <1>8, <2>2, <3>1, HoldingPast
    <3> QED BY <1>6, <3>3, <3>4
  <2>3. CASE cap < b.pos[a].maxEnd
    <3>1. at = cap
      BY <1>1, <1>2, <2>1, <2>3 DEF Least
    <3>2. LastsTo(b, at, a)
      BY <1>1, <2>3, <3>1 DEF LastsTo
    <3>3. Holding(c, a) = b.pos[a].accrued + b.pos[a].rate * (c.g - b.pos[a].gPaid)
      BY <1>3, <1>4, <3>2, HoldingAt
    <3> QED BY <1>4, <1>6, <3>1, <3>3
  <2> QED BY <1>1, <2>2, <2>3
<1> QED BY <1>1, <1>7, <1>8

=============================================================================
