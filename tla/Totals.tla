--------------------------------- MODULE Totals ---------------------------------
(***************************************************************************)
(* Sums over finite sets.  SumFunctionOnSet(f, S) adds f[x] over S in the  *)
(* order CHOOSE gives; the lemmas say that the order does not matter and   *)
(* what a change of the set or of the function does to the sum.            *)
(*                                                                         *)
(* An induction over finite sets is done with a smallest counterexample.   *)
(***************************************************************************)
EXTENDS Integers, Functions, FiniteSetTheorems, WellFoundedInduction, TLAPS

LEMMA SmallestSet ==
  ASSUME NEW U, IsFiniteSet(U), NEW B \in SUBSET (SUBSET U), B # {}
  PROVE  \E S \in B : \A T \in B : T \subseteq S => T = S
<1>1. IsWellFoundedOn(StrictSubsetOrdering(U), SUBSET U)
  BY FS_StrictSubsetOrderingWellFounded, FS_FiniteSubsetsOfFinite
<1>2. PICK S \in B : \A T \in B : <<T, S>> \notin StrictSubsetOrdering(U)
  BY <1>1, WFMin
<1>3. \A T \in B : T \subseteq S => T = S
  BY <1>2 DEF StrictSubsetOrdering
<1>4. QED
  BY <1>3
-------------------------------------------------------------------------------
(* The recursive definition of the sum has one solution.                   *)

First(S) == CHOOSE x \in S : TRUE

LEMMA FirstIn == ASSUME NEW S, S # {} PROVE First(S) \in S
BY DEF First

SolvesSums(g, f, S) ==
  g = [T \in SUBSET S |-> IF T = {} THEN 0 ELSE f[First(T)] + g[T \ {First(T)}]]

Sums(f, S) == CHOOSE g : SolvesSums(g, f, S)

LEMMA SolutionAt ==
  ASSUME NEW f, NEW S, NEW g, SolvesSums(g, f, S)
  PROVE  \A T \in SUBSET S : g[T] = IF T = {} THEN 0 ELSE f[First(T)] + g[T \ {First(T)}]
BY DEF SolvesSums

LEMMA OneSolution ==
  ASSUME NEW f, NEW S, IsFiniteSet(S), NEW g, NEW h, SolvesSums(g, f, S), SolvesSums(h, f, S)
  PROVE  g = h
<1> DEFINE B == {T \in SUBSET S : g[T] # h[T]}
<1>1. CASE B # {}
  <2>0. B \in SUBSET (SUBSET S)
    OBVIOUS
  <2>1. PICK T \in B : \A R \in B : R \subseteq T => R = T
    <3> HIDE DEF B
    <3>1. QED
      BY <1>1, <2>0, SmallestSet
  <2>a. T \in SUBSET S /\ g[T] # h[T]
    OBVIOUS
  <2>2. g[T] = IF T = {} THEN 0 ELSE f[First(T)] + g[T \ {First(T)}]
    BY <2>a, SolutionAt
  <2>3. h[T] = IF T = {} THEN 0 ELSE f[First(T)] + h[T \ {First(T)}]
    <3>1. \A R \in SUBSET S : h[R] = IF R = {} THEN 0 ELSE f[First(R)] + h[R \ {First(R)}]
      BY SolutionAt
    <3>2. QED
      BY <2>a, <3>1
  <2>4. T # {} => g[T \ {First(T)}] = h[T \ {First(T)}]
    BY <2>1, <2>a, FirstIn
  <2>5. QED
    BY <2>2, <2>3, <2>4, <2>a
<1>2. CASE B = {}
  <2>1. g = [T \in SUBSET S |-> g[T]] /\ h = [T \in SUBSET S |-> h[T]]
    BY DEF SolvesSums
  <2>2. QED
    BY <1>2, <2>1
<1>3. QED
  BY <1>1, <1>2

LEMMA SmallerSolution ==
  ASSUME NEW f, NEW S, NEW g, SolvesSums(g, f, S), NEW R \in SUBSET S
  PROVE  SolvesSums([T \in SUBSET R |-> g[T]], f, R)
<1> DEFINE h == [T \in SUBSET R |-> g[T]]
<1>1. ASSUME NEW T \in SUBSET R
      PROVE  h[T] = IF T = {} THEN 0 ELSE f[First(T)] + h[T \ {First(T)}]
  <2>1. g[T] = IF T = {} THEN 0 ELSE f[First(T)] + g[T \ {First(T)}]
    BY SolutionAt
  <2>2. h[T] = g[T] /\ h[T \ {First(T)}] = g[T \ {First(T)}]
    OBVIOUS
  <2>3. QED
    BY <2>1, <2>2
<1>2. h = [T \in SUBSET R |-> IF T = {} THEN 0 ELSE f[First(T)] + h[T \ {First(T)}]]
  BY <1>1
<1>3. QED
  BY <1>2 DEF SolvesSums

LEMMA SomeSolution ==
  ASSUME NEW f, NEW S, IsFiniteSet(S)
  PROVE  \E g : SolvesSums(g, f, S)
<1> DEFINE B == {U \in SUBSET S : ~ \E g : SolvesSums(g, f, U)}
<1> SUFFICES ASSUME B # {} PROVE FALSE
  OBVIOUS
<1>0. B \in SUBSET (SUBSET S)
  OBVIOUS
<1>1. PICK U \in B : \A R \in B : R \subseteq U => R = U
  <2> HIDE DEF B
  <2>1. QED
    BY <1>0, SmallestSet
<1>2. \A R \in SUBSET U : IsFiniteSet(R)
  BY FS_Subset
<1> DEFINE G(R) == CHOOSE g : SolvesSums(g, f, R)
           v(R) == G(R)[R]
           w == [T \in SUBSET U |-> IF T = {} THEN 0 ELSE f[First(T)] + v(T \ {First(T)})]
<1>3. \A R \in SUBSET U : R # U => SolvesSums(G(R), f, R)
  BY <1>1
<1>4. ASSUME NEW R \in SUBSET U, R # U, NEW V \in SUBSET R PROVE G(R)[V] = v(V)
  <2>1. SolvesSums([T \in SUBSET V |-> G(R)[T]], f, V)
    BY <1>3, <1>4, SmallerSolution
  <2>2. V # U /\ SolvesSums(G(V), f, V)
    BY <1>3, <1>4
  <2>3. IsFiniteSet(V)
    BY <1>2
  <2>4. [T \in SUBSET V |-> G(R)[T]] = G(V)
    BY <2>1, <2>2, <2>3, OneSolution
  <2>5. QED
    BY <2>4
<1> HIDE DEF G
<1>5. ASSUME NEW R \in SUBSET U, R # U PROVE w[R] = v(R)
  <2>1. v(R) = IF R = {} THEN 0 ELSE f[First(R)] + G(R)[R \ {First(R)}]
    BY <1>3, <1>5, SolutionAt
  <2>2. R # {} => G(R)[R \ {First(R)}] = v(R \ {First(R)})
    BY <1>4, <1>5
  <2>3. QED
    BY <2>1, <2>2
<1>6. ASSUME NEW T \in SUBSET U, T # {} PROVE v(T \ {First(T)}) = w[T \ {First(T)}]
  <2>1. T \ {First(T)} \in SUBSET U /\ T \ {First(T)} # U
    BY <1>6, FirstIn
  <2>2. QED
    BY <1>5, <2>1
<1>7. w = [T \in SUBSET U |-> IF T = {} THEN 0 ELSE f[First(T)] + w[T \ {First(T)}]]
  <2> DEFINE rhs == [T \in SUBSET U |-> IF T = {} THEN 0 ELSE f[First(T)] + w[T \ {First(T)}]]
  <2>1. \A T \in SUBSET U : w[T] = rhs[T]
    BY <1>6
  <2>2. QED
    BY <2>1
<1>8. SolvesSums(w, f, U)
  BY <1>7 DEF SolvesSums
<1>9. QED
  BY <1>1, <1>8

LEMMA SumIsSolution ==
  ASSUME NEW f, NEW S, IsFiniteSet(S)
  PROVE  \E g : SolvesSums(g, f, S) /\ SumFunctionOnSet(f, S) = g[S]
<1>1. SumFunctionOnSet(f, S) = Sums(f, S)[S]
  BY DEF SumFunctionOnSet, FoldFunctionOnSet, MapThenFoldSet, Sums, SolvesSums, First
<1>2. SolvesSums(Sums(f, S), f, S)
  BY SomeSolution DEF Sums
<1>3. QED
  BY <1>1, <1>2

LEMMA SumRecursive ==
  ASSUME NEW f, NEW S, IsFiniteSet(S)
  PROVE  SumFunctionOnSet(f, S) =
           IF S = {} THEN 0 ELSE f[First(S)] + SumFunctionOnSet(f, S \ {First(S)})
<1>1. PICK g : SolvesSums(g, f, S) /\ SumFunctionOnSet(f, S) = g[S]
  BY SumIsSolution
<1>2. g[S] = IF S = {} THEN 0 ELSE f[First(S)] + g[S \ {First(S)}]
  <2>1. S \in SUBSET S
    OBVIOUS
  <2>2. \A R \in SUBSET S : g[R] = IF R = {} THEN 0 ELSE f[First(R)] + g[R \ {First(R)}]
    BY <1>1, SolutionAt
  <2>3. QED
    BY <2>1, <2>2
<1> DEFINE R == S \ {First(S)}
           h == [T \in SUBSET R |-> g[T]]
<1>3. R \in SUBSET S /\ IsFiniteSet(R)
  BY FS_Subset
<1>4. PICK k : SolvesSums(k, f, R) /\ SumFunctionOnSet(f, R) = k[R]
  BY <1>3, SumIsSolution
<1>5. SolvesSums(h, f, R)
  BY <1>1, <1>3, SmallerSolution
<1>6. k = h
  BY <1>3, <1>4, <1>5, OneSolution
<1>7. g[R] = SumFunctionOnSet(f, R)
  BY <1>4, <1>6
<1>8. QED
  BY <1>1, <1>2, <1>7
-------------------------------------------------------------------------------
(* The laws of sums.                                                       *)

(* A set of counterexamples is empty if each has a smaller one.            *)
LEMMA NoSmallest ==
  ASSUME NEW U, IsFiniteSet(U), NEW B \in SUBSET (SUBSET U),
         \A S \in B : \E T \in B : T \subseteq S /\ T # S
  PROVE  B = {}
BY SmallestSet

(* The empty sum.                                                          *)
LEMMA SumEmpty == ASSUME NEW f PROVE SumFunctionOnSet(f, {}) = 0
BY SumRecursive, FS_EmptySet

(* A sum of integers is one.                                               *)
LEMMA SumType ==
  ASSUME NEW S, IsFiniteSet(S), NEW f, \A x \in S : f[x] \in Int
  PROVE  SumFunctionOnSet(f, S) \in Int
<1> DEFINE B == {T \in SUBSET S : SumFunctionOnSet(f, T) \notin Int}
<1>1. ASSUME NEW T \in B PROVE \E R \in B : R \subseteq T /\ R # T
  <2>1. IsFiniteSet(T) /\ T \subseteq S
    BY FS_Subset
  <2>2. SumFunctionOnSet(f, T) = IF T = {} THEN 0 ELSE f[First(T)] + SumFunctionOnSet(f, T \ {First(T)})
    BY <2>1, SumRecursive
  <2>3. T # {}
    BY <2>2
  <2>4. First(T) \in T /\ f[First(T)] \in Int
    BY <2>1, <2>3, FirstIn
  <2>5. SumFunctionOnSet(f, T \ {First(T)}) \notin Int
    BY <2>2, <2>3, <2>4
  <2>6. QED
    BY <2>1, <2>4, <2>5
<1>2. B \in SUBSET (SUBSET S)
  OBVIOUS
<1>3. B = {}
  <2> HIDE DEF B
  <2>1. QED
    BY <1>1, <1>2, NoSmallest
<1>4. QED
  BY <1>3

(* The sum over a set that gains an element.                               *)
LEMMA SumAdd ==
  ASSUME NEW S, IsFiniteSet(S), NEW x, x \notin S,
         NEW f, f[x] \in Int, \A y \in S : f[y] \in Int
  PROVE  SumFunctionOnSet(f, S \cup {x}) = SumFunctionOnSet(f, S) + f[x]
<1> DEFINE sum(T) == SumFunctionOnSet(f, T)
           U == S \cup {x}
           B == {T \in SUBSET U : \E y \in U \ T : sum(T \cup {y}) # sum(T) + f[y]}
<1>0. ASSUME NEW T \in SUBSET U
      PROVE  /\ sum(T) \in Int
             /\ sum(T) = IF T = {} THEN 0 ELSE f[First(T)] + sum(T \ {First(T)})
  <2>1. IsFiniteSet(T)
    BY FS_AddElement, FS_Subset
  <2>2. \A y \in T : f[y] \in Int
    OBVIOUS
  <2>3. QED
    BY <2>1, <2>2, SumType, SumRecursive
<1> HIDE DEF sum
<1>1. ASSUME NEW T \in B PROVE \E R \in B : R \subseteq T /\ R # T
  <2>1. PICK y \in U \ T : sum(T \cup {y}) # sum(T) + f[y]
    OBVIOUS
  <2> DEFINE W == T \cup {y}
             p == First(W)
             R == T \ {p}
  <2>2. T \in SUBSET U /\ W \in SUBSET U /\ R \in SUBSET U /\ p \in W /\ f[p] \in Int /\ f[y] \in Int
    BY FirstIn
  <2>3. sum(W) = f[p] + sum(W \ {p})
    BY <1>0, <2>2
  <2>4. sum(W) \in Int /\ sum(T) \in Int /\ sum(R) \in Int
    BY <1>0, <2>2
  <2> HIDE DEF p
  <2>5. p # y
    <3> SUFFICES ASSUME p = y PROVE FALSE
      OBVIOUS
    <3>1. W \ {p} = T
      OBVIOUS
    <3>2. sum(W) = f[y] + sum(T)
      BY <2>3, <3>1
    <3>3. sum(W) = sum(T) + f[y]
      BY <2>2, <2>4, <3>2
    <3>4. QED
      BY <2>1, <3>3
  <2>6. W \ {p} = R \cup {y} /\ R # T /\ R \cup {p} = T /\ y \in U \ R /\ p \in U \ R
    BY <2>2, <2>5
  <2>7. R \in B
    <3> SUFFICES ASSUME R \notin B PROVE FALSE
      OBVIOUS
    <3>1. sum(R \cup {y}) = sum(R) + f[y] /\ sum(R \cup {p}) = sum(R) + f[p]
      BY <2>2, <2>6
    <3>2. sum(W) = f[p] + (sum(R) + f[y]) /\ sum(T) = sum(R) + f[p]
      BY <2>3, <2>6, <3>1
    <3>3. f[p] + (sum(R) + f[y]) = (sum(R) + f[p]) + f[y]
      <4> HIDE DEF R
      <4>1. QED
        BY <2>2, <2>4
    <3>4. QED
      BY <2>1, <3>2, <3>3
  <2>8. QED
    BY <2>6, <2>7
<1>2. B \in SUBSET (SUBSET U)
  OBVIOUS
<1>3. B = {}
  <2>1. IsFiniteSet(U)
    BY FS_AddElement
  <2> HIDE DEF B, U
  <2>2. QED
    BY <1>1, <1>2, <2>1, NoSmallest
<1>4. QED
  BY <1>3 DEF sum

(* The sum over a set that loses an element.                               *)
LEMMA SumRemove ==
  ASSUME NEW S, IsFiniteSet(S), NEW x \in S, NEW f, \A y \in S : f[y] \in Int
  PROVE  SumFunctionOnSet(f, S) = SumFunctionOnSet(f, S \ {x}) + f[x]
<1> DEFINE R == S \ {x}
<1>1. IsFiniteSet(R) /\ x \notin R /\ R \cup {x} = S /\ f[x] \in Int /\ \A y \in R : f[y] \in Int
  BY FS_RemoveElement
<1> HIDE DEF R
<1>2. SumFunctionOnSet(f, R \cup {x}) = SumFunctionOnSet(f, R) + f[x]
  BY <1>1, SumAdd
<1>3. QED
  BY <1>1, <1>2 DEF R

(* A sum only depends on the values it adds.                               *)
LEMMA SumAgree ==
  ASSUME NEW S, IsFiniteSet(S), NEW f, NEW g, \A x \in S : f[x] = g[x]
  PROVE  SumFunctionOnSet(f, S) = SumFunctionOnSet(g, S)
<1> DEFINE B == {T \in SUBSET S : SumFunctionOnSet(f, T) # SumFunctionOnSet(g, T)}
<1>1. ASSUME NEW T \in B PROVE \E R \in B : R \subseteq T /\ R # T
  <2>1. IsFiniteSet(T) /\ T \subseteq S /\ SumFunctionOnSet(f, T) # SumFunctionOnSet(g, T)
    BY FS_Subset
  <2> DEFINE R == T \ {First(T)}
  <2>2. /\ SumFunctionOnSet(f, T) = IF T = {} THEN 0 ELSE f[First(T)] + SumFunctionOnSet(f, R)
        /\ SumFunctionOnSet(g, T) = IF T = {} THEN 0 ELSE g[First(T)] + SumFunctionOnSet(g, R)
    BY <2>1, SumRecursive
  <2>3. T # {}
    BY <2>1, <2>2
  <2>4. First(T) \in T /\ f[First(T)] = g[First(T)]
    BY <2>1, <2>3, FirstIn
  <2>5. SumFunctionOnSet(f, R) # SumFunctionOnSet(g, R)
    BY <2>1, <2>2, <2>3, <2>4
  <2>6. QED
    BY <2>1, <2>4, <2>5
<1>2. B \in SUBSET (SUBSET S)
  OBVIOUS
<1>3. B = {}
  <2> HIDE DEF B
  <2>1. QED
    BY <1>1, <1>2, NoSmallest
<1>4. QED
  BY <1>3

(* Zeros add up to nothing.                                                *)
LEMMA SumZero ==
  ASSUME NEW S, IsFiniteSet(S), NEW f, \A x \in S : f[x] = 0
  PROVE  SumFunctionOnSet(f, S) = 0
<1> DEFINE B == {T \in SUBSET S : SumFunctionOnSet(f, T) # 0}
<1>1. ASSUME NEW T \in B PROVE \E R \in B : R \subseteq T /\ R # T
  <2>1. IsFiniteSet(T) /\ T \subseteq S /\ SumFunctionOnSet(f, T) # 0
    BY FS_Subset
  <2> DEFINE R == T \ {First(T)}
  <2>2. SumFunctionOnSet(f, T) = IF T = {} THEN 0 ELSE f[First(T)] + SumFunctionOnSet(f, R)
    BY <2>1, SumRecursive
  <2>3. T # {}
    BY <2>1, <2>2
  <2>4. First(T) \in T /\ f[First(T)] = 0
    BY <2>1, <2>3, FirstIn
  <2>5. SumFunctionOnSet(f, R) # 0
    BY <2>1, <2>2, <2>3, <2>4
  <2>6. QED
    BY <2>1, <2>4, <2>5
<1>2. B \in SUBSET (SUBSET S)
  OBVIOUS
<1>3. B = {}
  <2> HIDE DEF B
  <2>1. QED
    BY <1>1, <1>2, NoSmallest
<1>4. QED
  BY <1>3

(* Larger values have a larger sum.                                        *)
LEMMA SumMonotone ==
  ASSUME NEW S, IsFiniteSet(S), NEW f, NEW g, \A x \in S : f[x] \in Int /\ g[x] \in Int /\ f[x] <= g[x]
  PROVE  SumFunctionOnSet(f, S) <= SumFunctionOnSet(g, S)
<1> DEFINE sum(h, T) == SumFunctionOnSet(h, T)
           B == {T \in SUBSET S : ~ (sum(f, T) <= sum(g, T))}
<1>1. ASSUME NEW T \in B PROVE \E R \in B : R \subseteq T /\ R # T
  <2>1. IsFiniteSet(T) /\ T \in SUBSET S /\ ~ (sum(f, T) <= sum(g, T))
    BY FS_Subset
  <2> DEFINE p == First(T)
             R == T \ {p}
  <2>2. R \in SUBSET S /\ IsFiniteSet(R)
    BY <2>1, FS_Subset
  <2>3. /\ sum(f, T) = IF T = {} THEN 0 ELSE f[p] + sum(f, R)
        /\ sum(g, T) = IF T = {} THEN 0 ELSE g[p] + sum(g, R)
    BY <2>1, SumRecursive
  <2>4. sum(f, R) \in Int /\ sum(g, R) \in Int
    <3>1. \A x \in R : f[x] \in Int /\ g[x] \in Int
      BY <2>2
    <3>2. QED
      BY <2>2, <3>1, SumType
  <2> HIDE DEF sum
  <2>5. T # {}
    BY <2>1, <2>3
  <2>6. p \in T /\ f[p] \in Int /\ g[p] \in Int /\ f[p] <= g[p]
    BY <2>1, <2>5, FirstIn
  <2>7. ~ (sum(f, R) <= sum(g, R))
    <3> HIDE DEF p, R
    <3>1. QED
      BY <2>1, <2>3, <2>4, <2>5, <2>6
  <2>8. QED
    BY <2>2, <2>6, <2>7
<1>2. B \in SUBSET (SUBSET S)
  OBVIOUS
<1>3. B = {}
  <2> HIDE DEF B
  <2>1. QED
    BY <1>1, <1>2, NoSmallest
<1>4. QED
  BY <1>3

(* The sum when one value changes.                                         *)
LEMMA SumChange ==
  ASSUME NEW S, IsFiniteSet(S), NEW x \in S, NEW f, NEW g,
         \A y \in S : f[y] \in Int /\ g[y] \in Int,
         \A y \in S \ {x} : f[y] = g[y]
  PROVE  SumFunctionOnSet(g, S) = SumFunctionOnSet(f, S) + (g[x] - f[x])
<1> DEFINE R == S \ {x}
<1>1. IsFiniteSet(R) /\ \A y \in R : f[y] \in Int /\ g[y] \in Int /\ f[y] = g[y]
  BY FS_RemoveElement
<1>2. SumFunctionOnSet(f, R) = SumFunctionOnSet(g, R)
  <2> HIDE DEF R
  <2>1. QED
    BY <1>1, SumAgree
<1>3. /\ SumFunctionOnSet(f, S) = SumFunctionOnSet(f, R) + f[x]
      /\ SumFunctionOnSet(g, S) = SumFunctionOnSet(g, R) + g[x]
  BY SumRemove
<1>4. SumFunctionOnSet(f, R) \in Int
  <2> HIDE DEF R
  <2>1. QED
    BY <1>1, SumType
<1>5. f[x] \in Int /\ g[x] \in Int
  OBVIOUS
<1>6. QED
  <2> HIDE DEF R
  <2>1. QED
    BY <1>2, <1>3, <1>4, <1>5

(* A sum of naturals is one, and bounds each of its terms.                 *)
LEMMA SumNat ==
  ASSUME NEW S, IsFiniteSet(S), NEW f, \A x \in S : f[x] \in Nat
  PROVE  /\ SumFunctionOnSet(f, S) \in Nat
         /\ \A x \in S : f[x] <= SumFunctionOnSet(f, S)
<1>1. ASSUME NEW T \in SUBSET S PROVE SumFunctionOnSet(f, T) \in Nat
  <2> DEFINE zero == [x \in T |-> 0]
  <2>1. IsFiniteSet(T) /\ \A x \in T : f[x] \in Int /\ zero[x] \in Int /\ zero[x] <= f[x]
    BY FS_Subset
  <2>2. SumFunctionOnSet(f, T) \in Int
    BY <2>1, SumType
  <2>3. SumFunctionOnSet(zero, T) <= SumFunctionOnSet(f, T)
    <3> HIDE DEF zero
    <3>1. QED
      BY <2>1, SumMonotone
  <2>4. SumFunctionOnSet(zero, T) = 0
    BY <2>1, SumZero
  <2>5. QED
    BY <2>2, <2>3, <2>4
<1>2. ASSUME NEW x \in S PROVE f[x] <= SumFunctionOnSet(f, S)
  <2>1. SumFunctionOnSet(f, S) = SumFunctionOnSet(f, S \ {x}) + f[x]
    BY SumRemove
  <2>2. SumFunctionOnSet(f, S \ {x}) \in Nat /\ f[x] \in Nat
    BY <1>1
  <2>3. QED
    BY <2>1, <2>2
<1>3. QED
  BY <1>1, <1>2

(* A union adds up to no more than its parts.                              *)
LEMMA SumCup ==
  ASSUME NEW A, IsFiniteSet(A), NEW C, IsFiniteSet(C), NEW f, \A x \in A \cup C : f[x] \in Nat
  PROVE  SumFunctionOnSet(f, A \cup C) <= SumFunctionOnSet(f, A) + SumFunctionOnSet(f, C)
<1> DEFINE sum(T) == SumFunctionOnSet(f, T)
           B == {T \in SUBSET C : ~ (sum(A \cup T) <= sum(A) + sum(T))}
<1>1. ASSUME NEW T \in SUBSET C
      PROVE  /\ IsFiniteSet(T) /\ IsFiniteSet(A \cup T)
             /\ sum(T) \in Nat /\ sum(A) \in Nat /\ sum(A \cup T) \in Nat
  <2>1. IsFiniteSet(T) /\ IsFiniteSet(A \cup T)
    BY FS_Subset, FS_Union
  <2>2. QED
    BY <2>1, SumNat
<1>2. ASSUME NEW T \in B PROVE \E R \in B : R \subseteq T /\ R # T
  <2>1. T \in SUBSET C /\ ~ (sum(A \cup T) <= sum(A) + sum(T))
    OBVIOUS
  <2>2. T # {}
    <3> SUFFICES ASSUME T = {} PROVE FALSE
      OBVIOUS
    <3>1. sum(T) = 0 /\ A \cup T = A
      BY SumEmpty
    <3>2. QED
      BY <1>1, <2>1, <3>1
  <2>3. PICK x \in T : TRUE
    BY <2>2
  <2> DEFINE R == T \ {x}
  <2>4. R \in SUBSET C /\ (A \cup R) \cup {x} = A \cup T /\ f[x] \in Nat
    BY <2>1
  <2>5. sum(T) = sum(R) + f[x]
    <3>1. IsFiniteSet(T) /\ \A y \in T : f[y] \in Int
      BY <1>1, <2>1
    <3>2. QED
      BY <2>3, <3>1, SumRemove
  <2>6. sum(A \cup T) = IF x \in A \cup R THEN sum(A \cup R) ELSE sum(A \cup R) + f[x]
    <3>1. CASE x \in A \cup R
      <4>1. A \cup T = A \cup R
        BY <3>1
      <4>2. QED
        BY <3>1, <4>1
    <3>2. CASE x \notin A \cup R
      <4>1. IsFiniteSet(A \cup R) /\ f[x] \in Int /\ \A y \in A \cup R : f[y] \in Int
        <5>1. IsFiniteSet(A \cup R)
          BY <1>1, <2>4
        <5>2. \A y \in A \cup R : y \in A \cup C
          BY <2>4
        <5>3. QED
          BY <2>4, <5>1, <5>2
      <4> DEFINE W == A \cup R
      <4>2. SumFunctionOnSet(f, W \cup {x}) = SumFunctionOnSet(f, W) + f[x]
        <5> HIDE DEF W
        <5>1. QED
          BY <3>2, <4>1, SumAdd DEF W
      <4>3. QED
        BY <2>4, <3>2, <4>2
    <3>3. QED
      BY <3>1, <3>2
  <2>7. R \in B
    <3> SUFFICES ASSUME sum(A \cup R) <= sum(A) + sum(R) PROVE FALSE
      BY <2>4
    <3>1. sum(R) \in Nat /\ sum(A) \in Nat /\ sum(A \cup R) \in Nat /\ f[x] \in Nat
      BY <1>1, <2>4
    <3> HIDE DEF sum, R
    <3>2. QED
      BY <2>1, <2>5, <2>6, <3>1
  <2>8. QED
    BY <2>3, <2>7
<1>3. B \in SUBSET (SUBSET C)
  OBVIOUS
<1>4. B = {}
  <2> HIDE DEF B
  <2>1. QED
    BY <1>2, <1>3, NoSmallest
<1>5. QED
  BY <1>4

(* A set covered by n sets that add up to at most c each.                  *)
LEMMA SumCover ==
  ASSUME NEW S, IsFiniteSet(S), NEW P, NEW f, NEW c \in Nat,
         \A i \in S : /\ IsFiniteSet(P[i])
                      /\ \A x \in P[i] : f[x] \in Nat
                      /\ SumFunctionOnSet(f, P[i]) <= c
  PROVE  /\ IsFiniteSet(UNION {P[i] : i \in S})
         /\ SumFunctionOnSet(f, UNION {P[i] : i \in S}) <= c * Cardinality(S)
<1> DEFINE Cover(T) == UNION {P[i] : i \in T}
           Covered(T) == IsFiniteSet(Cover(T)) /\ SumFunctionOnSet(f, Cover(T)) <= c * Cardinality(T)
           B == {T \in SUBSET S : ~ Covered(T)}
<1>1. ASSUME NEW T \in B PROVE \E R \in B : R \subseteq T /\ R # T
  <2>1. T \in SUBSET S /\ IsFiniteSet(T) /\ ~ Covered(T)
    BY FS_Subset
  <2>2. T # {}
    <3> SUFFICES ASSUME T = {} PROVE FALSE
      OBVIOUS
    <3>1. Cover(T) = {} /\ Cardinality(T) = 0
      BY FS_EmptySet
    <3>2. QED
      BY <2>1, <3>1, FS_EmptySet, SumEmpty
  <2>3. PICK i \in T : TRUE
    BY <2>2
  <2> DEFINE R == T \ {i}
  <2>4. /\ R \in SUBSET S /\ IsFiniteSet(R) /\ Cardinality(R) \in Nat
        /\ Cardinality(T) = Cardinality(R) + 1
    <3>1. IsFiniteSet(R) /\ Cardinality(R) = Cardinality(T) - 1
      BY <2>1, <2>3, FS_RemoveElement
    <3>2. Cardinality(R) \in Nat /\ Cardinality(T) \in Nat
      BY <2>1, <3>1, FS_CardinalityType
    <3>3. QED
      BY <2>1, <3>1, <3>2
  <2>5. R \in B
    <3> SUFFICES ASSUME Covered(R) PROVE FALSE
      BY <2>4
    <3>1. Cover(T) = Cover(R) \cup P[i]
      BY <2>3
    <3>2. /\ IsFiniteSet(Cover(R)) /\ IsFiniteSet(P[i])
          /\ \A x \in Cover(R) : f[x] \in Nat
          /\ \A x \in P[i] : f[x] \in Nat
          /\ SumFunctionOnSet(f, P[i]) <= c
      BY <2>1, <2>3
    <3>3. SumFunctionOnSet(f, Cover(R)) <= c * Cardinality(R)
      OBVIOUS
    <3> HIDE DEF Cover
    <3>4. IsFiniteSet(Cover(T))
      <4>1. IsFiniteSet(Cover(R) \cup P[i])
        BY <3>2, FS_Union
      <4>2. QED
        BY <3>1, <4>1
    <3>5. SumFunctionOnSet(f, Cover(T)) <= SumFunctionOnSet(f, Cover(R)) + SumFunctionOnSet(f, P[i])
      BY <3>1, <3>2, SumCup
    <3>6. /\ SumFunctionOnSet(f, Cover(T)) \in Nat /\ SumFunctionOnSet(f, Cover(R)) \in Nat
          /\ SumFunctionOnSet(f, P[i]) \in Nat
      BY <3>1, <3>2, <3>4, SumNat
    <3>7. c * (Cardinality(R) + 1) = c * Cardinality(R) + c /\ c * Cardinality(R) \in Nat
      BY <2>4
    <3>8. SumFunctionOnSet(f, Cover(T)) <= c * Cardinality(T)
      <4> HIDE DEF R
      <4>1. QED
        BY <2>4, <3>2, <3>3, <3>5, <3>6, <3>7
    <3>9. QED
      BY <2>1, <3>4, <3>8
  <2>6. QED
    BY <2>3, <2>5
<1>2. B \in SUBSET (SUBSET S)
  OBVIOUS
<1>3. B = {}
  <2> HIDE DEF B
  <2>1. QED
    BY <1>1, <1>2, NoSmallest
<1>4. QED
  BY <1>3

(* Ones add up to the number of elements.                                  *)
LEMMA SumOnes ==
  ASSUME NEW S, IsFiniteSet(S), NEW f, \A x \in S : f[x] = 1
  PROVE  SumFunctionOnSet(f, S) = Cardinality(S)
<1> DEFINE B == {T \in SUBSET S : SumFunctionOnSet(f, T) # Cardinality(T)}
<1>1. ASSUME NEW T \in B PROVE \E R \in B : R \subseteq T /\ R # T
  <2>1. T \in SUBSET S /\ IsFiniteSet(T) /\ SumFunctionOnSet(f, T) # Cardinality(T)
    BY FS_Subset
  <2>2. T # {}
    BY <2>1, SumEmpty, FS_EmptySet
  <2>3. PICK x \in T : TRUE
    BY <2>2
  <2> DEFINE R == T \ {x}
  <2>4. SumFunctionOnSet(f, T) = SumFunctionOnSet(f, R) + 1
    <3>1. \A y \in T : f[y] \in Int
      BY <2>1
    <3>2. f[x] = 1
      BY <2>1
    <3>3. QED
      BY <2>1, <3>1, <3>2, SumRemove
  <2>5. IsFiniteSet(R) /\ Cardinality(R) = Cardinality(T) - 1 /\ Cardinality(T) \in Nat
    BY <2>1, FS_RemoveElement, FS_CardinalityType
  <2>6. SumFunctionOnSet(f, R) # Cardinality(R)
    <3> HIDE DEF R
    <3>1. QED
      BY <2>1, <2>4, <2>5
  <2>7. QED
    BY <2>1, <2>6
<1>2. B \in SUBSET (SUBSET S)
  OBVIOUS
<1>3. B = {}
  <2> HIDE DEF B
  <2>1. QED
    BY <1>1, <1>2, NoSmallest
<1>4. QED
  BY <1>3

(* A set covered by n sets of at most c elements each.                     *)
LEMMA CardinalityCover ==
  ASSUME NEW S, IsFiniteSet(S), NEW P, NEW c \in Nat,
         \A i \in S : IsFiniteSet(P[i]) /\ Cardinality(P[i]) <= c
  PROVE  /\ IsFiniteSet(UNION {P[i] : i \in S})
         /\ Cardinality(UNION {P[i] : i \in S}) <= c * Cardinality(S)
<1> DEFINE U == UNION {P[i] : i \in S}
           one == [x \in U |-> 1]
<1>1. ASSUME NEW i \in S
      PROVE  /\ \A x \in P[i] : one[x] = 1 /\ one[x] \in Nat
             /\ SumFunctionOnSet(one, P[i]) <= c
  <2>1. \A x \in P[i] : one[x] = 1
    OBVIOUS
  <2>2. SumFunctionOnSet(one, P[i]) = Cardinality(P[i])
    <3> HIDE DEF one
    <3>1. QED
      BY <2>1, SumOnes
  <2>3. QED
    BY <2>1, <2>2
<1>2. \A x \in U : one[x] = 1
  OBVIOUS
<1> HIDE DEF one
<1>3. IsFiniteSet(U) /\ SumFunctionOnSet(one, U) <= c * Cardinality(S)
  BY <1>1, SumCover
<1>4. SumFunctionOnSet(one, U) = Cardinality(U)
  <2> HIDE DEF U
  <2>1. QED
    BY <1>2, <1>3, SumOnes
<1>5. QED
  BY <1>3, <1>4
================================================================================
