------------------------------ MODULE SumLemmas ------------------------------
(***************************************************************************)
(* What the sums of the models (SumFunction of the community modules) are, *)
(* for every finite set: they do not depend on the order in which the fold *)
(* takes the elements, and change with a term by as much as the term does. *)
(* The inductions are over sets of sets, from the well-foundedness that    *)
(* the library states: its induction theorems need an operator argument.   *)
(***************************************************************************)
EXTENDS Integers, FiniteSets, Functions, FiniteSetTheorems, TLAPS

\* A set of subsets that has {} and every subset with one element more is all.
LEMMA SetInduction ==
  ASSUME NEW S, IsFiniteSet(S), NEW Q \in SUBSET SUBSET S, {} \in Q,
         \A T \in Q : \A x \in S \ T : T \cup {x} \in Q
  PROVE  Q = SUBSET S
<1> SUFFICES ASSUME Q # SUBSET S PROVE FALSE
  OBVIOUS
<1> DEFINE Rest == (SUBSET S) \ Q
<1>1. Rest # {} /\ Rest \subseteq SUBSET S
  OBVIOUS
<1>2. IsWellFoundedOn(StrictSubsetOrdering(S), SUBSET S)
  BY FS_StrictSubsetOrderingWellFounded, FS_FiniteSubsetsOfFinite
<1>3. PICK T \in Rest : \A U \in Rest : <<U, T>> \notin StrictSubsetOrdering(S)
  <2> HIDE DEF Rest
  <2> QED BY <1>1, <1>2, WFMin
<1>4. PICK x \in T : TRUE
  BY <1>3
<1>5. T \ {x} \notin Rest
  BY <1>3, <1>4 DEF StrictSubsetOrdering
<1>6. (T \ {x}) \cup {x} \in Q
  BY <1>5, <1>4, <1>3
<1>7. (T \ {x}) \cup {x} = T
  BY <1>4
<1> QED
  BY <1>6, <1>7, <1>3

\* The same for the naturals.
LEMMA NatSetInduction ==
  ASSUME NEW Q \in SUBSET Nat, 0 \in Q, \A n \in Q : n + 1 \in Q
  PROVE  Q = Nat
<1> SUFFICES ASSUME Q # Nat PROVE FALSE
  OBVIOUS
<1> DEFINE Rest == Nat \ Q
           Less == OpToRel(<, Nat)
<1>1. Rest # {} /\ Rest \subseteq Nat
  OBVIOUS
<1>2. IsWellFoundedOn(Less, Nat)
  BY NatLessThanWellFounded
<1>3. \A i, j \in Nat : i < j => <<i, j>> \in Less
  BY DEF OpToRel
<1> HIDE DEF Less
<1>4. PICK n \in Rest : \A k \in Rest : <<k, n>> \notin Less
  <2> HIDE DEF Rest
  <2> QED BY <1>1, <1>2, WFMin
<1>5. n # 0 /\ n - 1 \in Nat /\ n - 1 < n
  BY <1>4
<1>6. n - 1 \in Q
  BY <1>3, <1>4, <1>5
<1> QED
  BY <1>6, <1>5, <1>4

-----------------------------------------------------------------------------
(* The recursion inside the fold *)

Chosen(s) == CHOOSE x \in s : TRUE

\* One step of the fold: the sum over s of fun, from sums over less.
FoldStep(fun, g, s) == IF s = {} THEN 0 ELSE fun[Chosen(s)] + g[s \ {Chosen(s)}]

Fold(fun, S) == CHOOSE g : g = [s \in SUBSET S |-> FoldStep(fun, g, s)]

LEMMA SumIsFold ==
  ASSUME NEW fun, NEW S
  PROVE  SumFunctionOnSet(fun, S) = Fold(fun, S)[S]
  BY DEF SumFunctionOnSet, FoldFunctionOnSet, MapThenFoldSet, Fold, FoldStep, Chosen

LEMMA ChosenLeavesLess ==
  ASSUME NEW s, s # {}, IsFiniteSet(s)
  PROVE  /\ Chosen(s) \in s /\ IsFiniteSet(s \ {Chosen(s)})
         /\ Cardinality(s) \in Nat
         /\ Cardinality(s \ {Chosen(s)}) = Cardinality(s) - 1
         /\ Cardinality(s) - 1 \in Nat
<1>1. Chosen(s) \in s
  BY DEF Chosen
<1>2. Cardinality(s) \in Nat /\ IsFiniteSet(s \ {Chosen(s)})
  BY FS_CardinalityType, FS_RemoveElement
<1>3. Cardinality(s \ {Chosen(s)}) = Cardinality(s) - 1
  BY <1>1, FS_RemoveElement
<1>4. Cardinality(s) # 0
  BY FS_EmptySet
<1> QED
  BY <1>1, <1>2, <1>3, <1>4

\* A function that satisfies the recursion up to every size.
LEMMA FoldExists ==
  ASSUME NEW fun, NEW S, IsFiniteSet(S)
  PROVE  \E g : g = [s \in SUBSET S |-> FoldStep(fun, g, s)]
<1> DEFINE Small(n) == {s \in SUBSET S : Cardinality(s) <= n}
           Upto(g, n) == /\ g = [s \in SUBSET S |-> g[s]]
                         /\ \A s \in Small(n) : g[s] = FoldStep(fun, g, s)
           Q == {n \in Nat : \E g : Upto(g, n)}
<1>1. \A s \in SUBSET S : /\ IsFiniteSet(s) /\ Cardinality(s) \in Nat
                          /\ (Cardinality(s) = 0 => s = {})
  BY FS_Subset, FS_CardinalityType, FS_EmptySet
<1>2. 0 \in Q
  <2>1. \A s \in Small(0) : s = {}
    BY <1>1
  <2>2. Upto([s \in SUBSET S |-> 0], 0)
    BY <2>1 DEF FoldStep
  <2> QED BY <2>2
<1>3. ASSUME NEW n \in Q PROVE n + 1 \in Q
  <2>1. PICK g : Upto(g, n)
    OBVIOUS
  <2> DEFINE h == [s \in SUBSET S |-> FoldStep(fun, g, s)]
  <2>2. ASSUME NEW s \in Small(n + 1) PROVE h[s] = FoldStep(fun, h, s)
    <3>1. CASE s = {}
      BY <3>1 DEF FoldStep
    <3>2. CASE s # {}
      <4>1. s \ {Chosen(s)} \in Small(n)
        BY <3>2, <1>1, ChosenLeavesLess
      <4>2. h[s \ {Chosen(s)}] = g[s \ {Chosen(s)}]
        BY <4>1, <2>1
      <4> QED BY <4>2, <3>2 DEF FoldStep
    <3> QED BY <3>1, <3>2
  <2>3. Upto(h, n + 1)
    BY <2>2
  <2>4. n + 1 \in Nat
    OBVIOUS
  <2> HIDE DEF Upto, h
  <2> QED BY <2>3, <2>4
<1>4. Q = Nat
  <2> HIDE DEF Q
  <2>1. Q \in SUBSET Nat
    BY DEF Q
  <2> QED BY <2>1, <1>2, <1>3, NatSetInduction
<1>5. Cardinality(S) \in Nat /\ \A s \in SUBSET S : Cardinality(s) <= Cardinality(S)
  BY FS_CardinalityType, FS_Subset
<1>6. PICK g : Upto(g, Cardinality(S))
  BY <1>4, <1>5
<1>7. \A s \in SUBSET S : g[s] = FoldStep(fun, g, s)
  BY <1>5, <1>6
<1>8. g = [s \in SUBSET S |-> FoldStep(fun, g, s)]
  BY <1>6, <1>7
<1> QED
  BY <1>8

LEMMA FoldIsStep ==
  ASSUME NEW fun, NEW S, IsFiniteSet(S), NEW s \in SUBSET S
  PROVE  Fold(fun, S)[s] = FoldStep(fun, Fold(fun, S), s)
<1>1. Fold(fun, S) = [t \in SUBSET S |-> FoldStep(fun, Fold(fun, S), t)]
  BY FoldExists DEF Fold
<1> QED
  BY <1>1

\* What is below s decides the fold at s.
LEMMA FoldIsLocal ==
  ASSUME NEW fun, NEW S, IsFiniteSet(S), NEW T \in SUBSET S
  PROVE  Fold(fun, T)[T] = Fold(fun, S)[T]
<1> DEFINE Same(n) == \A s \in SUBSET T :
             Cardinality(s) <= n => Fold(fun, T)[s] = Fold(fun, S)[s]
           Q == {n \in Nat : Same(n)}
<1>1. IsFiniteSet(T) /\ Cardinality(T) \in Nat
  BY FS_Subset, FS_CardinalityType
<1>2. \A s \in SUBSET T : /\ IsFiniteSet(s) /\ Cardinality(s) \in Nat
                          /\ (Cardinality(s) = 0 => s = {})
  BY <1>1, FS_Subset, FS_CardinalityType, FS_EmptySet
<1>3. ASSUME NEW s \in SUBSET T
      PROVE  /\ Fold(fun, T)[s] = FoldStep(fun, Fold(fun, T), s)
             /\ Fold(fun, S)[s] = FoldStep(fun, Fold(fun, S), s)
  BY <1>1, FoldIsStep
<1>4. 0 \in Q
  <2>1. \A s \in SUBSET T : Cardinality(s) <= 0 => s = {}
    BY <1>2
  <2> QED BY <2>1, <1>3 DEF FoldStep
<1>5. ASSUME NEW n \in Q PROVE n + 1 \in Q
  <2>1. ASSUME NEW s \in SUBSET T, Cardinality(s) <= n + 1
        PROVE  Fold(fun, T)[s] = Fold(fun, S)[s]
    <3>1. CASE s = {}
      BY <3>1, <1>3 DEF FoldStep
    <3>2. CASE s # {}
      <4>1. Cardinality(s \ {Chosen(s)}) <= n
        BY <3>2, <1>2, <2>1, ChosenLeavesLess
      <4>2. Fold(fun, T)[s \ {Chosen(s)}] = Fold(fun, S)[s \ {Chosen(s)}]
        BY <4>1
      <4> QED BY <4>2, <3>2, <1>3 DEF FoldStep
    <3> QED BY <3>1, <3>2
  <2> QED BY <2>1
<1>6. Q = Nat
  <2> HIDE DEF Q
  <2>1. Q \in SUBSET Nat
    BY DEF Q
  <2> QED BY <2>1, <1>4, <1>5, NatSetInduction
<1> QED
  BY <1>1, <1>6

-----------------------------------------------------------------------------
(* Sums *)

LEMMA SumEmpty == ASSUME NEW fun PROVE SumFunctionOnSet(fun, {}) = 0
  BY FS_EmptySet, SumIsFold, FoldIsStep DEF FoldStep

LEMMA SumChosen ==
  ASSUME NEW fun, NEW S, IsFiniteSet(S), S # {}
  PROVE  /\ Chosen(S) \in S
         /\ SumFunctionOnSet(fun, S) =
              fun[Chosen(S)] + SumFunctionOnSet(fun, S \ {Chosen(S)})
<1>1. SumFunctionOnSet(fun, S) = fun[Chosen(S)] + Fold(fun, S)[S \ {Chosen(S)}]
  BY SumIsFold, FoldIsStep DEF FoldStep
<1>2. Fold(fun, S)[S \ {Chosen(S)}] = SumFunctionOnSet(fun, S \ {Chosen(S)})
  BY SumIsFold, FoldIsLocal
<1> QED
  BY <1>1, <1>2, ChosenLeavesLess

\* An order of the elements is not needed: any of them may come first.
LEMMA SumRemove ==
  ASSUME NEW fun, NEW S, IsFiniteSet(S), \A x \in S : fun[x] \in Int, NEW x \in S
  PROVE  SumFunctionOnSet(fun, S) = fun[x] + SumFunctionOnSet(fun, S \ {x})
<1> DEFINE Sum(s) == SumFunctionOnSet(fun, s)
           Good(s) == Sum(s) \in Int /\ \A y \in s : Sum(s) = fun[y] + Sum(s \ {y})
           Q == {n \in Nat : \A s \in SUBSET S : Cardinality(s) <= n => Good(s)}
<1>1. \A s \in SUBSET S : /\ IsFiniteSet(s) /\ Cardinality(s) \in Nat
                          /\ (Cardinality(s) = 0 => s = {})
  BY FS_Subset, FS_CardinalityType, FS_EmptySet
<1>2. 0 \in Q
  BY <1>1, SumEmpty
<1>3. ASSUME NEW n \in Q PROVE n + 1 \in Q
  <2>1. ASSUME NEW s \in SUBSET S, Cardinality(s) <= n + 1 PROVE Good(s)
    <3>1. CASE s = {}
      BY <3>1, SumEmpty
    <3>2. CASE s # {}
      <4> DEFINE c == Chosen(s)
      <4>1. /\ c \in s /\ IsFiniteSet(s \ {c})
            /\ Cardinality(s \ {c}) <= n
        BY <3>2, <1>1, <2>1, ChosenLeavesLess
      <4>2. Sum(s) = fun[c] + Sum(s \ {c})
        BY <3>2, <1>1, SumChosen
      <4>3. Sum(s \ {c}) \in Int /\ fun[c] \in Int
        BY <4>1
      <4>4. ASSUME NEW y \in s, y # c PROVE Sum(s) = fun[y] + Sum(s \ {y})
        <5>1. Sum(s \ {c}) = fun[y] + Sum((s \ {c}) \ {y})
          BY <4>1, <4>4
        <5>2. /\ IsFiniteSet(s \ {y}) /\ Cardinality(s \ {y}) <= n
              /\ c \in s \ {y}
          BY <4>1, <4>4, <1>1, <2>1, FS_RemoveElement
        <5>3. Sum(s \ {y}) = fun[c] + Sum((s \ {y}) \ {c})
          BY <5>2
        <5>4. (s \ {c}) \ {y} = (s \ {y}) \ {c}
          OBVIOUS
        <5>5. Sum((s \ {y}) \ {c}) \in Int
          <6>1. Cardinality((s \ {y}) \ {c}) <= n
            BY <5>2, FS_RemoveElement, <1>1
          <6> QED BY <6>1
        <5> HIDE DEF Sum, c
        <5> QED BY <5>1, <5>3, <5>4, <5>5, <4>2, <4>3
      <4> HIDE DEF Sum, c
      <4> QED BY <4>2, <4>3, <4>4
    <3> QED BY <3>1, <3>2
  <2> QED BY <2>1
<1>4. Q = Nat
  <2> HIDE DEF Q
  <2>1. Q \in SUBSET Nat
    BY DEF Q
  <2> QED BY <2>1, <1>2, <1>3, NatSetInduction
<1> QED
  BY <1>1, <1>4

\* One element more is its value more.
LEMMA SumAdd ==
  ASSUME NEW fun, NEW S, IsFiniteSet(S), NEW T \in SUBSET S, NEW x \in S \ T,
         \A y \in S : fun[y] \in Int
  PROVE  SumFunctionOnSet(fun, T \cup {x}) = fun[x] + SumFunctionOnSet(fun, T)
<1>1. IsFiniteSet(T \cup {x}) /\ (T \cup {x}) \ {x} = T
  BY FS_Subset
<1> QED
  BY <1>1, SumRemove

\* Sums of integers are integers, of naturals naturals.
LEMMA SumTyped ==
  ASSUME NEW fun, NEW S, IsFiniteSet(S)
  PROVE  /\ (\A x \in S : fun[x] \in Int) => SumFunctionOnSet(fun, S) \in Int
         /\ (\A x \in S : fun[x] \in Nat) => SumFunctionOnSet(fun, S) \in Nat
<1>1. ASSUME NEW V \in {Int, Nat}, \A x \in S : fun[x] \in V
      PROVE  SumFunctionOnSet(fun, S) \in V
  <2> DEFINE Q == {T \in SUBSET S : SumFunctionOnSet(fun, T) \in V}
  <2>1. {} \in Q
    BY SumEmpty
  <2>2. ASSUME NEW T \in Q, NEW x \in S \ T PROVE T \cup {x} \in Q
    <3>1. \A y \in S : fun[y] \in Int
      BY <1>1
    <3>2. SumFunctionOnSet(fun, T \cup {x}) = fun[x] + SumFunctionOnSet(fun, T)
      BY <3>1, SumAdd
    <3>3. fun[x] \in V /\ SumFunctionOnSet(fun, T) \in V
      BY <1>1
    <3> QED BY <3>2, <3>3
  <2>3. Q = SUBSET S
    <3> HIDE DEF Q
    <3>1. Q \in SUBSET SUBSET S
      BY DEF Q
    <3> QED BY <3>1, <2>1, <2>2, SetInduction
  <2> QED BY <2>3
<1> QED
  BY <1>1

\* Two sums over one set compare as their terms do.
LEMMA SumOrder ==
  ASSUME NEW f, NEW g, NEW S, IsFiniteSet(S),
         \A x \in S : f[x] \in Int /\ g[x] \in Int /\ f[x] <= g[x]
  PROVE  SumFunctionOnSet(f, S) <= SumFunctionOnSet(g, S)
<1> DEFINE F(T) == SumFunctionOnSet(f, T)
           G(T) == SumFunctionOnSet(g, T)
           Q == {T \in SUBSET S : F(T) <= G(T)}
<1>1. {} \in Q
  BY SumEmpty
<1>2. ASSUME NEW T \in Q, NEW x \in S \ T PROVE T \cup {x} \in Q
  <2>1. F(T \cup {x}) = f[x] + F(T) /\ G(T \cup {x}) = g[x] + G(T)
    BY SumAdd
  <2>2. F(T) \in Int /\ G(T) \in Int
    BY SumTyped, FS_Subset
  <2> HIDE DEF F, G
  <2> QED BY <2>1, <2>2
<1>3. Q = SUBSET S
  <2> HIDE DEF Q
  <2>1. Q \in SUBSET SUBSET S
    BY DEF Q
  <2> QED BY <2>1, <1>1, <1>2, SetInduction
<1> QED
  BY <1>3

\* Terms that agree have one sum.
LEMMA SumSame ==
  ASSUME NEW f, NEW g, NEW S, IsFiniteSet(S), \A x \in S : f[x] \in Int,
         \A x \in S : f[x] = g[x]
  PROVE  SumFunctionOnSet(f, S) = SumFunctionOnSet(g, S)
<1>1. /\ SumFunctionOnSet(f, S) <= SumFunctionOnSet(g, S)
      /\ SumFunctionOnSet(g, S) <= SumFunctionOnSet(f, S)
  BY SumOrder
<1>2. SumFunctionOnSet(f, S) \in Int /\ SumFunctionOnSet(g, S) \in Int
  BY SumTyped
<1> QED
  BY <1>1, <1>2

\* The sum of what is added is added to the sum.
LEMMA SumPlus ==
  ASSUME NEW f, NEW g, NEW h, NEW S, IsFiniteSet(S),
         \A x \in S : f[x] \in Int /\ g[x] \in Int /\ h[x] = f[x] + g[x]
  PROVE  SumFunctionOnSet(h, S) = SumFunctionOnSet(f, S) + SumFunctionOnSet(g, S)
<1> DEFINE F(T) == SumFunctionOnSet(f, T)
           G(T) == SumFunctionOnSet(g, T)
           H(T) == SumFunctionOnSet(h, T)
           Q == {T \in SUBSET S : H(T) = F(T) + G(T)}
<1>1. {} \in Q
  BY SumEmpty
<1>2. ASSUME NEW T \in Q, NEW x \in S \ T PROVE T \cup {x} \in Q
  <2>1. /\ F(T \cup {x}) = f[x] + F(T) /\ G(T \cup {x}) = g[x] + G(T)
        /\ H(T \cup {x}) = h[x] + H(T)
    BY SumAdd
  <2>2. F(T) \in Int /\ G(T) \in Int
    BY SumTyped, FS_Subset
  <2> HIDE DEF F, G, H
  <2> QED BY <2>1, <2>2
<1>3. Q = SUBSET S
  <2> HIDE DEF Q
  <2>1. Q \in SUBSET SUBSET S
    BY DEF Q
  <2> QED BY <2>1, <1>1, <1>2, SetInduction
<1> QED
  BY <1>3

\* A sum whose terms are 0 is 0.
LEMMA SumZero ==
  ASSUME NEW f, NEW S, IsFiniteSet(S), \A x \in S : f[x] = 0
  PROVE  SumFunctionOnSet(f, S) = 0
<1>1. SumFunctionOnSet(f, S) = SumFunctionOnSet(f, S) + SumFunctionOnSet(f, S)
  BY SumPlus
<1>2. SumFunctionOnSet(f, S) \in Int
  BY SumTyped
<1>3. \A s \in Int : s = s + s => s = 0
  OBVIOUS
<1> QED
  BY <1>1, <1>2, <1>3

\* Where one term changes, the sum changes as it does.
LEMMA SumChange ==
  ASSUME NEW f, NEW g, NEW S, IsFiniteSet(S), NEW x \in S,
         \A y \in S : f[y] \in Int /\ g[y] \in Int,
         \A y \in S \ {x} : g[y] = f[y]
  PROVE  SumFunctionOnSet(g, S) = SumFunctionOnSet(f, S) - f[x] + g[x]
<1>1. /\ SumFunctionOnSet(f, S) = f[x] + SumFunctionOnSet(f, S \ {x})
      /\ SumFunctionOnSet(g, S) = g[x] + SumFunctionOnSet(g, S \ {x})
  BY SumRemove
<1>2. IsFiniteSet(S \ {x})
  BY FS_RemoveElement
<1>3. /\ SumFunctionOnSet(f, S \ {x}) = SumFunctionOnSet(g, S \ {x})
      /\ SumFunctionOnSet(f, S \ {x}) \in Int
  BY <1>2, SumSame, SumTyped
<1> QED
  BY <1>1, <1>3

-----------------------------------------------------------------------------
(* The same for SumFunction, the sum of all the values of a function *)

\* A total is of the type of its terms.
LEMMA TotalTyped ==
  ASSUME NEW S, IsFiniteSet(S), NEW f
  PROVE  /\ f \in [S -> Int] => SumFunction(f) \in Int
         /\ f \in [S -> Nat] => SumFunction(f) \in Nat
  BY SumTyped DEF SumFunction

\* Totals compare as their terms do.
LEMMA TotalOrder ==
  ASSUME NEW S, IsFiniteSet(S), NEW f \in [S -> Int], NEW g \in [S -> Int],
         \A x \in S : f[x] <= g[x]
  PROVE  SumFunction(f) <= SumFunction(g)
  BY SumOrder DEF SumFunction

\* Totals add up as their terms do.
LEMMA TotalPlus ==
  ASSUME NEW S, IsFiniteSet(S), NEW f \in [S -> Int], NEW g \in [S -> Int],
         NEW h \in [S -> Int], \A x \in S : h[x] = f[x] + g[x]
  PROVE  SumFunction(h) = SumFunction(f) + SumFunction(g)
  BY SumPlus DEF SumFunction

\* The total of zeros.
LEMMA TotalZero ==
  ASSUME NEW S, IsFiniteSet(S), NEW f \in [S -> Int], \A x \in S : f[x] = 0
  PROVE  SumFunction(f) = 0
  BY SumZero DEF SumFunction

\* A total changes as its one changed term does.
LEMMA TotalChange ==
  ASSUME NEW S, IsFiniteSet(S), NEW f \in [S -> Int], NEW g \in [S -> Int],
         NEW x \in S, \A y \in S \ {x} : g[y] = f[y]
  PROVE  SumFunction(g) = SumFunction(f) - f[x] + g[x]
  BY SumChange DEF SumFunction

\* No term of naturals is more than the total.
LEMMA TotalTerm ==
  ASSUME NEW S, IsFiniteSet(S), NEW f \in [S -> Nat], NEW x \in S
  PROVE  f[x] <= SumFunction(f)
<1>1. SumFunctionOnSet(f, S) = f[x] + SumFunctionOnSet(f, S \ {x})
  BY SumRemove
<1>2. IsFiniteSet(S \ {x})
  BY FS_RemoveElement
<1>3. SumFunctionOnSet(f, S \ {x}) \in Nat
  BY <1>2, SumTyped
<1> QED
  BY <1>1, <1>3 DEF SumFunction
=============================================================================
