----------------------------- MODULE NumberSets -----------------------------
(***************************************************************************)
(* Facts about Min and Max of sets of numbers, about sums of functions and *)
(* about sequences joined to one, for the proofs of modules that use them. *)
(* The intervals below the elements of a set are finite, and strict        *)
(* inclusion of finite sets is well founded: so a least one exists.  What  *)
(* the other lemmas need induction for, they show by a least               *)
(* counterexample.                                                         *)
(***************************************************************************)
EXTENDS Integers, SequencesExt, FiniteSetsExt, Functions, SequenceTheorems,
        FiniteSetTheorems, WellFoundedInduction, TLAPS

\* Every non-empty set of natural numbers has a least element.
LEMMA LeastNumber ==
  ASSUME NEW S, S \subseteq Nat, S # {}
  PROVE  \E x \in S : \A y \in S : x <= y
<1> DEFINE Below(x) == 0..(x - 1)
           F == FiniteSubsetsOf(Nat)
           T == {Below(x) : x \in S}
<1>1. T \subseteq F /\ T # {}
  <2>1. \A x \in S : Below(x) \in F
    BY FS_Interval DEF FiniteSubsetsOf
  <2> QED BY <2>1
<1>2. IsWellFoundedOn(StrictSubsetOrdering(Nat), F)
  BY FS_StrictSubsetOrderingWellFounded
<1> HIDE DEF F
<1>3. PICK m \in T : \A n \in T : ~ (<<n, m>> \in StrictSubsetOrdering(Nat))
  <2> HIDE DEF T
  <2> QED BY <1>1, <1>2, WFMin
<1>4. PICK x \in S : m = Below(x)
  BY <1>3
<1>5. \A y \in S : x <= y
  <2> SUFFICES ASSUME NEW y \in S, y < x PROVE FALSE
    OBVIOUS
  <2>1. Below(y) \subseteq Below(x) /\ Below(y) # Below(x)
    <3>1. y \in Below(x) /\ y \notin Below(y)
      OBVIOUS
    <3> QED BY <3>1
  <2>2. <<Below(y), Below(x)>> \in StrictSubsetOrdering(Nat)
    BY <2>1 DEF StrictSubsetOrdering
  <2> QED BY <2>2, <1>3, <1>4
<1> QED BY <1>5

\* Min is an element of the set.
LEMMA MinOfNumbers ==
  ASSUME NEW S, S \subseteq Nat, S # {}
  PROVE  Min(S) \in S
  BY LeastNumber DEF Min

\* What is at least as large as every other element is the maximum.
LEMMA MaxIs ==
  ASSUME NEW S, NEW m \in S, S \subseteq Nat, \A y \in S : y <= m
  PROVE  Max(S) = m
<1>1. \A x \in S : (\A y \in S : x >= y) => x = m
  OBVIOUS
<1>2. \A y \in S : m >= y
  OBVIOUS
<1> QED BY <1>1, <1>2 DEF Max

\* Max of a bounded set is an element of it, and none is larger.
LEMMA MaxOfNumbers ==
  ASSUME NEW n \in Nat, NEW S, S \subseteq 0..n, S # {}
  PROVE  Max(S) \in S /\ \A y \in S : y <= Max(S)
<1> DEFINE T == {n - y : y \in S}
<1>1. T \subseteq Nat /\ T # {}
  <2>1. \A y \in S : n - y \in Nat
    OBVIOUS
  <2> QED BY <2>1
<1>2. PICK t \in T : \A u \in T : t <= u
  <2> HIDE DEF T
  <2> QED BY <1>1, LeastNumber
<1>3. PICK m \in S : t = n - m
  BY <1>2
<1>4. \A y \in S : y <= m
  <2> SUFFICES ASSUME NEW y \in S PROVE y <= m
    OBVIOUS
  <2>1. n - y \in T
    OBVIOUS
  <2>2. n - m <= n - y
    BY <1>2, <1>3, <2>1
  <2>3. m \in Nat /\ y \in Nat
    OBVIOUS
  <2> QED BY <2>2, <2>3
<1>5. Max(S) = m
  <2>1. S \subseteq Nat
    OBVIOUS
  <2> QED BY <1>4, <2>1, MaxIs
<1> QED BY <1>4, <1>5

----------------------------------------------------------------------------
(* Sums.  SumFunctionOnSet folds over its set in an order the library      *)
(* picks; these lemmas show that the fold is what its recursion says, and  *)
(* that the order does not matter.                                         *)

Pick(s) == CHOOSE x \in s : TRUE
SumStep(f, F, s) == IF s = {} THEN 0 ELSE f[Pick(s)] + F[s \ {Pick(s)}]
Sums(f, S) == CHOOSE F : F = [s \in SUBSET S |-> SumStep(f, F, s)]

Numbers(f, S) == IsFiniteSet(S) /\ \A x \in S : f[x] \in Nat

\* The library's definition, its order of evaluation named.
LEMMA SumFolds ==
  ASSUME NEW f, NEW S
  PROVE  SumFunctionOnSet(f, S) = Sums(f, S)[S]
  BY DEF SumFunctionOnSet, FoldFunctionOnSet, MapThenFoldSet, Sums, Pick, SumStep

\* Subsets of a finite set are finite.
LEMMA Parts ==
  ASSUME NEW S, IsFiniteSet(S)
  PROVE  \A T \in SUBSET S : IsFiniteSet(T) /\ Cardinality(T) \in Nat
  BY FS_Subset, FS_CardinalityType

\* An element can be taken out of a finite set.
LEMMA PickOne ==
  ASSUME NEW S, IsFiniteSet(S), S # {}
  PROVE  /\ Pick(S) \in S /\ S \ {Pick(S)} \in SUBSET S
         /\ Cardinality(S \ {Pick(S)}) = Cardinality(S) - 1
<1>1. Pick(S) \in S
  BY DEF Pick
<1> QED BY <1>1, FS_RemoveElement

\* A set's parts of up to n elements.
PartsUpTo(S, n) == {s \in SUBSET S : Cardinality(s) <= n}

\* Their sums are defined.
LEMMA SumsUpTo ==
  ASSUME NEW f, NEW S, IsFiniteSet(S), NEW n \in Nat
  PROVE  \E F : F = [s \in PartsUpTo(S, n) |-> SumStep(f, F, s)]
<1> DEFINE Bad == {k \in Nat : ~ \E F : F = [s \in PartsUpTo(S, k) |-> SumStep(f, F, s)]}
<1> SUFFICES ASSUME Bad # {} PROVE FALSE
  OBVIOUS
<1>1. PICK k \in Bad : \A j \in Bad : k <= j
  <2>1. Bad \subseteq Nat
    OBVIOUS
  <2> HIDE DEF Bad
  <2> QED BY <2>1, LeastNumber
<1>2. k \in Nat /\ ~ \E F : F = [s \in PartsUpTo(S, k) |-> SumStep(f, F, s)]
  OBVIOUS
<1>3. CASE k = 0
  <2> DEFINE F == [s \in PartsUpTo(S, k) |-> 0]
  <2>1. \A s \in PartsUpTo(S, k) : s = {}
    BY <1>3, Parts, FS_EmptySet DEF PartsUpTo
  <2>2. F = [s \in PartsUpTo(S, k) |-> SumStep(f, F, s)]
    BY <2>1 DEF SumStep
  <2> QED BY <1>2, <2>2
<1>4. CASE k # 0
  <2>1. k - 1 \in Nat /\ k - 1 \notin Bad
    BY <1>1, <1>2, <1>4
  <2>2. PICK F : F = [s \in PartsUpTo(S, k - 1) |-> SumStep(f, F, s)]
    BY <2>1
  <2> DEFINE G == [s \in PartsUpTo(S, k) |-> SumStep(f, F, s)]
  <2>3. \A s \in PartsUpTo(S, k - 1) : G[s] = F[s]
    <3>1. PartsUpTo(S, k - 1) \subseteq PartsUpTo(S, k)
      BY <1>2, <2>1, Parts DEF PartsUpTo
    <3>2. \A s \in PartsUpTo(S, k - 1) : F[s] = SumStep(f, F, s)
      BY <2>2
    <3> QED BY <3>1, <3>2
  <2>4. \A s \in PartsUpTo(S, k) : SumStep(f, F, s) = SumStep(f, G, s)
    <3> SUFFICES ASSUME NEW s \in PartsUpTo(S, k), s # {}
                 PROVE  SumStep(f, F, s) = SumStep(f, G, s)
      BY DEF SumStep
    <3>1. s \ {Pick(s)} \in PartsUpTo(S, k - 1)
      BY <1>2, PickOne, Parts DEF PartsUpTo
    <3> HIDE DEF G
    <3> QED BY <2>3, <3>1 DEF SumStep
  <2>5. G = [s \in PartsUpTo(S, k) |-> SumStep(f, G, s)]
    BY <2>4
  <2> QED BY <1>2, <2>5
<1> QED BY <1>3, <1>4

\* The fold is what its recursion says.
LEMMA SumsDefined ==
  ASSUME NEW f, NEW S, IsFiniteSet(S)
  PROVE  \A s \in SUBSET S : Sums(f, S)[s] = SumStep(f, Sums(f, S), s)
<1> DEFINE n == Cardinality(S)
<1>1. \A s \in SUBSET S : s \in PartsUpTo(S, n)
  BY FS_Subset DEF PartsUpTo
<1>2. PICK F : F = [s \in PartsUpTo(S, n) |-> SumStep(f, F, s)]
  <2>1. n \in Nat
    BY FS_CardinalityType
  <2> HIDE DEF n
  <2> QED BY <2>1, SumsUpTo
<1> DEFINE G == [s \in SUBSET S |-> F[s]]
<1>3. \A s \in SUBSET S : G[s] = SumStep(f, F, s)
  BY <1>1, <1>2
<1>4. \A s \in SUBSET S : SumStep(f, F, s) = SumStep(f, G, s)
  <2> SUFFICES ASSUME NEW s \in SUBSET S, s # {}
               PROVE  SumStep(f, F, s) = SumStep(f, G, s)
    BY DEF SumStep
  <2>1. s \ {Pick(s)} \in SUBSET S
    OBVIOUS
  <2> QED BY <2>1 DEF SumStep
<1>5. G = [s \in SUBSET S |-> SumStep(f, G, s)]
  <2>1. \A s \in SUBSET S : G[s] = SumStep(f, G, s)
    BY <1>3, <1>4
  <2>2. G = [s \in SUBSET S |-> G[s]]
    OBVIOUS
  <2> HIDE DEF G
  <2> QED BY <2>1, <2>2
<1> HIDE DEF G
<1> DEFINE H == Sums(f, S)
<1>6. H = [s \in SUBSET S |-> SumStep(f, H, s)]
  BY <1>5 DEF Sums
<1> HIDE DEF H
<1>7. \A s \in SUBSET S : H[s] = SumStep(f, H, s)
  BY <1>6
<1> QED BY <1>7 DEF H

\* Functions that agree on a part of both sets have the same sum there.
LEMMA SumsAgree ==
  ASSUME NEW f, NEW g, NEW S, NEW T, IsFiniteSet(S), IsFiniteSet(T), T \subseteq S,
         \A x \in T : f[x] = g[x]
  PROVE  \A s \in SUBSET T : Sums(f, S)[s] = Sums(g, T)[s]
<1> DEFINE Bad == {Cardinality(s) : s \in {s \in SUBSET T : Sums(f, S)[s] # Sums(g, T)[s]}}
<1> SUFFICES ASSUME Bad # {} PROVE FALSE
  OBVIOUS
<1>1. PICK k \in Bad : \A j \in Bad : k <= j
  <2>1. Bad \subseteq Nat
    BY Parts
  <2> HIDE DEF Bad
  <2> QED BY <2>1, LeastNumber
<1>2. PICK s \in SUBSET T : Sums(f, S)[s] # Sums(g, T)[s] /\ k = Cardinality(s)
  OBVIOUS
<1>3. Sums(f, S)[s] = SumStep(f, Sums(f, S), s) /\ Sums(g, T)[s] = SumStep(g, Sums(g, T), s)
  <2>1. s \in SUBSET S /\ s \in SUBSET T
    OBVIOUS
  <2>2. Sums(f, S)[s] = SumStep(f, Sums(f, S), s)
    BY <2>1, SumsDefined
  <2>3. Sums(g, T)[s] = SumStep(g, Sums(g, T), s)
    BY <2>1, SumsDefined
  <2> QED BY <2>2, <2>3
<1>4. s # {}
  BY <1>2, <1>3 DEF SumStep
<1>5. /\ Pick(s) \in T /\ s \ {Pick(s)} \in SUBSET T
      /\ Cardinality(s \ {Pick(s)}) = k - 1 /\ k \in Nat
  BY <1>2, <1>4, PickOne, Parts
<1>6. Sums(f, S)[s \ {Pick(s)}] = Sums(g, T)[s \ {Pick(s)}]
  <2>1. k - 1 \notin Bad
    BY <1>1, <1>5
  <2> QED BY <1>5, <2>1
<1> QED BY <1>2, <1>3, <1>4, <1>5, <1>6 DEF SumStep

\* A sum depends only on the function's values on the set.
LEMMA SumSame ==
  ASSUME NEW f, NEW g, NEW S, IsFiniteSet(S), \A x \in S : f[x] = g[x]
  PROVE  SumFunctionOnSet(f, S) = SumFunctionOnSet(g, S)
  BY SumsAgree, SumFolds

\* The recursion, for sums.
LEMMA SumIs ==
  ASSUME NEW f, NEW S, IsFiniteSet(S)
  PROVE  SumFunctionOnSet(f, S) =
           IF S = {} THEN 0 ELSE f[Pick(S)] + SumFunctionOnSet(f, S \ {Pick(S)})
<1>1. SumFunctionOnSet(f, S) = SumStep(f, Sums(f, S), S)
  <2>1. S \in SUBSET S
    OBVIOUS
  <2> QED BY <2>1, SumFolds, SumsDefined
<1>2. CASE S = {}
  BY <1>1, <1>2 DEF SumStep
<1>3. CASE S # {}
  <2> DEFINE T == S \ {Pick(S)}
  <2>1. Sums(f, S)[T] = Sums(f, T)[T]
    BY Parts, SumsAgree
  <2>2. SumFunctionOnSet(f, T) = Sums(f, T)[T]
    BY SumFolds
  <2> QED BY <1>1, <1>3, <2>1, <2>2 DEF SumStep
<1> QED BY <1>2, <1>3

\* The sum over nothing is zero.
LEMMA SumOfNone == ASSUME NEW f PROVE SumFunctionOnSet(f, {}) = 0
  BY SumIs, FS_EmptySet

\* Sums of natural numbers are natural numbers.
LEMMA SumIsNat ==
  ASSUME NEW f, NEW S, Numbers(f, S)
  PROVE  SumFunctionOnSet(f, S) \in Nat
<1> DEFINE Bad == {Cardinality(s) : s \in {s \in SUBSET S : SumFunctionOnSet(f, s) \notin Nat}}
<1>0. IsFiniteSet(S) /\ \A x \in S : f[x] \in Nat
  BY DEF Numbers
<1> SUFFICES ASSUME Bad # {} PROVE FALSE
  OBVIOUS
<1>1. PICK k \in Bad : \A j \in Bad : k <= j
  <2>1. Bad \subseteq Nat
    BY <1>0, Parts
  <2> HIDE DEF Bad
  <2> QED BY <2>1, LeastNumber
<1>2. PICK s \in SUBSET S : SumFunctionOnSet(f, s) \notin Nat /\ k = Cardinality(s)
  OBVIOUS
<1>3. IsFiniteSet(s) /\ s # {}
  BY <1>0, <1>2, SumOfNone, Parts
<1>4. /\ s \ {Pick(s)} \in SUBSET S /\ Pick(s) \in S
      /\ Cardinality(s \ {Pick(s)}) = k - 1 /\ k \in Nat
  BY <1>0, <1>2, <1>3, PickOne, Parts
<1>5. SumFunctionOnSet(f, s \ {Pick(s)}) \in Nat
  <2>1. k - 1 \notin Bad
    BY <1>1, <1>4
  <2> QED BY <1>4, <2>1
<1> QED BY <1>0, <1>2, <1>3, <1>4, <1>5, SumIs

\* Whichever element is taken out of a set, its number is what goes.
LEMMA SumRemoves ==
  ASSUME NEW f, NEW S, Numbers(f, S), NEW x \in S
  PROVE  SumFunctionOnSet(f, S) = f[x] + SumFunctionOnSet(f, S \ {x})
<1> DEFINE Sum(s) == SumFunctionOnSet(f, s)
           Wrong(s) == \E y \in s : Sum(s) # f[y] + Sum(s \ {y})
           Bad == {Cardinality(s) : s \in {s \in SUBSET S : Wrong(s)}}
<1>0. IsFiniteSet(S) /\ \A y \in S : f[y] \in Nat
  BY DEF Numbers
<1> SUFFICES ASSUME Bad # {} PROVE FALSE
  OBVIOUS
<1>1. PICK k \in Bad : \A j \in Bad : k <= j
  <2>1. Bad \subseteq Nat
    BY <1>0, Parts
  <2> HIDE DEF Bad
  <2> QED BY <2>1, LeastNumber
<1>2. PICK s \in SUBSET S : Wrong(s) /\ k = Cardinality(s)
  OBVIOUS
<1>3. PICK y \in s : Sum(s) # f[y] + Sum(s \ {y})
  BY <1>2
<1> DEFINE c == Pick(s)
<1>4. /\ IsFiniteSet(s) /\ c \in s /\ k \in Nat
      /\ Cardinality(s \ {c}) = k - 1 /\ Cardinality(s \ {y}) = k - 1
  BY <1>0, <1>2, <1>3, PickOne, Parts, FS_RemoveElement
<1>5. Sum(s) = f[c] + Sum(s \ {c})
  BY <1>3, <1>4, SumIs
<1>6. c # y
  BY <1>3, <1>5
<1>7. ~Wrong(s \ {c}) /\ ~Wrong(s \ {y})
  <2>1. k - 1 \notin Bad
    BY <1>1, <1>4
  <2> HIDE DEF Wrong
  <2>2. s \ {c} \in SUBSET S /\ s \ {y} \in SUBSET S
    OBVIOUS
  <2> QED BY <1>4, <2>1, <2>2
<1> HIDE DEF c, Sum
<1>8. Sum(s \ {c}) = f[y] + Sum((s \ {c}) \ {y})
  BY <1>3, <1>6, <1>7
<1>9. Sum(s \ {y}) = f[c] + Sum((s \ {y}) \ {c})
  BY <1>4, <1>6, <1>7
<1>10. (s \ {c}) \ {y} = (s \ {y}) \ {c}
  OBVIOUS
<1>11. Sum((s \ {y}) \ {c}) \in Nat /\ f[c] \in Nat /\ f[y] \in Nat
  <2>1. Numbers(f, (s \ {y}) \ {c})
    BY <1>0, <1>4, FS_Subset DEF Numbers
  <2> QED BY <1>0, <1>3, <1>4, <2>1, SumIsNat DEF Sum
<1>12. Sum(s \ {y}) = f[c] + Sum((s \ {c}) \ {y})
  BY <1>9, <1>10
<1>13. Sum((s \ {c}) \ {y}) \in Nat
  BY <1>10, <1>11
<1> QED BY <1>3, <1>5, <1>8, <1>11, <1>12, <1>13

\* An element that is put in adds its number.
LEMMA SumAdds ==
  ASSUME NEW f, NEW S, NEW x, Numbers(f, S \cup {x}), x \notin S
  PROVE  SumFunctionOnSet(f, S \cup {x}) = SumFunctionOnSet(f, S) + f[x]
<1>1. (S \cup {x}) \ {x} = S /\ S \subseteq S \cup {x}
  OBVIOUS
<1>2. Numbers(f, S)
  BY <1>1, FS_Subset DEF Numbers
<1>3. SumFunctionOnSet(f, S) \in Nat /\ f[x] \in Nat
  BY <1>2, SumIsNat DEF Numbers
<1>4. SumFunctionOnSet(f, S \cup {x}) = f[x] + SumFunctionOnSet(f, (S \cup {x}) \ {x})
  BY SumRemoves
<1>5. SumFunctionOnSet(f, S \cup {x}) = f[x] + SumFunctionOnSet(f, S)
  BY <1>1, <1>4
<1> HIDE DEF Numbers
<1> QED BY <1>3, <1>5

\* One of the numbers changes.
ChangesAt(f, g, S, x) == x \in S /\ g[x] \in Nat /\ \A y \in S \ {x} : g[y] = f[y]

LEMMA SumChanges ==
  ASSUME NEW f, NEW g, NEW S, NEW x, Numbers(f, S), ChangesAt(f, g, S, x)
  PROVE  /\ Numbers(g, S)
         /\ SumFunctionOnSet(g, S) = SumFunctionOnSet(f, S) - f[x] + g[x]
<1>0. x \in S /\ g[x] \in Nat /\ \A y \in S \ {x} : g[y] = f[y]
  BY DEF ChangesAt
<1>1. Numbers(g, S)
  BY <1>0 DEF Numbers
<1>2. SumFunctionOnSet(f, S) = f[x] + SumFunctionOnSet(f, S \ {x})
  BY <1>0, SumRemoves
<1>3. SumFunctionOnSet(g, S) = g[x] + SumFunctionOnSet(g, S \ {x})
  BY <1>0, <1>1, SumRemoves
<1>4. SumFunctionOnSet(g, S \ {x}) = SumFunctionOnSet(f, S \ {x})
  <2>1. IsFiniteSet(S \ {x})
    BY FS_Subset DEF Numbers
  <2> QED BY <1>0, <2>1, SumSame
<1>5. Numbers(f, S \ {x}) /\ f[x] \in Nat
  BY <1>0, FS_Subset DEF Numbers
<1>6. SumFunctionOnSet(f, S \ {x}) \in Nat
  BY <1>5, SumIsNat
<1> QED BY <1>0, <1>1, <1>2, <1>3, <1>4, <1>5, <1>6

\* Smaller numbers have the smaller sum.
LEMMA SumAtMost ==
  ASSUME NEW f, NEW g, NEW S, Numbers(f, S), Numbers(g, S), \A x \in S : f[x] <= g[x]
  PROVE  SumFunctionOnSet(f, S) <= SumFunctionOnSet(g, S)
<1> DEFINE Wrong(s) == ~(SumFunctionOnSet(f, s) <= SumFunctionOnSet(g, s))
           Bad == {Cardinality(s) : s \in {s \in SUBSET S : Wrong(s)}}
<1>0. IsFiniteSet(S) /\ \A x \in S : f[x] \in Nat /\ g[x] \in Nat
  BY DEF Numbers
<1>1. \A s \in SUBSET S : /\ Numbers(f, s) /\ Numbers(g, s)
                          /\ SumFunctionOnSet(f, s) \in Nat /\ SumFunctionOnSet(g, s) \in Nat
  BY <1>0, FS_Subset, SumIsNat DEF Numbers
<1>2. ASSUME Bad # {} PROVE FALSE
  <2>1. PICK k \in Bad : \A j \in Bad : k <= j
    <3>1. Bad \subseteq Nat
      BY <1>0, Parts
    <3> HIDE DEF Bad
    <3> QED BY <1>2, <3>1, LeastNumber
  <2>2. PICK t \in SUBSET S : Wrong(t) /\ k = Cardinality(t)
    OBVIOUS
  <2>3. CASE t = {}
    <3>1. SumFunctionOnSet(f, t) = 0 /\ SumFunctionOnSet(g, t) = 0
      BY <2>3, SumOfNone
    <3> QED BY <2>2, <3>1
  <2>4. CASE t # {}
    <3> DEFINE x == Pick(t)
               u == t \ {x}
    <3>1. x \in t /\ u \in SUBSET S /\ Cardinality(u) = k - 1 /\ k \in Nat
      BY <1>0, <2>2, <2>4, PickOne, Parts
    <3>2. ~Wrong(u)
      <4>1. k - 1 \notin Bad
        BY <2>1, <3>1
      <4> HIDE DEF Wrong
      <4> QED BY <3>1, <4>1
    <3>3. SumFunctionOnSet(f, t) = f[x] + SumFunctionOnSet(f, u)
      BY <1>1, <3>1, SumRemoves
    <3>4. SumFunctionOnSet(g, t) = g[x] + SumFunctionOnSet(g, u)
      BY <1>1, <3>1, SumRemoves
    <3>5. /\ SumFunctionOnSet(f, u) \in Nat /\ SumFunctionOnSet(g, u) \in Nat
          /\ f[x] \in Nat /\ g[x] \in Nat /\ f[x] <= g[x]
      BY <1>0, <1>1, <3>1
    <3> HIDE DEF x, u
    <3> QED BY <2>2, <3>2, <3>3, <3>4, <3>5
  <2> QED BY <2>3, <2>4
<1> QED BY <1>2, Parts

\* Nothing adds up to nothing.
LEMMA SumOfZeros ==
  ASSUME NEW f, NEW S, IsFiniteSet(S), \A x \in S : f[x] = 0
  PROVE  SumFunctionOnSet(f, S) = 0
<1> DEFINE Wrong(s) == SumFunctionOnSet(f, s) # 0
           Bad == {Cardinality(s) : s \in {s \in SUBSET S : Wrong(s)}}
<1>1. ASSUME Bad # {} PROVE FALSE
  <2>1. PICK k \in Bad : \A j \in Bad : k <= j
    <3>1. Bad \subseteq Nat
      BY Parts
    <3> HIDE DEF Bad
    <3> QED BY <1>1, <3>1, LeastNumber
  <2>2. PICK t \in SUBSET S : Wrong(t) /\ k = Cardinality(t)
    OBVIOUS
  <2>3. CASE t = {}
    BY <2>2, <2>3, SumOfNone
  <2>4. CASE t # {}
    <3> DEFINE x == Pick(t)
               u == t \ {x}
    <3>1. x \in t /\ u \in SUBSET S /\ Cardinality(u) = k - 1 /\ k \in Nat
      BY <2>2, <2>4, PickOne, Parts
    <3>2. ~Wrong(u)
      <4>1. k - 1 \notin Bad
        BY <2>1, <3>1
      <4> HIDE DEF Wrong
      <4> QED BY <3>1, <4>1
    <3>3. SumFunctionOnSet(f, t) = f[x] + SumFunctionOnSet(f, u)
      <4>1. Numbers(f, t)
        BY FS_Subset DEF Numbers
      <4> QED BY <3>1, <4>1, SumRemoves
    <3> QED BY <2>2, <3>1, <3>2, <3>3
  <2> QED BY <2>3, <2>4
<1> QED BY <1>1, Parts

\* A part of a set has the part of its sum.
LEMMA SumOfPart ==
  ASSUME NEW f, NEW S, Numbers(f, S), NEW T \in SUBSET S
  PROVE  /\ SumFunctionOnSet(f, S \ T) = SumFunctionOnSet(f, S) - SumFunctionOnSet(f, T)
         /\ SumFunctionOnSet(f, T) <= SumFunctionOnSet(f, S)
<1> DEFINE Sum(s) == SumFunctionOnSet(f, s)
           Wrong(t) == Sum(S \ t) # Sum(S) - Sum(t)
           Bad == {Cardinality(t) : t \in {t \in SUBSET S : Wrong(t)}}
<1>0. IsFiniteSet(S) /\ \A y \in S : f[y] \in Nat
  BY DEF Numbers
<1>1. \A t \in SUBSET S : Numbers(f, t) /\ Sum(t) \in Nat
  BY <1>0, FS_Subset, SumIsNat DEF Numbers
<1>2. ASSUME Bad # {} PROVE FALSE
  <2>1. PICK k \in Bad : \A j \in Bad : k <= j
    <3>1. Bad \subseteq Nat
      BY <1>0, Parts
    <3> HIDE DEF Bad
    <3> QED BY <1>2, <3>1, LeastNumber
  <2>2. PICK t \in SUBSET S : Wrong(t) /\ k = Cardinality(t)
    OBVIOUS
  <2>3. CASE t = {}
    <3>1. S \ t = S /\ Sum(t) = 0 /\ Sum(S) \in Nat
      BY <1>1, <2>3, SumOfNone
    <3> QED BY <2>2, <3>1
  <2>4. CASE t # {}
    <3> DEFINE x == Pick(t)
               u == t \ {x}
    <3>1. x \in t /\ u \in SUBSET S /\ Cardinality(u) = k - 1 /\ k \in Nat
      BY <1>0, <2>2, <2>4, PickOne, Parts
    <3>2. ~Wrong(u)
      <4>1. k - 1 \notin Bad
        BY <2>1, <3>1
      <4> HIDE DEF Wrong
      <4> QED BY <3>1, <4>1
    <3>3. Sum(t) = f[x] + Sum(u)
      BY <1>1, <3>1, SumRemoves
    <3>4. Sum(S \ u) = f[x] + Sum(S \ t)
      <4>1. x \in S \ u /\ (S \ u) \ {x} = S \ t /\ Numbers(f, S \ u)
        BY <1>1, <3>1
      <4> HIDE DEF x, u
      <4> QED BY <4>1, SumRemoves
    <3>5. /\ Sum(S) \in Nat /\ Sum(t) \in Nat /\ Sum(u) \in Nat
          /\ Sum(S \ t) \in Nat /\ Sum(S \ u) \in Nat /\ f[x] \in Nat
      BY <1>0, <1>1, <3>1
    <3> HIDE DEF x, u, Sum
    <3> QED BY <2>2, <3>2, <3>3, <3>4, <3>5
  <2> QED BY <2>3, <2>4
<1>3. Sum(S \ T) = Sum(S) - Sum(T)
  BY <1>2, Parts
<1>4. Sum(S \ T) \in Nat /\ Sum(S) \in Nat /\ Sum(T) \in Nat
  BY <1>1
<1> HIDE DEF Sum
<1>5. Sum(T) <= Sum(S)
  BY <1>3, <1>4
<1> QED BY <1>3, <1>5 DEF Sum

----------------------------------------------------------------------------
(* Joined sequences.  FlattenSeq is a recursive function of the library;   *)
(* these lemmas show that its recursion has a solution and what it gives.  *)

\* FlattenSeq's recursion.
JoinSteps(seqs, n, joined) ==
  joined = [i \in 1..n |-> IF i = 1 THEN seqs[i] ELSE joined[i - 1] \o seqs[i]]

JoinBy(seqs) == CHOOSE joined : JoinSteps(seqs, Len(seqs), joined)

\* The steps of FlattenSeq can be taken, for any number of sequences.
LEMMA JoinDefined ==
  ASSUME NEW seqs, NEW n \in Nat
  PROVE  \E joined : JoinSteps(seqs, n, joined)
<1> DEFINE Wrong == {m \in Nat : ~ \E joined : JoinSteps(seqs, m, joined)}
<1> SUFFICES ASSUME Wrong # {} PROVE FALSE
  OBVIOUS
<1>1. PICK m \in Wrong : \A j \in Wrong : m <= j
  <2>1. Wrong \subseteq Nat
    OBVIOUS
  <2> HIDE DEF Wrong
  <2> QED BY <2>1, LeastNumber
<1>2. m \in Nat /\ ~ \E joined : JoinSteps(seqs, m, joined)
  OBVIOUS
<1>3. CASE m = 0
  <2> DEFINE F == [i \in 1..m |-> seqs[1]]
  <2>1. JoinSteps(seqs, m, F)
    BY <1>3 DEF JoinSteps
  <2> QED BY <1>2, <2>1
<1>4. CASE m # 0
  <2>1. m - 1 \in Nat /\ m - 1 \notin Wrong
    BY <1>1, <1>2, <1>4
  <2>2. PICK F : JoinSteps(seqs, m - 1, F)
    BY <2>1
  <2> DEFINE G == [i \in 1..m |-> IF i = 1 THEN seqs[i] ELSE F[i - 1] \o seqs[i]]
  <2>3. \A i \in 1..(m - 1) : G[i] = F[i]
    <3>1. \A i \in 1..(m - 1) : F[i] = IF i = 1 THEN seqs[i] ELSE F[i - 1] \o seqs[i]
      BY <2>2 DEF JoinSteps
    <3>2. \A i \in 1..(m - 1) : i \in 1..m
      BY <1>2
    <3> QED BY <3>1, <3>2
  <2>4. \A i \in 1..m : G[i] = IF i = 1 THEN seqs[i] ELSE G[i - 1] \o seqs[i]
    <3> SUFFICES ASSUME NEW i \in 1..m, i # 1 PROVE F[i - 1] \o seqs[i] = G[i - 1] \o seqs[i]
      OBVIOUS
    <3>1. i - 1 \in 1..(m - 1)
      BY <1>2
    <3> HIDE DEF G
    <3> QED BY <2>3, <3>1
  <2>5. JoinSteps(seqs, m, G)
    <3>1. G = [i \in 1..m |-> G[i]]
      OBVIOUS
    <3> HIDE DEF G
    <3> QED BY <2>4, <3>1 DEF JoinSteps
  <2> QED BY <1>2, <2>5
<1> QED BY <1>3, <1>4

\* What is flattened holds only what was in the lists.
LEMMA FlattenIs ==
  ASSUME NEW n \in Nat, NEW S, NEW seqs, seqs \in [1..n -> Seq(S)]
  PROVE  FlattenSeq(seqs) \in Seq(S)
<1>0. seqs \in Seq(Seq(S)) /\ Len(seqs) = n
  OBVIOUS
<1>1. CASE n = 0
  <2>1. FlattenSeq(seqs) = seqs
    BY <1>0, <1>1 DEF FlattenSeq
  <2>2. seqs = <<>>
    BY <1>0, <1>1, EmptySeq
  <2> QED BY <2>1, <2>2
<1>2. CASE n # 0
  <2> DEFINE joined == JoinBy(seqs)
  <2>1. FlattenSeq(seqs) = joined[n]
    BY <1>0, <1>2 DEF FlattenSeq, JoinBy, JoinSteps
  <2>2. JoinSteps(seqs, n, joined)
    BY <1>0, JoinDefined DEF JoinBy
  <2> HIDE DEF joined
  <2>3. \A i \in 1..n : joined[i] = IF i = 1 THEN seqs[i] ELSE joined[i - 1] \o seqs[i]
    BY <2>2 DEF JoinSteps
  <2> DEFINE Wrong == {i \in 1..n : joined[i] \notin Seq(S)}
  <2>4. Wrong = {}
    <3> SUFFICES ASSUME Wrong # {} PROVE FALSE
      OBVIOUS
    <3>1. PICK i \in Wrong : \A j \in Wrong : i <= j
      <4>1. Wrong \subseteq Nat
        OBVIOUS
      <4> HIDE DEF Wrong
      <4> QED BY <4>1, LeastNumber
    <3>2. i \in 1..n /\ joined[i] \notin Seq(S) /\ seqs[i] \in Seq(S)
      OBVIOUS
    <3>3. i # 1
      BY <2>3, <3>2
    <3>4. i - 1 \in 1..n /\ i - 1 \notin Wrong
      BY <3>1, <3>2, <3>3
    <3>5. joined[i - 1] \in Seq(S)
      BY <3>4
    <3>6. joined[i - 1] \o seqs[i] \in Seq(S)
      BY <3>2, <3>5, ConcatProperties
    <3> QED BY <2>3, <3>2, <3>3, <3>6
  <2>5. n \in 1..n
    BY <1>2
  <2> QED BY <2>1, <2>4, <2>5
<1> QED BY <1>1, <1>2

\* Two ways of taking the same steps lead to the same.
LEMMA JoinUnique ==
  ASSUME NEW n \in Nat, NEW m \in Nat, n <= m,
         NEW seqs, NEW F, JoinSteps(seqs, n, F),
         NEW more, NEW G, JoinSteps(more, m, G),
         \A i \in 1..n : seqs[i] = more[i]
  PROVE  \A i \in 1..n : F[i] = G[i]
<1> DEFINE Wrong == {i \in 1..n : F[i] # G[i]}
<1> SUFFICES ASSUME Wrong # {} PROVE FALSE
  OBVIOUS
<1>1. PICK i \in Wrong : \A j \in Wrong : i <= j
  <2>1. Wrong \subseteq Nat
    OBVIOUS
  <2> HIDE DEF Wrong
  <2> QED BY <2>1, LeastNumber
<1>2. i \in 1..n /\ F[i] # G[i] /\ i \in 1..m
  OBVIOUS
<1>3. \A j \in 1..n : F[j] = IF j = 1 THEN seqs[j] ELSE F[j - 1] \o seqs[j]
  BY DEF JoinSteps
<1>4. \A j \in 1..m : G[j] = IF j = 1 THEN more[j] ELSE G[j - 1] \o more[j]
  BY DEF JoinSteps
<1>5. seqs[i] = more[i]
  BY <1>2
<1>6. i # 1
  BY <1>2, <1>3, <1>4, <1>5
<1>7. i - 1 \in 1..n /\ i - 1 \notin Wrong
  BY <1>1, <1>2, <1>6
<1>8. F[i - 1] = G[i - 1]
  BY <1>7
<1> QED BY <1>2, <1>3, <1>4, <1>5, <1>8

\* No sequences join to nothing.
LEMMA FlattenNone == FlattenSeq(<<>>) = <<>>
<1>1. Len(<<>>) = 0
  OBVIOUS
<1> QED BY <1>1 DEF FlattenSeq

Lists(n, S) == [1..n -> Seq(S)]

\* What is joined last comes last.
LEMMA FlattenAppend ==
  ASSUME NEW n \in Nat, NEW S, NEW seqs, seqs \in Lists(n, S), NEW x \in Seq(S),
         NEW more, more \in Lists(n + 1, S), more[n + 1] = x,
         \A i \in 1..n : more[i] = seqs[i]
  PROVE  FlattenSeq(more) = FlattenSeq(seqs) \o x
<1>0. Len(seqs) = n /\ Len(more) = n + 1
  BY DEF Lists
<1> DEFINE G == JoinBy(more)
<1>1. FlattenSeq(more) = G[n + 1]
  BY <1>0 DEF FlattenSeq, JoinBy, JoinSteps
<1>2. JoinSteps(more, n + 1, G)
  <2>1. n + 1 \in Nat
    OBVIOUS
  <2>2. \E joined : JoinSteps(more, n + 1, joined)
    BY <2>1, JoinDefined
  <2> QED BY <1>0, <2>2 DEF JoinBy
<1> HIDE DEF G
<1>3. \A i \in 1..(n + 1) : G[i] = IF i = 1 THEN more[i] ELSE G[i - 1] \o more[i]
  BY <1>2 DEF JoinSteps
<1>4. CASE n = 0
  <2>1. FlattenSeq(seqs) = seqs
    BY <1>0, <1>4 DEF FlattenSeq
  <2>2. seqs \in Seq(Seq(S))
    BY DEF Lists
  <2>3. seqs = <<>>
    BY <1>0, <1>4, <2>2, EmptySeq
  <2>4. G[n + 1] = x
    BY <1>3, <1>4
  <2> QED BY <1>1, <2>1, <2>3, <2>4, ConcatEmptySeq
<1>5. CASE n # 0
  <2> DEFINE F == JoinBy(seqs)
  <2>1. FlattenSeq(seqs) = F[n]
    BY <1>0, <1>5 DEF FlattenSeq, JoinBy, JoinSteps
  <2>2. JoinSteps(seqs, n, F)
    BY <1>0, JoinDefined DEF JoinBy
  <2> HIDE DEF F
  <2>3. \A i \in 1..n : F[i] = G[i]
    <3> DEFINE m == n + 1
    <3>1. /\ n <= m /\ m \in Nat /\ JoinSteps(more, m, G)
          /\ \A i \in 1..n : seqs[i] = more[i]
      BY <1>2
    <3> HIDE DEF m
    <3> QED BY <2>2, <3>1, JoinUnique
  <2>4. G[n + 1] = G[n] \o x
    <3>1. n + 1 \in 1..(n + 1) /\ n + 1 # 1 /\ (n + 1) - 1 = n
      BY <1>5
    <3>2. G[n + 1] = IF n + 1 = 1 THEN more[n + 1] ELSE G[(n + 1) - 1] \o more[n + 1]
      BY <1>3, <3>1
    <3> QED BY <3>1, <3>2
  <2>5. F[n] = G[n]
    BY <1>5, <2>3
  <2> QED BY <1>1, <2>1, <2>4, <2>5
<1> QED BY <1>4, <1>5
=============================================================================
