-------------------------------- MODULE Sums --------------------------------
(***************************************************************************)
(* Sums of natural numbers over finite sets, and what the proofs about     *)
(* weights, votes and payments need of them.  A sum is a fold, hence a     *)
(* recursive function; that the recursion has a solution, and what it      *)
(* computes, is shown by the least number for which it would fail.         *)
(***************************************************************************)
EXTENDS Integers, FiniteSets, FiniteSetsExt, FiniteSetTheorems, WellFoundedInduction, TLAPS

SumOver(f, S) == MapThenSumSet(LAMBDA x : f[x], S)

(* A set of numbers that is not empty has a least one.                      *)
LEMMA LeastNumber ==
    ASSUME NEW T \in SUBSET Nat, T # {}
    PROVE  \E n \in T : \A m \in T : n <= m
<1>1. PICK n \in T : \A m \in T : ~(<<m, n>> \in OpToRel(<, Nat))
    BY NatLessThanWellFounded, WFMin
<1>2. \A m \in T : ~(m < n)
    BY <1>1 DEF OpToRel
<1>3. QED
    BY <1>2

Chosen(s) == CHOOSE x \in s : TRUE
Step(g, f, s) == IF s = {} THEN 0 ELSE f[Chosen(s)] + g[s \ {Chosen(s)}]
Solves(g, f, D) == g = [s \in D |-> Step(g, f, s)]
UpTo(S, n) == {s \in SUBSET S : Cardinality(s) <= n}

(* The fold of the community modules is a solution, if there is one.        *)
LEMMA SumIsFold ==
    ASSUME NEW f, NEW S
    PROVE  SumOver(f, S) = (CHOOSE g : Solves(g, f, SUBSET S))[S]
BY DEF SumOver, MapThenSumSet, MapThenFoldSet, Solves, Step, Chosen

LEMMA ChosenIn ==
    ASSUME NEW S, IsFiniteSet(S), NEW s \in SUBSET S, s # {}
    PROVE  /\ Chosen(s) \in s
           /\ s \ {Chosen(s)} \in SUBSET S
           /\ Cardinality(s) \in Nat \ {0}
           /\ Cardinality(s \ {Chosen(s)}) = Cardinality(s) - 1
<1>1. Chosen(s) \in s
    BY DEF Chosen
<1>2. IsFiniteSet(s)
    BY FS_Subset
<1>3. QED
    BY <1>1, <1>2, FS_RemoveElement, FS_CardinalityType, FS_EmptySet

(* There is a solution: the least size without one would have one.          *)
LEMMA SolutionExists ==
    ASSUME NEW S, IsFiniteSet(S), NEW f
    PROVE  \E g : Solves(g, f, SUBSET S)
<1> DEFINE Bad == {n \in Nat : ~ \E g : Solves(g, f, UpTo(S, n))}
<1>1. ASSUME Bad # {} PROVE FALSE
    <2>1. PICK n \in Bad : \A m \in Bad : n <= m
        BY <1>1, LeastNumber
    <2>2. CASE n = 0
        <3> DEFINE g == [s \in UpTo(S, 0) |-> 0]
        <3>1. ASSUME NEW s \in UpTo(S, 0) PROVE s = {}
            <4>1. s \in SUBSET S /\ Cardinality(s) <= 0
                BY DEF UpTo
            <4>2. IsFiniteSet(s)
                BY <4>1, FS_Subset
            <4>3. QED
                BY <4>1, <4>2, FS_CardinalityType, FS_EmptySet
        <3>2. Solves(g, f, UpTo(S, 0))
            BY <3>1 DEF Solves, Step
        <3>3. QED
            BY <2>2, <3>2
    <2>3. CASE n # 0
        <3>1. n - 1 \in Nat /\ n - 1 \notin Bad
            BY <2>1, <2>3
        <3>2. PICK g : Solves(g, f, UpTo(S, n - 1))
            BY <3>1
        <3> DEFINE h == [s \in UpTo(S, n) |-> Step(g, f, s)]
        <3>3. ASSUME NEW s \in UpTo(S, n) PROVE Step(g, f, s) = Step(h, f, s)
            <4>1. CASE s = {}
                BY <4>1 DEF Step
            <4>2. CASE s # {}
                <5> DEFINE r == s \ {Chosen(s)}
                <5>1. r \in UpTo(S, n - 1) /\ r \in UpTo(S, n)
                    BY <4>2, ChosenIn, <3>1 DEF UpTo
                <5>2. g[r] = Step(g, f, r) /\ h[r] = Step(g, f, r)
                    BY <3>2, <5>1 DEF Solves
                <5>3. QED
                    BY <5>2, <4>2 DEF Step
            <4>3. QED
                BY <4>1, <4>2
        <3>4. Solves(h, f, UpTo(S, n))
            BY <3>3 DEF Solves
        <3>5. QED
            BY <3>4
    <2>4. QED
        BY <2>2, <2>3
<1>2. Cardinality(S) \in Nat /\ UpTo(S, Cardinality(S)) = SUBSET S
    BY FS_CardinalityType, FS_Subset DEF UpTo
<1>3. \E g : Solves(g, f, UpTo(S, Cardinality(S)))
    BY <1>1, <1>2, Zenon
<1>4. QED
    BY <1>2, <1>3

Folded(f, S) == CHOOSE g : Solves(g, f, SUBSET S)

(* Hence a sum begins with any function that solves the recursion.          *)
LEMMA FoldedSolves ==
    ASSUME NEW S, IsFiniteSet(S), NEW f
    PROVE  \A s \in SUBSET S : Folded(f, S)[s] = Step(Folded(f, S), f, s)
<1>1. Solves(Folded(f, S), f, SUBSET S)
    BY SolutionExists DEF Folded
<1>2. QED
    BY <1>1 DEF Solves

(* On the subsets of S all solutions agree, so that the sum over a part of  *)
(* S does not depend on S.                                                  *)
LEMMA FoldedIsSum ==
    ASSUME NEW S, IsFiniteSet(S), NEW f, NEW T \in SUBSET S
    PROVE  Folded(f, S)[T] = SumOver(f, T)
<1> DEFINE g == Folded(f, S)
           h == Folded(f, T)
           Bad == {n \in Nat : \E s \in SUBSET T : Cardinality(s) = n /\ g[s] # h[s]}
<1>1. IsFiniteSet(T)
    BY FS_Subset
<1>2. ASSUME Bad # {} PROVE FALSE
    <2>1. PICK n \in Bad : \A m \in Bad : n <= m
        BY <1>2, LeastNumber
    <2>2. PICK s \in SUBSET T : Cardinality(s) = n /\ g[s] # h[s]
        BY <2>1
    <2>3. g[s] = Step(g, f, s) /\ h[s] = Step(h, f, s)
        BY FoldedSolves, <1>1
    <2>4. s # {}
        BY <2>2, <2>3 DEF Step
    <2> DEFINE r == s \ {Chosen(s)}
    <2>5. r \in SUBSET T /\ Cardinality(r) = n - 1 /\ n - 1 \in Nat
        BY <2>2, <2>4, <1>1, ChosenIn
    <2>6. g[r] = h[r]
        BY <2>1, <2>5
    <2>7. QED
        BY <2>2, <2>3, <2>4, <2>6 DEF Step
<1>3. Cardinality(T) \in Nat /\ T \in SUBSET T
    BY <1>1, FS_CardinalityType
<1>4. g[T] = h[T]
    BY <1>2, <1>3
<1>5. QED
    BY <1>4, SumIsFold DEF Folded

(* A sum over nothing, and the first turn of the loop.                      *)
THEOREM SumEmpty ==
    ASSUME NEW f
    PROVE  SumOver(f, {}) = 0
BY FoldedSolves, FoldedIsSum, FS_EmptySet DEF Step

LEMMA SumFirst ==
    ASSUME NEW S, IsFiniteSet(S), S # {}, NEW f
    PROVE  SumOver(f, S) = f[Chosen(S)] + SumOver(f, S \ {Chosen(S)})
<1>1. Folded(f, S)[S] = f[Chosen(S)] + Folded(f, S)[S \ {Chosen(S)}]
    BY FoldedSolves DEF Step
<1>2. QED
    BY <1>1, FoldedIsSum

(* Sums of natural numbers are natural numbers.                             *)
THEOREM SumNat ==
    ASSUME NEW S, IsFiniteSet(S), NEW f, \A x \in S : f[x] \in Nat
    PROVE  SumOver(f, S) \in Nat
<1> DEFINE Bad == {n \in Nat : \E s \in SUBSET S : Cardinality(s) = n /\ SumOver(f, s) \notin Nat}
<1>1. ASSUME Bad # {} PROVE FALSE
    <2>1. PICK n \in Bad : \A m \in Bad : n <= m
        BY <1>1, LeastNumber
    <2>2. PICK s \in SUBSET S : Cardinality(s) = n /\ SumOver(f, s) \notin Nat
        BY <2>1
    <2>3. s # {}
        BY <2>2, SumEmpty
    <2> DEFINE r == s \ {Chosen(s)}
    <2>4. /\ r \in SUBSET S /\ Chosen(s) \in S
          /\ Cardinality(r) = n - 1 /\ n - 1 \in Nat /\ n - 1 < n
        <3>1. /\ Chosen(s) \in s
              /\ Cardinality(s) \in Nat \ {0}
              /\ Cardinality(r) = Cardinality(s) - 1
            BY <2>3, ChosenIn
        <3>2. QED
            BY <3>1, <2>2
    <2>5. SumOver(f, r) \in Nat
        BY <2>1, <2>4
    <2>6. SumOver(f, s) = f[Chosen(s)] + SumOver(f, r)
        BY <2>3, SumFirst, FS_Subset
    <2>7. QED
        BY <2>2, <2>4, <2>5, <2>6
<1>2. Cardinality(S) \in Nat
    BY FS_CardinalityType
<1>3. QED
    BY <1>1, <1>2

(* The order does not matter: any element may come first.                   *)
THEOREM SumPick ==
    ASSUME NEW S, IsFiniteSet(S), NEW f, \A x \in S : f[x] \in Nat, NEW a \in S
    PROVE  SumOver(f, S) = f[a] + SumOver(f, S \ {a})
<1> DEFINE Bad == {n \in Nat : \E s \in SUBSET S : \E x \in s :
                      Cardinality(s) = n /\ SumOver(f, s) # f[x] + SumOver(f, s \ {x})}
<1>1. ASSUME Bad # {} PROVE FALSE
    <2>1. PICK n \in Bad : \A m \in Bad : n <= m
        BY <1>1, LeastNumber
    <2>0. PICK s \in SUBSET S : \E x \in s :
              Cardinality(s) = n /\ SumOver(f, s) # f[x] + SumOver(f, s \ {x})
        BY <2>1
    <2>2. PICK x \in s : Cardinality(s) = n /\ SumOver(f, s) # f[x] + SumOver(f, s \ {x})
        BY <2>0
    <2> DEFINE y == Chosen(s)
               r == s \ {y}
               t == s \ {x}
    <2>3. IsFiniteSet(s) /\ IsFiniteSet(t) /\ IsFiniteSet(r \ {x})
        BY <2>2, FS_Subset
    <2>4. y \in s /\ Cardinality(r) = n - 1 /\ n - 1 \in Nat /\ n - 1 < n
        BY <2>2, ChosenIn
    <2>5. SumOver(f, s) = f[y] + SumOver(f, r)
        BY <2>2, <2>3, SumFirst
    <2>6. x # y
        BY <2>2, <2>5
    <2>7. Cardinality(t) = n - 1
        BY <2>2, <2>3, FS_RemoveElement
    <2>8. n - 1 \notin Bad
        BY <2>1, <2>4
    <2>9. SumOver(f, r) = f[x] + SumOver(f, r \ {x})
        BY <2>2, <2>4, <2>6, <2>8
    <2>10. SumOver(f, t) = f[y] + SumOver(f, t \ {y})
        BY <2>2, <2>4, <2>6, <2>7, <2>8
    <2>11. r \ {x} = t \ {y}
        OBVIOUS
    <2>12. f[x] \in Nat /\ f[y] \in Nat /\ SumOver(f, t \ {y}) \in Nat
        BY <2>2, <2>3, <2>4, <2>11, SumNat
    <2>13. \A p, q, z \in Nat : p + (q + z) = q + (p + z)
        OBVIOUS
    <2>14. f[y] + (f[x] + SumOver(f, t \ {y})) = f[x] + (f[y] + SumOver(f, t \ {y}))
        BY <2>12, <2>13, Zenon
    <2>15. SumOver(f, s) = f[x] + SumOver(f, t)
        BY <2>5, <2>9, <2>10, <2>11, <2>14, Zenon
    <2>16. QED
        BY <2>2, <2>15, Zenon
<1>2. Cardinality(S) \in Nat
    BY FS_CardinalityType
<1>3. QED
    BY <1>1, <1>2

(* No term is larger than the sum.                                          *)
THEOREM SumBounds ==
    ASSUME NEW S, IsFiniteSet(S), NEW f, \A x \in S : f[x] \in Nat, NEW a \in S
    PROVE  f[a] <= SumOver(f, S)
<1>1. SumOver(f, S) = f[a] + SumOver(f, S \ {a}) /\ SumOver(f, S \ {a}) \in Nat
    BY SumPick, SumNat, FS_RemoveElement
<1>2. QED
    BY <1>1

THEOREM SumSingle ==
    ASSUME NEW a, NEW f, f[a] \in Nat
    PROVE  SumOver(f, {a}) = f[a]
<1>1. {a} \ {a} = {}
    OBVIOUS
<1>2. SumOver(f, {a}) = f[a] + SumOver(f, {})
    BY <1>1, SumPick, FS_Singleton
<1>3. QED
    BY <1>2, SumEmpty

(* Only the terms matter, not the function they are taken from.             *)
THEOREM SumEqual ==
    ASSUME NEW S, NEW f, NEW g, \A x \in S : f[x] = g[x]
    PROVE  SumOver(f, S) = SumOver(g, S)
<1>1. ASSUME NEW h PROVE Solves(h, f, SUBSET S) <=> Solves(h, g, SUBSET S)
    <2>1. \A s \in SUBSET S : s # {} => Chosen(s) \in S
        BY DEF Chosen
    <2>2. \A s \in SUBSET S : Step(h, f, s) = Step(h, g, s)
        BY <2>1 DEF Step
    <2>3. QED
        BY <2>2 DEF Solves
<1>2. (CHOOSE h : Solves(h, f, SUBSET S)) = (CHOOSE h : Solves(h, g, SUBSET S))
    BY <1>1, Zenon
<1>3. QED
    BY <1>2, SumIsFold

(* The sum of what the records of h hold in a field.                        *)
AmountsIn(h, S) == MapThenSumSet(LAMBDA x : h[x].amount, S)
THEOREM SumOfAmounts ==
    ASSUME NEW S, NEW f, NEW h, \A x \in S : f[x] = h[x].amount
    PROVE  AmountsIn(h, S) = SumOver(f, S)
<1> DEFINE Field(g, s) == IF s = {} THEN 0 ELSE h[Chosen(s)].amount + g[s \ {Chosen(s)}]
           Sought(g) == g = [s \in SUBSET S |-> Field(g, s)]
<1>1. ASSUME NEW g PROVE Sought(g) <=> Solves(g, f, SUBSET S)
    <2>1. \A s \in SUBSET S : s # {} => Chosen(s) \in S
        BY DEF Chosen
    <2>2. \A s \in SUBSET S : Field(g, s) = Step(g, f, s)
        BY <2>1 DEF Step
    <2>3. QED
        BY <2>2 DEF Solves
<1>2. (CHOOSE g : Sought(g)) = (CHOOSE g : Solves(g, f, SUBSET S))
    BY <1>1, Zenon
<1>3. AmountsIn(h, S) = (CHOOSE g : Sought(g))[S]
    BY DEF AmountsIn, MapThenSumSet, MapThenFoldSet, Chosen
<1>4. QED
    BY <1>2, <1>3, SumIsFold

(* Two parts, apart from each other.                                        *)
THEOREM SumUnion ==
    ASSUME NEW S, IsFiniteSet(S), NEW T, IsFiniteSet(T), S \cap T = {},
           NEW f, \A x \in S \cup T : f[x] \in Nat
    PROVE  SumOver(f, S \cup T) = SumOver(f, S) + SumOver(f, T)
<1> DEFINE Off(s) == SumOver(f, S \cup s) # SumOver(f, S) + SumOver(f, s)
           Bad == {n \in Nat : \E s \in SUBSET T : Cardinality(s) = n /\ Off(s)}
<1>1. ASSUME Bad # {} PROVE FALSE
    <2>1. PICK n \in Bad : \A m \in Bad : n <= m
        BY <1>1, LeastNumber
    <2>2. PICK s \in SUBSET T : Cardinality(s) = n /\ Off(s)
        BY <2>1
    <2>3. SumOver(f, S) \in Nat
        BY SumNat
    <2>4. s # {}
        BY <2>2, <2>3, SumEmpty
    <2>5. PICK a \in s : TRUE
        BY <2>4
    <2> DEFINE r == s \ {a}
    <2>6. IsFiniteSet(s) /\ IsFiniteSet(r) /\ IsFiniteSet(S \cup s)
        BY <2>2, FS_Subset, FS_Union
    <2>7. r \in SUBSET T /\ Cardinality(r) = n - 1 /\ n - 1 \in Nat
        BY <2>2, <2>5, <2>6, FS_RemoveElement, FS_CardinalityType
    <2>8. ~Off(r)
        <3> HIDE DEF Off
        <3>1. n - 1 \notin Bad
            BY <2>1, <2>7
        <3>2. QED
            BY <2>7, <3>1
    <2>9. (S \cup s) \ {a} = S \cup r
        BY <2>2, <2>5
    <2>10. SumOver(f, S \cup s) = f[a] + SumOver(f, S \cup r)
        BY <2>2, <2>5, <2>6, <2>9, SumPick
    <2>11. SumOver(f, s) = f[a] + SumOver(f, r)
        BY <2>2, <2>5, <2>6, SumPick
    <2>12. f[a] \in Nat /\ SumOver(f, r) \in Nat
        BY <2>2, <2>5, <2>6, SumNat
    <2>13. \A p, q, u \in Nat : p + (q + u) = q + (p + u)
        OBVIOUS
    <2>14. f[a] + (SumOver(f, S) + SumOver(f, r)) = SumOver(f, S) + (f[a] + SumOver(f, r))
        BY <2>3, <2>12, <2>13, Zenon
    <2>15. SumOver(f, S \cup s) = SumOver(f, S) + SumOver(f, s)
        BY <2>8, <2>10, <2>11, <2>14, Zenon
    <2>16. QED
        BY <2>2, <2>15, Zenon
<1>2. Cardinality(T) \in Nat
    BY FS_CardinalityType
<1>3. QED
    BY <1>1, <1>2

(* A part is no more than the whole.                                        *)
THEOREM SumSubset ==
    ASSUME NEW S, IsFiniteSet(S), NEW T \in SUBSET S, NEW f, \A x \in S : f[x] \in Nat
    PROVE  SumOver(f, T) \in Nat /\ SumOver(f, S) \in Nat /\ SumOver(f, T) <= SumOver(f, S)
<1>1. IsFiniteSet(T) /\ IsFiniteSet(S \ T) /\ S = T \cup (S \ T) /\ T \cap (S \ T) = {}
    BY FS_Subset
<1>2. SumOver(f, T) \in Nat /\ SumOver(f, S \ T) \in Nat
    BY <1>1, SumNat
<1>3. SumOver(f, S) = SumOver(f, T) + SumOver(f, S \ T)
    BY <1>1, SumUnion
<1>4. QED
    BY <1>2, <1>3

(* Two parts that cover the whole.                                          *)
THEOREM SumCovered ==
    ASSUME NEW S, IsFiniteSet(S), NEW T, IsFiniteSet(T), NEW U \in SUBSET (S \cup T),
           NEW f, \A x \in S \cup T : f[x] \in Nat
    PROVE  SumOver(f, U) <= SumOver(f, S) + SumOver(f, T)
<1>1. IsFiniteSet(S \cup T) /\ IsFiniteSet(T \ S) /\ S \cap (T \ S) = {} /\ S \cup (T \ S) = S \cup T
    BY FS_Union, FS_Subset
<1>2. SumOver(f, S \cup T) = SumOver(f, S) + SumOver(f, T \ S)
    BY <1>1, SumUnion
<1>3. /\ SumOver(f, T \ S) \in Nat /\ SumOver(f, T) \in Nat
      /\ SumOver(f, T \ S) <= SumOver(f, T)
    BY SumSubset
<1>4. /\ SumOver(f, U) \in Nat /\ SumOver(f, S \cup T) \in Nat
      /\ SumOver(f, U) <= SumOver(f, S \cup T)
    BY <1>1, SumSubset
<1>5. SumOver(f, S) \in Nat
    BY SumNat
<1>6. QED
    BY <1>2, <1>3, <1>4, <1>5

(* One term changes.                                                        *)
THEOREM SumChange ==
    ASSUME NEW S, IsFiniteSet(S), NEW f, NEW g, NEW a \in S,
           \A x \in S : f[x] \in Nat /\ g[x] \in Nat,
           \A x \in S \ {a} : f[x] = g[x]
    PROVE  /\ SumOver(f, S) \in Nat /\ SumOver(g, S) \in Nat
           /\ SumOver(g, S) = SumOver(f, S) - f[a] + g[a]
<1>1. SumOver(f, S) = f[a] + SumOver(f, S \ {a}) /\ SumOver(g, S) = g[a] + SumOver(g, S \ {a})
    BY SumPick
<1>2. SumOver(f, S \ {a}) = SumOver(g, S \ {a})
    BY SumEqual
<1>3. IsFiniteSet(S \ {a})
    BY FS_RemoveElement
<1>4. SumOver(f, S \ {a}) \in Nat
    BY <1>3, SumNat
<1>5. QED
    BY <1>1, <1>2, <1>4

(* What is no larger term by term is no larger in sum.                      *)
THEOREM SumOrdered ==
    ASSUME NEW S, IsFiniteSet(S), NEW f, NEW g,
           \A x \in S : f[x] \in Nat /\ g[x] \in Nat /\ f[x] <= g[x]
    PROVE  SumOver(f, S) <= SumOver(g, S)
<1> DEFINE Off(s) == ~(SumOver(f, s) <= SumOver(g, s))
           Bad == {n \in Nat : \E s \in SUBSET S : Cardinality(s) = n /\ Off(s)}
<1>1. ASSUME Bad # {} PROVE FALSE
    <2>1. PICK n \in Bad : \A m \in Bad : n <= m
        BY <1>1, LeastNumber
    <2>2. PICK s \in SUBSET S : Cardinality(s) = n /\ Off(s)
        BY <2>1
    <2>4. s # {}
        BY <2>2, SumEmpty
    <2>5. PICK a \in s : TRUE
        BY <2>4
    <2> DEFINE r == s \ {a}
    <2>6. IsFiniteSet(s) /\ IsFiniteSet(r)
        BY <2>2, FS_Subset
    <2>7. r \in SUBSET S /\ Cardinality(r) = n - 1 /\ n - 1 \in Nat
        BY <2>2, <2>5, <2>6, FS_RemoveElement, FS_CardinalityType
    <2>8. ~Off(r)
        <3> HIDE DEF Off
        <3>1. n - 1 \notin Bad
            BY <2>1, <2>7
        <3>2. QED
            BY <2>7, <3>1
    <2>9. SumOver(f, s) = f[a] + SumOver(f, r) /\ SumOver(g, s) = g[a] + SumOver(g, r)
        BY <2>2, <2>5, <2>6, SumPick
    <2>10. /\ f[a] \in Nat /\ g[a] \in Nat /\ f[a] <= g[a]
           /\ SumOver(f, r) \in Nat /\ SumOver(g, r) \in Nat
        BY <2>2, <2>5, <2>6, SumNat
    <2>11. QED
        BY <2>2, <2>8, <2>9, <2>10
<1>2. Cardinality(S) \in Nat
    BY FS_CardinalityType
<1>3. QED
    BY <1>1, <1>2

(* A factor all terms have.                                                 *)
THEOREM SumTimes ==
    ASSUME NEW S, IsFiniteSet(S), NEW f, NEW g, NEW c \in Nat,
           \A x \in S : f[x] \in Nat /\ g[x] = c * f[x]
    PROVE  SumOver(g, S) = c * SumOver(f, S)
<1> DEFINE Off(s) == SumOver(g, s) # c * SumOver(f, s)
           Bad == {n \in Nat : \E s \in SUBSET S : Cardinality(s) = n /\ Off(s)}
<1>0. \A p, q \in Nat : c * (p + q) = c * p + c * q /\ c * p \in Nat
    OBVIOUS
<1>1. ASSUME Bad # {} PROVE FALSE
    <2>1. PICK n \in Bad : \A m \in Bad : n <= m
        BY <1>1, LeastNumber
    <2>2. PICK s \in SUBSET S : Cardinality(s) = n /\ Off(s)
        BY <2>1
    <2>4. s # {}
        BY <2>2, SumEmpty
    <2>5. PICK a \in s : TRUE
        BY <2>4
    <2> DEFINE r == s \ {a}
    <2>6. IsFiniteSet(s) /\ IsFiniteSet(r)
        BY <2>2, FS_Subset
    <2>7. r \in SUBSET S /\ Cardinality(r) = n - 1 /\ n - 1 \in Nat
        BY <2>2, <2>5, <2>6, FS_RemoveElement, FS_CardinalityType
    <2>8. ~Off(r)
        <3> HIDE DEF Off
        <3>1. n - 1 \notin Bad
            BY <2>1, <2>7
        <3>2. QED
            BY <2>7, <3>1
    <2>a. \A x \in s : f[x] \in Nat /\ g[x] = c * f[x] /\ g[x] \in Nat
        BY <1>0, <2>2
    <2>9. SumOver(f, s) = f[a] + SumOver(f, r) /\ SumOver(g, s) = g[a] + SumOver(g, r)
        BY <2>a, <2>5, <2>6, SumPick
    <2>10. /\ f[a] \in Nat /\ g[a] = c * f[a] /\ SumOver(f, r) \in Nat
        BY <2>a, <2>5, <2>6, SumNat
    <2>11. QED
        BY <1>0, <2>2, <2>8, <2>9, <2>10
<1>2. Cardinality(S) \in Nat
    BY FS_CardinalityType
<1>3. QED
    BY <1>1, <1>2

(* Two terms for each.                                                      *)
THEOREM SumPlus ==
    ASSUME NEW S, IsFiniteSet(S), NEW f, NEW g, NEW h,
           \A x \in S : f[x] \in Nat /\ g[x] \in Nat /\ h[x] = f[x] + g[x]
    PROVE  SumOver(h, S) = SumOver(f, S) + SumOver(g, S)
<1> DEFINE Off(s) == SumOver(h, s) # SumOver(f, s) + SumOver(g, s)
           Bad == {n \in Nat : \E s \in SUBSET S : Cardinality(s) = n /\ Off(s)}
<1>1. ASSUME Bad # {} PROVE FALSE
    <2>1. PICK n \in Bad : \A m \in Bad : n <= m
        BY <1>1, LeastNumber
    <2>2. PICK s \in SUBSET S : Cardinality(s) = n /\ Off(s)
        BY <2>1
    <2>3. s # {}
        <3> SUFFICES ASSUME s = {} PROVE SumOver(h, s) = SumOver(f, s) + SumOver(g, s)
            BY <2>2
        <3>1. SumOver(f, s) = 0 /\ SumOver(g, s) = 0 /\ SumOver(h, s) = 0
            BY SumEmpty
        <3>2. QED
            BY <3>1
    <2>4. PICK a \in s : TRUE
        BY <2>3
    <2> DEFINE r == s \ {a}
    <2>5. IsFiniteSet(s) /\ IsFiniteSet(r)
        BY <2>2, FS_Subset
    <2>6. r \in SUBSET S /\ Cardinality(r) = n - 1 /\ n - 1 \in Nat
        BY <2>2, <2>4, <2>5, FS_RemoveElement, FS_CardinalityType
    <2>7. ~Off(r)
        <3> HIDE DEF Off
        <3>1. n - 1 \notin Bad
            BY <2>1, <2>6
        <3>2. QED
            BY <2>6, <3>1
    <2>8. \A x \in s : f[x] \in Nat /\ g[x] \in Nat /\ h[x] = f[x] + g[x] /\ h[x] \in Nat
        BY <2>2
    <2>9. /\ SumOver(f, s) = f[a] + SumOver(f, r) /\ SumOver(g, s) = g[a] + SumOver(g, r)
          /\ SumOver(h, s) = h[a] + SumOver(h, r)
        BY <2>4, <2>5, <2>8, SumPick
    <2>10. /\ f[a] \in Nat /\ g[a] \in Nat /\ h[a] = f[a] + g[a]
           /\ SumOver(f, r) \in Nat /\ SumOver(g, r) \in Nat
        BY <2>4, <2>5, <2>8, SumNat
    <2>11. QED
        BY <2>2, <2>7, <2>9, <2>10
<1>2. Cardinality(S) \in Nat
    BY FS_CardinalityType
<1>3. QED
    BY <1>1, <1>2

(* Terms may be renamed, one for one.                                       *)
THEOREM SumImage ==
    ASSUME NEW S, IsFiniteSet(S), NEW h, NEW f, NEW g,
           \A x, y \in S : h[x] = h[y] => x = y,
           \A x \in S : f[h[x]] \in Nat /\ g[x] = f[h[x]]
    PROVE  SumOver(g, S) = SumOver(f, {h[x] : x \in S})
<1> DEFINE Image(s) == {h[x] : x \in s}
           Off(s) == SumOver(g, s) # SumOver(f, Image(s))
           Bad == {n \in Nat : \E s \in SUBSET S : Cardinality(s) = n /\ Off(s)}
<1>1. ASSUME Bad # {} PROVE FALSE
    <2>1. PICK n \in Bad : \A m \in Bad : n <= m
        BY <1>1, LeastNumber
    <2>2. PICK s \in SUBSET S : Cardinality(s) = n /\ Off(s)
        BY <2>1
    <2>4. s # {}
        <3>1. Image({}) = {}
            OBVIOUS
        <3>2. QED
            BY <2>2, <3>1, SumEmpty
    <2>5. PICK a \in s : TRUE
        BY <2>4
    <2> DEFINE r == s \ {a}
    <2>6. IsFiniteSet(s) /\ IsFiniteSet(r) /\ IsFiniteSet(Image(s))
        <3> DEFINE k == [x \in s |-> h[x]]
        <3>1. k \in Surjection(s, Image(s))
            BY DEF Surjection
        <3>2. IsFiniteSet(s) /\ IsFiniteSet(r)
            BY <2>2, FS_Subset
        <3> HIDE DEF k, Image
        <3>3. QED
            BY <3>1, <3>2, FS_Surjection
    <2>7. r \in SUBSET S /\ Cardinality(r) = n - 1 /\ n - 1 \in Nat
        BY <2>2, <2>5, <2>6, FS_RemoveElement, FS_CardinalityType
    <2>8. ~Off(r)
        <3> HIDE DEF Off
        <3>1. n - 1 \notin Bad
            BY <2>1, <2>7
        <3>2. QED
            BY <2>7, <3>1
    <2>9. Image(s) \ {h[a]} = Image(r) /\ h[a] \in Image(s)
        BY <2>2, <2>5
    <2>10. SumOver(g, s) = g[a] + SumOver(g, r)
        BY <2>2, <2>5, <2>6, SumPick
    <2>11. SumOver(f, Image(s)) = f[h[a]] + SumOver(f, Image(s) \ {h[a]})
        <3>1. \A x \in Image(s) : f[x] \in Nat
            BY <2>2
        <3> HIDE DEF Image
        <3>2. QED
            BY <2>6, <2>9, <3>1, SumPick
    <2>12. QED
        <3>1. g[a] = f[h[a]] /\ SumOver(g, r) = SumOver(f, Image(r))
            BY <2>2, <2>5, <2>8
        <3> HIDE DEF Image
        <3>2. SumOver(g, s) = SumOver(f, Image(s))
            BY <2>9, <2>10, <2>11, <3>1
        <3>3. QED
            BY <2>2, <3>2
<1>2. Cardinality(S) \in Nat
    BY FS_CardinalityType
<1>3. QED
    BY <1>1, <1>2
=============================================================================
