--------------------------- MODULE Placement_proofs ---------------------------
(***************************************************************************)
(* Proofs about placement: what it places keeps the reserve of the node,   *)
(* counting what runs and what is promised, and the console admits what it *)
(* would place, for any number of operations, nodes and plans.  The first  *)
(* third is about the sums the module is built on.                         *)
(***************************************************************************)
EXTENDS Placement, FiniteSetTheorems, SequenceTheorems, WellFoundedInduction, TLAPS

-----------------------------------------------------------------------------
(* Induction over the subsets of a finite set.                             *)

\* Among subsets of a finite set there is one without a smaller one.
LEMMA SmallestSet ==
    ASSUME NEW S, IsFiniteSet(S), NEW T, T \subseteq SUBSET S, T # {}
    PROVE  \E t \in T : \A u \in SUBSET t : u # t => u \notin T
<1> PICK R : R = StrictSubsetOrdering(S)
  OBVIOUS
<1>1. IsWellFoundedOn(R, SUBSET S)
  BY FS_StrictSubsetOrderingWellFounded, FS_FiniteSubsetsOfFinite
<1>2. PICK t \in T : \A u \in T : ~ (<<u, t>> \in R)
  BY <1>1, WFMin
<1>3. ASSUME NEW u \in SUBSET t, u # t, u \in T
      PROVE  FALSE
  <2>1. <<u, t>> \in R
    BY <1>3 DEF StrictSubsetOrdering
  <2> QED
    BY <1>2, <1>3, <2>1
<1> QED
  BY <1>3

LEMMA SetInduction ==
    ASSUME NEW S, IsFiniteSet(S), NEW Good \in SUBSET (SUBSET S), {} \in Good,
           \A s \in Good : \A x \in S : x \notin s => s \cup {x} \in Good
    PROVE  S \in Good
<1> SUFFICES ASSUME S \notin Good
             PROVE  FALSE
  OBVIOUS
<1>1. PICK t \in (SUBSET S) \ Good : \A u \in SUBSET t : u # t => u \in Good
  <2> PICK T : T = (SUBSET S) \ Good
    OBVIOUS
  <2>1. T \subseteq SUBSET S /\ T # {}
    OBVIOUS
  <2>2. PICK t \in T : \A u \in SUBSET t : u # t => u \notin T
    BY <2>1, SmallestSet
  <2> QED
    BY <2>2
<1>2. PICK x \in t : TRUE
  BY <1>1
<1>3. t \ {x} \in Good /\ x \in S /\ x \notin t \ {x} /\ t = (t \ {x}) \cup {x}
  BY <1>1, <1>2
<1> QED
  BY <1>1, <1>3

-----------------------------------------------------------------------------
(* The sum of a function over a finite set.                                *)

\* What the sum over t is, given the sums over smaller sets.
SumStep(f, g, t) == IF t = {} THEN 0 ELSE f[CHOOSE x \in t : TRUE] + g[t \ {CHOOSE x \in t : TRUE}]

\* g has the sums over the subsets of S.
Iterates(f, S, g) == \A t \in SUBSET S : g[t] = SumStep(f, g, t)
IsSum(f, S, g) == g \in [SUBSET S -> Int] /\ Iterates(f, S, g)

LEMMA SumIsIterated ==
    ASSUME NEW f, NEW S
    PROVE  SumFunctionOnSet(f, S)
               = (CHOOSE g : g = [t \in SUBSET S |-> SumStep(f, g, t)])[S]
BY DEF SumFunctionOnSet, FoldFunctionOnSet, MapThenFoldSet, SumStep

\* There is a function that sums over every subset.
LEMMA SumsExist ==
    ASSUME NEW D, NEW f \in [D -> Int], NEW S \in SUBSET D, IsFiniteSet(S)
    PROVE  \E g : IsSum(f, S, g)
<1> DEFINE Sums(g, n) == \A t \in SUBSET S : Cardinality(t) <= n => g[t] = SumStep(f, g, t)
<1>1. \A t \in SUBSET S : IsFiniteSet(t) /\ Cardinality(t) \in Nat
  BY FS_Subset, FS_CardinalityType
<1>2. \A t \in SUBSET S : t # {} =>
            /\ (CHOOSE x \in t : TRUE) \in t
            /\ t \ {CHOOSE x \in t : TRUE} \in SUBSET S
            /\ Cardinality(t \ {CHOOSE x \in t : TRUE}) = Cardinality(t) - 1
  BY <1>1, FS_RemoveElement
<1>3. \A g \in [SUBSET S -> Int] : \A t \in SUBSET S : SumStep(f, g, t) \in Int
  BY <1>2 DEF SumStep
<1> DEFINE Good == {s \in SUBSET S : \E g \in [SUBSET S -> Int] : Sums(g, Cardinality(s))}
<1>4. Good \in SUBSET (SUBSET S)
  OBVIOUS
<1>5. {} \in Good
  <2> PICK g : g = [t \in SUBSET S |-> 0]
    OBVIOUS
  <2>1. g \in [SUBSET S -> Int]
    OBVIOUS
  <2>2. Sums(g, Cardinality({}))
    BY <1>1, FS_EmptySet DEF SumStep
  <2> QED
    BY <2>1, <2>2
<1>6. ASSUME NEW s \in Good, NEW x \in S, x \notin s
      PROVE  s \cup {x} \in Good
  <2> PICK n : n = Cardinality(s)
    OBVIOUS
  <2>1. s \cup {x} \in SUBSET S /\ n \in Nat /\ Cardinality(s \cup {x}) = n + 1
    BY <1>1, <1>6, FS_AddElement
  <2>2. PICK g \in [SUBSET S -> Int] : Sums(g, n)
    OBVIOUS
  <2> PICK h : h = [t \in SUBSET S |-> IF Cardinality(t) <= n THEN g[t] ELSE SumStep(f, g, t)]
    OBVIOUS
  <2>3. h \in [SUBSET S -> Int]
    BY <1>3
  <2>4. \A t \in SUBSET S : Cardinality(t) <= n => h[t] = g[t]
    OBVIOUS
  <2>5. ASSUME NEW t \in SUBSET S, Cardinality(t) <= n + 1
        PROVE  h[t] = SumStep(f, h, t)
    <3>1. h[t] = SumStep(f, g, t)
      BY <2>2, <2>5
    <3>2. SumStep(f, g, t) = SumStep(f, h, t)
      BY <1>1, <1>2, <2>1, <2>4, <2>5 DEF SumStep
    <3> QED
      BY <3>1, <3>2
  <2>6. Sums(h, Cardinality(s \cup {x}))
    BY <2>1, <2>5
  <2> QED
    BY <2>1, <2>3, <2>6
<1>7. S \in Good
  <2> HIDE DEF Good
  <2> QED
    BY <1>4, <1>5, <1>6, SetInduction
<1>8. PICK g \in [SUBSET S -> Int] : Sums(g, Cardinality(S))
  BY <1>7
<1>9. \A t \in SUBSET S : g[t] = SumStep(f, g, t)
  BY <1>8, <1>1, FS_Subset
<1> QED
  BY <1>9 DEF IsSum, Iterates

LEMMA SumsAreUnique ==
    ASSUME NEW f, NEW S, IsFiniteSet(S),
           NEW g, Iterates(f, S, g), NEW h, Iterates(f, S, h)
    PROVE  g[S] = h[S]
<1> PICK T : T = {t \in SUBSET S : g[t] # h[t]}
  OBVIOUS
<1> SUFFICES ASSUME T # {}
             PROVE  FALSE
  OBVIOUS
<1>1. T \subseteq SUBSET S
  OBVIOUS
<1>2. PICK t \in T : \A u \in SUBSET t : u # t => u \notin T
  BY <1>1, SmallestSet
<1>3. t \in SUBSET S /\ g[t] # h[t] /\ \A u \in SUBSET t : u # t => g[u] = h[u]
  BY <1>2
<1>4. t # {} => /\ t \ {CHOOSE x \in t : TRUE} \in SUBSET t
                /\ t \ {CHOOSE x \in t : TRUE} # t
  OBVIOUS
<1>5. SumStep(f, g, t) = SumStep(f, h, t)
  BY <1>3, <1>4 DEF SumStep
<1> QED
  BY <1>3, <1>5 DEF Iterates

\* It gives the sum of each.
LEMMA SumsAgree ==
    ASSUME NEW D, NEW f \in [D -> Int], NEW S \in SUBSET D, IsFiniteSet(S)
    PROVE  \E g : IsSum(f, S, g) /\ \A t \in SUBSET S : SumFunctionOnSet(f, t) = g[t]
<1>1. PICK g : IsSum(f, S, g)
  BY SumsExist
<1>2. ASSUME NEW s \in SUBSET S
      PROVE  SumFunctionOnSet(f, s) = g[s]
  <2>1. IsFiniteSet(s) /\ s \in SUBSET D /\ SUBSET s \subseteq SUBSET S
    BY FS_Subset
  <2> PICK c : c = CHOOSE h : h = [t \in SUBSET s |-> SumStep(f, h, t)]
    OBVIOUS
  <2>2. PICK k : IsSum(f, s, k)
    BY <2>1, SumsExist
  <2>3. k = [t \in SUBSET s |-> SumStep(f, k, t)]
    BY <2>2 DEF IsSum, Iterates
  <2>4. c = [t \in SUBSET s |-> SumStep(f, c, t)]
    BY <2>3
  <2>5. Iterates(f, s, c)
    BY <2>4 DEF Iterates
  <2>6. Iterates(f, s, g)
    BY <1>1, <2>1 DEF IsSum, Iterates
  <2>7. g[s] = c[s]
    BY <2>1, <2>5, <2>6, SumsAreUnique
  <2>8. SumFunctionOnSet(f, s) = c[s]
    BY SumIsIterated
  <2> QED
    BY <2>7, <2>8
<1> QED
  BY <1>1, <1>2

LEMMA SumOfNothing ==
    ASSUME NEW D, NEW f \in [D -> Int]
    PROVE  SumFunctionOnSet(f, {}) = 0
<1>1. {} \in SUBSET D /\ IsFiniteSet({}) /\ {} \in SUBSET {}
  BY FS_EmptySet
<1>2. PICK g : IsSum(f, {}, g) /\ \A t \in SUBSET {} : SumFunctionOnSet(f, t) = g[t]
  BY <1>1, SumsAgree
<1>3. SumFunctionOnSet(f, {}) = SumStep(f, g, {})
  BY <1>1, <1>2 DEF IsSum, Iterates
<1> QED
  BY <1>3 DEF SumStep

LEMMA IteratedTakesOff ==
    ASSUME NEW f, NEW S, IsFiniteSet(S), NEW g, IsSum(f, S, g), \A x \in S : f[x] \in Int
    PROVE  \A t \in SUBSET S : \A x \in t : g[t] = f[x] + g[t \ {x}]
<1> DEFINE T == {t \in SUBSET S : \E x \in t : g[t] # f[x] + g[t \ {x}]}
<1> SUFFICES ASSUME T # {}
             PROVE  FALSE
  OBVIOUS
<1>0. T \subseteq SUBSET S
  OBVIOUS
<1>1. PICK t \in T : \A u \in SUBSET t : u # t => u \notin T
  <2> HIDE DEF T
  <2> QED
    BY <1>0, SmallestSet
<1>2. PICK x \in t : g[t] # f[x] + g[t \ {x}]
  BY <1>1
<1>3. PICK y \in t : g[t] = f[y] + g[t \ {y}]
  <2> PICK y : y = CHOOSE z \in t : TRUE
    OBVIOUS
  <2>1. y \in t /\ g[t] = f[y] + g[t \ {y}]
    BY <1>0, <1>2 DEF IsSum, Iterates, SumStep
  <2> QED
    BY <2>1
<1>4. x # y
  BY <1>2, <1>3
<1> PICK both : both = t \ {x, y}
  OBVIOUS
<1>5. /\ (t \ {y}) \ {x} = both /\ (t \ {x}) \ {y} = both
      /\ x \in t \ {y} /\ y \in t \ {x} /\ x \in S /\ y \in S
      /\ {both, t \ {x}, t \ {y}} \subseteq SUBSET S
  BY <1>0, <1>4
<1>6. g[t \ {y}] = f[x] + g[both] /\ g[t \ {x}] = f[y] + g[both]
  <2>1. t \ {y} \notin T /\ t \ {x} \notin T
    BY <1>1, <1>5
  <2>2. \A z \in t \ {y} : g[t \ {y}] = f[z] + g[(t \ {y}) \ {z}]
    BY <1>5, <2>1
  <2>3. \A z \in t \ {x} : g[t \ {x}] = f[z] + g[(t \ {x}) \ {z}]
    BY <1>5, <2>1
  <2> QED
    BY <1>5, <2>2, <2>3
<1>7. f[x] \in Int /\ f[y] \in Int /\ g[both] \in Int
  BY <1>5 DEF IsSum
<1> QED
  BY <1>2, <1>3, <1>6, <1>7

\* The sum is an integer, and takes off any one element.
LEMMA SumTakesOff ==
    ASSUME NEW D, NEW f \in [D -> Int], NEW S \in SUBSET D, IsFiniteSet(S)
    PROVE  /\ SumFunctionOnSet(f, S) \in Int
           /\ \A x \in S : SumFunctionOnSet(f, S) = f[x] + SumFunctionOnSet(f, S \ {x})
<1>1. PICK g : IsSum(f, S, g) /\ \A t \in SUBSET S : SumFunctionOnSet(f, t) = g[t]
  BY SumsAgree
<1>2. \A t \in SUBSET S : SumFunctionOnSet(f, t) = g[t]
  BY <1>1
<1>3. g \in [SUBSET S -> Int]
  BY <1>1 DEF IsSum
<1>4. \A x \in S : f[x] \in Int
  OBVIOUS
<1>5. \A x \in S : g[S] = f[x] + g[S \ {x}]
  BY <1>1, <1>4, IteratedTakesOff
<1>6. SumFunctionOnSet(f, S) = g[S] /\ \A x \in S : SumFunctionOnSet(f, S \ {x}) = g[S \ {x}]
  BY <1>2
<1> QED
  BY <1>3, <1>5, <1>6

LEMMA SumGrows ==
    ASSUME NEW D, NEW f \in [D -> Int], NEW S \in SUBSET D, IsFiniteSet(S), NEW x \in D, x \notin S
    PROVE  SumFunctionOnSet(f, S \cup {x}) = SumFunctionOnSet(f, S) + f[x]
<1>1. IsFiniteSet(S \cup {x}) /\ (S \cup {x}) \ {x} = S
  BY FS_AddElement
<1>2. SumFunctionOnSet(f, S \cup {x}) = f[x] + SumFunctionOnSet(f, S)
  BY <1>1, SumTakesOff
<1> QED
  BY <1>2, SumTakesOff

\* A sum is at most another if it is for each element.
LEMMA SumsCompare ==
    ASSUME NEW D, NEW f \in [D -> Int], NEW E, NEW h \in [E -> Int],
           NEW S \in SUBSET D, S \subseteq E, IsFiniteSet(S), \A x \in S : f[x] <= h[x]
    PROVE  SumFunctionOnSet(f, S) <= SumFunctionOnSet(h, S)
<1> PICK Good : Good = {s \in SUBSET S : SumFunctionOnSet(f, s) <= SumFunctionOnSet(h, s)}
  OBVIOUS
<1>1. {} \in Good
  BY SumOfNothing
<1>2. ASSUME NEW s \in Good, NEW x \in S, x \notin s
      PROVE  s \cup {x} \in Good
  <2>1. IsFiniteSet(s) /\ s \subseteq D /\ s \subseteq E /\ x \in D /\ x \in E
    BY FS_Subset
  <2>2. SumFunctionOnSet(f, s) \in Int /\ SumFunctionOnSet(h, s) \in Int
    BY <2>1, SumTakesOff
  <2>3. /\ SumFunctionOnSet(f, s \cup {x}) = SumFunctionOnSet(f, s) + f[x]
        /\ SumFunctionOnSet(h, s \cup {x}) = SumFunctionOnSet(h, s) + h[x]
    BY <1>2, <2>1, SumGrows
  <2>4. SumFunctionOnSet(f, s) + f[x] <= SumFunctionOnSet(h, s) + h[x]
    BY <2>1, <2>2
  <2> QED
    BY <2>3, <2>4
<1>3. S \in Good
  BY <1>1, <1>2, SetInduction
<1> QED
  BY <1>3

\* The sum over a part is at most the sum, if nothing counts less than 0.
LEMMA SumOfPart ==
    ASSUME NEW D, NEW f \in [D -> Nat], NEW S \in SUBSET D, IsFiniteSet(S), NEW T \in SUBSET S
    PROVE  SumFunctionOnSet(f, T) <= SumFunctionOnSet(f, S) 
<1> DEFINE Good == {s \in SUBSET (S \ T) :
                        SumFunctionOnSet(f, T) <= SumFunctionOnSet(f, T \cup s)}
<1>1. \A s \in SUBSET S : IsFiniteSet(s) /\ s \in SUBSET D /\ SumFunctionOnSet(f, s) \in Int
  BY FS_Subset, SumTakesOff
<1>2. {} \in Good
  BY <1>1
<1>3. ASSUME NEW s \in Good, NEW x \in S \ T, x \notin s
      PROVE  s \cup {x} \in Good
  <2> PICK u : u = T \cup s
    OBVIOUS
  <2>1. u \in SUBSET S /\ x \in D /\ x \notin u /\ T \cup (s \cup {x}) = u \cup {x}
    BY <1>3
  <2>2. SumFunctionOnSet(f, u \cup {x}) = SumFunctionOnSet(f, u) + f[x]
    <3>1. f \in [D -> Int] /\ u \in SUBSET D /\ IsFiniteSet(u)
      BY <1>1, <2>1
    <3> QED
      BY <2>1, <3>1, SumGrows
  <2>3. f[x] \in Nat /\ SumFunctionOnSet(f, u) \in Int /\ SumFunctionOnSet(f, T) \in Int
    BY <1>1, <2>1
  <2>4. SumFunctionOnSet(f, T) <= SumFunctionOnSet(f, u)
    OBVIOUS
  <2>5. SumFunctionOnSet(f, T) <= SumFunctionOnSet(f, u \cup {x})
    BY <2>2, <2>3, <2>4
  <2>6. s \cup {x} \in SUBSET (S \ T)
    OBVIOUS
  <2> QED
    BY <2>1, <2>5, <2>6
<1>4. S \ T \in Good
  <2>1. IsFiniteSet(S \ T) /\ Good \in SUBSET (SUBSET (S \ T))
    BY <1>1
  <2> HIDE DEF Good
  <2> QED
    BY <1>2, <1>3, <2>1, SetInduction
<1> QED
  BY <1>4

LEMMA SumsSame ==
    ASSUME NEW D, NEW f \in [D -> Int], NEW E, NEW h \in [E -> Int],
           NEW S \in SUBSET D, S \subseteq E, IsFiniteSet(S), \A x \in S : f[x] = h[x]
    PROVE  SumFunctionOnSet(f, S) = SumFunctionOnSet(h, S)
<1>1. \A x \in S : f[x] \in Int /\ f[x] <= h[x] /\ h[x] <= f[x]
  OBVIOUS
<1>2. SumFunctionOnSet(f, S) <= SumFunctionOnSet(h, S)
  BY <1>1, SumsCompare
<1>3. SumFunctionOnSet(h, S) <= SumFunctionOnSet(f, S)
  BY <1>1, SumsCompare
<1>4. SumFunctionOnSet(f, S) \in Int /\ SumFunctionOnSet(h, S) \in Int
  BY SumTakesOff
<1> QED
  BY <1>2, <1>3, <1>4

LEMMA SumOfSums ==
    ASSUME NEW D, NEW f \in [D -> Int], NEW h \in [D -> Int], NEW both \in [D -> Int],
           NEW S \in SUBSET D, IsFiniteSet(S), \A x \in S : both[x] = f[x] + h[x]
    PROVE  SumFunctionOnSet(both, S) = SumFunctionOnSet(f, S) + SumFunctionOnSet(h, S)
<1> DEFINE Good == {s \in SUBSET S : SumFunctionOnSet(both, s)
                        = SumFunctionOnSet(f, s) + SumFunctionOnSet(h, s)}
<1>2. {} \in Good
  BY SumOfNothing
<1>3. ASSUME NEW s \in Good, NEW x \in S, x \notin s
      PROVE  s \cup {x} \in Good
  <2>1. IsFiniteSet(s) /\ s \in SUBSET D /\ x \in D /\ x \notin s
    BY <1>3, FS_Subset
  <2>2. /\ SumFunctionOnSet(f, s) \in Int /\ SumFunctionOnSet(h, s) \in Int
        /\ f[x] \in Int /\ h[x] \in Int
    BY <2>1, SumTakesOff
  <2>3. SumFunctionOnSet(f, s \cup {x}) = SumFunctionOnSet(f, s) + f[x]
    BY <2>1, SumGrows
  <2>4. SumFunctionOnSet(h, s \cup {x}) = SumFunctionOnSet(h, s) + h[x]
    BY <2>1, SumGrows
  <2>5. SumFunctionOnSet(both, s \cup {x}) = SumFunctionOnSet(both, s) + both[x]
    BY <2>1, SumGrows
  <2>6. SumFunctionOnSet(both, s) = SumFunctionOnSet(f, s) + SumFunctionOnSet(h, s)
    OBVIOUS
  <2>7. SumFunctionOnSet(both, s \cup {x}) = SumFunctionOnSet(f, s \cup {x}) + SumFunctionOnSet(h, s \cup {x})
    BY <2>1, <2>2, <2>3, <2>4, <2>5, <2>6
  <2> QED
    BY <2>7
<1>4. S \in Good
  <2>1. Good \in SUBSET (SUBSET S)
    OBVIOUS
  <2> HIDE DEF Good
  <2> QED
    BY <1>2, <1>3, <2>1, SetInduction
<1> QED
  BY <1>4

LEMMA SumOfParts ==
    ASSUME NEW D, NEW f \in [D -> Int], NEW S \in SUBSET D, IsFiniteSet(S),
           NEW T \in SUBSET D, IsFiniteSet(T), S \cap T = {}
    PROVE  SumFunctionOnSet(f, S \cup T) = SumFunctionOnSet(f, S) + SumFunctionOnSet(f, T)
<1> DEFINE Good == {s \in SUBSET T : SumFunctionOnSet(f, S \cup s)
                        = SumFunctionOnSet(f, S) + SumFunctionOnSet(f, s)}
<1>1. \A s \in SUBSET T : IsFiniteSet(s) /\ IsFiniteSet(S \cup s) /\ SumFunctionOnSet(f, s) \in Int
  <2>1. \A s \in SUBSET T : IsFiniteSet(s)
    BY FS_Subset
  <2> QED
    BY <2>1, FS_Union, SumTakesOff
<1>2. SumFunctionOnSet(f, S) \in Int
  BY SumTakesOff
<1>3. {} \in Good
  BY <1>2, SumOfNothing
<1>4. ASSUME NEW s \in Good, NEW x \in T, x \notin s
      PROVE  s \cup {x} \in Good
  <2> PICK u : u = S \cup s
    OBVIOUS
  <2>1. /\ u \in SUBSET D /\ IsFiniteSet(u) /\ x \in D /\ x \notin u /\ S \cup (s \cup {x}) = u \cup {x}
        /\ s \in SUBSET D /\ IsFiniteSet(s)
    BY <1>1, <1>4
  <2>2. SumFunctionOnSet(f, u \cup {x}) = SumFunctionOnSet(f, u) + f[x]
    <3>1. f \in [D -> Int] /\ u \in SUBSET D /\ IsFiniteSet(u) /\ x \in D /\ x \notin u
      BY <2>1
    <3> QED
      BY <3>1, SumGrows
  <2>3. SumFunctionOnSet(f, s \cup {x}) = SumFunctionOnSet(f, s) + f[x]
    BY <1>4, <2>1, SumGrows
  <2>4. f[x] \in Int /\ SumFunctionOnSet(f, s) \in Int
    BY <1>1, <2>1
  <2>5. SumFunctionOnSet(f, u) = SumFunctionOnSet(f, S) + SumFunctionOnSet(f, s)
    OBVIOUS
  <2>6. SumFunctionOnSet(f, u \cup {x}) = SumFunctionOnSet(f, S) + SumFunctionOnSet(f, s \cup {x})
    BY <1>2, <2>2, <2>3, <2>4, <2>5
  <2> QED
    BY <2>1, <2>6
<1>5. T \in Good
  <2>1. Good \in SUBSET (SUBSET T)
    OBVIOUS
  <2> HIDE DEF Good
  <2> QED
    BY <1>3, <1>4, <2>1, SetInduction
<1> QED
  BY <1>5

\* Sums over groups that share nothing add up to the sum over all they hold.
LEMMA SumOfGroups ==
    ASSUME NEW D, IsFiniteSet(D), NEW f \in [D -> Nat], NEW I, IsFiniteSet(I),
           NEW G \in [I -> SUBSET D], \A i, j \in I : i # j => G[i] \cap G[j] = {},
           NEW totals \in [I -> Int], \A i \in I : totals[i] = SumFunctionOnSet(f, G[i])
    PROVE  SumFunctionOnSet(totals, I) <= SumFunctionOnSet(f, UNION {G[i] : i \in I})
<1> DEFINE Held(J) == UNION {G[i] : i \in J}
           Good == {J \in SUBSET I : SumFunctionOnSet(totals, J) = SumFunctionOnSet(f, Held(J))}
<1>1. \A s \in SUBSET D : IsFiniteSet(s)
  BY FS_Subset
<1>2. f \in [D -> Int] /\ \A J \in SUBSET I : Held(J) \in SUBSET D
  OBVIOUS
<1>3. {} \in Good
  <2>1. Held({}) = {}
    OBVIOUS
  <2> QED
    BY <1>2, <2>1, SumOfNothing
<1>4. ASSUME NEW J \in Good, NEW x \in I, x \notin J
      PROVE  J \cup {x} \in Good
  <2>1. Held(J \cup {x}) = Held(J) \cup G[x] /\ Held(J) \cap G[x] = {}
    BY <1>4
  <2>2. J \in SUBSET I /\ IsFiniteSet(J) /\ SumFunctionOnSet(totals, J) = SumFunctionOnSet(f, Held(J))
    BY FS_Subset
  <2>3. Held(J) \in SUBSET D /\ G[x] \in SUBSET D
    BY <1>2, <2>2
  <2> HIDE DEF Held
  <2>4. SumFunctionOnSet(f, Held(J \cup {x})) = SumFunctionOnSet(f, Held(J)) + SumFunctionOnSet(f, G[x])
    <3> PICK A, B : A = Held(J) /\ B = G[x]
      OBVIOUS
    <3>1. /\ A \in SUBSET D /\ B \in SUBSET D /\ IsFiniteSet(A) /\ IsFiniteSet(B) /\ A \cap B = {}
          /\ Held(J \cup {x}) = A \cup B
      BY <1>1, <2>1, <2>3
    <3>2. SumFunctionOnSet(f, A \cup B) = SumFunctionOnSet(f, A) + SumFunctionOnSet(f, B)
      BY <1>2, <3>1, SumOfParts
    <3> QED
      BY <3>1, <3>2
  <2>5. SumFunctionOnSet(totals, J \cup {x}) = SumFunctionOnSet(totals, J) + totals[x]
    BY <1>4, <2>2, SumGrows
  <2>6. SumFunctionOnSet(totals, J \cup {x}) = SumFunctionOnSet(f, Held(J \cup {x}))
    BY <2>2, <2>4, <2>5
  <2> QED
    BY <2>2, <2>6
<1>5. I \in Good
  <2>1. Good \in SUBSET (SUBSET I)
    OBVIOUS
  <2> HIDE DEF Good
  <2> QED
    BY <1>3, <1>4, <2>1, SetInduction
<1>6. SumFunctionOnSet(totals, I) = SumFunctionOnSet(f, Held(I))
  BY <1>5
<1>7. SumFunctionOnSet(f, Held(I)) \in Int
  BY <1>1, <1>2, SumTakesOff
<1> QED
  BY <1>6, <1>7
-----------------------------------------------------------------------------
(* The inductive invariant.                                                *)

\* Before it is placed, an instance is nowhere, holds nothing and has no guest.
Nowhere(o) ==
    /\ operations[o].kind = "create" /\ operations[o].node = NoNode
    /\ operations[o].stage = "none" => operations[o].instance = NoOperation
    /\ capacity_reservations[o].state = "none" /\ guests[o] = 0

UnplacedIsNowhere == \A o \in OperationIds : operations[o].stage \in {"none", "unplaced"} => Nowhere(o)

\* An operation is its instance's own, or one of an instance that was created,
\* on whose node it works.
WorksWhereItIs ==
    \A o \in OperationIds : operations[o].stage # "none" =>
        /\ operations[o].instance \in OperationIds
        /\ operations[o].kind = "create" => operations[o].instance = o
        /\ operations[o].kind = "resize" =>
            /\ operations[operations[o].instance].kind = "create"
            /\ operations[operations[o].instance].stage = "succeeded"
            /\ operations[o].node = operations[operations[o].instance].node

\* What waits to be placed waits once.
QueueIsUnplaced ==
    /\ \A k \in 1 .. Len(queue) : operations[queue[k]].stage = "unplaced"
    /\ \A k, l \in 1 .. Len(queue) : queue[k] = queue[l] => k = l

\* The types, by name.
OperationRows ==
    [kind: {"create", "resize"}, stage: OperationStages, memory: PlanMemory \cup {0},
     instance: OperationIds \cup {NoOperation}, node: Nodes \cup {NoNode}]
HoldRows == [state: {"none", "held", "released"}, left: 0 .. HoldWindow]
MemoryOf == [OperationIds -> PlanMemory \cup {0}]
NodeRows == [memory: MemoryOf, age: 0 .. AgeLimit, open: BOOLEAN]

PlaceTypes ==
    /\ operations \in [OperationIds -> OperationRows]
    /\ queue \in Seq(OperationIds)
    /\ capacity_reservations \in [OperationIds -> HoldRows]
    /\ plan_memory \in MemoryOf /\ guests \in MemoryOf
    /\ infrastructure_nodes \in [Nodes -> NodeRows]

LEMMA TypesByName == TypeOK <=> PlaceTypes
BY DEF TypeOK, PlaceTypes, OperationRows, HoldRows, MemoryOf, NodeRows

RowsInv == UnplacedIsNowhere /\ WorksWhereItIs /\ QueueIsUnplaced
PlaceInv == PlaceTypes /\ RowsInv

\* An instance is not yet placed.
Unplaced(o) == operations[o].stage \in {"none", "unplaced"}

LEMMA QueueElements ==
    ASSUME PlaceInv
    PROVE  /\ Len(queue) \in Nat /\ \A k \in 1 .. Len(queue) : queue[k] \in OperationIds
           /\ queue \in Seq(OperationIds)
BY ElementOfSeq, LenProperties DEF PlaceInv, PlaceTypes

\* An operation that was placed moves on, or a resize comes.
LEMMA RowMoves ==
    ASSUME PlaceInv, NEW o \in OperationIds, NEW row \in OperationRows,
           operations' = [operations EXCEPT ![o] = row], queue' = queue,
           operations[o].stage \notin {"unplaced", "succeeded"}, row.stage \notin {"none", "unplaced"},
           row.instance \in OperationIds, row.kind = "create" => row.instance = o,
           row.kind = "resize" => /\ operations[row.instance].kind = "create"
                                  /\ operations[row.instance].stage = "succeeded"
                                  /\ row.node = operations[row.instance].node,
           \A p \in OperationIds : p # o => capacity_reservations'[p] = capacity_reservations[p],
           \A p \in OperationIds : guests'[p] = 0 \/ guests'[p] = guests[p] \/ ~Unplaced(p)
    PROVE  RowsInv'
<1>1. /\ operations' \in [OperationIds -> OperationRows] /\ operations'[o] = row
      /\ \A p \in OperationIds : p # o => operations'[p] = operations[p]
  BY DEF PlaceInv, PlaceTypes
<1>2. UnplacedIsNowhere'
  <2>1. \A p \in OperationIds : p # o /\ operations[p].stage \in {"none", "unplaced"} => guests'[p] = 0
    BY DEF PlaceInv, RowsInv, UnplacedIsNowhere, Nowhere, Unplaced
  <2> QED
    BY <1>1, <2>1 DEF PlaceInv, RowsInv, UnplacedIsNowhere, Nowhere
<1>3. WorksWhereItIs'
  <2>1. ASSUME NEW p \in OperationIds, p # o, operations[p].stage # "none"
        PROVE  /\ operations[p].instance \in OperationIds
               /\ operations[p].kind = "create" => operations[p].instance = p
               /\ operations[p].kind = "resize" =>
                    /\ operations[p].instance # o
                    /\ operations[operations[p].instance].kind = "create"
                    /\ operations[operations[p].instance].stage = "succeeded"
                    /\ operations[p].node = operations[operations[p].instance].node
    BY <2>1 DEF PlaceInv, RowsInv, WorksWhereItIs
  <2>2. row.kind = "resize" => row.instance # o
    OBVIOUS
  <2> QED
    BY <1>1, <2>1, <2>2 DEF WorksWhereItIs
<1>4. QueueIsUnplaced'
  <2>1. \A k \in 1 .. Len(queue) : queue[k] \in OperationIds /\ queue[k] # o
    BY QueueElements DEF PlaceInv, RowsInv, QueueIsUnplaced
  <2> QED
    BY <1>1, <2>1 DEF PlaceInv, RowsInv, QueueIsUnplaced
<1> QED
  BY <1>2, <1>3, <1>4 DEF RowsInv

\* Nothing of the operations changes.
LEMMA RowsStay ==
    ASSUME PlaceInv, operations' = operations, queue' = queue,
           \A p \in OperationIds : capacity_reservations[p].state = "none" =>
                capacity_reservations'[p].state = "none",
           \A p \in OperationIds : guests'[p] = 0 \/ guests'[p] = guests[p]
    PROVE  RowsInv'
<1>1. UnplacedIsNowhere'
  BY DEF PlaceInv, RowsInv, UnplacedIsNowhere, Nowhere
<1>2. WorksWhereItIs' /\ QueueIsUnplaced'
  BY DEF PlaceInv, RowsInv, WorksWhereItIs, QueueIsUnplaced
<1> QED
  BY <1>1, <1>2 DEF RowsInv

-----------------------------------------------------------------------------
(* The requests.                                                           *)

LEMMA PlansAreMemory == PlanMemory \subseteq Nat /\ 0 \notin PlanMemory
BY CapacitiesAreNumbers

LEMMA CreateComes ==
    ASSUME PlaceInv, NEW o \in OperationIds, NEW m \in PlanMemory, RequestCreate(o, m)
    PROVE  PlaceInv'
<1> PICK row : row = [NoOperationRow EXCEPT !.stage = "unplaced", !.memory = m, !.instance = o]
  OBVIOUS
<1>1. /\ operations[o].stage = "none" /\ operations' = [operations EXCEPT ![o] = row]
      /\ queue' = Append(queue, o) /\ plan_memory' = [plan_memory EXCEPT ![o] = m]
      /\ UNCHANGED <<capacity_reservations, guests, infrastructure_nodes>>
  BY DEF RequestCreate
<1>2. /\ row \in OperationRows /\ row.kind = "create" /\ row.node = NoNode /\ row.stage = "unplaced"
      /\ row.instance = o
  BY DEF NoOperationRow, OperationRows, OperationStages
<1>3. /\ operations' \in [OperationIds -> OperationRows] /\ operations'[o] = row
      /\ \A p \in OperationIds : p # o => operations'[p] = operations[p]
  BY <1>1, <1>2 DEF PlaceInv, PlaceTypes
<1>4. PlaceTypes'
  <2>1. queue' \in Seq(OperationIds)
    BY <1>1, AppendProperties DEF PlaceInv, PlaceTypes
  <2>2. plan_memory' \in MemoryOf
    BY <1>1 DEF PlaceInv, PlaceTypes, MemoryOf
  <2> QED
    BY <1>1, <1>3, <2>1, <2>2 DEF PlaceInv, PlaceTypes
<1>5. UnplacedIsNowhere'
  <2>1. capacity_reservations[o].state = "none" /\ guests[o] = 0
    BY <1>1 DEF PlaceInv, RowsInv, UnplacedIsNowhere, Nowhere
  <2> QED
    BY <1>1, <1>2, <1>3, <2>1 DEF PlaceInv, RowsInv, UnplacedIsNowhere, Nowhere
<1>6. WorksWhereItIs'
  <2>1. ASSUME NEW p \in OperationIds, p # o, operations[p].stage # "none"
        PROVE  /\ operations[p].instance \in OperationIds
               /\ operations[p].kind = "create" => operations[p].instance = p
               /\ operations[p].kind = "resize" =>
                    /\ operations[p].instance # o
                    /\ operations[operations[p].instance].kind = "create"
                    /\ operations[operations[p].instance].stage = "succeeded"
                    /\ operations[p].node = operations[operations[p].instance].node
    BY <1>1, <2>1 DEF PlaceInv, RowsInv, WorksWhereItIs
  <2> SUFFICES ASSUME NEW p \in OperationIds, operations'[p].stage # "none"
               PROVE  /\ operations'[p].instance \in OperationIds
                      /\ operations'[p].kind = "create" => operations'[p].instance = p
                      /\ operations'[p].kind = "resize" =>
                            /\ operations'[operations'[p].instance].kind = "create"
                            /\ operations'[operations'[p].instance].stage = "succeeded"
                            /\ operations'[p].node = operations'[operations'[p].instance].node
    BY DEF WorksWhereItIs
  <2>2. CASE p = o
    BY <1>2, <1>3, <2>2
  <2>3. CASE p # o
    <3>1. operations'[p] = operations[p]
      BY <1>3, <2>3
    <3> QED
      BY <1>3, <2>1, <2>3, <3>1
  <2> QED
    BY <2>2, <2>3
<1>7. QueueIsUnplaced'
  <2>1. Len(queue) \in Nat /\ \A k \in 1 .. Len(queue) : queue[k] \in OperationIds /\ queue[k] # o
    BY <1>1, QueueElements DEF PlaceInv, RowsInv, QueueIsUnplaced
  <2>2. /\ Len(queue') = Len(queue) + 1 /\ queue'[Len(queue) + 1] = o
        /\ \A k \in 1 .. Len(queue) : queue'[k] = queue[k]
    BY <1>1, AppendProperties DEF PlaceInv, PlaceTypes
  <2>3. \A k \in 1 .. Len(queue') : k \in 1 .. Len(queue) \/ k = Len(queue) + 1
    BY <2>1, <2>2
  <2>4. \A k \in 1 .. Len(queue') : operations'[queue'[k]].stage = "unplaced"
    <3>1. ASSUME NEW k \in 1 .. Len(queue)
          PROVE  operations'[queue'[k]].stage = "unplaced"
      <4>1. queue'[k] = queue[k] /\ operations'[queue[k]] = operations[queue[k]]
        BY <1>3, <2>1, <2>2
      <4> QED
        BY <4>1 DEF PlaceInv, RowsInv, QueueIsUnplaced
    <3> QED
      BY <1>2, <1>3, <2>2, <2>3, <3>1
  <2>5. \A k, l \in 1 .. Len(queue') : queue'[k] = queue'[l] => k = l
    BY <2>1, <2>2, <2>3 DEF PlaceInv, RowsInv, QueueIsUnplaced
  <2> QED
    BY <2>4, <2>5 DEF QueueIsUnplaced
<1> QED
  BY <1>4, <1>5, <1>6, <1>7 DEF PlaceInv, RowsInv

LEMMA ResizeComes ==
    ASSUME PlaceInv, NEW o \in OperationIds, NEW i \in OperationIds, NEW m \in PlanMemory,
           RequestResize(o, i, m)
    PROVE  PlaceInv'
<1> PICK row : row = [kind |-> "resize", stage |-> "preflight", memory |-> m, instance |-> i,
                      node |-> operations[i].node]
  OBVIOUS
<1>1. /\ operations[o].stage = "none" /\ operations' = [operations EXCEPT ![o] = row]
      /\ operations[i].kind = "create" /\ operations[i].stage = "succeeded"
      /\ UNCHANGED <<queue, plan_memory, capacity_reservations, guests, infrastructure_nodes>>
  BY DEF RequestResize, Usable, ExecutionTarget
<1>2. /\ row \in OperationRows /\ row.kind = "resize" /\ row.stage = "preflight" /\ row.instance = i
      /\ row.node = operations[i].node
  BY DEF OperationRows, OperationStages, PlaceInv, PlaceTypes
<1>3. PlaceTypes'
  BY <1>1, <1>2 DEF PlaceInv, PlaceTypes
<1>4. RowsInv'
  BY <1>1, <1>2, RowMoves
<1> QED
  BY <1>3, <1>4 DEF PlaceInv

LEMMA GuestIsDeleted ==
    ASSUME PlaceInv, NEW i \in OperationIds, DeleteInstance(i)
    PROVE  PlaceInv'
<1>1. /\ guests' = [guests EXCEPT ![i] = 0]
      /\ UNCHANGED <<operations, queue, plan_memory, capacity_reservations, infrastructure_nodes>>
  BY DEF DeleteInstance
<1>2. guests' \in MemoryOf /\ \A p \in OperationIds : guests'[p] = 0 \/ guests'[p] = guests[p]
  BY <1>1 DEF PlaceInv, PlaceTypes, MemoryOf
<1>3. PlaceTypes'
  BY <1>1, <1>2 DEF PlaceInv, PlaceTypes
<1>4. RowsInv'
  BY <1>1, <1>2, RowsStay
<1> QED
  BY <1>3, <1>4 DEF PlaceInv

-----------------------------------------------------------------------------
(* The stages.                                                             *)

\* An operation goes on, or ends, with what it does to holds and guests.
LEMMA StageMoves ==
    ASSUME PlaceInv, NEW o \in OperationIds, NEW stage \in OperationStages,
           operations[o].stage \notin {"none", "unplaced", "succeeded"},
           stage \notin {"none", "unplaced"}, GoOn(o, stage),
           capacity_reservations' \in [OperationIds -> HoldRows],
           \A p \in OperationIds : p # o => capacity_reservations'[p] = capacity_reservations[p],
           guests' \in MemoryOf,
           \A p \in OperationIds : guests'[p] = 0 \/ guests'[p] = guests[p] \/ ~Unplaced(p),
           plan_memory' \in MemoryOf, UNCHANGED <<queue, infrastructure_nodes>>
    PROVE  PlaceInv'
<1> PICK row : row = [operations[o] EXCEPT !.stage = stage]
  OBVIOUS
<1>1. operations' = [operations EXCEPT ![o] = row]
  BY DEF GoOn
<1>2. /\ row \in OperationRows /\ row.stage = stage /\ row.kind = operations[o].kind
      /\ row.instance = operations[o].instance /\ row.node = operations[o].node
  BY DEF PlaceInv, PlaceTypes, OperationRows
<1>3. PlaceTypes'
  BY <1>1, <1>2 DEF PlaceInv, PlaceTypes
<1>4. row.instance \in OperationIds
  BY <1>2 DEF PlaceInv, RowsInv, WorksWhereItIs
<1>5. row.kind = "create" => row.instance = o
  BY <1>2 DEF PlaceInv, RowsInv, WorksWhereItIs
<1>6. row.kind = "resize" => /\ operations[row.instance].kind = "create"
                             /\ operations[row.instance].stage = "succeeded"
                             /\ row.node = operations[row.instance].node
  BY <1>2 DEF PlaceInv, RowsInv, WorksWhereItIs
<1>7. RowsInv'
  BY <1>1, <1>2, <1>4, <1>5, <1>6, RowMoves
<1> QED
  BY <1>3, <1>7 DEF PlaceInv

LEMMA HoldIsTyped ==
    ASSUME PlaceInv, NEW o \in OperationIds, Hold(o) \/ Release(o)
    PROVE  /\ capacity_reservations' \in [OperationIds -> HoldRows]
           /\ \A p \in OperationIds : p # o => capacity_reservations'[p] = capacity_reservations[p]
<1>1. HoldWindow \in Nat
  BY WindowsAreOrdered
<1>2. /\ [state |-> "held", left |-> HoldWindow] \in HoldRows
      /\ [state |-> "released", left |-> 0] \in HoldRows
  BY <1>1 DEF HoldRows
<1>3. capacity_reservations \in [OperationIds -> HoldRows]
  BY DEF PlaceInv, PlaceTypes
<1>4. PICK hold \in HoldRows : capacity_reservations' = [capacity_reservations EXCEPT ![o] = hold]
  <2>1. CASE Hold(o)
    BY <1>2, <2>1 DEF Hold
  <2>2. CASE Release(o) /\ capacity_reservations[o].state = "held"
    BY <1>2, <2>2 DEF Release
  <2>3. CASE Release(o) /\ capacity_reservations[o].state # "held"
    BY <1>3, <2>3 DEF Release
  <2> QED
    BY <2>1, <2>2, <2>3
<1> QED
  BY <1>3, <1>4

\* The instance an operation works on was placed.
LEMMA InstanceIsPlaced ==
    ASSUME PlaceInv, NEW o \in OperationIds, ~Unplaced(o)
    PROVE  operations[o].instance \in OperationIds /\ ~Unplaced(operations[o].instance)
<1>1. operations[o].stage # "none" /\ operations[o].kind \in {"create", "resize"}
  BY DEF Unplaced, PlaceInv, PlaceTypes, OperationRows
<1> QED
  BY <1>1 DEF PlaceInv, RowsInv, WorksWhereItIs, Unplaced

LEMMA StageSteps ==
    ASSUME PlaceInv, NEW o \in OperationIds, Stage(o)
    PROVE  PlaceInv'
<1> USE DEF OperationStages
<1>0. /\ capacity_reservations \in [OperationIds -> HoldRows] /\ guests \in MemoryOf
      /\ plan_memory \in MemoryOf /\ operations[o].memory \in PlanMemory \cup {0}
  BY DEF PlaceInv, PlaceTypes, OperationRows
<1>1. CASE Preflight(o)
  BY <1>0, <1>1, StageMoves DEF Preflight
<1>2. CASE HoldForResize(o)
  <2>1. Hold(o)
    BY <1>2 DEF HoldForResize
  <2>2. /\ capacity_reservations' \in [OperationIds -> HoldRows]
        /\ \A p \in OperationIds : p # o => capacity_reservations'[p] = capacity_reservations[p]
    BY <2>1, HoldIsTyped
  <2> QED
    BY <1>0, <1>2, <2>2, StageMoves DEF HoldForResize
<1>3. CASE CallProxmox(o)
  <2>1. ~Unplaced(o)
    BY <1>3 DEF CallProxmox, Unplaced
  <2>2. PICK i \in OperationIds : i = operations[o].instance /\ ~Unplaced(i)
    BY <2>1, InstanceIsPlaced
  <2>3. guests' = [guests EXCEPT ![i] = operations[o].memory]
    BY <1>3, <2>2 DEF CallProxmox
  <2>4. guests' \in MemoryOf /\ \A p \in OperationIds : guests'[p] = guests[p] \/ ~Unplaced(p)
    BY <1>0, <2>2, <2>3 DEF MemoryOf
  <2> QED
    BY <1>0, <1>3, <2>4, StageMoves DEF CallProxmox
<1>4. CASE Finish(o)
  <2>1. ~Unplaced(o) /\ Release(o)
    BY <1>4 DEF Finish, Unplaced
  <2>2. PICK i \in OperationIds : i = operations[o].instance
    BY <2>1, InstanceIsPlaced
  <2>3. plan_memory' \in MemoryOf
    BY <1>0, <1>4, <2>2 DEF Finish, MemoryOf
  <2>4. /\ capacity_reservations' \in [OperationIds -> HoldRows]
        /\ \A p \in OperationIds : p # o => capacity_reservations'[p] = capacity_reservations[p]
    BY <2>1, HoldIsTyped
  <2> QED
    BY <1>0, <1>4, <2>3, <2>4, StageMoves DEF Finish
<1>5. CASE Fail(o)
  <2>1. Release(o) /\ operations[o].stage \notin {"none", "unplaced", "succeeded"}
    BY <1>5 DEF Fail, Active
  <2>2. guests' = [guests EXCEPT ![o] = 0] \/ guests' = guests
    BY <1>5 DEF Fail
  <2>3. guests' \in MemoryOf /\ \A p \in OperationIds : guests'[p] = 0 \/ guests'[p] = guests[p]
    BY <1>0, <2>2 DEF MemoryOf
  <2>4. /\ capacity_reservations' \in [OperationIds -> HoldRows]
        /\ \A p \in OperationIds : p # o => capacity_reservations'[p] = capacity_reservations[p]
    BY <2>1, HoldIsTyped
  <2> QED
    BY <1>0, <1>5, <2>1, <2>3, <2>4, StageMoves DEF Fail
<1> QED
  BY <1>1, <1>2, <1>3, <1>4, <1>5 DEF Stage

-----------------------------------------------------------------------------
(* Placement.                                                              *)

LEMMA QueueHead ==
    ASSUME PlaceInv, queue # <<>>
    PROVE  /\ Head(queue) \in OperationIds /\ operations[Head(queue)].stage = "unplaced"
           /\ Tail(queue) \in Seq(OperationIds)
           /\ \A k \in 1 .. Len(Tail(queue)) :
                /\ Tail(queue)[k] = queue[k + 1] /\ k + 1 \in 1 .. Len(queue)
                /\ Tail(queue)[k] # Head(queue)
<1>1. /\ queue \in Seq(OperationIds) /\ Len(queue) \in Nat /\ Len(queue) > 0 /\ Head(queue) = queue[1]
      /\ Len(Tail(queue)) = Len(queue) - 1 /\ Tail(queue) \in Seq(OperationIds)
      /\ \A k \in 1 .. Len(Tail(queue)) : Tail(queue)[k] = queue[k + 1]
  BY QueueElements, HeadTailProperties, LenProperties, EmptySeq
<1>2. \A k \in 1 .. Len(Tail(queue)) : k + 1 \in 1 .. Len(queue) /\ k + 1 # 1
  BY <1>1
<1>3. 1 \in 1 .. Len(queue) /\ queue[1] \in OperationIds
  BY <1>1, QueueElements
<1> QED
  BY <1>1, <1>2, <1>3 DEF PlaceInv, RowsInv, QueueIsUnplaced

\* What a placement does to the operation it places, and to no other.
LEMMA Placed ==
    ASSUME PlaceInv, NEW n \in Nodes, place_next_pending_operation(n)
    PROVE  \E h \in OperationIds :
            /\ operations[h].stage = "unplaced" /\ h = Head(queue) /\ queue # <<>>
            /\ queue' = Tail(queue) /\ Eligible(n, operations[h].memory)
            /\ operations' \in [OperationIds -> OperationRows]
            /\ operations'[h].node = n /\ operations'[h].stage = "proxmox_api_call"
            /\ operations'[h].kind = "create" /\ operations'[h].instance = h
            /\ operations'[h].memory = operations[h].memory
            /\ \A p \in OperationIds : p # h => operations'[p] = operations[p]
            /\ Hold(h) /\ UNCHANGED <<plan_memory, guests, infrastructure_nodes>>
<1>1. queue # <<>>
  BY DEF place_next_pending_operation
<1>2. PICK h \in OperationIds : h = Head(queue) /\ operations[h].stage = "unplaced"
  BY <1>1, QueueHead
<1>3. operations[h] \in OperationRows /\ operations[h].kind = "create" /\ operations[h].instance = h
  BY <1>2 DEF PlaceInv, PlaceTypes, RowsInv, UnplacedIsNowhere, Nowhere, WorksWhereItIs
<1> PICK row : row = [[operations[h] EXCEPT !.node = n] EXCEPT !.stage = "proxmox_api_call"]
  OBVIOUS
<1>4. /\ row \in OperationRows /\ row.node = n /\ row.stage = "proxmox_api_call"
      /\ row.kind = "create" /\ row.instance = h /\ row.memory = operations[h].memory
  BY <1>3 DEF OperationRows, OperationStages
<1>5. operations' = [operations EXCEPT ![h] = row]
  BY <1>2 DEF place_next_pending_operation, PlaceInv, PlaceTypes
<1>6. /\ operations' \in [OperationIds -> OperationRows] /\ operations'[h] = row
      /\ \A p \in OperationIds : p # h => operations'[p] = operations[p]
  BY <1>4, <1>5 DEF PlaceInv, PlaceTypes
<1> QED
  BY <1>1, <1>2, <1>4, <1>6 DEF place_next_pending_operation

LEMMA PlacementSteps ==
    ASSUME PlaceInv, NEW n \in Nodes, place_next_pending_operation(n)
    PROVE  PlaceInv'
<1>1. PICK h \in OperationIds :
            /\ operations[h].stage = "unplaced" /\ h = Head(queue) /\ queue # <<>>
            /\ queue' = Tail(queue)
            /\ operations' \in [OperationIds -> OperationRows]
            /\ operations'[h].node = n /\ operations'[h].stage = "proxmox_api_call"
            /\ operations'[h].kind = "create" /\ operations'[h].instance = h
            /\ \A p \in OperationIds : p # h => operations'[p] = operations[p]
            /\ Hold(h) /\ UNCHANGED <<plan_memory, guests, infrastructure_nodes>>
  BY Placed
<1>2. /\ capacity_reservations' \in [OperationIds -> HoldRows]
      /\ \A p \in OperationIds : p # h => capacity_reservations'[p] = capacity_reservations[p]
  BY <1>1, HoldIsTyped
<1>3. PlaceTypes'
  BY <1>1, <1>2, QueueHead DEF PlaceInv, PlaceTypes
<1>4. UnplacedIsNowhere'
  BY <1>1, <1>2 DEF PlaceInv, RowsInv, UnplacedIsNowhere, Nowhere
<1>5. WorksWhereItIs'
  <2>1. ASSUME NEW p \in OperationIds, p # h, operations[p].stage # "none"
        PROVE  /\ operations[p].instance \in OperationIds
               /\ operations[p].kind = "create" => operations[p].instance = p
               /\ operations[p].kind = "resize" =>
                    /\ operations[p].instance # h
                    /\ operations[operations[p].instance].kind = "create"
                    /\ operations[operations[p].instance].stage = "succeeded"
                    /\ operations[p].node = operations[operations[p].instance].node
    BY <1>1, <2>1 DEF PlaceInv, RowsInv, WorksWhereItIs
  <2> SUFFICES ASSUME NEW p \in OperationIds, operations'[p].stage # "none"
               PROVE  /\ operations'[p].instance \in OperationIds
                      /\ operations'[p].kind = "create" => operations'[p].instance = p
                      /\ operations'[p].kind = "resize" =>
                            /\ operations'[operations'[p].instance].kind = "create"
                            /\ operations'[operations'[p].instance].stage = "succeeded"
                            /\ operations'[p].node = operations'[operations'[p].instance].node
    BY DEF WorksWhereItIs
  <2>2. CASE p = h
    BY <1>1, <2>2
  <2>3. CASE p # h
    <3>1. operations'[p] = operations[p]
      BY <1>1, <2>3
    <3> QED
      BY <1>1, <2>1, <2>3, <3>1
  <2> QED
    BY <2>2, <2>3
<1>6. QueueIsUnplaced'
  <2>1. \A k \in 1 .. Len(queue') :
            queue'[k] = queue[k + 1] /\ k + 1 \in 1 .. Len(queue) /\ queue'[k] # h
    BY <1>1, QueueHead
  <2>2. \A k \in 1 .. Len(queue') : queue[k + 1] \in OperationIds
    BY <2>1, QueueElements
  <2>3. \A k \in 1 .. Len(queue') : operations'[queue'[k]].stage = "unplaced"
    <3> TAKE k \in 1 .. Len(queue')
    <3>1. operations'[queue'[k]] = operations[queue[k + 1]]
      BY <1>1, <2>1, <2>2
    <3> QED
      BY <2>1, <3>1 DEF PlaceInv, RowsInv, QueueIsUnplaced
  <2>4. \A k, l \in 1 .. Len(queue') : queue'[k] = queue'[l] => k = l
    <3> TAKE k, l \in 1 .. Len(queue')
    <3>1. queue[k + 1] = queue[l + 1] => k + 1 = l + 1
      BY <2>1 DEF PlaceInv, RowsInv, QueueIsUnplaced
    <3> QED
      BY <2>1, <3>1
  <2> QED
    BY <2>3, <2>4 DEF QueueIsUnplaced
<1> QED
  BY <1>3, <1>4, <1>5, <1>6 DEF PlaceInv, RowsInv

-----------------------------------------------------------------------------
(* Observation and time.                                                   *)

LEMMA SnapshotIsTyped ==
    ASSUME PlaceInv, NEW n \in Nodes, PublishSnapshot(n) \/ ChangeGate(n)
    PROVE  PlaceInv'
<1>1. UNCHANGED <<operations, queue, plan_memory, capacity_reservations, guests>>
  BY DEF PublishSnapshot, ChangeGate
<1>2. infrastructure_nodes \in [Nodes -> NodeRows] /\ AgeLimit \in Nat
  BY WindowsAreOrdered DEF PlaceInv, PlaceTypes, AgeLimit
<1>3. infrastructure_nodes' \in [Nodes -> NodeRows]
  <2>1. CASE PublishSnapshot(n)
    <3>1. PICK open \in BOOLEAN : infrastructure_nodes' = [infrastructure_nodes EXCEPT
                ![n].memory = ObservedMemory(n), ![n].age = 0, ![n].open = open]
      BY <2>1 DEF PublishSnapshot
    <3>2. ObservedMemory(n) \in MemoryOf
      BY DEF ObservedMemory, MemoryOf, PlaceInv, PlaceTypes
    <3> PICK memory \in MemoryOf : memory = ObservedMemory(n)
      BY <3>2
    <3> PICK old : old = infrastructure_nodes[n]
      OBVIOUS
    <3>3. old \in NodeRows /\ 0 \in 0 .. AgeLimit
      BY <1>2
    <3> PICK node : node = [[[old EXCEPT !.memory = memory] EXCEPT !.age = 0] EXCEPT !.open = open]
      OBVIOUS
    <3>5. node \in NodeRows
      BY <3>3 DEF NodeRows
    <3>4. infrastructure_nodes' = [infrastructure_nodes EXCEPT ![n] = node]
      BY <1>2, <3>1
    <3> QED
      BY <1>2, <3>4, <3>5
  <2>2. CASE ChangeGate(n)
    <3>1. PICK open \in BOOLEAN : open = ~infrastructure_nodes[n].open
      BY <1>2 DEF NodeRows
    <3>2. infrastructure_nodes' = [infrastructure_nodes EXCEPT ![n].open = open]
      BY <2>2, <3>1 DEF ChangeGate
    <3> QED
      BY <1>2, <3>2 DEF NodeRows
  <2> QED
    BY <2>1, <2>2
<1>4. PlaceTypes'
  BY <1>1, <1>3 DEF PlaceInv, PlaceTypes
<1>5. RowsInv'
  BY <1>1, RowsStay
<1> QED
  BY <1>4, <1>5 DEF PlaceInv

LEMMA TimePasses ==
    ASSUME PlaceInv, Tick
    PROVE  PlaceInv'
<1>1. UNCHANGED <<operations, queue, plan_memory, guests>>
  BY DEF Tick
<1>2. /\ AgeLimit \in Nat /\ HoldWindow \in Nat
      /\ infrastructure_nodes \in [Nodes -> NodeRows]
      /\ capacity_reservations \in [OperationIds -> HoldRows]
  BY WindowsAreOrdered DEF PlaceInv, PlaceTypes, AgeLimit
<1>3. infrastructure_nodes' \in [Nodes -> NodeRows]
  <2>1. ASSUME NEW n \in Nodes
        PROVE  [infrastructure_nodes[n] EXCEPT !.age = IF @ < AgeLimit THEN @ + 1 ELSE @] \in NodeRows
    <3> PICK node : node = infrastructure_nodes[n]
      OBVIOUS
    <3>1. node \in NodeRows
      BY <1>2
    <3>2. (IF node.age < AgeLimit THEN node.age + 1 ELSE node.age) \in 0 .. AgeLimit
      BY <1>2, <3>1 DEF NodeRows
    <3> QED
      BY <3>1, <3>2 DEF NodeRows
  <2> QED
    BY <2>1 DEF Tick
<1>4. /\ capacity_reservations' \in [OperationIds -> HoldRows]
      /\ \A o \in OperationIds : capacity_reservations'[o].state = capacity_reservations[o].state
  <2>1. ASSUME NEW o \in OperationIds
        PROVE  /\ [capacity_reservations[o] EXCEPT !.left = IF @ > 0 THEN @ - 1 ELSE 0] \in HoldRows
               /\ [capacity_reservations[o] EXCEPT !.left = IF @ > 0 THEN @ - 1 ELSE 0].state
                    = capacity_reservations[o].state
    <3> PICK hold : hold = capacity_reservations[o]
      OBVIOUS
    <3>1. hold \in HoldRows
      BY <1>2
    <3>2. (IF hold.left > 0 THEN hold.left - 1 ELSE 0) \in 0 .. HoldWindow
      BY <1>2, <3>1 DEF HoldRows
    <3> QED
      BY <3>1, <3>2 DEF HoldRows
  <2> QED
    BY <2>1 DEF Tick
<1>5. PlaceTypes'
  BY <1>1, <1>3, <1>4 DEF PlaceInv, PlaceTypes
<1>6. RowsInv'
  BY <1>1, <1>4, RowsStay
<1> QED
  BY <1>5, <1>6 DEF PlaceInv

-----------------------------------------------------------------------------
(* The invariant, and the theorems it gives.                               *)

LEMMA InitInv ==
    ASSUME Init
    PROVE  PlaceInv
<1>1. /\ 0 \in 0 .. HoldWindow /\ 0 \in 0 .. AgeLimit
  BY WindowsAreOrdered DEF AgeLimit
<1>2. <<>> \in Seq(OperationIds) /\ Len(<<>>) = 0
  BY EmptySeq
<1>3. NoOperationRow \in OperationRows
  BY DEF NoOperationRow, OperationRows, OperationStages
<1>4. PlaceTypes
  BY <1>1, <1>2, <1>3 DEF Init, PlaceTypes, HoldRows, MemoryOf, NodeRows
<1>5. /\ queue = <<>>
      /\ \A o \in OperationIds : /\ operations[o] = NoOperationRow
                                 /\ capacity_reservations[o].state = "none" /\ guests[o] = 0
  BY DEF Init
<1>6. UnplacedIsNowhere /\ WorksWhereItIs
  BY <1>5 DEF UnplacedIsNowhere, Nowhere, WorksWhereItIs, NoOperationRow
<1>7. QueueIsUnplaced
  BY <1>2, <1>5 DEF QueueIsUnplaced
<1> QED
  BY <1>4, <1>6, <1>7 DEF PlaceInv, RowsInv

LEMMA InvSteps ==
    ASSUME PlaceInv, [Next]_vars
    PROVE  PlaceInv'
<1>1. CASE Request
  BY <1>1, CreateComes, ResizeComes, GuestIsDeleted DEF Request
<1>2. CASE \E n \in Nodes : place_next_pending_operation(n) \/ PublishSnapshot(n) \/ ChangeGate(n)
  BY <1>2, PlacementSteps, SnapshotIsTyped
<1>3. CASE \E o \in OperationIds : Stage(o)
  BY <1>3, StageSteps
<1>4. CASE Tick
  BY <1>4, TimePasses
<1>5. CASE UNCHANGED vars
  <2>1. UNCHANGED <<operations, queue, plan_memory, capacity_reservations, guests,
  infrastructure_nodes>>
    BY <1>5 DEF vars
  <2>2. PlaceTypes'
    BY <2>1 DEF PlaceInv, PlaceTypes
  <2>3. RowsInv'
    BY <2>1, RowsStay
  <2> QED
    BY <2>2, <2>3 DEF PlaceInv
<1> QED
  BY <1>1, <1>2, <1>3, <1>4, <1>5 DEF Next

LEMMA AlwaysInv == Spec => []PlaceInv
<1>1. Init => PlaceInv
  BY InitInv
<1>2. PlaceInv /\ [Next]_vars => PlaceInv'
  BY InvSteps
<1> QED
  BY <1>1, <1>2, PTL DEF Spec

\* Operations, holds, plans, guests and snapshots keep their types, and what is
\* left of a hold and the age of a snapshot stay within their windows.
THEOREM TypeCorrect == Spec => []TypeOK
<1>1. PlaceInv => TypeOK
  BY TypesByName DEF PlaceInv
<1> QED
  BY <1>1, AlwaysInv, PTL

-----------------------------------------------------------------------------
(* The sums of a node are numbers.                                         *)

LEMMA MemoryIsTyped ==
    ASSUME PlaceInv
    PROVE  /\ Memory \in [OperationIds -> Nat] /\ guests \in [OperationIds -> Nat]
           /\ \A n \in Nodes : infrastructure_nodes[n].memory \in [OperationIds -> Nat]
<1>1. \A f \in MemoryOf : f \in [OperationIds -> Nat]
  <2>1. \A m \in PlanMemory \cup {0} : m \in Nat
    BY PlansAreMemory
  <2> QED
    BY <2>1 DEF MemoryOf
<1>2. Memory \in MemoryOf
  BY DEF Memory, MemoryOf, PlaceInv, PlaceTypes, OperationRows
<1> QED
  BY <1>1, <1>2 DEF PlaceInv, PlaceTypes, NodeRows

LEMMA SumsOfNode ==
    ASSUME PlaceInv, NEW n \in Nodes
    PROVE  CommittedMemory(n) \in Int /\ HeldMemory(n) \in Int
<1>1. Memory \in [OperationIds -> Int] /\ infrastructure_nodes[n].memory \in [OperationIds -> Int]
  BY MemoryIsTyped
<1>2. HoldsOn(n) \in SUBSET OperationIds /\ IsFiniteSet(HoldsOn(n))
  BY OperationsAreFinite, FS_Subset DEF HoldsOn
<1>3. HeldMemory(n) \in Int
  BY <1>1, <1>2, SumTakesOff DEF HeldMemory
<1>4. CommittedMemory(n) = SumFunctionOnSet(infrastructure_nodes[n].memory, OperationIds)
  BY <1>1 DEF CommittedMemory, SumFunction, FoldFunction, SumFunctionOnSet
<1>5. OperationIds \in SUBSET OperationIds
  OBVIOUS
<1> QED
  BY <1>1, <1>3, <1>4, <1>5, OperationsAreFinite, SumTakesOff

-----------------------------------------------------------------------------
(* Admission.                                                              *)

LEMMA ReserveIsCovered ==
    ASSUME NEW free \in Int, NEW total \in Nat, NEW reserve \in 0 .. 30, free * 10 >= total * 3
    PROVE  free * 100 >= total * reserve
<1>1. total * reserve <= total * 30
  <2>1. total * (30 - reserve) >= 0
    OBVIOUS
  <2> QED
    BY <2>1
<1> QED
  BY <1>1

\* The console admits what placement would place, whatever the reserve of a
\* node, as long as it only lowers the default, and whatever the windows, as
\* long as the one of placement is the shorter.
THEOREM PlaceableAlwaysAdmitted == Spec => []PlaceableIsAdmitted
<1>1. ASSUME PlaceInv, NEW n \in Nodes, NEW m \in PlanMemory, Eligible(n, m)
      PROVE  Admitted(n, m)
  <2>1. /\ TotalMemory[n] \in Nat /\ MemoryReserve[n] \in 0 .. 30 /\ m \in Int
    BY CapacitiesAreNumbers, ReservesOnlyLower
  <2>2. PostFreeMemory(n, m) \in Int
    BY <1>1, <2>1, SumsOfNode DEF PostFreeMemory
  <2>3. PostFreeMemory(n, m) * 100 >= TotalMemory[n] * MemoryReserve[n]
    BY <1>1, <2>1, <2>2, ReserveIsCovered DEF Eligible
  <2>4. infrastructure_nodes[n].age <= AdmissionWindow
    BY <1>1, WindowsAreOrdered DEF Eligible, PlaceInv, PlaceTypes, NodeRows, AgeLimit
  <2> QED
    BY <1>1, <2>3, <2>4 DEF Eligible, Admitted, MemoryFits
<1>2. PlaceInv => PlaceableIsAdmitted
  BY <1>1 DEF PlaceableIsAdmitted
<1> QED
  BY <1>2, AlwaysInv, PTL

-----------------------------------------------------------------------------
(* What a placement leaves free.                                           *)

\* The live holds on behalf of an instance.
HoldsFor(i) == {o \in OperationIds : operations[o].instance = i /\ LiveHold(o)}

LEMMA HeldForIsNumber ==
    ASSUME PlaceInv
    PROVE  \A i \in OperationIds :
            /\ HoldsFor(i) \in SUBSET OperationIds /\ IsFiniteSet(HoldsFor(i))
            /\ HeldFor(i) = SumFunctionOnSet(Memory, HoldsFor(i)) /\ HeldFor(i) \in Int
<1> SUFFICES ASSUME NEW i \in OperationIds
             PROVE  /\ HoldsFor(i) \in SUBSET OperationIds /\ IsFiniteSet(HoldsFor(i))
                    /\ HeldFor(i) = SumFunctionOnSet(Memory, HoldsFor(i)) /\ HeldFor(i) \in Int
  OBVIOUS
<1>1. Memory \in [OperationIds -> Int]
  BY MemoryIsTyped
<1>2. HoldsFor(i) \in SUBSET OperationIds /\ IsFiniteSet(HoldsFor(i))
  BY OperationsAreFinite, FS_Subset DEF HoldsFor
<1>3. HeldFor(i) = SumFunctionOnSet(Memory, HoldsFor(i))
  BY DEF HeldFor, HoldsFor
<1> QED
  BY <1>1, <1>2, <1>3, SumTakesOff

\* A live hold is of the instance it is for, on the node where that is.
LEMMA HoldsAreOnNode ==
    ASSUME PlaceInv, NEW n \in Nodes, NEW i \in InstancesOn(n)
    PROVE  HoldsFor(i) \subseteq HoldsOn(n)
<1> SUFFICES ASSUME NEW o \in OperationIds, operations[o].instance = i, LiveHold(o)
             PROVE  operations[o].node = n
  BY DEF HoldsFor, HoldsOn
<1>1. operations[o].stage # "none"
  BY DEF PlaceInv, RowsInv, UnplacedIsNowhere, Nowhere, LiveHold
<1>2. operations[o].kind \in {"create", "resize"}
  BY DEF PlaceInv, PlaceTypes, OperationRows
<1> QED
  BY <1>1, <1>2 DEF PlaceInv, RowsInv, WorksWhereItIs, InstancesOn

\* What is held for the instances of a node is held on the node.
LEMMA HeldForIsHeldOn ==
    ASSUME PlaceInv, NEW n \in Nodes, NEW held \in [OperationIds -> Int],
           \A i \in OperationIds : held[i] = HeldFor(i)
    PROVE  SumFunctionOnSet(held, InstancesOn(n)) <= HeldMemory(n)
<1> PICK I : I = InstancesOn(n)
  OBVIOUS
<1>1. I \in SUBSET OperationIds /\ IsFiniteSet(I)
  BY OperationsAreFinite, FS_Subset DEF InstancesOn
<1> PICK G : G = [i \in I |-> HoldsFor(i)]
  OBVIOUS
<1>2. G \in [I -> SUBSET OperationIds]
  BY DEF HoldsFor
<1>3. \A i, j \in I : i # j => G[i] \cap G[j] = {}
  BY DEF HoldsFor
<1> PICK totals : totals = [i \in I |-> held[i]]
  OBVIOUS
<1>4. totals \in [I -> Int] /\ \A i \in I : totals[i] = held[i]
  BY <1>1
<1>5. \A i \in I : totals[i] = SumFunctionOnSet(Memory, G[i])
  BY <1>1, <1>4, HeldForIsNumber
<1>6. Memory \in [OperationIds -> Nat] /\ Memory \in [OperationIds -> Int]
  BY MemoryIsTyped
<1> PICK all : all = UNION {G[i] : i \in I}
  OBVIOUS
<1>7. SumFunctionOnSet(totals, I) <= SumFunctionOnSet(Memory, all)
  <2>1. IsFiniteSet(OperationIds)
    BY OperationsAreFinite
  <2> QED
    BY <1>1, <1>2, <1>3, <1>4, <1>5, <1>6, <2>1, SumOfGroups
<1>8. SumFunctionOnSet(totals, I) = SumFunctionOnSet(held, I)
  <2>1. I \in SUBSET I /\ I \subseteq OperationIds /\ \A x \in I : totals[x] = held[x]
    BY <1>1, <1>4
  <2> QED
    BY <1>1, <1>4, <2>1, SumsSame
<1>9. HoldsOn(n) \in SUBSET OperationIds /\ IsFiniteSet(HoldsOn(n))
  BY OperationsAreFinite, FS_Subset DEF HoldsOn
<1>10. all \in SUBSET HoldsOn(n)
  <2>1. \A i \in I : G[i] \subseteq HoldsOn(n)
    BY HoldsAreOnNode
  <2> QED
    BY <2>1
<1>11. SumFunctionOnSet(Memory, all) <= SumFunctionOnSet(Memory, HoldsOn(n))
  BY <1>6, <1>9, <1>10, SumOfPart
<1>12. /\ SumFunctionOnSet(held, I) \in Int /\ SumFunctionOnSet(Memory, all) \in Int
       /\ SumFunctionOnSet(Memory, HoldsOn(n)) \in Int
  <2>1. SumFunctionOnSet(held, I) \in Int
    BY <1>1, SumTakesOff
  <2>2. SumFunctionOnSet(Memory, HoldsOn(n)) \in Int
    BY <1>6, <1>9, SumTakesOff
  <2>3. all \in SUBSET OperationIds /\ IsFiniteSet(all)
    BY <1>9, <1>10, FS_Subset
  <2>4. SumFunctionOnSet(Memory, all) \in Int
    BY <1>6, <2>3, SumTakesOff
  <2> QED
    BY <2>1, <2>2, <2>4
<1> QED
  BY <1>7, <1>8, <1>11, <1>12 DEF HeldMemory

\* What a placement adds to what the instances of the nodes are promised: the
\* memory of the create it places, at most.
LEMMA OnlyOneIsPromised ==
    ASSUME PlaceInv, NEW n \in Nodes, place_next_pending_operation(n)
    PROVE  \E h \in OperationIds :
            /\ Eligible(n, operations[h].memory) /\ operations[h].memory \in Nat
            /\ h \notin InstancesOn(n) /\ InstancesOn(n)' = InstancesOn(n) \cup {h}
            /\ \A i \in OperationIds : i # h => HeldFor(i)' = HeldFor(i)
            /\ HeldFor(h)' \in Int /\ HeldFor(h)' <= operations[h].memory
            /\ guests[h] = 0 /\ UNCHANGED guests
<1>1. PICK h \in OperationIds :
            /\ operations[h].stage = "unplaced" /\ Eligible(n, operations[h].memory)
            /\ operations' \in [OperationIds -> OperationRows]
            /\ operations'[h].node = n
            /\ operations'[h].kind = "create" /\ operations'[h].instance = h
            /\ operations'[h].memory = operations[h].memory
            /\ \A p \in OperationIds : p # h => operations'[p] = operations[p]
            /\ Hold(h) /\ UNCHANGED <<plan_memory, guests, infrastructure_nodes>>
  BY Placed
<1>2. \A p \in OperationIds : p # h => capacity_reservations'[p] = capacity_reservations[p]
  BY <1>1, HoldIsTyped
<1>3. /\ operations[h].kind = "create" /\ operations[h].node = NoNode /\ operations[h].instance = h
      /\ guests[h] = 0 /\ operations[h].memory \in Nat
  BY <1>1, MemoryIsTyped DEF PlaceInv, RowsInv, UnplacedIsNowhere, Nowhere, WorksWhereItIs, Memory
<1>4. h \notin InstancesOn(n)
  BY <1>3, NullsAreNotIds DEF InstancesOn
<1>5. InstancesOn(n)' = InstancesOn(n) \cup {h}
  <2>1. \A p \in OperationIds : p \in InstancesOn(n)' <=> p = h \/ p \in InstancesOn(n)
    BY <1>1, <1>4 DEF InstancesOn
  <2> QED
    BY <2>1 DEF InstancesOn
<1>6. PlaceInv' /\ Memory' = Memory
  BY <1>1, PlacementSteps DEF Memory
<1>7. \A i \in OperationIds : HeldFor(i)' = SumFunctionOnSet(Memory, HoldsFor(i)')
  BY <1>6 DEF HeldFor, HoldsFor
<1>8. ASSUME NEW i \in OperationIds, i # h
      PROVE  HeldFor(i)' = HeldFor(i)
  <2>1. \A o \in OperationIds : o \in HoldsFor(i)' <=> o \in HoldsFor(i)
    BY <1>1, <1>2, <1>3, <1>8 DEF HoldsFor, LiveHold
  <2>2. HoldsFor(i)' = HoldsFor(i)
    BY <2>1 DEF HoldsFor
  <2> QED
    BY <1>7, <2>2, HeldForIsNumber
<1>9. \A o \in HoldsFor(h)' : o = h
  <2> SUFFICES ASSUME NEW o \in OperationIds, o # h, operations[o].instance = h
               PROVE  FALSE
    BY <1>1 DEF HoldsFor
  <2>1. operations[o].stage # "none"
    BY NullsAreNotIds DEF PlaceInv, RowsInv, UnplacedIsNowhere, Nowhere
  <2>2. operations[o].kind \in {"create", "resize"}
    BY DEF PlaceInv, PlaceTypes, OperationRows
  <2> QED
    BY <1>1, <2>1, <2>2 DEF PlaceInv, RowsInv, WorksWhereItIs
<1>10. HeldFor(h)' \in Int /\ HeldFor(h)' <= operations[h].memory
  <2>1. Memory \in [OperationIds -> Int] /\ Memory[h] = operations[h].memory
    BY MemoryIsTyped DEF Memory
  <2>2. SumFunctionOnSet(Memory, {}) = 0
    BY <2>1, SumOfNothing
  <2>3. SumFunctionOnSet(Memory, {h}) = Memory[h]
    <3>1. {h} \in SUBSET OperationIds /\ IsFiniteSet({h}) /\ h \in {h} /\ {h} \ {h} = {}
      BY FS_Singleton
    <3>2. SumFunctionOnSet(Memory, {h}) = Memory[h] + SumFunctionOnSet(Memory, {h} \ {h})
      BY <2>1, <3>1, SumTakesOff
    <3> QED
      BY <2>1, <2>2, <3>1, <3>2, <1>3
  <2>4. HoldsFor(h)' = {} \/ HoldsFor(h)' = {h}
    BY <1>9
  <2> QED
    BY <1>3, <1>7, <2>1, <2>2, <2>3, <2>4
<1> QED
  BY <1>1, <1>3, <1>4, <1>5, <1>8, <1>10

LEMMA FitsArithmetic ==
    ASSUME NEW total \in Int, NEW committed \in Int, NEW held \in Int, NEW memory \in Int,
           NEW promised \in Int, promised <= committed + held + memory,
           (total - committed - held - memory) * 10 >= total * 3
    PROVE  promised * 10 <= total * 7
OBVIOUS

LEMMA LargerIsLess ==
    ASSUME NEW a \in Nat, NEW b \in Int, NEW s \in Nat, ~(a > s + b)
    PROVE  Larger(a, b) \in Int /\ Larger(a, b) <= s + b
BY DEF Larger

LEMMA PlacementKeepsReserve ==
    ASSUME PlaceInv, NEW n \in Nodes, place_next_pending_operation(n), Overlooked(n) = {}
    PROVE  PromisedMemory(n)' * 10 <= TotalMemory[n] * 7
<1>1. PICK h \in OperationIds :
            /\ Eligible(n, operations[h].memory) /\ operations[h].memory \in Nat
            /\ h \notin InstancesOn(n) /\ InstancesOn(n)' = InstancesOn(n) \cup {h}
            /\ \A i \in OperationIds : i # h => HeldFor(i)' = HeldFor(i)
            /\ HeldFor(h)' \in Int /\ HeldFor(h)' <= operations[h].memory
            /\ guests[h] = 0 /\ UNCHANGED guests
  BY OnlyOneIsPromised
<1> PICK I : I = InstancesOn(n)
  OBVIOUS
<1>2. I \in SUBSET OperationIds /\ IsFiniteSet(I) /\ h \notin I
  BY <1>1, OperationsAreFinite, FS_Subset DEF InstancesOn
<1> PICK held : held = [i \in OperationIds |-> HeldFor(i)]
  OBVIOUS
<1>3. held \in [OperationIds -> Int] /\ \A i \in OperationIds : held[i] = HeldFor(i)
  BY HeldForIsNumber
<1> PICK snapshot : snapshot = infrastructure_nodes[n].memory
  OBVIOUS
<1>4. /\ snapshot \in [OperationIds -> Nat] /\ snapshot \in [OperationIds -> Int]
      /\ guests \in [OperationIds -> Nat]
  BY MemoryIsTyped
<1> PICK owed : owed = [i \in OperationIds |-> Larger(guests[i], HeldFor(i)')]
  OBVIOUS
<1> PICK both : both = [i \in OperationIds |-> snapshot[i] + held[i]]
  OBVIOUS
<1>5. PromisedMemory(n)' = SumFunctionOnSet(owed, I \cup {h})
  BY <1>1 DEF PromisedMemory
<1>6. \A i \in I : owed[i] \in Int /\ owed[i] <= both[i]
  <2> TAKE i \in I
  <2>1. i \in OperationIds /\ i # h /\ HeldFor(i)' = held[i]
    BY <1>1, <1>2, <1>3
  <2>2. ~(guests[i] > snapshot[i] + held[i])
    BY <1>3, <2>1 DEF Overlooked
  <2>3. guests[i] \in Nat /\ held[i] \in Int /\ snapshot[i] \in Nat
    BY <1>3, <1>4, <2>1
  <2>4. Larger(guests[i], held[i]) \in Int /\ Larger(guests[i], held[i]) <= snapshot[i] + held[i]
    BY <2>2, <2>3, LargerIsLess
  <2> QED
    BY <2>1, <2>4
<1>7. owed[h] \in Int /\ owed[h] <= operations[h].memory
  <2>1. owed[h] = Larger(0, HeldFor(h)')
    BY <1>1
  <2> QED
    BY <1>1, <2>1 DEF Larger
<1>8. owed \in [OperationIds -> Int]
  <2>1. \A i \in OperationIds : HeldFor(i)' \in Int
    BY <1>1, <1>3
  <2> QED
    BY <1>4, <2>1 DEF Larger
<1>9. both \in [OperationIds -> Int] /\ \A x \in I : both[x] = snapshot[x] + held[x]
  BY <1>2, <1>3, <1>4
<1>10. SumFunctionOnSet(owed, I \cup {h}) = SumFunctionOnSet(owed, I) + owed[h]
  BY <1>2, <1>8, SumGrows
<1>11. SumFunctionOnSet(owed, I) <= SumFunctionOnSet(both, I)
  <2>1. I \subseteq OperationIds /\ \A x \in I : owed[x] <= both[x]
    BY <1>2, <1>6
  <2> QED
    BY <1>2, <1>8, <1>9, <2>1, SumsCompare
<1>12. SumFunctionOnSet(both, I) = SumFunctionOnSet(snapshot, I) + SumFunctionOnSet(held, I)
  BY <1>2, <1>3, <1>4, <1>9, SumOfSums
<1>13. SumFunctionOnSet(snapshot, I) <= CommittedMemory(n)
  <2>1. OperationIds \in SUBSET OperationIds /\ IsFiniteSet(OperationIds)
    BY OperationsAreFinite
  <2>2. SumFunctionOnSet(snapshot, I) <= SumFunctionOnSet(snapshot, OperationIds)
    BY <1>2, <1>4, <2>1, SumOfPart
  <2>3. CommittedMemory(n) = SumFunctionOnSet(snapshot, OperationIds)
    BY <1>4 DEF CommittedMemory, SumFunction, FoldFunction, SumFunctionOnSet
  <2> QED
    BY <2>2, <2>3
<1>14. SumFunctionOnSet(held, I) <= HeldMemory(n)
  BY <1>3, HeldForIsHeldOn
<1>15. /\ SumFunctionOnSet(owed, I) \in Int /\ SumFunctionOnSet(both, I) \in Int
       /\ SumFunctionOnSet(snapshot, I) \in Int /\ SumFunctionOnSet(held, I) \in Int
  BY <1>2, <1>3, <1>4, <1>8, <1>9, SumTakesOff
<1>16. CommittedMemory(n) \in Int /\ HeldMemory(n) \in Int /\ TotalMemory[n] \in Int
  BY SumsOfNode, CapacitiesAreNumbers
<1> PICK promised : promised = PromisedMemory(n)'
  OBVIOUS
<1>17. promised \in Int /\ promised <= CommittedMemory(n) + HeldMemory(n) + operations[h].memory
  BY <1>1, <1>5, <1>7, <1>10, <1>11, <1>12, <1>13, <1>14, <1>15, <1>16
<1>18. (TotalMemory[n] - CommittedMemory(n) - HeldMemory(n) - operations[h].memory) * 10
            >= TotalMemory[n] * 3
  BY <1>1 DEF Eligible, PostFreeMemory
<1> QED
  BY <1>1, <1>16, <1>17, <1>18, FitsArithmetic

\* A placement leaves 30 percent of the memory of its node free, counting each
\* instance with the larger of what its guest has and what live holds promise
\* it, unless a guest is overlooked at that moment.
THEOREM PlacementAlwaysFits == Spec => PlacementFits
<1>1. PlaceInv /\ [Next]_vars =>
        [\A n \in Nodes : place_next_pending_operation(n) /\ Overlooked(n) = {} =>
            PromisedMemory(n)' * 10 <= TotalMemory[n] * 7]_vars
  BY PlacementKeepsReserve
<1> QED
  BY <1>1, AlwaysInv, PTL DEF Spec, PlacementFits
=============================================================================
