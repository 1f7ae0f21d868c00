---------------------------- MODULE SumTheorems -----------------------------
(***************************************************************************)
(* What SumFunctionOnSet computes, for any finite set of naturals: the     *)
(* models sum the quotas of a disk's volumes with it.  Its recursion is    *)
(* over the subsets of a set; facts about it are proved by induction on    *)
(* finite sets in the form of a least counterexample (LeastSubset).        *)
(* Also: a finite sequence can be sorted (SortExists).                     *)
(***************************************************************************)
EXTENDS Naturals, FiniteSets, Functions, FiniteSetTheorems, NaturalsInduction,
        WellFoundedInduction, TLAPS

\* The recursion SumFunctionOnSet is defined by, over the subsets of S.
SumsOf(h, S, g) ==
  g = [s \in SUBSET S |->
         IF s = {} THEN 0
         ELSE h[CHOOSE x \in s : TRUE] + g[s \ {CHOOSE x \in s : TRUE}]]

\* SumFunctionOnSet is the value at S of the function the recursion defines.
LEMMA SumUnfolded ==
  ASSUME NEW h, NEW S
  PROVE  SumFunctionOnSet(h, S) = (CHOOSE g : SumsOf(h, S, g))[S]
  BY DEF SumFunctionOnSet, FoldFunctionOnSet, MapThenFoldSet, SumsOf

\* A nonempty set of naturals has a least element.
LEMMA LeastNat ==
  ASSUME NEW T \in SUBSET Nat, T # {}
  PROVE  \E n \in T : \A m \in T : n <= m
<1>. DEFINE R == {ss \in Nat \X Nat : ss[1] < ss[2]}
<1>1. IsWellFoundedOn(R, Nat)
  BY NatLessThanWellFounded DEF OpToRel
<1>. HIDE DEF R
<1>2. PICK n \in T : \A m \in T : <<m, n>> \notin R
  BY <1>1, WFMin
<1>3. \A m \in T : ~(m < n)
  BY <1>2 DEF R
<1>. QED
  BY <1>3

\* A nonempty set of subsets of a finite set has one from which no element can
\* be taken: induction on finite sets, in the form of a least counterexample.
LEMMA LeastSubset ==
  ASSUME NEW S, IsFiniteSet(S), NEW Bad \in SUBSET (SUBSET S), Bad # {}
  PROVE  \E t \in Bad : \A x \in t : t \ {x} \notin Bad
<1>. DEFINE Lengths == {Cardinality(t) : t \in Bad}
<1>1. \A t \in Bad : IsFiniteSet(t) /\ Cardinality(t) \in Nat
  BY FS_Subset, FS_CardinalityType
<1>2. Lengths \in SUBSET Nat /\ Lengths # {}
  BY <1>1
<1>3. PICK n \in Lengths : \A m \in Lengths : n <= m
  <2>. HIDE DEF Lengths
  <2>. QED
    BY <1>2, LeastNat
<1>4. PICK t \in Bad : n = Cardinality(t)
  BY <1>3
<1>5. \A u \in Bad : Cardinality(t) <= Cardinality(u)
  BY <1>3, <1>4
<1>6. ASSUME NEW x \in t PROVE t \ {x} \notin Bad
  <2>1. IsFiniteSet(t) /\ Cardinality(t) \in Nat
    BY <1>1
  <2>2. Cardinality(t \ {x}) = Cardinality(t) - 1
    BY <2>1, FS_RemoveElement
  <2>. QED
    BY <1>5, <2>1, <2>2
<1>. QED
  BY <1>6

\* The recursion has a solution, in the natural numbers.
LEMMA SumsExist ==
  ASSUME NEW S, IsFiniteSet(S), NEW h \in [S -> Nat]
  PROVE  \E g \in [SUBSET S -> Nat] : SumsOf(h, S, g)
<1>. DEFINE Small(n) == {s \in SUBSET S : Cardinality(s) <= n}
            pick(s) == CHOOSE x \in s : TRUE
            Solves(g, n) == \A s \in Small(n) :
                g[s] = IF s = {} THEN 0 ELSE h[pick(s)] + g[s \ {pick(s)}]
            Solvable(n) == \E g \in [Small(n) -> Nat] : Solves(g, n)
            Bad == {n \in Nat : ~Solvable(n)}
<1>1. \A s \in SUBSET S : Cardinality(s) \in Nat
  BY FS_Subset, FS_CardinalityType
<1>2. \A s \in SUBSET S : s # {} =>
         /\ pick(s) \in s /\ s \ {pick(s)} \in SUBSET S
         /\ Cardinality(s \ {pick(s)}) = Cardinality(s) - 1
  <2>1. SUFFICES ASSUME NEW s \in SUBSET S, s # {}
                 PROVE  /\ pick(s) \in s /\ s \ {pick(s)} \in SUBSET S
                        /\ Cardinality(s \ {pick(s)}) = Cardinality(s) - 1
    OBVIOUS
  <2>2. pick(s) \in s
    BY <2>1
  <2>3. IsFiniteSet(s)
    BY FS_Subset
  <2>. HIDE DEF pick
  <2>. QED
    BY <2>2, <2>3, FS_RemoveElement
<1>3. Solvable(0)
  <2>1. Small(0) = {{}}
    <3>1. \A s \in SUBSET S : IsFiniteSet(s)
      BY FS_Subset
    <3>. QED
      BY <1>1, <3>1, FS_EmptySet
  <2>. DEFINE g0 == [s \in Small(0) |-> 0]
  <2>2. g0 \in [Small(0) -> Nat] /\ Solves(g0, 0)
    BY <2>1
  <2>. QED
    BY <2>2
<1>4. ASSUME NEW n \in Nat, Solvable(n)
      PROVE  Solvable(n + 1)
  <2>1. PICK g \in [Small(n) -> Nat] : Solves(g, n)
    BY <1>4
  <2>. DEFINE e == [s \in Small(n + 1) |->
                      IF s = {} THEN 0 ELSE h[pick(s)] + g[s \ {pick(s)}]]
  <2>. HIDE DEF pick
  <2>2. \A s \in Small(n + 1) : s # {} =>
           s \ {pick(s)} \in Small(n) /\ h[pick(s)] \in Nat
    BY <1>1, <1>2
  <2>3. e \in [Small(n + 1) -> Nat]
    BY <2>2
  <2>4. \A s \in Small(n) : s \in Small(n + 1) /\ e[s] = g[s]
    BY <1>1, <2>1
  <2>5. Solves(e, n + 1)
    BY <2>2, <2>4
  <2>. QED
    BY <2>3, <2>5
<1>5. Bad = {}
  <2>1. SUFFICES ASSUME Bad # {} PROVE FALSE
    OBVIOUS
  <2>2. PICK n \in Bad : \A m \in Bad : n <= m
    <3>. HIDE DEF Solvable
    <3>. QED
      BY <2>1, LeastNat
  <2>. HIDE DEF Solvable
  <2>3. n # 0 /\ n - 1 \in Nat /\ n - 1 \notin Bad
    BY <1>3, <2>2
  <2>. QED
    BY <1>4, <2>2, <2>3
<1>6. Solvable(Cardinality(S))
  <2>. HIDE DEF Solvable
  <2>. QED
    BY <1>5, FS_CardinalityType
<1>7. Small(Cardinality(S)) = SUBSET S
  BY FS_Subset
<1>8. PICK g \in [SUBSET S -> Nat] : Solves(g, Cardinality(S))
  BY <1>6, <1>7
<1>9. SumsOf(h, S, g)
  BY <1>7, <1>8 DEF SumsOf
<1>. QED
  BY <1>9

\* Two solutions agree on the sets they share, when the functions summed do.
LEMMA SumsAgree ==
  ASSUME NEW S, IsFiniteSet(S), NEW h, NEW g, SumsOf(h, S, g),
         NEW T, IsFiniteSet(T), NEW k, NEW f, SumsOf(k, T, f),
         \A x \in S \cap T : h[x] = k[x]
  PROVE  \A s \in SUBSET (S \cap T) : g[s] = f[s]
<1>. DEFINE Bad == {s \in SUBSET (S \cap T) : g[s] # f[s]}
<1>1. SUFFICES ASSUME Bad # {} PROVE FALSE
  OBVIOUS
<1>2. IsFiniteSet(S \cap T)
  BY FS_Subset
<1>3. PICK s \in Bad : \A x \in s : s \ {x} \notin Bad
  <2>1. Bad \in SUBSET (SUBSET (S \cap T))
    OBVIOUS
  <2>. HIDE DEF Bad
  <2>. QED
    BY <1>1, <1>2, <2>1, LeastSubset
<1>4. s # {}
  BY <1>3 DEF SumsOf
<1>5. PICK x \in s : x = CHOOSE y \in s : TRUE
  BY <1>4
<1>6. g[s] = h[x] + g[s \ {x}] /\ f[s] = k[x] + f[s \ {x}]
  <2>1. s \in SUBSET S /\ s \in SUBSET T
    BY <1>3
  <2>2. g[s] = h[x] + g[s \ {x}]
    BY <1>4, <1>5, <2>1 DEF SumsOf
  <2>3. f[s] = k[x] + f[s \ {x}]
    BY <1>4, <1>5, <2>1 DEF SumsOf
  <2>. QED
    BY <2>2, <2>3
<1>7. g[s \ {x}] = f[s \ {x}]
  BY <1>3, <1>5
<1>. QED
  BY <1>3, <1>5, <1>6, <1>7

\* The sum over a finite set is the value any solution of the recursion has.
LEMMA SumIs ==
  ASSUME NEW S, IsFiniteSet(S), NEW h \in [S -> Nat],
         NEW T \in SUBSET S, NEW g, SumsOf(h, S, g)
  PROVE  SumFunctionOnSet(h, T) = g[T]
<1>1. IsFiniteSet(T)
  BY FS_Subset
<1>. DEFINE hT == [x \in T |-> h[x]]
<1>2. PICK f : SumsOf(hT, T, f)
  BY <1>1, SumsExist
<1>3. SumsOf(h, T, f)
  <2>1. \A s \in SUBSET T : s # {} =>
           hT[CHOOSE x \in s : TRUE] = h[CHOOSE x \in s : TRUE]
    OBVIOUS
  <2>. QED
    BY <1>2, <2>1 DEF SumsOf
<1>4. SumsOf(h, T, CHOOSE e : SumsOf(h, T, e))
  BY <1>3
<1>5. (CHOOSE e : SumsOf(h, T, e))[T] = g[T]
  <2>. DEFINE c == CHOOSE e : SumsOf(h, T, e)
  <2>1. SumsOf(h, T, c)
    BY <1>4
  <2>. HIDE DEF c
  <2>. QED
    BY <1>1, <2>1, SumsAgree
<1>. QED
  BY <1>5, SumUnfolded

\* A sum of naturals is a natural, and 0 over no element.
LEMMA SumNat ==
  ASSUME NEW S, IsFiniteSet(S), NEW h \in [S -> Nat]
  PROVE  /\ \A T \in SUBSET S : SumFunctionOnSet(h, T) \in Nat
         /\ SumFunctionOnSet(h, {}) = 0
<1>1. PICK g \in [SUBSET S -> Nat] : SumsOf(h, S, g)
  BY SumsExist
<1>2. \A T \in SUBSET S : SumFunctionOnSet(h, T) = g[T]
  BY <1>1, SumIs
<1>3. g[{}] = 0
  BY <1>1 DEF SumsOf
<1>. QED
  BY <1>1, <1>2, <1>3

\* The order of summation does not matter: any element can be taken out.
LEMMA SumRemove ==
  ASSUME NEW S, IsFiniteSet(S), NEW h \in [S -> Nat],
         NEW T \in SUBSET S, NEW y \in T
  PROVE  SumFunctionOnSet(h, T) = h[y] + SumFunctionOnSet(h, T \ {y})
<1>1. PICK g \in [SUBSET S -> Nat] : SumsOf(h, S, g)
  BY SumsExist
<1>2. \A t \in SUBSET S : SumFunctionOnSet(h, t) = g[t]
  BY <1>1, SumIs
<1>. DEFINE Bad == {t \in SUBSET S : \E z \in t : g[t] # h[z] + g[t \ {z}]}
<1>3. ASSUME Bad # {} PROVE FALSE
  <2>1. PICK t \in Bad : \A x \in t : t \ {x} \notin Bad
    <3>1. Bad \in SUBSET (SUBSET S)
      OBVIOUS
    <3>. HIDE DEF Bad
    <3>. QED
      BY <1>3, <3>1, LeastSubset
  <2>2. PICK z \in t : g[t] # h[z] + g[t \ {z}]
    BY <2>1
  <2>3. PICK x \in t : x = CHOOSE e \in t : TRUE
    BY <2>2
  <2>4. g[t] = h[x] + g[t \ {x}]
    <3>1. t \in SUBSET S /\ t # {}
      BY <2>1, <2>2
    <3>2. \A s \in SUBSET S :
             s # {} => g[s] = h[CHOOSE e \in s : TRUE] + g[s \ {CHOOSE e \in s : TRUE}]
      <4>. DEFINE first(s) == CHOOSE e \in s : TRUE
                  G == [s \in SUBSET S |->
                          IF s = {} THEN 0 ELSE h[first(s)] + g[s \ {first(s)}]]
      <4>1. g = G
        BY <1>1 DEF SumsOf
      <4>2. \A s \in SUBSET S : s # {} => G[s] = h[first(s)] + g[s \ {first(s)}]
        <5>. HIDE DEF first
        <5>. QED
          OBVIOUS
      <4>. HIDE DEF G
      <4>. QED
        BY <4>1, <4>2, Zenon
    <3>. QED
      BY <2>3, <3>1, <3>2, Zenon
  <2>5. x # z
    BY <2>2, <2>4
  <2>6. /\ g[t \ {x}] = h[z] + g[(t \ {x}) \ {z}]
        /\ g[t \ {z}] = h[x] + g[(t \ {z}) \ {x}]
    <3>1. \A e \in t : \A a \in t \ {e} : g[t \ {e}] = h[a] + g[(t \ {e}) \ {a}]
      BY <2>1
    <3>2. z \in t \ {x} /\ x \in t \ {z}
      BY <2>2, <2>3, <2>5
    <3>. QED
      BY <2>2, <2>3, <3>1, <3>2, Zenon
  <2>7. (t \ {x}) \ {z} = (t \ {z}) \ {x}
    OBVIOUS
  <2>8. h[x] \in Nat /\ h[z] \in Nat /\ g[(t \ {x}) \ {z}] \in Nat
    <3>1. (t \ {x}) \ {z} \in SUBSET S /\ x \in S /\ z \in S
      BY <2>1, <2>2, <2>3
    <3>. QED
      BY <3>1
  <2>9. g[t] = h[z] + g[t \ {z}]
    <3>1. \A a, b, c \in Nat : a + (b + c) = b + (a + c)
      OBVIOUS
    <3>2. h[x] + (h[z] + g[(t \ {x}) \ {z}]) = h[z] + (h[x] + g[(t \ {x}) \ {z}])
      BY <2>8, <3>1
    <3>. QED
      BY <2>4, <2>6, <2>7, <3>2, Zenon
  <2>. QED
    BY <2>2, <2>9
<1>. QED
  BY <1>2, <1>3

\* Functions that agree on a set have the same sum over it.
LEMMA SumCongruent ==
  ASSUME NEW S, IsFiniteSet(S), NEW h \in [S -> Nat],
         NEW U, IsFiniteSet(U), NEW k \in [U -> Nat],
         NEW T, T \subseteq S, T \subseteq U, \A x \in T : h[x] = k[x]
  PROVE  SumFunctionOnSet(h, T) = SumFunctionOnSet(k, T)
<1>. DEFINE e == [x \in T |-> h[x]]
<1>1. IsFiniteSet(T)
  BY FS_Subset
<1>2. PICK g : SumsOf(e, T, g)
  BY <1>1, SumsExist
<1>3. PICK gh : SumsOf(h, S, gh)
  BY SumsExist
<1>4. PICK gk : SumsOf(k, U, gk)
  BY SumsExist
<1>5. gh[T] = g[T] /\ gk[T] = g[T]
  <2>1. \A x \in S \cap T : h[x] = e[x]
    OBVIOUS
  <2>2. \A x \in U \cap T : k[x] = e[x]
    OBVIOUS
  <2>3. T \in SUBSET (S \cap T) /\ T \in SUBSET (U \cap T)
    OBVIOUS
  <2>. HIDE DEF e
  <2>. QED
    BY <1>1, <1>2, <1>3, <1>4, <2>1, <2>2, <2>3, SumsAgree
<1>. QED
  BY <1>3, <1>4, <1>5, SumIs

\* A sum of values up to m is at most m for each element.
LEMMA SumBound ==
  ASSUME NEW S, IsFiniteSet(S), NEW h \in [S -> Nat],
         NEW m \in Nat, \A x \in S : h[x] <= m
  PROVE  SumFunctionOnSet(h, S) <= m * Cardinality(S)
<1>. DEFINE Bad == {t \in SUBSET S :
                      ~(SumFunctionOnSet(h, t) <= m * Cardinality(t))}
<1>1. \A t \in SUBSET S : IsFiniteSet(t) /\ Cardinality(t) \in Nat
  BY FS_Subset, FS_CardinalityType
<1>2. /\ \A t \in SUBSET S : SumFunctionOnSet(h, t) \in Nat
      /\ SumFunctionOnSet(h, {}) = 0
  BY SumNat
<1>3. ASSUME Bad # {} PROVE FALSE
  <2>1. PICK t \in Bad : \A x \in t : t \ {x} \notin Bad
    <3>1. Bad \in SUBSET (SUBSET S)
      OBVIOUS
    <3>. HIDE DEF Bad
    <3>. QED
      BY <1>3, <3>1, LeastSubset
  <2>2. t # {}
    <3>1. 0 <= m * Cardinality({})
      BY FS_EmptySet
    <3>. QED
      BY <1>2, <2>1, <3>1
  <2>3. PICK x \in t : TRUE
    BY <2>2
  <2>4. Cardinality(t) = Cardinality(t \ {x}) + 1
    BY <1>1, <2>1, <2>3, FS_RemoveElement
  <2>5. SumFunctionOnSet(h, t \ {x}) <= m * Cardinality(t \ {x})
    BY <2>1, <2>3
  <2>6. SumFunctionOnSet(h, t) = h[x] + SumFunctionOnSet(h, t \ {x})
    BY <2>1, <2>3, SumRemove
  <2>7. Cardinality(t \ {x}) \in Nat /\ t \ {x} \in SUBSET S /\ x \in S
    BY <1>1, <2>1, <2>3
  <2>8. m * Cardinality(t) = m * Cardinality(t \ {x}) + m
    BY <2>4, <2>7
  <2>9. /\ h[x] \in Nat /\ h[x] <= m
        /\ SumFunctionOnSet(h, t \ {x}) \in Nat
        /\ m * Cardinality(t \ {x}) \in Nat
    BY <1>2, <2>7
  <2>10. SumFunctionOnSet(h, t) <= m * Cardinality(t)
    BY <2>5, <2>6, <2>8, <2>9
  <2>. QED
    BY <2>1, <2>10
<1>. QED
  BY <1>3

\* Renaming the elements of a set does not change the sum over it.
LEMMA SumReindexed ==
  ASSUME NEW S, IsFiniteSet(S), NEW U, IsFiniteSet(U),
         NEW h \in [U -> Nat], NEW k \in [S -> Nat],
         NEW f \in [S -> U], \A x, y \in S : f[x] = f[y] => x = y,
         \A x \in S : k[x] = h[f[x]]
  PROVE  \A T \in SUBSET S :
           SumFunctionOnSet(k, T) = SumFunctionOnSet(h, {f[x] : x \in T})
<1>. DEFINE Image(T) == {f[x] : x \in T}
            Bad == {T \in SUBSET S :
                      SumFunctionOnSet(k, T) # SumFunctionOnSet(h, Image(T))}
<1>1. SUFFICES ASSUME Bad # {} PROVE FALSE
  OBVIOUS
<1>2. PICK t \in Bad : \A x \in t : t \ {x} \notin Bad
  <2>1. Bad \in SUBSET (SUBSET S)
    OBVIOUS
  <2>. HIDE DEF Bad
  <2>. QED
    BY <1>1, <2>1, LeastSubset
<1>3. Image({}) = {}
  OBVIOUS
<1>4. t # {}
  BY <1>2, <1>3, SumNat
<1>5. PICK x \in t : TRUE
  BY <1>4
<1>6. Image(t \ {x}) = Image(t) \ {f[x]}
  BY <1>2, <1>5
<1>7. f[x] \in Image(t) /\ Image(t) \in SUBSET U /\ t \in SUBSET S
  BY <1>2, <1>5
<1>8. SumFunctionOnSet(k, t \ {x}) = SumFunctionOnSet(h, Image(t \ {x}))
  BY <1>2, <1>5
<1>. HIDE DEF Image
<1>9. /\ SumFunctionOnSet(k, t) = k[x] + SumFunctionOnSet(k, t \ {x})
      /\ SumFunctionOnSet(h, Image(t))
           = h[f[x]] + SumFunctionOnSet(h, Image(t) \ {f[x]})
  BY <1>5, <1>7, SumRemove
<1>10. k[x] = h[f[x]]
  BY <1>5, <1>7
<1>. QED
  BY <1>2, <1>6, <1>8, <1>9, <1>10

\* The same for a set V that T is renamed to.
LEMMA SumRenamed ==
  ASSUME NEW S, IsFiniteSet(S), NEW U, IsFiniteSet(U),
         NEW h \in [U -> Nat], NEW k \in [S -> Nat],
         NEW f \in [S -> U], \A x, y \in S : f[x] = f[y] => x = y,
         \A x \in S : k[x] = h[f[x]],
         NEW T \in SUBSET S, NEW V,
         \A x \in T : f[x] \in V, \A y \in V : \E x \in T : f[x] = y
  PROVE  SumFunctionOnSet(k, T) = SumFunctionOnSet(h, V)
<1>1. \A W \in SUBSET S :
         SumFunctionOnSet(k, W) = SumFunctionOnSet(h, {f[x] : x \in W})
  BY SumReindexed
<1>2. V = {f[x] : x \in T}
  OBVIOUS
<1>. QED
  BY <1>1, <1>2, Zenon

-----------------------------------------------------------------------------
(* Sorting: a sequence can be put in the order of any relation R that is   *)
(* total and transitive on its elements.                                   *)

TotalOrder(R, X) ==
  /\ \A x, y \in X : <<x, y>> \in R \/ <<y, x>> \in R
  /\ \A x, y, z \in X : <<x, y>> \in R /\ <<y, z>> \in R => <<x, z>> \in R

\* Of finitely many elements, one comes first.
LEMMA FirstExists ==
  ASSUME NEW S, IsFiniteSet(S), NEW X, NEW s \in [S -> X],
         NEW R, TotalOrder(R, X), NEW T \in SUBSET S, T # {}
  PROVE  \E i \in T : \A j \in T : <<s[i], s[j]>> \in R
<1>. DEFINE First(t) == \E i \in t : \A j \in t : <<s[i], s[j]>> \in R
            Bad == {t \in SUBSET S : t # {} /\ ~First(t)}
<1>1. SUFFICES ASSUME Bad # {} PROVE FALSE
  OBVIOUS
<1>2. PICK t \in Bad : \A x \in t : t \ {x} \notin Bad
  <2>1. Bad \in SUBSET (SUBSET S)
    OBVIOUS
  <2>. HIDE DEF Bad
  <2>. QED
    BY <1>1, <2>1, LeastSubset
<1>3. PICK x \in t : TRUE
  BY <1>2
<1>4. \A y \in t : s[y] \in X
  BY <1>2
<1>5. CASE t \ {x} = {}
  <2>1. \A j \in t : <<s[x], s[j]>> \in R
    BY <1>3, <1>4, <1>5 DEF TotalOrder
  <2>. QED
    BY <1>2, <1>3, <2>1
<1>6. CASE t \ {x} # {}
  <2>1. First(t \ {x})
    BY <1>2, <1>3, <1>6
  <2>2. PICK i \in t \ {x} : \A j \in t \ {x} : <<s[i], s[j]>> \in R
    BY <2>1
  <2>3. CASE <<s[i], s[x]>> \in R
    <3>1. \A j \in t : <<s[i], s[j]>> \in R
      BY <2>2, <2>3
    <3>. QED
      BY <1>2, <2>2, <3>1
  <2>4. CASE <<s[x], s[i]>> \in R
    <3>1. \A j \in t : <<s[x], s[j]>> \in R
      BY <1>3, <1>4, <2>2, <2>4 DEF TotalOrder
    <3>. QED
      BY <1>2, <1>3, <3>1
  <2>. QED
    BY <1>3, <1>4, <2>2, <2>3, <2>4 DEF TotalOrder
<1>. QED
  BY <1>5, <1>6

\* Exchanging two values of a permutation gives a permutation.
LEMMA SwapFacts ==
  ASSUME NEW S, NEW p \in Bijection(S, S), NEW a \in S, NEW b \in S
  PROVE  LET q == [i \in S |-> IF i = a THEN p[b] ELSE IF i = b THEN p[a] ELSE p[i]]
         IN q \in Bijection(S, S)
<1>. DEFINE q == [i \in S |-> IF i = a THEN p[b] ELSE IF i = b THEN p[a] ELSE p[i]]
<1>1. /\ p \in [S -> S] /\ \A i, j \in S : p[i] = p[j] => i = j
      /\ \A y \in S : \E i \in S : p[i] = y
  BY DEF Bijection, Injection, Surjection, IsInjective
<1>2. q \in [S -> S]
  BY <1>1
<1>3. \A i, j \in S : q[i] = q[j] => i = j
  BY <1>1
<1>4. ASSUME NEW y \in S PROVE \E i \in S : q[i] = y
  <2>1. PICK i \in S : p[i] = y
    BY <1>1
  <2>2. q[a] = p[b] /\ q[b] = p[a] /\ (i # a /\ i # b => q[i] = p[i])
    OBVIOUS
  <2>. HIDE DEF q
  <2>. QED
    BY <2>1, <2>2
<1>. HIDE DEF q
<1>5. q \in Bijection(S, S)
  BY <1>2, <1>3, <1>4 DEF Bijection, Injection, Surjection, IsInjective
<1>. QED
  BY <1>5 DEF q

\* A sequence can be sorted: by selection, one element after the other.
LEMMA SortExists ==
  ASSUME NEW n \in Nat, NEW X, NEW s \in [1 .. n -> X],
         NEW R, TotalOrder(R, X)
  PROVE  \E p \in Bijection(1 .. n, 1 .. n) :
           \A i, j \in 1 .. n : i < j => <<s[p[i]], s[p[j]]>> \in R
<1>. DEFINE Sorts(p, k) == \A i, j \in 1 .. n :
                              i <= k /\ i < j => <<s[p[i]], s[p[j]]>> \in R
            Sortable(k) == \E p \in Bijection(1 .. n, 1 .. n) : Sorts(p, k)
            Bad == {k \in 0 .. n : ~Sortable(k)}
<1>1. Sortable(0)
  <2>. DEFINE id == [i \in 1 .. n |-> i]
  <2>1. id \in Bijection(1 .. n, 1 .. n)
    BY DEF Bijection, Injection, Surjection, IsInjective
  <2>2. Sorts(id, 0)
    OBVIOUS
  <2>. QED
    BY <2>1, <2>2
<1>2. ASSUME NEW k \in 0 .. n - 1, Sortable(k) PROVE Sortable(k + 1)
  <2>1. PICK p \in Bijection(1 .. n, 1 .. n) : Sorts(p, k)
    BY <1>2
  <2>2. p \in [1 .. n -> 1 .. n]
    BY DEF Bijection, Injection
  <2>. DEFINE e == [i \in 1 .. n |-> s[p[i]]]
              T == k + 1 .. n
  <2>3. e \in [1 .. n -> X] /\ T \in SUBSET (1 .. n) /\ T # {}
    <3>1. e \in [1 .. n -> X]
      BY <2>2
    <3>2. k + 1 \in T /\ \A i \in T : i \in 1 .. n
      OBVIOUS
    <3>. QED
      BY <3>1, <3>2
  <2>4. IsFiniteSet(1 .. n)
    BY FS_Interval
  <2>5. PICK m \in T : \A j \in T : <<e[m], e[j]>> \in R
    <3>. DEFINE D == 1 .. n
    <3>1. IsFiniteSet(D) /\ e \in [D -> X] /\ T \in SUBSET D /\ T # {}
      BY <2>3, <2>4
    <3>. HIDE DEF e, T, D
    <3>. QED
      BY <3>1, FirstExists
  <2>. DEFINE q == [i \in 1 .. n |-> IF i = k + 1 THEN p[m]
                                    ELSE IF i = m THEN p[k + 1] ELSE p[i]]
  <2>6. q \in Bijection(1 .. n, 1 .. n)
    <3>1. k + 1 \in 1 .. n /\ m \in 1 .. n
      OBVIOUS
    <3>. QED
      BY <3>1, SwapFacts
  <2>7. Sorts(q, k + 1)
    <3>1. SUFFICES ASSUME NEW i \in 1 .. n, NEW j \in 1 .. n, i <= k + 1, i < j
                   PROVE  <<s[q[i]], s[q[j]]>> \in R
      OBVIOUS
    <3>2. k \in Nat /\ m \in 1 .. n /\ m >= k + 1 /\ k + 1 \in 1 .. n
      OBVIOUS
    <3>4. CASE i <= k
      <4>1. q[i] = p[i]
        BY <3>2, <3>4
      <4>2. PICK o \in 1 .. n : q[j] = p[o] /\ i < o
        BY <3>1, <3>2, <3>4
      <4>. HIDE DEF q
      <4>. QED
        BY <2>1, <3>4, <4>1, <4>2
    <3>5. CASE i = k + 1
      <4>1. q[i] = p[m]
        BY <3>2, <3>5
      <4>2. PICK o \in T : q[j] = p[o]
        BY <3>1, <3>2, <3>5
      <4>3. e[m] = s[p[m]] /\ e[o] = s[p[o]]
        BY <3>2
      <4>. HIDE DEF q, e
      <4>. QED
        BY <2>5, <4>1, <4>2, <4>3
    <3>. QED
      BY <3>1, <3>2, <3>4, <3>5
  <2>. QED
    BY <2>6, <2>7
<1>3. Bad = {}
  <2>1. SUFFICES ASSUME Bad # {} PROVE FALSE
    OBVIOUS
  <2>. HIDE DEF Sortable
  <2>2. PICK k \in Bad : \A m \in Bad : k <= m
    <3>1. Bad \in SUBSET Nat
      OBVIOUS
    <3>. HIDE DEF Bad
    <3>. QED
      BY <2>1, <3>1, LeastNat
  <2>3. k # 0 /\ k - 1 \in 0 .. n - 1 /\ k - 1 \notin Bad
    BY <1>1, <2>2
  <2>. QED
    BY <1>2, <2>2, <2>3
<1>4. Sortable(n)
  <2>. HIDE DEF Sortable
  <2>. QED
    BY <1>3
<1>5. PICK p \in Bijection(1 .. n, 1 .. n) : Sorts(p, n)
  BY <1>4
<1>. QED
  BY <1>5
=============================================================================
