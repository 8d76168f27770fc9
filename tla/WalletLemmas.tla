----------------------------- MODULE WalletLemmas -----------------------------
(***************************************************************************)
(* Facts the proofs about the books of every component share: how a sum    *)
(* over rows changes when one of its terms does, and what a transaction on *)
(* a wallet keeps.                                                         *)
(*                                                                         *)
(* SumOver is a recursive function on the subsets of a set.  Induction     *)
(* over it is the existence of a minimal element in a set of finite sets   *)
(* (WFMin), so that no induction principle over a predicate is needed.     *)
(***************************************************************************)
EXTENDS PlatformWallet, Sums, FiniteSetTheorems, WellFoundedInduction, TLAPS

\* The element the recursion takes out of s.
Choice(s) == CHOOSE x \in s : TRUE

\* g sums f over each subset of S.
Sums(g, f, S) ==
    g = [s \in SUBSET S |-> IF s = {} THEN 0 ELSE f[Choice(s)] + g[s \ {Choice(s)}]]

-----------------------------------------------------------------------------
\* A nonempty set of subsets of a finite set has a minimal element.
LEMMA MinimalSubset ==
    ASSUME NEW S, IsFiniteSet(S), NEW B \in SUBSET SUBSET S, B # {}
    PROVE  \E T \in B : \A U \in B : U \subseteq T => U = T
<1>1. IsWellFoundedOn(StrictSubsetOrdering(S), SUBSET S)
  BY FS_StrictSubsetOrderingWellFounded, FS_FiniteSubsetsOfFinite
<1>2. PICK T \in B : \A U \in B : <<U, T>> \notin StrictSubsetOrdering(S)
  BY <1>1, WFMin, Zenon
<1> QED
  BY <1>2 DEF StrictSubsetOrdering

\* The sum, as the fold of the community modules defines it.
LEMMA SumOverIsIter ==
    ASSUME NEW f, NEW S
    PROVE SumOver(f, S) = (CHOOSE g : Sums(g, f, S))[S]
BY Zenon DEF SumOver, MapThenSumSet, MapThenFoldSet, Sums, Choice

\* The element taken is one of the set.
LEMMA ChoiceIn ==
    ASSUME NEW s, s # {}
    PROVE  Choice(s) \in s
BY DEF Choice

\* The recursion, unfolded once.
LEMMA SumsAt ==
    ASSUME NEW g, NEW f, NEW S, Sums(g, f, S), NEW s \in SUBSET S
    PROVE  g[s] = IF s = {} THEN 0 ELSE f[Choice(s)] + g[s \ {Choice(s)}]
BY DEF Sums

\* Two functions that sum over the subsets of S and of a part of it agree.
LEMMA SumsUnique ==
    ASSUME NEW S, IsFiniteSet(S), NEW f, NEW g, NEW h, NEW U \in SUBSET S,
           Sums(g, f, S), Sums(h, f, U)
    PROVE  \A s \in SUBSET U : g[s] = h[s]
<1> DEFINE B == {s \in SUBSET U : g[s] # h[s]}
<1> SUFFICES ASSUME B # {} PROVE FALSE
  OBVIOUS
<1>1. IsFiniteSet(U)
  BY FS_Subset
<1>2. PICK T \in B : \A V \in B : V \subseteq T => V = T
  <2> HIDE DEF B
  <2>1. B \in SUBSET SUBSET U
    BY DEF B
  <2> QED
    BY <1>1, <2>1, MinimalSubset
<1>3. T \in SUBSET S /\ T \in SUBSET U /\ T # {}
  BY SumsAt
<1>4. Choice(T) \in T
  BY <1>3, ChoiceIn
<1>5. T \ {Choice(T)} \notin B
  BY <1>2, <1>4
<1>6. g[T \ {Choice(T)}] = h[T \ {Choice(T)}]
  BY <1>3, <1>5
<1> HIDE DEF B
<1>7. \A s \in SUBSET S :
        g[s] = IF s = {} THEN 0 ELSE f[Choice(s)] + g[s \ {Choice(s)}]
  BY SumsAt, Zenon
<1>8. \A s \in SUBSET U :
        h[s] = IF s = {} THEN 0 ELSE f[Choice(s)] + h[s \ {Choice(s)}]
  BY SumsAt, Zenon
<1>9. g[T] = h[T]
  BY <1>3, <1>6, <1>7, <1>8
<1> QED
  BY <1>2, <1>9 DEF B

\* Over a finite set there is one.
LEMMA SumsExists ==
    ASSUME NEW S, IsFiniteSet(S), NEW f
    PROVE  \E g : Sums(g, f, S)
<1> DEFINE B == {s \in SUBSET S : ~ \E g : Sums(g, f, s)}
<1> SUFFICES ASSUME B # {} PROVE FALSE
  OBVIOUS
<1>1. PICK T \in B : \A V \in B : V \subseteq T => V = T
  <2> HIDE DEF B
  <2>1. B \in SUBSET SUBSET S
    BY DEF B
  <2> QED
    BY <2>1, MinimalSubset
<1>2. IsFiniteSet(T) /\ T \in SUBSET S
  BY FS_Subset
<1>3. \A s \in SUBSET T : s # T => \E g : Sums(g, f, s)
  BY <1>1, <1>2
<1>4. ASSUME NEW s \in SUBSET T, s # T
      PROVE  SumOver(f, s) = IF s = {} THEN 0 ELSE f[Choice(s)] + SumOver(f, s \ {Choice(s)})
  <2> DEFINE h == CHOOSE g : Sums(g, f, s)
             k == CHOOSE g : Sums(g, f, s \ {Choice(s)})
  <2>1. Sums(h, f, s)
    BY <1>3, <1>4
  <2>2. SumOver(f, s) = h[s]
    BY SumOverIsIter, Zenon
  <2>3. h[s] = IF s = {} THEN 0 ELSE f[Choice(s)] + h[s \ {Choice(s)}]
    BY <2>1, SumsAt
  <2>4. CASE s # {}
    <3>1. s \ {Choice(s)} \in SUBSET T /\ s \ {Choice(s)} # T /\ s \ {Choice(s)} \in SUBSET s
      BY <2>4, <1>4, ChoiceIn
    <3>2. Sums(k, f, s \ {Choice(s)})
      BY <3>1, <1>3
    <3>3. IsFiniteSet(s)
      BY <1>2, FS_Subset
    <3>4. h[s \ {Choice(s)}] = k[s \ {Choice(s)}]
      <4> HIDE DEF h, k
      <4> QED BY <2>1, <3>1, <3>2, <3>3, SumsUnique
    <3>5. SumOver(f, s \ {Choice(s)}) = k[s \ {Choice(s)}]
      BY SumOverIsIter, Zenon
    <3> HIDE DEF h, k
    <3> QED
      BY <2>2, <2>3, <2>4, <3>4, <3>5
  <2> HIDE DEF h, k
  <2> QED
    BY <2>2, <2>3, <2>4
<1> DEFINE c == Choice(T)
           g == [s \in SUBSET T |->
                   IF s = T /\ T # {} THEN f[c] + SumOver(f, T \ {c})
                   ELSE IF s = {} THEN 0 ELSE SumOver(f, s)]
<1>5. SumOver(f, {}) = 0 \/ T = {}
  BY <1>4
<1>6. ASSUME NEW s \in SUBSET T
      PROVE  g[s] = IF s = {} THEN 0 ELSE f[Choice(s)] + g[s \ {Choice(s)}]
  <2>1. CASE s = {}
    BY <2>1
  <2>2. CASE s # {}
    <3>1. Choice(s) \in s
      BY <2>2, ChoiceIn
    <3>2. s \ {Choice(s)} \in SUBSET T /\ s \ {Choice(s)} # T
      BY <3>1
    <3>3. g[s \ {Choice(s)}] = SumOver(f, s \ {Choice(s)})
      BY <3>2, <2>2, <1>5
    <3>4. g[s] = f[Choice(s)] + SumOver(f, s \ {Choice(s)})
      BY <2>2, <1>4
    <3> QED
      BY <2>2, <3>3, <3>4
  <2> QED
    BY <2>1, <2>2
<1>7. Sums(g, f, T)
  <2>1. g = [s \in SUBSET T |-> g[s]]
    OBVIOUS
  <2> HIDE DEF g
  <2> QED
    BY <2>1, <1>6 DEF Sums
<1> QED
  BY <1>7

\* The sum, unfolded at the element the recursion takes.
LEMMA SumOverChoice ==
    ASSUME NEW S, IsFiniteSet(S), NEW f
    PROVE  SumOver(f, S) = IF S = {} THEN 0 ELSE f[Choice(S)] + SumOver(f, S \ {Choice(S)})
<1> DEFINE h == CHOOSE g : Sums(g, f, S)
           k == CHOOSE g : Sums(g, f, S \ {Choice(S)})
<1>1. Sums(h, f, S)
  BY SumsExists
<1>2. IsFiniteSet(S \ {Choice(S)}) /\ S \ {Choice(S)} \in SUBSET S
  BY FS_Subset
<1>3. Sums(k, f, S \ {Choice(S)})
  BY <1>2, SumsExists
<1>4. SumOver(f, S) = h[S]
  BY SumOverIsIter, Zenon
<1>5. SumOver(f, S \ {Choice(S)}) = k[S \ {Choice(S)}]
  BY SumOverIsIter, Zenon
<1> HIDE DEF h, k
<1>6. h[S \ {Choice(S)}] = k[S \ {Choice(S)}]
  BY <1>1, <1>2, <1>3, SumsUnique
<1>7. h[S] = IF S = {} THEN 0 ELSE f[Choice(S)] + h[S \ {Choice(S)}]
  BY <1>1, SumsAt
<1> QED
  BY <1>4, <1>5, <1>6, <1>7


\* The sum over nothing.
LEMMA SumOverEmpty == ASSUME NEW f PROVE SumOver(f, {}) = 0
BY SumOverChoice, FS_EmptySet

\* A sum of integers is an integer.
LEMMA SumOverType ==
    ASSUME NEW S, IsFiniteSet(S), NEW f, \A x \in S : f[x] \in Int
    PROVE  SumOver(f, S) \in Int
<1> DEFINE B == {s \in SUBSET S : SumOver(f, s) \notin Int}
<1> SUFFICES ASSUME B # {} PROVE FALSE
  OBVIOUS
<1>1. PICK T \in B : \A V \in B : V \subseteq T => V = T
  <2> HIDE DEF B
  <2>1. B \in SUBSET SUBSET S
    BY DEF B
  <2> QED
    BY <2>1, MinimalSubset
<1>2. IsFiniteSet(T) /\ T \in SUBSET S
  BY FS_Subset
<1>3. T # {}
  BY SumOverEmpty
<1>4. Choice(T) \in T
  BY <1>3, ChoiceIn
<1>5. SumOver(f, T \ {Choice(T)}) \in Int
  BY <1>1, <1>2, <1>4
<1>6. SumOver(f, T) = f[Choice(T)] + SumOver(f, T \ {Choice(T)})
  BY <1>2, <1>3, SumOverChoice
<1> QED
  BY <1>2, <1>4, <1>5, <1>6

\* A term of the sum may be taken out first, whichever it is.
LEMMA SumOverElement ==
    ASSUME NEW S, IsFiniteSet(S), NEW f, \A y \in S : f[y] \in Int, NEW x \in S
    PROVE  SumOver(f, S) = f[x] + SumOver(f, S \ {x})
<1> DEFINE B == {s \in SUBSET S : \E y \in s : SumOver(f, s) # f[y] + SumOver(f, s \ {y})}
<1> SUFFICES ASSUME B # {} PROVE FALSE
  OBVIOUS
<1>1. PICK T \in B : \A V \in B : V \subseteq T => V = T
  <2> HIDE DEF B
  <2>1. B \in SUBSET SUBSET S
    BY DEF B
  <2> QED
    BY <2>1, MinimalSubset
<1>2. IsFiniteSet(T) /\ T \in SUBSET S
  BY FS_Subset
<1>3. PICK y \in T : SumOver(f, T) # f[y] + SumOver(f, T \ {y})
  OBVIOUS
<1> DEFINE c == Choice(T)
<1>4. c \in T
  BY ChoiceIn
<1>5. SumOver(f, T) = f[c] + SumOver(f, T \ {c})
  BY <1>2, <1>4, SumOverChoice
<1> HIDE DEF c
<1>6. c # y
  BY <1>3, <1>5
<1>7. T \ {c} \notin B /\ T \ {y} \notin B
  BY <1>1, <1>4
<1>8. T \ {c} \in SUBSET S /\ T \ {y} \in SUBSET S /\ y \in T \ {c} /\ c \in T \ {y}
  BY <1>2, <1>4, <1>6
<1>9. SumOver(f, T \ {c}) = f[y] + SumOver(f, (T \ {c}) \ {y})
  BY <1>7, <1>8
<1>10. SumOver(f, T \ {y}) = f[c] + SumOver(f, (T \ {y}) \ {c})
  BY <1>7, <1>8
<1>11. (T \ {c}) \ {y} = (T \ {y}) \ {c}
  OBVIOUS
<1>12. IsFiniteSet((T \ {c}) \ {y}) /\ \A z \in (T \ {c}) \ {y} : f[z] \in Int
  BY <1>2, FS_Subset
<1>13. SumOver(f, (T \ {c}) \ {y}) \in Int
  BY <1>12, SumOverType
<1>14. f[c] \in Int /\ f[y] \in Int
  BY <1>2, <1>4
<1>15. \A a, b, d \in Int : a + (b + d) = b + (a + d)
  OBVIOUS
<1> HIDE DEF B
<1>16. SumOver(f, T) = f[y] + (f[c] + SumOver(f, (T \ {c}) \ {y}))
  BY <1>5, <1>9, <1>13, <1>14, <1>15
<1> QED
  BY <1>3, <1>10, <1>11, <1>16

\* Terms that agree have the same sum.
LEMMA SumOverSame ==
    ASSUME NEW S, IsFiniteSet(S), NEW f, NEW g, \A x \in S : f[x] = g[x]
    PROVE  SumOver(f, S) = SumOver(g, S)
<1> DEFINE B == {s \in SUBSET S : SumOver(f, s) # SumOver(g, s)}
<1> SUFFICES ASSUME B # {} PROVE FALSE
  OBVIOUS
<1>1. PICK T \in B : \A V \in B : V \subseteq T => V = T
  <2> HIDE DEF B
  <2>1. B \in SUBSET SUBSET S
    BY DEF B
  <2> QED
    BY <2>1, MinimalSubset
<1>2. IsFiniteSet(T) /\ T \in SUBSET S
  BY FS_Subset
<1>3. T # {}
  <2> SumOver(f, {}) = 0 /\ SumOver(g, {}) = 0
    BY SumOverEmpty
  <2> QED
    OBVIOUS
<1>4. Choice(T) \in T
  BY <1>3, ChoiceIn
<1>5. SumOver(f, T \ {Choice(T)}) = SumOver(g, T \ {Choice(T)})
  BY <1>1, <1>2, <1>4
<1>6. /\ SumOver(f, T) = f[Choice(T)] + SumOver(f, T \ {Choice(T)})
      /\ SumOver(g, T) = g[Choice(T)] + SumOver(g, T \ {Choice(T)})
  BY <1>2, <1>3, SumOverChoice
<1> QED
  BY <1>2, <1>4, <1>5, <1>6

\* Nothing adds up to nothing.
LEMMA SumOverZero ==
    ASSUME NEW S, IsFiniteSet(S), NEW f, \A x \in S : f[x] = 0
    PROVE  SumOver(f, S) = 0
<1> DEFINE B == {s \in SUBSET S : SumOver(f, s) # 0}
<1> SUFFICES ASSUME B # {} PROVE FALSE
  OBVIOUS
<1>1. PICK T \in B : \A V \in B : V \subseteq T => V = T
  <2> HIDE DEF B
  <2>1. B \in SUBSET SUBSET S
    BY DEF B
  <2> QED
    BY <2>1, MinimalSubset
<1>2. IsFiniteSet(T) /\ T \in SUBSET S
  BY FS_Subset
<1>3. T # {}
  BY SumOverEmpty
<1>4. Choice(T) \in T
  BY <1>3, ChoiceIn
<1>5. SumOver(f, T \ {Choice(T)}) = 0
  BY <1>1, <1>2, <1>4
<1>6. SumOver(f, T) = f[Choice(T)] + SumOver(f, T \ {Choice(T)})
  BY <1>2, <1>3, SumOverChoice
<1> QED
  BY <1>2, <1>4, <1>5, <1>6

\* g is f but for one term.
DifferAt(f, g, S, x) ==
    /\ IsFiniteSet(S) /\ x \in S /\ g[x] \in Int
    /\ \A y \in S : f[y] \in Int /\ (y = x \/ g[y] = f[y])

\* When one term changes, the sum changes by as much.
LEMMA SumOverChange ==
    ASSUME NEW S, NEW f, NEW g, NEW x, DifferAt(f, g, S, x)
    PROVE  SumOver(f, S) \in Int /\ SumOver(g, S) = SumOver(f, S) + (g[x] - f[x])
<1> USE DEF DifferAt
<1> \A y \in S \ {x} : g[y] = f[y]
  OBVIOUS
<1>1. IsFiniteSet(S \ {x})
  BY FS_Subset
<1>2. \A y \in S : g[y] \in Int
  OBVIOUS
<1>3. SumOver(f, S \ {x}) = SumOver(g, S \ {x})
  BY <1>1, SumOverSame
<1>4. SumOver(f, S) = f[x] + SumOver(f, S \ {x})
  BY SumOverElement
<1>5. SumOver(g, S) = g[x] + SumOver(g, S \ {x})
  BY <1>2, SumOverElement
<1>6. SumOver(f, S) \in Int /\ SumOver(f, S \ {x}) \in Int
  BY <1>1, SumOverType
<1> QED
  BY <1>3, <1>4, <1>5, <1>6


\* The same of the sums over a part of the terms.
LEMMA SumOverMoves ==
    ASSUME NEW T, NEW S \in SUBSET T, NEW f, NEW g, NEW x, DifferAt(f, g, T, x)
    PROVE  /\ SumOver(f, S) \in Int
           /\ SumOver(g, S) = IF x \in S THEN SumOver(f, S) + (g[x] - f[x]) ELSE SumOver(f, S)
<1>1. IsFiniteSet(S) /\ \A y \in S : f[y] \in Int
  BY FS_Subset DEF DifferAt
<1>2. SumOver(f, S) \in Int
  BY <1>1, SumOverType
<1>3. CASE x \in S
  <2>1. DifferAt(f, g, S, x)
    BY <1>1, <1>3 DEF DifferAt
  <2> QED
    BY <1>3, <2>1, SumOverChange
<1>4. CASE x \notin S
  <2>1. \A y \in S : f[y] = g[y]
    BY <1>4 DEF DifferAt
  <2>2. SumOver(f, S) = SumOver(g, S)
    BY <1>1, <2>1, SumOverSame
  <2> QED
    BY <1>2, <1>4, <2>2
<1> QED
  BY <1>3, <1>4

\* A sum of natural numbers is at least each of them.
LEMMA SumOverNat ==
    ASSUME NEW S, IsFiniteSet(S), NEW f, \A x \in S : f[x] \in Nat
    PROVE  SumOver(f, S) \in Nat /\ \A x \in S : f[x] <= SumOver(f, S)
<1> DEFINE B == {s \in SUBSET S : SumOver(f, s) \notin Nat}
<1>1. ASSUME B # {} PROVE FALSE
  <2>1. PICK T \in B : \A V \in B : V \subseteq T => V = T
    <3> HIDE DEF B
    <3>1. B \in SUBSET SUBSET S
      BY DEF B
    <3> QED
      BY <1>1, <3>1, MinimalSubset
  <2>2. IsFiniteSet(T) /\ T \in SUBSET S
    BY FS_Subset
  <2>3. T # {}
    BY SumOverEmpty
  <2>4. Choice(T) \in T
    BY <2>3, ChoiceIn
  <2>5. SumOver(f, T \ {Choice(T)}) \in Nat
    BY <2>1, <2>2, <2>4
  <2>6. SumOver(f, T) = f[Choice(T)] + SumOver(f, T \ {Choice(T)})
    BY <2>2, <2>3, SumOverChoice
  <2> QED
    BY <2>2, <2>4, <2>5, <2>6
<1>2. \A s \in SUBSET S : SumOver(f, s) \in Nat
  BY <1>1
<1> HIDE DEF B
<1>3. ASSUME NEW x \in S PROVE f[x] <= SumOver(f, S)
  <2>1. SumOver(f, S) = f[x] + SumOver(f, S \ {x})
    BY SumOverElement
  <2>2. SumOver(f, S \ {x}) \in Nat
    BY <1>2
  <2> QED
    BY <2>1, <2>2
<1> QED
  BY <1>2, <1>3

-----------------------------------------------------------------------------
\* A wallet no write of which was stale is what its rows say.
RowsExplain(u) == ~stale[u] => available[u] = Opening[u] + rowSum[u]

\* A transaction adds its amount to the rows of one wallet, and to its balance
\* unless the snapshot it worked from was stale.
LEMMA PostExplained ==
    ASSUME WalletTypeOK, \A v \in Users : RowsExplain(v),
           NEW u \in Users, NEW seen \in Nat, NEW amount \in Int, NEW intact,
           intact => seen = available[u],
           AssignAndPost(u, seen, amount, intact)
    PROVE  /\ \A v \in Users : RowsExplain(v)'
           /\ rowSum'[u] = rowSum[u] + amount
           /\ \A v \in Users \ {u} : rowSum'[v] = rowSum[v]
<1>1. /\ available'[u] = seen + amount /\ rowSum'[u] = rowSum[u] + amount
      /\ stale'[u] = (stale[u] \/ ~intact)
  BY DEF AssignAndPost, WalletTypeOK
<1>2. \A v \in Users \ {u} :
        available'[v] = available[v] /\ rowSum'[v] = rowSum[v] /\ stale'[v] = stale[v]
  BY DEF AssignAndPost, WalletTypeOK
<1>3. RowsExplain(u)'
  <2>1. Opening[u] \in Nat /\ rowSum[u] \in Int
    BY OpeningAssumption DEF WalletTypeOK
  <2>2. \A a, b, c \in Int : (a + b) + c = a + (b + c)
    OBVIOUS
  <2>3. ~stale'[u] => ~stale[u] /\ seen = available[u]
    BY <1>1
  <2> QED
    BY <1>1, <2>1, <2>2, <2>3 DEF RowsExplain
<1>4. ASSUME NEW v \in Users \ {u} PROVE RowsExplain(v)'
  BY <1>2 DEF RowsExplain
<1> QED
  BY <1>1, <1>2, <1>3, <1>4

=============================================================================
