------------------------------- MODULE ListLemmas -------------------------------
(***************************************************************************)
(* Lemmas that several parts of the model need: a least number, a first    *)
(* element, and what a list is of which some elements are chosen.  What a  *)
(* recursive function computes is proved with a least counterexample: see  *)
(* LeastOfNat.                                                             *)
(***************************************************************************)
EXTENDS Subsequences, FiniteSetTheorems, WellFoundedInduction, TLAPS

(* Every non-empty set of natural numbers has a least one.  The library's  *)
(* induction theorems are about operators; that the subsets of a set are   *)
(* well founded is not, and the initial segments of Nat are such sets.     *)
LEMMA LeastOfNat ==
  ASSUME NEW T, T \subseteq Nat, T # {}
  PROVE  \E n \in T : \A m \in T : n <= m
<1> DEFINE UpTo(n) == 1 .. n
           U == {UpTo(n) : n \in T}
           R == StrictSubsetOrdering(Nat)
<1>1. IsWellFoundedOn(R, FiniteSubsetsOf(Nat))
  BY FS_StrictSubsetOrderingWellFounded
<1>2. U \subseteq FiniteSubsetsOf(Nat) /\ U # {}
  <2>1. \A n \in Nat : IsFiniteSet(1 .. n)
    BY FS_Interval
  <2>2. \A n \in T : 1 .. n \in FiniteSubsetsOf(Nat)
    BY <2>1 DEF FiniteSubsetsOf
  <2> QED BY <2>2
<1>3. \E x \in U : \A y \in U : <<y, x>> \notin R
  <2> HIDE DEF R, U
  <2> QED BY <1>1, <1>2, WFMin
<1>4. PICK n \in T : \A y \in U : <<y, UpTo(n)>> \notin R
  BY <1>3
<1>5. ASSUME NEW m \in T, m < n PROVE FALSE
  <2>1. <<1 .. m, 1 .. n>> \notin R
    BY <1>4
  <2>2. 1 .. m \subseteq 1 .. n /\ n \in 1 .. n /\ n \notin 1 .. m
    BY <1>5
  <2> QED BY <2>1, <2>2 DEF StrictSubsetOrdering
<1> QED BY <1>5

(* A finite set that an order arranges in a row has a first element.       *)
LEMMA FirstInOrder ==
  ASSUME NEW S, IsFiniteSet(S), S # {}, NEW R,
         \A x, y \in S : x # y => <<x, y>> \in R \/ <<y, x>> \in R,
         \A x, y, z \in S : <<x, y>> \in R /\ <<y, z>> \in R => <<x, z>> \in R
  PROVE  \E x \in S : \A y \in S \ {x} : <<x, y>> \in R
<1> DEFINE HasFirst(T) == \E x \in T : \A y \in T \ {x} : <<x, y>> \in R
           U == {T \in SUBSET S : T # {} /\ ~HasFirst(T)}
           Less == StrictSubsetOrdering(S)
<1>1. SUFFICES ASSUME ~HasFirst(S) PROVE FALSE
  OBVIOUS
<1>2. U \subseteq FiniteSubsetsOf(S) /\ S \in U
  BY <1>1, FS_Subset DEF FiniteSubsetsOf
<1>3. PICK T \in U : \A X \in U : <<X, T>> \notin Less
  <2>1. IsWellFoundedOn(Less, FiniteSubsetsOf(S))
    BY FS_StrictSubsetOrderingWellFounded
  <2>2. U # {}
    BY <1>2
  <2> HIDE DEF Less, U
  <2> QED BY <1>2, <2>1, <2>2, WFMin
<1>4. PICK x \in T : TRUE
  OBVIOUS
<1>5. T \ {x} \notin U
  <2>1. <<T \ {x}, T>> \in Less
    BY <1>4 DEF StrictSubsetOrdering
  <2> HIDE DEF U, Less
  <2> QED BY <1>3, <2>1
<1>6. CASE T \ {x} = {}
  BY <1>4, <1>6
<1>7. CASE T \ {x} # {}
  <2>1. PICK first \in T \ {x} : \A y \in (T \ {x}) \ {first} : <<first, y>> \in R
    BY <1>5, <1>7
  <2>2. CASE <<first, x>> \in R
    BY <2>1, <2>2
  <2>3. CASE <<x, first>> \in R
    <3>1. \A y \in T \ {x} : <<x, y>> \in R
      BY <1>4, <2>1, <2>3
    <3> QED BY <1>4, <3>1
  <2> QED BY <1>4, <2>1, <2>2, <2>3
<1> QED BY <1>6, <1>7

\* What is computed step by step, from first on.
Iterates(f, X, first, step, N) ==
  f \in [0 .. N -> X] /\ f[0] = first /\ \A n \in 1 .. N : f[n] = step[<<n, f[n - 1]>>]

(* There is such a computation: what a recursive function stands for.      *)
LEMMA Iteration ==
  ASSUME NEW X, NEW first \in X, NEW N \in Nat, NEW step \in [(1 .. N) \X X -> X]
  PROVE  \E f : Iterates(f, X, first, step, N)
<1> DEFINE Reaches(m, f) == /\ f \in [0 .. m -> X] /\ f[0] = first
                            /\ \A n \in 1 .. m : f[n] = step[<<n, f[n - 1]>>]
           Fails == {m \in 0 .. N : ~ \E f : Reaches(m, f)}
<1>1. ASSUME Fails # {} PROVE FALSE
  <2>1. PICK m \in Fails : \A k \in Fails : m <= k
    <3>1. Fails \subseteq Nat
      OBVIOUS
    <3> HIDE DEF Fails
    <3> QED BY <1>1, <3>1, LeastOfNat
  <2>2. CASE m = 0
    <3>1. Reaches(0, [n \in 0 .. 0 |-> first])
      OBVIOUS
    <3> HIDE DEF Reaches
    <3> QED BY <2>1, <2>2, <3>1
  <2>3. CASE m # 0
    <3>1. m - 1 \in 0 .. N /\ ~(m <= m - 1) /\ m \in 1 .. N
      BY <2>1, <2>3
    <3>2. PICK f : Reaches(m - 1, f)
      <4> HIDE DEF Reaches
      <4> QED BY <2>1, <3>1
    <3>3. m - 1 \in 0 .. m - 1 /\ f[m - 1] \in X /\ step[<<m, f[m - 1]>>] \in X
      BY <3>1, <3>2
    <3> DEFINE g == [n \in 0 .. m |-> IF n = m THEN step[<<m, f[m - 1]>>] ELSE f[n]]
    <3>4. g[m] = step[<<m, f[m - 1]>>] /\ \A n \in 0 .. m - 1 : g[n] = f[n]
      BY <3>1
    <3>5. g \in [0 .. m -> X]
      BY <3>1, <3>2, <3>3
    <3>6. \A n \in 1 .. m : n - 1 \in 0 .. m - 1 /\ (n = m \/ n \in 1 .. m - 1)
      BY <3>1
    <3>7. 0 \in 0 .. m - 1 /\ \A n \in 1 .. m - 1 : n \in 0 .. m - 1
      BY <3>1
    <3>8. Reaches(m, g)
      <4> HIDE DEF g
      <4> QED BY <3>2, <3>4, <3>5, <3>6, <3>7
    <3> HIDE DEF Reaches, g
    <3> QED BY <2>1, <3>8
  <2> QED BY <2>2, <2>3
<1>2. PICK f : Reaches(N, f)
  <2> HIDE DEF Reaches
  <2>1. N \in 0 .. N
    OBVIOUS
  <2> QED BY <1>1, <2>1
<1> QED BY <1>2 DEF Iterates

-----------------------------------------------------------------------------
\* f tells what is chosen of the first n elements, for each n.
Chooses(f, s, K, N) ==
  f = [n \in 0 .. N |->
         IF n = 0 THEN <<>>
         ELSE IF n \in K THEN Append(f[n - 1], s[n]) ELSE f[n - 1]]

(* The function that Chosen is defined by is there.                        *)
LEMMA ChoosingExists ==
  ASSUME NEW S, NEW s \in Seq(S), NEW K, NEW N \in Nat, N = Len(s)
  PROVE  \E f : Chooses(f, s, K, N)
<1> DEFINE step == [p \in (1 .. N) \X Seq(S) |->
                      IF p[1] \in K THEN Append(p[2], s[p[1]]) ELSE p[2]]
<1>1. step \in [(1 .. N) \X Seq(S) -> Seq(S)] /\ <<>> \in Seq(S)
  OBVIOUS
<1>2. \A n \in 1 .. N, c \in Seq(S) :
        step[<<n, c>>] = IF n \in K THEN Append(c, s[n]) ELSE c
  OBVIOUS
<1> HIDE DEF step
<1>3. PICK f : Iterates(f, Seq(S), <<>>, step, N)
  BY <1>1, Iteration
<1>4. ASSUME NEW n \in 0 .. N
      PROVE  f[n] = IF n = 0 THEN <<>>
                    ELSE IF n \in K THEN Append(f[n - 1], s[n]) ELSE f[n - 1]
  <2>1. CASE n = 0
    BY <1>3, <2>1 DEF Iterates
  <2>2. CASE n # 0
    <3>1. n \in 1 .. N /\ n - 1 \in 0 .. N
      BY <2>2
    <3> QED BY <1>2, <1>3, <2>2, <3>1 DEF Iterates
  <2> QED BY <2>1, <2>2
<1>5. Chooses(f, s, K, N)
  BY <1>3, <1>4 DEF Chooses, Iterates
<1> QED BY <1>5

LEMMA StepOfChoosing ==
  ASSUME NEW s, NEW K, NEW N \in Nat, NEW f, Chooses(f, s, K, N)
  PROVE  /\ f[0] = <<>>
         /\ \A n \in 1 .. N : f[n] = IF n \in K THEN Append(f[n - 1], s[n]) ELSE f[n - 1]
<1> DEFINE g == [n \in 0 .. N |-> IF n = 0 THEN <<>>
                                  ELSE IF n \in K THEN Append(f[n - 1], s[n]) ELSE f[n - 1]]
<1>1. f = g
  BY DEF Chooses
<1>2. f[0] = <<>>
  <2>1. g[0] = <<>>
    OBVIOUS
  <2> QED BY <1>1, <2>1
<1>3. ASSUME NEW n \in 1 .. N
      PROVE  f[n] = IF n \in K THEN Append(f[n - 1], s[n]) ELSE f[n - 1]
  <2>1. n \in 0 .. N /\ n # 0
    OBVIOUS
  <2>2. g[n] = IF n \in K THEN Append(f[n - 1], s[n]) ELSE f[n - 1]
    BY <2>1
  <2> HIDE DEF g
  <2> QED BY <1>1, <2>2
<1> QED BY <1>2, <1>3

LEMMA ChosenStepwise ==
  ASSUME NEW S, NEW s \in Seq(S), NEW K
  PROVE  \E f : Chooses(f, s, K, Len(s)) /\ Chosen(s, K) = f[Len(s)]
<1> DEFINE f == CHOOSE f : Chooses(f, s, K, Len(s))
<1>1. Len(s) \in Nat
  OBVIOUS
<1>2. Chooses(f, s, K, Len(s))
  BY <1>1, ChoosingExists
<1>3. Chosen(s, K) = f[Len(s)]
  BY DEF Chosen, Chooses
<1> QED BY <1>2, <1>3

\* f tells where in s the elements of c are: at the indexes in L, in order.
Places(f, c, s, L) ==
  /\ f \in [1 .. Len(c) -> L]
  /\ \A i, j \in 1 .. Len(c) : i < j => f[i] < f[j]
  /\ \A l \in L : \E i \in 1 .. Len(c) : f[i] = l
  /\ \A i \in 1 .. Len(c) : c[i] = s[f[i]]

(* One more element is chosen.                                             *)
LEMMA OneMorePlace ==
  ASSUME NEW S, NEW s \in Seq(S), NEW c \in Seq(S), NEW n \in DOMAIN s,
         NEW L, L \subseteq 1 .. n - 1, NEW f, Places(f, c, s, L)
  PROVE  \E g : Places(g, Append(c, s[n]), s, L \cup {n})
<1> DEFINE m == Len(c)
           g == [i \in 1 .. m + 1 |-> IF i = m + 1 THEN n ELSE f[i]]
           d == Append(c, s[n])
<1>1. m \in Nat /\ n \in Nat /\ s[n] \in S /\ \A l \in L : l \in Nat /\ l < n
  OBVIOUS
<1>2. /\ Len(d) = m + 1 /\ d[m + 1] = s[n]
      /\ \A i \in 1 .. m : d[i] = c[i]
  BY <1>1
<1>3. /\ f \in [1 .. m -> L]
      /\ \A i, j \in 1 .. m : i < j => f[i] < f[j]
      /\ \A l \in L : \E i \in 1 .. m : f[i] = l
      /\ \A i \in 1 .. m : c[i] = s[f[i]]
  BY DEF Places
<1> HIDE DEF m, d
<1>4. \A i \in 1 .. m + 1 : i = m + 1 \/ i \in 1 .. m
  BY <1>1
<1>5. g[m + 1] = n /\ \A i \in 1 .. m : g[i] = f[i] /\ i \in 1 .. m + 1 /\ i # m + 1
  BY <1>1
<1>6. g \in [1 .. m + 1 -> L \cup {n}]
  BY <1>3, <1>4, <1>5
<1>7. ASSUME NEW i \in 1 .. m + 1, NEW j \in 1 .. m + 1, i < j PROVE g[i] < g[j]
  <2>1. i \in 1 .. m
    BY <1>1, <1>7
  <2>2. f[i] \in L
    BY <1>3, <2>1
  <2>3. CASE j = m + 1
    BY <1>1, <1>5, <2>1, <2>2, <2>3
  <2>4. CASE j \in 1 .. m
    BY <1>3, <1>5, <1>7, <2>1, <2>4
  <2> QED BY <1>4, <2>3, <2>4
<1>8. \A l \in L \cup {n} : \E i \in 1 .. m + 1 : g[i] = l
  <2>1. m + 1 \in 1 .. m + 1
    BY <1>1
  <2> QED BY <1>3, <1>5, <2>1
<1>9. \A i \in 1 .. m + 1 : d[i] = s[g[i]]
  BY <1>2, <1>3, <1>4, <1>5
<1>10. Places(g, d, s, L \cup {n})
  <2> HIDE DEF g
  <2> QED BY <1>2, <1>6, <1>7, <1>8, <1>9 DEF Places
<1> QED BY <1>10 DEF d

(* What is chosen is where it is chosen, and in that order.                *)
LEMMA ChosenInOrder ==
  ASSUME NEW S, NEW s \in Seq(S), NEW K
  PROVE  /\ Chosen(s, K) \in Seq(S)
         /\ \E f : Places(f, Chosen(s, K), s, K \cap DOMAIN s)
<1>0. PICK N \in Nat : N = Len(s)
  OBVIOUS
<1>1. PICK upTo : Chooses(upTo, s, K, N) /\ Chosen(s, K) = upTo[N]
  BY <1>0, ChosenStepwise
<1>2. DOMAIN s = 1 .. N
  BY <1>0
<1> DEFINE Good(n) == upTo[n] \in Seq(S) /\ \E f : Places(f, upTo[n], s, K \cap (1 .. n))
           T == {n \in 0 .. N : ~Good(n)}
<1>3. upTo[0] = <<>> /\ \A n \in 1 .. N :
        upTo[n] = IF n \in K THEN Append(upTo[n - 1], s[n]) ELSE upTo[n - 1]
  BY <1>1, StepOfChoosing
<1>4. ASSUME T # {} PROVE FALSE
  <2>1. PICK n \in T : \A k \in T : n <= k
    <3> HIDE DEF Good
    <3>1. T \subseteq Nat
      BY <1>2
    <3> QED BY <1>4, <3>1, LeastOfNat
  <2>2. CASE n = 0
    <3>1. Places(<<>>, <<>>, s, {})
      BY DEF Places
    <3>2. K \cap (1 .. 0) = {} /\ <<>> \in Seq(S)
      OBVIOUS
    <3> QED BY <1>3, <2>1, <2>2, <3>1, <3>2
  <2>3. CASE n # 0
    <3>1. n \in 1 .. N /\ n \in DOMAIN s /\ n - 1 \in 0 .. N /\ ~(n <= n - 1)
      BY <1>2, <2>1, <2>3
    <3>2. Good(n - 1)
      <4> HIDE DEF Good
      <4> QED BY <2>1, <3>1
    <3>3. upTo[n - 1] \in Seq(S)
      BY <3>2
    <3>4. PICK f : Places(f, upTo[n - 1], s, K \cap (1 .. n - 1))
      BY <3>2
    <3>5. CASE n \in K
      <4>1. upTo[n] = Append(upTo[n - 1], s[n])
        BY <1>3, <3>1, <3>5
      <4>2. K \cap (1 .. n) = (K \cap (1 .. n - 1)) \cup {n}
        BY <3>1, <3>5
      <4>3. \E g : Places(g, upTo[n], s, K \cap (1 .. n))
        <5>1. K \cap (1 .. n - 1) \subseteq 1 .. n - 1
          OBVIOUS
        <5> DEFINE c == upTo[n - 1]
                   L == K \cap (1 .. n - 1)
        <5>2. c \in Seq(S) /\ Places(f, c, s, L) /\ L \subseteq 1 .. n - 1
          BY <3>3, <3>4, <5>1
        <5>3. upTo[n] = Append(c, s[n]) /\ K \cap (1 .. n) = L \cup {n}
          BY <4>1, <4>2
        <5> HIDE DEF c, L
        <5>4. \E g : Places(g, Append(c, s[n]), s, L \cup {n})
          BY <3>1, <5>2, OneMorePlace
        <5> QED BY <5>3, <5>4
      <4>4. upTo[n] \in Seq(S)
        BY <3>1, <3>3, <4>1
      <4> QED BY <2>1, <4>3, <4>4
    <3>6. CASE n \notin K
      <4>1. upTo[n] = upTo[n - 1]
        BY <1>3, <3>1, <3>6
      <4>2. K \cap (1 .. n) = K \cap (1 .. n - 1)
        BY <3>1, <3>6
      <4> QED BY <2>1, <3>3, <3>4, <4>1, <4>2
    <3> QED BY <3>5, <3>6
  <2> QED BY <2>2, <2>3
<1>5. Good(N)
  <2> HIDE DEF Good
  <2>1. N \in 0 .. N
    BY <1>2
  <2> QED BY <1>4, <2>1
<1> QED BY <1>1, <1>2, <1>5

(* Two places of what is chosen are two places of what it is chosen from.  *)
LEMMA ChosenApart ==
  ASSUME NEW S, NEW s \in Seq(S), NEW K, NEW i \in 1 .. Len(Chosen(s, K)),
         NEW j \in 1 .. Len(Chosen(s, K)), i # j
  PROVE  \E k, l \in K \cap DOMAIN s : k # l /\ Chosen(s, K)[i] = s[k] /\ Chosen(s, K)[j] = s[l]
<1>1. PICK f : Places(f, Chosen(s, K), s, K \cap DOMAIN s)
  BY ChosenInOrder
<1>2. i \in Nat /\ j \in Nat /\ (i < j \/ j < i)
  <2>1. Len(Chosen(s, K)) \in Nat
    BY ChosenInOrder
  <2> QED BY <2>1
<1>3. f[i] \in K \cap DOMAIN s /\ f[j] \in K \cap DOMAIN s
  BY <1>1 DEF Places
<1>4. f[i] < f[j] \/ f[j] < f[i]
  BY <1>1, <1>2 DEF Places
<1>5. f[i] \in Nat /\ f[j] \in Nat
  BY <1>3
<1>6. f[i] # f[j]
  BY <1>4, <1>5
<1> QED BY <1>1, <1>3, <1>6 DEF Places

(* As many are chosen as there are indexes of them.                        *)
LEMMA ChosenLength ==
  ASSUME NEW S, NEW s \in Seq(S), NEW K
  PROVE  /\ IsFiniteSet(K \cap DOMAIN s)
         /\ Len(Chosen(s, K)) = Cardinality(K \cap DOMAIN s)
<1>1. PICK f : Places(f, Chosen(s, K), s, K \cap DOMAIN s)
  BY ChosenInOrder
<1>2. PICK m \in Nat : m = Len(Chosen(s, K))
  BY ChosenInOrder
<1> DEFINE L == K \cap DOMAIN s
<1>3. /\ f \in [1 .. m -> L]
      /\ \A i, j \in 1 .. m : i < j => f[i] < f[j]
      /\ \A l \in L : \E i \in 1 .. m : f[i] = l
  BY <1>1, <1>2 DEF Places
<1>4. \A l \in L : l \in Nat
  OBVIOUS
<1> HIDE DEF L
<1>5. ASSUME NEW i \in 1 .. m, NEW j \in 1 .. m, f[i] = f[j] PROVE i = j
  <2>1. f[i] \in Nat /\ f[j] \in Nat
    BY <1>3, <1>4
  <2>2. ~(i < j) /\ ~(j < i)
    BY <1>3, <1>5, <2>1
  <2> QED BY <2>2
<1>6. f \in Bijection(1 .. m, L)
  BY <1>3, <1>5 DEF Bijection, Injection, Surjection, IsInjective
<1>7. IsFiniteSet(1 .. m) /\ Cardinality(1 .. m) = m
  BY FS_Interval
<1>8. IsFiniteSet(L) /\ Cardinality(L) = m
  <2>1. ExistsBijection(1 .. m, L)
    BY <1>6 DEF ExistsBijection
  <2> QED BY <1>7, <2>1, FS_Bijection
<1> QED BY <1>2, <1>8 DEF L

(* Of a finite set of numbers, those with fewer than m of the set below    *)
(* them are all of it, or m at least.                                      *)
LEMMA FirstFew ==
  ASSUME NEW E, E \subseteq Nat, IsFiniteSet(E), NEW m \in Int
  PROVE  LET G == {j \in E : Cardinality({k \in E : k < j}) < m}
         IN  IsFiniteSet(G) /\ (G = E \/ Cardinality(G) >= m)
<1> DEFINE Below(j) == {k \in E : k < j}
           G == {j \in E : Cardinality(Below(j)) < m}
<1>1. IsFiniteSet(G) /\ Cardinality(G) \in Nat
  BY FS_Subset, FS_CardinalityType
<1>2. ASSUME G # E PROVE Cardinality(G) >= m
  <2>1. PICK j \in E \ G : \A k \in E \ G : j <= k
    <3> HIDE DEF G
    <3>1. E \ G # {} /\ E \ G \subseteq Nat
      BY <1>2 DEF G
    <3> QED BY <3>1, LeastOfNat
  <2>2. Below(j) \subseteq G
    <3>1. \A k \in Below(j) : k \in E /\ ~(j <= k)
      OBVIOUS
    <3> HIDE DEF G, Below
    <3> QED BY <2>1, <3>1
  <2>3. ~(Cardinality(Below(j)) < m)
    BY <2>1
  <2>4. Cardinality(Below(j)) <= Cardinality(G) /\ Cardinality(Below(j)) \in Nat
    <3> HIDE DEF G, Below
    <3> QED BY <1>1, <2>2, FS_Subset, FS_CardinalityType
  <2> HIDE DEF G, Below
  <2> QED BY <1>1, <2>3, <2>4
<1> QED BY <1>1, <1>2

(* What is chosen are elements whose index is.                             *)
LEMMA ChosenThat ==
  ASSUME NEW S, NEW s \in Seq(S), NEW K, NEW T, \A i \in K \cap DOMAIN s : s[i] \in T
  PROVE  Chosen(s, K) \in Seq(T)
<1> DEFINE c == Chosen(s, K)
<1>1. PICK f : Places(f, c, s, K \cap DOMAIN s)
  BY ChosenInOrder
<1>2. c \in Seq(S)
  BY ChosenInOrder
<1> HIDE DEF c
<1>3. \A i \in 1 .. Len(c) : c[i] \in T
  BY <1>1 DEF Places
<1> QED BY <1>2, <1>3 DEF c

\* What is chosen of a list is there no later than in the list.
LEMMA ChosenNoLater ==
  ASSUME NEW S, NEW s \in Seq(S), NEW K, NEW k \in K \cap DOMAIN s
  PROVE  \E i \in 1 .. Len(Chosen(s, K)) : i <= k /\ Chosen(s, K)[i] = s[k]
<1> DEFINE c == Chosen(s, K)
           L == K \cap DOMAIN s
<1>1. PICK f : Places(f, c, s, L)
  BY ChosenInOrder
<1>3. \A l \in L : l \in Nat /\ l >= 1
  OBVIOUS
<1>4. k \in L
  OBVIOUS
<1>s. c \in Seq(S)
  BY ChosenInOrder
<1> HIDE DEF c, L
<1>2. PICK m \in Nat : m = Len(c)
  BY <1>s
<1>5. /\ \A i \in 1 .. m : f[i] \in L
      /\ \A i, j \in 1 .. m : i < j => f[i] < f[j]
      /\ \A l \in L : \E i \in 1 .. m : f[i] = l
      /\ \A i \in 1 .. m : c[i] = s[f[i]]
  BY <1>1, <1>2 DEF Places
<1> DEFINE Early == {i \in 1 .. m : f[i] < i}
<1>6. ASSUME Early # {} PROVE FALSE
  <2>1. PICK i \in Early : \A j \in Early : i <= j
    <3>1. Early \subseteq Nat
      OBVIOUS
    <3> HIDE DEF Early
    <3> QED BY <1>6, <3>1, LeastOfNat
  <2>2. f[i] \in Nat /\ f[i] >= 1 /\ f[i] < i
    BY <1>3, <1>5, <2>1
  <2>3. i - 1 \in 1 .. m /\ i - 1 < i
    BY <2>1, <2>2
  <2>4. f[i - 1] < f[i] /\ f[i - 1] \in Nat
    BY <1>3, <1>5, <2>1, <2>3
  <2>5. ~(f[i - 1] < i - 1)
    BY <2>1, <2>3
  <2> QED BY <2>2, <2>3, <2>4, <2>5
<1>7. PICK i \in 1 .. m : f[i] = k
  BY <1>4, <1>5
<1>8. ~(f[i] < i)
  BY <1>6, <1>7
<1>9. i <= k /\ c[i] = s[k]
  BY <1>3, <1>4, <1>5, <1>7, <1>8
<1> QED BY <1>2, <1>7, <1>9 DEF c

\* A list may be empty, or two in a row.
LEMMA JoinedLists ==
  ASSUME NEW S
  PROVE  <<>> \in Seq(S) /\ \A a, b \in Seq(S) : a \o b \in Seq(S)
OBVIOUS
=================================================================================
