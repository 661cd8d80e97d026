----------------------------- MODULE FoldTheorems -----------------------------
(***************************************************************************)
(* What the proofs need to know about the folds of the community modules:  *)
(* a fold over a finite set is computed by a function on its subsets, and  *)
(* the sum of a function's values does not depend on the order in which    *)
(* they are added.  The induction is over sets of numbers, since the       *)
(* induction rule that takes a predicate cannot be instantiated.           *)
(***************************************************************************)
EXTENDS Integers, FiniteSetsExt, FiniteSetTheorems, WellFoundedInduction, TLAPS

\* A set of numbers with 0 and the successor of each member holds them all.
LEMMA Induction ==
    ASSUME NEW T, 0 \in T, \A n \in Nat : n \in T => n + 1 \in T
    PROVE  \A n \in Nat : n \in T
<1> DEFINE B == {n \in Nat : n \notin T}
           R == OpToRel(<, Nat)
<1> SUFFICES ASSUME B # {} PROVE FALSE
  OBVIOUS
<1>1. B \subseteq Nat
  OBVIOUS
<1>2. IsWellFoundedOn(R, Nat)
  BY NatLessThanWellFounded
<1>3. \A k, m \in Nat : k < m => <<k, m>> \in R
  BY DEF OpToRel
<1> HIDE DEF B, R
<1>4. PICK m \in B : \A k \in B : ~(<<k, m>> \in R)
  BY <1>1, <1>2, WFMin
<1>5. \A k \in B : ~(k < m)
  BY <1>1, <1>3, <1>4
<1>6. m \in Nat /\ m \notin T
  BY DEF B
<1>7. m - 1 \in Nat
  BY <1>6
<1>8. m - 1 \in T
  BY <1>5, <1>6, <1>7 DEF B
<1>9. QED BY <1>6, <1>7, <1>8

\* One element less.
LEMMA RemoveOne ==
    ASSUME NEW s, IsFiniteSet(s), NEW x \in s, NEW n \in Nat, Cardinality(s) = n + 1
    PROVE  Cardinality(s \ {x}) = n
<1>1. Cardinality(s \ {x}) = Cardinality(s) - 1
  BY FS_RemoveElement
<1>2. QED BY <1>1

-----------------------------------------------------------------------------
\* F folds S with the step function, taking out of a set what `pick` says.
Folded(F, S, base, step, pick) ==
    \A s \in SUBSET S :
        F[s] = IF s = {} THEN base ELSE step[<<pick[s], F[s \ {pick[s]}]>>]

Picks(pick, S) == \A s \in SUBSET S : s # {} => pick[s] \in s

\* Every finite set can be folded, and the results stay in the set the step
\* function stays in.
LEMMA FoldExists ==
    ASSUME NEW S, IsFiniteSet(S), NEW A, NEW base, base \in A,
           NEW step, step \in [S \X A -> A], NEW pick, Picks(pick, S)
    PROVE  \E F : F \in [SUBSET S -> A] /\ Folded(F, S, base, step, pick)
<1> DEFINE D(n) == {s \in SUBSET S : Cardinality(s) <= n}
           Good(F, n) == \A s \in D(n) :
               F[s] = IF s = {} THEN base ELSE step[<<pick[s], F[s \ {pick[s]}]>>]
           T == {n \in Nat : \E F \in [D(n) -> A] : Good(F, n)}
<1>0. \A s \in SUBSET S : /\ IsFiniteSet(s) /\ Cardinality(s) \in Nat
                          /\ Cardinality(s) <= Cardinality(S)
  BY FS_Subset, FS_CardinalityType
<1>1. 0 \in T
  <2>1. \A s \in D(0) : s = {}
    BY <1>0, FS_EmptySet
  <2> DEFINE F == [s \in D(0) |-> base]
  <2>2. F \in [D(0) -> A] /\ Good(F, 0)
    BY <2>1
  <2>3. QED BY <2>2
<1>2. ASSUME NEW n \in Nat, n \in T PROVE n + 1 \in T
  <2>1. PICK F \in [D(n) -> A] : Good(F, n)
    BY <1>2
  <2> DEFINE G == [s \in D(n + 1) |->
                      IF s = {} THEN base ELSE step[<<pick[s], F[s \ {pick[s]}]>>]]
  <2>2. ASSUME NEW s \in D(n + 1), s # {}
        PROVE  /\ pick[s] \in S
               /\ s \ {pick[s]} \in D(n)
    <3>1. pick[s] \in s
      BY <2>2 DEF Picks
    <3>2. IsFiniteSet(s) /\ Cardinality(s \ {pick[s]}) = Cardinality(s) - 1
      BY <1>0, <3>1, FS_RemoveElement
    <3>3. Cardinality(s) \in Nat /\ Cardinality(s) <= n + 1 /\ s \in SUBSET S
      BY <1>0
    <3>4. QED BY <3>1, <3>2, <3>3
  <2>3. \A s \in D(n) : G[s] = F[s]
    <3>1. \A s \in D(n) : s \in D(n + 1)
      BY <1>0
    <3>2. QED BY <2>1, <3>1
  <2>4. G \in [D(n + 1) -> A]
    BY <2>1, <2>2
  <2>5. Good(G, n + 1)
    BY <2>2, <2>3
  <2> HIDE DEF G, Good
  <2>6. \E H \in [D(n + 1) -> A] : Good(H, n + 1)
    BY <2>4, <2>5
  <2>7. n + 1 \in Nat
    OBVIOUS
  <2> HIDE DEF D
  <2>8. QED BY <2>6, <2>7
<1>3. Cardinality(S) \in T
  BY <1>1, <1>2, FS_CardinalityType, Induction
<1>4. PICK F \in [D(Cardinality(S)) -> A] : Good(F, Cardinality(S))
  BY <1>3
<1>5. D(Cardinality(S)) = SUBSET S
  BY <1>0
<1>6. QED BY <1>4, <1>5 DEF Folded

-----------------------------------------------------------------------------
(* Folds of sequences, which take the greatest index out of a set.         *)

LEMMA MaxIn ==
    ASSUME NEW n \in Nat, NEW s, s \subseteq 1..n, s # {}
    PROVE  Max(s) \in s /\ \A y \in s : Max(s) >= y
<1> DEFINE T == {k \in Nat : \A t \in SUBSET (1..k) : t # {} => \E x \in t : \A y \in t : x >= y}
<1>1. 0 \in T
  <2>1. 1..0 = {}
    OBVIOUS
  <2>2. QED BY <2>1
<1>2. ASSUME NEW k \in Nat, k \in T PROVE k + 1 \in T
  <2> SUFFICES ASSUME NEW t \in SUBSET (1..(k + 1)), t # {}
               PROVE  \E x \in t : \A y \in t : x >= y
    OBVIOUS
  <2>1. CASE k + 1 \in t
    BY <2>1
  <2>2. CASE k + 1 \notin t
    <3>1. t \in SUBSET (1..k)
      BY <2>2
    <3>2. QED BY <1>2, <3>1
  <2>3. QED BY <2>1, <2>2
<1>3. n \in T
  BY <1>1, <1>2, Induction
<1>4. \E x \in s : \A y \in s : x >= y
  BY <1>3
<1>5. QED BY <1>4 DEF Max

LEMMA MaxOfPrefix ==
    ASSUME NEW k \in Nat, k # 0
    PROVE  Max(1..k) = k /\ (1..k) \ {Max(1..k)} = 1..(k - 1) /\ 1..k # {}
<1> DEFINE S == 1..k
<1>1. k \in S /\ S \subseteq 1..k /\ \A y \in S : y \in Nat /\ y <= k
  OBVIOUS
<1>2. S \ {k} = 1..(k - 1)
  OBVIOUS
<1> HIDE DEF S
<1>3. Max(S) \in S /\ \A y \in S : Max(S) >= y
  BY <1>1, MaxIn
<1>4. Max(S) = k
  <2>1. Max(S) >= k /\ Max(S) \in Nat /\ Max(S) <= k
    BY <1>1, <1>3
  <2>2. QED BY <2>1
<1>5. Max(S) = k /\ S \ {Max(S)} = 1..(k - 1) /\ S # {}
  BY <1>1, <1>2, <1>4
<1>6. QED BY <1>5 DEF S

SequenceFolded(F, n, base, step) ==
    \A s \in SUBSET (1..n) :
        F[s] = IF s = {} THEN base ELSE step[<<Max(s), F[s \ {Max(s)}]>>]

LEMMA SequenceFoldExists ==
    ASSUME NEW n \in Nat, NEW A, NEW base, base \in A,
           NEW step, step \in [(1..n) \X A -> A]
    PROVE  \E F : F \in [SUBSET (1..n) -> A] /\ SequenceFolded(F, n, base, step)
<1> DEFINE pick == [s \in SUBSET (1..n) |-> Max(s)]
           S == 1..n
<1>1. IsFiniteSet(S)
  BY FS_Interval
<1>2. Picks(pick, S)
  BY MaxIn DEF Picks
<1>3. \A s \in SUBSET S : pick[s] = Max(s)
  OBVIOUS
<1> HIDE DEF pick, S
<1>4. step \in [S \X A -> A]
  BY DEF S
<1>5. PICK F : F \in [SUBSET S -> A] /\ Folded(F, S, base, step, pick)
  BY <1>1, <1>2, <1>4, FoldExists
<1>6. \A s \in SUBSET S : F[s] = IF s = {} THEN base ELSE step[<<Max(s), F[s \ {Max(s)}]>>]
  BY <1>3, <1>5 DEF Folded
<1>7. QED BY <1>5, <1>6 DEF SequenceFolded, S

-----------------------------------------------------------------------------
Pick(s) == CHOOSE x \in s : TRUE

\* F gives every subset of v's domain the sum of v's values there.
SumsTo(F, v) ==
    F = [s \in SUBSET DOMAIN v |-> IF s = {} THEN 0 ELSE v[Pick(s)] + F[s \ {Pick(s)}]]

LEMMA SumIsFold ==
    ASSUME NEW v PROVE SumFunction(v) = (CHOOSE F : SumsTo(F, v))[DOMAIN v]
BY DEF SumFunction, SumFunctionOnSet, FoldFunctionOnSet, MapThenFoldSet, SumsTo, Pick

LEMMA PickIn == ASSUME NEW s, s # {} PROVE Pick(s) \in s
BY DEF Pick

LEMMA SumExists ==
    ASSUME NEW S, IsFiniteSet(S), NEW v \in [S -> Int]
    PROVE  \E F \in [SUBSET S -> Int] : SumsTo(F, v)
<1> DEFINE step == [p \in S \X Int |-> v[p[1]] + p[2]]
           pick == [s \in SUBSET S |-> Pick(s)]
<1>1. 0 \in Int /\ step \in [S \X Int -> Int]
  OBVIOUS
<1>2. Picks(pick, S)
  BY PickIn DEF Picks
<1>3. \A x \in S, k \in Int : step[<<x, k>>] = v[x] + k
  OBVIOUS
<1>4. \A s \in SUBSET S : pick[s] = Pick(s)
  OBVIOUS
<1> HIDE DEF step, pick
<1>5. PICK F : F \in [SUBSET S -> Int] /\ Folded(F, S, 0, step, pick)
  BY <1>1, <1>2, FoldExists
<1>6. ASSUME NEW s \in SUBSET S
      PROVE  F[s] = IF s = {} THEN 0 ELSE v[Pick(s)] + F[s \ {Pick(s)}]
  <2>1. CASE s = {}
    BY <1>5, <2>1 DEF Folded
  <2>2. CASE s # {}
    <3>1. Pick(s) \in S /\ F[s \ {Pick(s)}] \in Int
      BY <1>5, <2>2, PickIn
    <3>2. F[s] = step[<<pick[s], F[s \ {pick[s]}]>>]
      BY <1>5, <2>2 DEF Folded
    <3>3. QED BY <1>3, <1>4, <2>2, <3>1, <3>2
  <2>3. QED BY <2>1, <2>2
<1>7. QED BY <1>5, <1>6 DEF SumsTo

\* The sums of two functions agree where the functions do.
Restricts(u, P, v, S) ==
    /\ DOMAIN u = P /\ DOMAIN v = S /\ P \subseteq S
    /\ \A x \in P : u[x] = v[x]

SameSums(F, G, P) == \A s \in SUBSET P : F[s] = G[s]

LEMMA SumUnique ==
    ASSUME NEW S, NEW P, IsFiniteSet(S), NEW u, NEW v, Restricts(u, P, v, S),
           NEW F, NEW G, SumsTo(F, u), SumsTo(G, v)
    PROVE  SameSums(F, G, P)
<1> DEFINE T == {n \in Nat : \A s \in SUBSET P : Cardinality(s) = n => F[s] = G[s]}
<1> USE DEF Restricts
<1>0. \A s \in SUBSET P : IsFiniteSet(s) /\ Cardinality(s) \in Nat /\ s \in SUBSET S
  BY FS_Subset, FS_CardinalityType
<1>1. 0 \in T
  BY <1>0, FS_EmptySet DEF SumsTo
<1>2. ASSUME NEW n \in Nat, n \in T PROVE n + 1 \in T
  <2> SUFFICES ASSUME NEW s \in SUBSET P, Cardinality(s) = n + 1 PROVE F[s] = G[s]
    OBVIOUS
  <2>1. s # {}
    BY FS_EmptySet
  <2>2. Pick(s) \in s
    BY <2>1, PickIn
  <2>3. s \ {Pick(s)} \in SUBSET P /\ Cardinality(s \ {Pick(s)}) = n
    BY <1>0, <2>2, RemoveOne
  <2>4. F[s \ {Pick(s)}] = G[s \ {Pick(s)}]
    BY <1>2, <2>3
  <2>5. QED BY <1>0, <2>1, <2>2, <2>4 DEF SumsTo
<1>3. \A n \in Nat : n \in T
  BY <1>1, <1>2, Induction
<1>4. QED BY <1>0, <1>3 DEF SameSums

\* The sum of a function is the value of such an F.
LEMMA SumByFunction ==
    ASSUME NEW S, IsFiniteSet(S), NEW v, v \in [S -> Int]
    PROVE  \E F : F \in [SUBSET S -> Int] /\ SumsTo(F, v) /\ SumFunction(v) = F[S]
<1> DEFINE c == CHOOSE H : SumsTo(H, v)
<1>1. PICK F \in [SUBSET S -> Int] : SumsTo(F, v)
  BY SumExists
<1>2. SumsTo(c, v)
  BY <1>1
<1>3. SumFunction(v) = c[S]
  BY SumIsFold
<1> HIDE DEF c
<1>4. Restricts(v, S, v, S)
  BY DEF Restricts
<1>5. SameSums(c, F, S)
  BY <1>1, <1>2, <1>4, SumUnique
<1>6. QED BY <1>1, <1>3, <1>5 DEF SameSums

AnyOrder(F, v) == \A s \in SUBSET DOMAIN v : \A x \in s : F[s] = v[x] + F[s \ {x}]

\* Any element of a set can be the first to be added.
LEMMA SumAnyOrder ==
    ASSUME NEW S, IsFiniteSet(S), NEW v, v \in [S -> Int],
           NEW F, F \in [SUBSET S -> Int], SumsTo(F, v)
    PROVE  AnyOrder(F, v)
<1> DEFINE T == {n \in Nat : \A s \in SUBSET S : Cardinality(s) = n =>
                                \A x \in s : F[s] = v[x] + F[s \ {x}]}
<1>0. \A s \in SUBSET S : IsFiniteSet(s) /\ Cardinality(s) \in Nat
  BY FS_Subset, FS_CardinalityType
<1>1. 0 \in T
  BY <1>0, FS_EmptySet
<1>2. ASSUME NEW n \in Nat, n \in T PROVE n + 1 \in T
  <2> SUFFICES ASSUME NEW s \in SUBSET S, Cardinality(s) = n + 1, NEW x \in s
               PROVE  F[s] = v[x] + F[s \ {x}]
    OBVIOUS
  <2>0. \A t \in SUBSET S : Cardinality(t) = n => \A y \in t : F[t] = v[y] + F[t \ {y}]
    BY <1>2
  <2> DEFINE p == Pick(s)
             rest == (s \ {p}) \ {x}
  <2>1. p \in s
    BY PickIn
  <2>2. F[s] = v[p] + F[s \ {p}]
    BY <2>1 DEF SumsTo
  <2> HIDE DEF p
  <2>3. CASE x = p
    BY <2>2, <2>3
  <2>4. CASE x # p
    <3>1. Cardinality(s \ {p}) = n /\ Cardinality(s \ {x}) = n
      BY <1>0, <2>1, RemoveOne
    <3>2. F[s \ {p}] = v[x] + F[rest]
      <4>1. x \in s \ {p} /\ s \ {p} \in SUBSET S
        BY <2>4
      <4>2. QED BY <2>0, <3>1, <4>1
    <3>3. F[s \ {x}] = v[p] + F[rest]
      <4>1. p \in s \ {x} /\ s \ {x} \in SUBSET S
        BY <2>1, <2>4
      <4>2. (s \ {x}) \ {p} = rest
        OBVIOUS
      <4>3. F[s \ {x}] = v[p] + F[(s \ {x}) \ {p}]
        BY <2>0, <3>1, <4>1
      <4>4. QED BY <4>2, <4>3
    <3>4. v[x] \in Int /\ v[p] \in Int /\ F[rest] \in Int
      BY <2>1
    <3>5. QED BY <2>2, <3>2, <3>3, <3>4
  <2>5. QED BY <2>3, <2>4
<1>3. \A n \in Nat : n \in T
  BY <1>1, <1>2, Induction
<1>4. QED BY <1>0, <1>3 DEF AnyOrder

-----------------------------------------------------------------------------
(* The facts about sums that the other modules use.                        *)

LEMMA SumType ==
    ASSUME NEW S, IsFiniteSet(S), NEW v \in [S -> Int] PROVE SumFunction(v) \in Int
<1>1. PICK F : F \in [SUBSET S -> Int] /\ SumFunction(v) = F[S]
  BY SumByFunction
<1>2. QED BY <1>1

\* Nothing adds up to nothing.
LEMMA SumEmpty == ASSUME NEW v, DOMAIN v = {}, v \in [{} -> Int] PROVE SumFunction(v) = 0
<1>1. IsFiniteSet({})
  BY FS_EmptySet
<1>2. PICK F : F \in [SUBSET {} -> Int] /\ SumsTo(F, v) /\ SumFunction(v) = F[{}]
  BY <1>1, SumByFunction
<1>3. QED BY <1>2 DEF SumsTo

\* The sum over a part is what the sums over the subsets say of it.
LEMMA SumRestricted ==
    ASSUME NEW S, IsFiniteSet(S), NEW P, P \subseteq S, NEW v, v \in [S -> Int],
           NEW u, u \in [P -> Int], \A y \in P : u[y] = v[y],
           NEW G, SumsTo(G, v)
    PROVE  SumFunction(u) = G[P]
<1>1. IsFiniteSet(P) /\ Restricts(u, P, v, S)
  BY FS_Subset DEF Restricts
<1>2. PICK F : F \in [SUBSET P -> Int] /\ SumsTo(F, u) /\ SumFunction(u) = F[P]
  BY <1>1, SumByFunction
<1>3. SameSums(F, G, P)
  BY <1>1, <1>2, SumUnique
<1>4. QED BY <1>2, <1>3 DEF SameSums

\* The sum is one value and the sum of the others.
LEMMA SumTake ==
    ASSUME NEW S, IsFiniteSet(S), NEW v, v \in [S -> Int], NEW x, x \in S,
           NEW u, u \in [S \ {x} -> Int], \A y \in S \ {x} : u[y] = v[y]
    PROVE  SumFunction(v) = v[x] + SumFunction(u)
<1>1. PICK G : G \in [SUBSET S -> Int] /\ SumsTo(G, v) /\ SumFunction(v) = G[S]
  BY SumByFunction
<1>2. G[S] = v[x] + G[S \ {x}]
  <2>1. AnyOrder(G, v)
    BY <1>1, SumAnyOrder
  <2>2. QED BY <2>1 DEF AnyOrder
<1>3. S \ {x} \subseteq S
  OBVIOUS
<1>4. SumFunction(u) = G[S \ {x}]
  BY <1>1, <1>3, SumRestricted
<1>5. QED BY <1>1, <1>2, <1>4

\* One more value.
MoreBy(v, u, S, x) ==
    /\ u \in [S -> Int] /\ v \in [S \cup {x} -> Int]
    /\ \A y \in S : u[y] = v[y]

LEMMA SumAdd ==
    ASSUME NEW S, IsFiniteSet(S), NEW x, x \notin S, NEW u, NEW v, MoreBy(v, u, S, x)
    PROVE  SumFunction(v) = SumFunction(u) + v[x]
<1> DEFINE B == S \cup {x}
<1>1. IsFiniteSet(B) /\ x \in B /\ B \ {x} = S
  BY FS_AddElement
<1>2. u \in [B \ {x} -> Int] /\ v \in [B -> Int] /\ \A y \in B \ {x} : u[y] = v[y]
  BY <1>1 DEF MoreBy
<1>3. SumFunction(u) \in Int
  BY SumType DEF MoreBy
<1> HIDE DEF B
<1>4. SumFunction(v) = v[x] + SumFunction(u)
  BY <1>1, <1>2, SumTake
<1>5. v[x] \in Int
  BY <1>1, <1>2
<1>6. QED BY <1>3, <1>4, <1>5

\* One value changes.
SameBut(v, u, S, x) ==
    /\ u \in [S -> Int] /\ v \in [S -> Int]
    /\ \A y \in S \ {x} : u[y] = v[y]

LEMMA SumChange ==
    ASSUME NEW S, IsFiniteSet(S), NEW x, x \in S, NEW u, NEW v, SameBut(v, u, S, x)
    PROVE  SumFunction(v) = SumFunction(u) - u[x] + v[x]
<1> DEFINE P == S \ {x}
           w == [y \in P |-> u[y]]
<1>0. u \in [S -> Int] /\ v \in [S -> Int]
  BY DEF SameBut
<1>1. w \in [S \ {x} -> Int] /\ \A y \in S \ {x} : w[y] = u[y] /\ w[y] = v[y]
  BY DEF SameBut
<1>2. IsFiniteSet(P)
  BY FS_RemoveElement
<1>3. SumFunction(w) \in Int
  BY <1>1, <1>2, SumType
<1> HIDE DEF w
<1>4. SumFunction(u) = u[x] + SumFunction(w)
  BY <1>0, <1>1, SumTake
<1>5. SumFunction(v) = v[x] + SumFunction(w)
  BY <1>0, <1>1, SumTake
<1>6. u[x] \in Int /\ v[x] \in Int
  BY <1>0
<1>7. QED BY <1>3, <1>4, <1>5, <1>6
=============================================================================
