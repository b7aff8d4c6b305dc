----------------------------- MODULE DataLemmas -----------------------------
(***************************************************************************)
(* Facts about the data that several components keep: queues whose entries *)
(* are different callers, and sums of amounts over finite sets.            *)
(***************************************************************************)
EXTENDS Integers, Sequences, FiniteSetTheorems, SequenceTheorems, TLAPS

-----------------------------------------------------------------------------
(* Sums *)

\* A minimal counterexample stands for induction over the subsets of a finite set.
LEMMA SmallestSubset ==
  ASSUME NEW S, IsFiniteSet(S), NEW B \in SUBSET SUBSET S, B # {}
  PROVE  \E V \in B : \A U \in B : ~(U \subseteq V /\ U # V)
<1>1. IsWellFoundedOn(StrictSubsetOrdering(S), SUBSET S)
  BY FS_StrictSubsetOrderingWellFounded, FS_FiniteSubsetsOfFinite
<1> DEFINE R == StrictSubsetOrdering(S)
           Subsets == SUBSET S
<1>0. IsWellFoundedOn(R, Subsets) /\ B \subseteq Subsets /\ B # {}
  BY <1>1
<1> HIDE DEF R, Subsets
<1>2. PICK V \in B : \A U \in B : ~(<<U, V>> \in R)
  BY <1>0, WFMin
<1>3. ASSUME NEW U \in B, U \subseteq V, U # V PROVE <<U, V>> \in R
  BY <1>3 DEF StrictSubsetOrdering, R
<1>4. \A U \in B : ~(U \subseteq V /\ U # V)
  BY <1>2, <1>3
<1> QED
  BY <1>4

Some(s) == CHOOSE x \in s : TRUE

\* The fold of the amounts F over the subsets of S, one element at a time.
Adds(it, F, S) == it = [s \in SUBSET S |-> IF s = {} THEN 0 ELSE F[Some(s)] + it[s \ {Some(s)}]]

SumOf(F, S) == (CHOOSE it : Adds(it, F, S))[S]

LEMMA AddsAt ==
  ASSUME NEW S, NEW F, NEW it, Adds(it, F, S), NEW s \in SUBSET S
  PROVE  it[s] = IF s = {} THEN 0 ELSE F[Some(s)] + it[s \ {Some(s)}]
<1>1. it = [t \in SUBSET S |-> IF t = {} THEN 0 ELSE F[Some(t)] + it[t \ {Some(t)}]]
  BY DEF Adds
<1> QED
  BY <1>1

LEMMA SomeMember == ASSUME NEW s, s # {} PROVE Some(s) \in s /\ s \ {Some(s)} \subseteq s /\ s \ {Some(s)} # s
BY DEF Some

\* Two folds of the same amounts agree.
LEMMA AddsAgree ==
  ASSUME NEW S, IsFiniteSet(S), NEW T, NEW F, NEW G, NEW i1, NEW i2, Adds(i1, F, S), Adds(i2, G, T),
         NEW V \in SUBSET S, V \subseteq T, \A x \in V : F[x] = G[x]
  PROVE  i1[V] = i2[V]
<1> DEFINE B == {U \in SUBSET V : i1[U] # i2[U]}
<1>1. SUFFICES ASSUME B # {} PROVE FALSE
  OBVIOUS
<1>2. IsFiniteSet(V)
  BY FS_Subset
<1>3. PICK U \in B : \A W \in B : ~(W \subseteq U /\ W # U)
  <2>1. B \in SUBSET SUBSET V
    OBVIOUS
  <2> HIDE DEF B
  <2> QED
    BY <1>1, <1>2, <2>1, SmallestSubset
<1>4. U \subseteq V /\ U \subseteq S /\ U \subseteq T /\ i1[U] # i2[U]
  OBVIOUS
<1>5. /\ i1[U] = (IF U = {} THEN 0 ELSE F[Some(U)] + i1[U \ {Some(U)}])
      /\ i2[U] = (IF U = {} THEN 0 ELSE G[Some(U)] + i2[U \ {Some(U)}])
  <2>1. U \in SUBSET S /\ U \in SUBSET T
    BY <1>4
  <2> HIDE DEF B
  <2> QED
    BY <2>1, AddsAt
<1>6. U # {}
  BY <1>4, <1>5
<1>7. Some(U) \in U /\ U \ {Some(U)} \subseteq U /\ U \ {Some(U)} # U
  BY <1>6, SomeMember
<1>8. i1[U \ {Some(U)}] = i2[U \ {Some(U)}]
  BY <1>3, <1>4, <1>7
<1>9. F[Some(U)] = G[Some(U)]
  BY <1>4, <1>7
<1> QED
  BY <1>4, <1>5, <1>8, <1>9

\* The fold exists, so that the definition of a sum is not an arbitrary value.
LEMMA AddsExists ==
  ASSUME NEW S, IsFiniteSet(S), NEW F
  PROVE  \E it : Adds(it, F, S)
<1> DEFINE B == {U \in SUBSET S : ~ \E it : Adds(it, F, U)}
<1>1. SUFFICES ASSUME B # {} PROVE FALSE
  OBVIOUS
<1>2. PICK V \in B : \A W \in B : ~(W \subseteq V /\ W # V)
  <2>1. B \in SUBSET SUBSET S
    OBVIOUS
  <2> HIDE DEF B
  <2> QED
    BY <1>1, <2>1, SmallestSubset
<1>3. ASSUME NEW U \in SUBSET V, U # V PROVE Adds(CHOOSE it : Adds(it, F, U), F, U)
  <2>1. \E it : Adds(it, F, U)
    BY <1>2, <1>3
  <2> QED
    BY <2>1
<1>4. ASSUME NEW U \in SUBSET V, U # V, U # {}
      PROVE  SumOf(F, U) = F[Some(U)] + SumOf(F, U \ {Some(U)})
  <2> DEFINE W == U \ {Some(U)}
             i1 == CHOOSE it : Adds(it, F, U)
             i2 == CHOOSE it : Adds(it, F, W)
  <2>1. W \in SUBSET V /\ W # V /\ W \in SUBSET U
    BY <1>4, SomeMember
  <2>2. Adds(i1, F, U) /\ Adds(i2, F, W)
    BY <1>3, <1>4, <2>1
  <2>3. IsFiniteSet(U)
    BY FS_Subset
  <2> HIDE DEF W, i1, i2
  <2>4. i1[W] = i2[W]
    BY <2>1, <2>2, <2>3, AddsAgree
  <2>5. i1[U] = F[Some(U)] + i1[U \ {Some(U)}]
    BY <1>4, <2>2, AddsAt
  <2> QED
    BY <2>4, <2>5 DEF SumOf, W, i1, i2
<1>5. V # {} => SumOf(F, {}) = 0
  <2> SUFFICES ASSUME V # {} PROVE SumOf(F, {}) = 0
    OBVIOUS
  <2>1. Adds(CHOOSE it : Adds(it, F, {}), F, {})
    BY <1>3
  <2> QED
    BY <2>1, AddsAt DEF SumOf
<1> DEFINE it == [s \in SUBSET V |-> IF s = {} THEN 0 ELSE F[Some(s)] + SumOf(F, s \ {Some(s)})]
<1>6. ASSUME NEW s \in SUBSET V, s # {} PROVE it[s \ {Some(s)}] = SumOf(F, s \ {Some(s)})
  <2> DEFINE W == s \ {Some(s)}
  <2>1. W \in SUBSET V /\ W # V /\ V # {}
    BY <1>6, SomeMember
  <2> HIDE DEF W
  <2>2. it[W] = IF W = {} THEN 0 ELSE F[Some(W)] + SumOf(F, W \ {Some(W)})
    BY <2>1
  <2> HIDE DEF it
  <2>3. it[W] = SumOf(F, W)
    BY <1>4, <1>5, <2>1, <2>2
  <2> QED
    BY <2>3 DEF W
<1>7. Adds(it, F, V)
  <2>1. ASSUME NEW s \in SUBSET V
        PROVE  (IF s = {} THEN 0 ELSE F[Some(s)] + SumOf(F, s \ {Some(s)}))
               = (IF s = {} THEN 0 ELSE F[Some(s)] + it[s \ {Some(s)}])
    BY <1>6
  <2> QED
    BY <2>1 DEF Adds
<1> QED
  BY <1>7

\* Whatever fold computes it, the sum is the same.
LEMMA SumUnique ==
  ASSUME NEW S, IsFiniteSet(S), NEW F, NEW it, Adds(it, F, S)
  PROVE  it[S] = SumOf(F, S)
<1> DEFINE i2 == CHOOSE i : Adds(i, F, S)
<1>1. Adds(i2, F, S)
  BY AddsExists
<1> HIDE DEF i2
<1>2. it[S] = i2[S]
  BY <1>1, AddsAgree
<1> QED
  BY <1>2 DEF SumOf, i2

LEMMA SumEmpty == ASSUME NEW F PROVE SumOf(F, {}) = 0
<1>1. Adds(CHOOSE it : Adds(it, F, {}), F, {})
  BY AddsExists, FS_EmptySet
<1> QED
  BY <1>1, AddsAt DEF SumOf

LEMMA SumStep ==
  ASSUME NEW S, IsFiniteSet(S), S # {}, NEW F
  PROVE  SumOf(F, S) = F[Some(S)] + SumOf(F, S \ {Some(S)})
<1> DEFINE W == S \ {Some(S)}
           i1 == CHOOSE it : Adds(it, F, S)
           i2 == CHOOSE it : Adds(it, F, W)
<1>1. W \in SUBSET S /\ IsFiniteSet(W)
  BY SomeMember, FS_Subset
<1> HIDE DEF W
<1>2. Adds(i1, F, S) /\ Adds(i2, F, W)
  BY <1>1, AddsExists
<1> HIDE DEF i1, i2
<1>3. i1[W] = i2[W]
  BY <1>1, <1>2, AddsAgree
<1>4. i1[S] = F[Some(S)] + i1[S \ {Some(S)}]
  BY <1>2, AddsAt
<1> QED
  BY <1>3, <1>4 DEF SumOf, W, i1, i2

\* Sums of the same amounts are the same.
LEMMA SumSame ==
  ASSUME NEW S, IsFiniteSet(S), NEW F, NEW G, \A x \in S : F[x] = G[x]
  PROVE  SumOf(F, S) = SumOf(G, S)
<1> DEFINE i1 == CHOOSE it : Adds(it, F, S)
           i2 == CHOOSE it : Adds(it, G, S)
<1>1. Adds(i1, F, S) /\ Adds(i2, G, S)
  BY AddsExists
<1> HIDE DEF i1, i2
<1>2. i1[S] = i2[S]
  BY <1>1, AddsAgree
<1> QED
  BY <1>2 DEF SumOf, i1, i2

LEMMA SumType ==
  ASSUME NEW S, IsFiniteSet(S), NEW F, \A x \in S : F[x] \in Int
  PROVE  SumOf(F, S) \in Int
<1> DEFINE B == {U \in SUBSET S : SumOf(F, U) \notin Int}
<1>1. SUFFICES ASSUME B # {} PROVE FALSE
  OBVIOUS
<1>2. PICK V \in B : \A W \in B : ~(W \subseteq V /\ W # V)
  <2>1. B \in SUBSET SUBSET S
    OBVIOUS
  <2> HIDE DEF B
  <2> QED
    BY <1>1, <2>1, SmallestSubset
<1>3. V \subseteq S /\ SumOf(F, V) \notin Int /\ IsFiniteSet(V)
  BY FS_Subset
<1>4. V # {}
  BY <1>3, SumEmpty
<1>5. Some(V) \in V /\ V \ {Some(V)} \subseteq V /\ V \ {Some(V)} # V
  BY <1>4, SomeMember
<1>6. SumOf(F, V \ {Some(V)}) \in Int
  BY <1>2, <1>3, <1>5
<1>7. F[Some(V)] \in Int
  BY <1>3, <1>5
<1>8. SumOf(F, V) = F[Some(V)] + SumOf(F, V \ {Some(V)})
  BY <1>3, <1>4, SumStep
<1> QED
  BY <1>3, <1>6, <1>7, <1>8

\* The element that is taken first does not matter.
LEMMA SumAny ==
  ASSUME NEW S, IsFiniteSet(S), NEW F, \A x \in S : F[x] \in Int, NEW x \in S
  PROVE  SumOf(F, S) = F[x] + SumOf(F, S \ {x})
<1> DEFINE Fails(U) == \E y \in U : SumOf(F, U) # F[y] + SumOf(F, U \ {y})
           B == {U \in SUBSET S : Fails(U)}
<1>1. SUFFICES ASSUME B # {} PROVE FALSE
  OBVIOUS
<1>2. PICK V \in B : \A W \in B : ~(W \subseteq V /\ W # V)
  <2>1. B \in SUBSET SUBSET S
    OBVIOUS
  <2> HIDE DEF B
  <2> QED
    BY <1>1, <2>1, SmallestSubset
<1>3. V \subseteq S /\ IsFiniteSet(V)
  BY FS_Subset
<1>4. PICK y \in V : SumOf(F, V) # F[y] + SumOf(F, V \ {y})
  OBVIOUS
<1> DEFINE p == Some(V)
           both == V \ {p, y}
<1>5. p \in V
  BY <1>4, SomeMember
<1>6. SumOf(F, V) = F[p] + SumOf(F, V \ {p})
  BY <1>3, <1>4, SumStep
<1> HIDE DEF p
<1>7. y # p
  BY <1>4, <1>6
<1>8. ASSUME NEW W \in SUBSET V, W # V, NEW z \in W PROVE SumOf(F, W) = F[z] + SumOf(F, W \ {z})
  BY <1>2, <1>3, <1>8
<1>9. SumOf(F, V \ {p}) = F[y] + SumOf(F, both)
  <2>1. V \ {p} # V /\ y \in V \ {p} /\ (V \ {p}) \ {y} = both
    BY <1>5, <1>7
  <2> QED
    BY <1>8, <2>1
<1>10. SumOf(F, V \ {y}) = F[p] + SumOf(F, both)
  <2>1. V \ {y} # V /\ p \in V \ {y} /\ (V \ {y}) \ {p} = both
    BY <1>5, <1>7
  <2> QED
    BY <1>8, <2>1
<1>11. SumOf(F, both) \in Int /\ F[p] \in Int /\ F[y] \in Int
  <2>1. both \subseteq S /\ IsFiniteSet(both)
    BY <1>3, FS_Subset
  <2> HIDE DEF both
  <2> QED
    BY <1>3, <1>5, <2>1, SumType
<1> HIDE DEF both
<1> QED
  BY <1>4, <1>6, <1>9, <1>10, <1>11

\* A sum follows the one amount that changes.
LEMMA SumChange ==
  ASSUME NEW S, IsFiniteSet(S), NEW F, NEW G, \A y \in S : F[y] \in Int /\ G[y] \in Int,
         NEW x \in S, \A y \in S \ {x} : F[y] = G[y]
  PROVE  SumOf(G, S) = SumOf(F, S) - F[x] + G[x]
<1>1. SumOf(F, S) = F[x] + SumOf(F, S \ {x}) /\ SumOf(G, S) = G[x] + SumOf(G, S \ {x})
  BY SumAny
<1>2. IsFiniteSet(S \ {x})
  BY FS_Subset
<1>3. SumOf(F, S \ {x}) = SumOf(G, S \ {x})
  BY <1>2, SumSame
<1>4. SumOf(F, S \ {x}) \in Int
  BY <1>2, SumType
<1> QED
  BY <1>1, <1>3, <1>4

\* A sum grows by the amount of an element that joins.
LEMMA SumAdd ==
  ASSUME NEW S, IsFiniteSet(S), NEW F, NEW x, x \notin S, \A y \in S \cup {x} : F[y] \in Int
  PROVE  SumOf(F, S \cup {x}) = F[x] + SumOf(F, S)
<1>1. IsFiniteSet(S \cup {x}) /\ x \in S \cup {x} /\ (S \cup {x}) \ {x} = S
  BY FS_AddElement
<1> QED
  BY <1>1, SumAny

\* A sum of nothing but zeros.
LEMMA SumZero ==
  ASSUME NEW S, IsFiniteSet(S), NEW F, \A x \in S : F[x] = 0
  PROVE  SumOf(F, S) = 0
<1> DEFINE B == {U \in SUBSET S : SumOf(F, U) # 0}
<1>1. SUFFICES ASSUME B # {} PROVE FALSE
  OBVIOUS
<1>2. PICK V \in B : \A W \in B : ~(W \subseteq V /\ W # V)
  <2>1. B \in SUBSET SUBSET S
    OBVIOUS
  <2> HIDE DEF B
  <2> QED
    BY <1>1, <2>1, SmallestSubset
<1>3. V \subseteq S /\ SumOf(F, V) # 0 /\ IsFiniteSet(V)
  BY FS_Subset
<1>4. V # {}
  BY <1>3, SumEmpty
<1>5. Some(V) \in V /\ V \ {Some(V)} \subseteq V /\ V \ {Some(V)} # V
  BY <1>4, SomeMember
<1>6. SumOf(F, V \ {Some(V)}) = 0 /\ F[Some(V)] = 0
  BY <1>2, <1>3, <1>5
<1>8. SumOf(F, V) = F[Some(V)] + SumOf(F, V \ {Some(V)})
  BY <1>3, <1>4, SumStep
<1> QED
  BY <1>3, <1>6, <1>8

\* A sum of more and larger amounts is no smaller.
LEMMA SumGrows ==
  ASSUME NEW T, IsFiniteSet(T), NEW S \in SUBSET T, NEW F, NEW G,
         \A x \in T : G[x] \in Nat, \A x \in S : F[x] \in Int /\ F[x] <= G[x]
  PROVE  SumOf(F, S) <= SumOf(G, T) /\ SumOf(F, S) \in Int /\ SumOf(G, T) \in Int
<1> DEFINE B == {U \in SUBSET T : ~(SumOf(F, S \cap U) <= SumOf(G, U))}
<1>1. IsFiniteSet(S) /\ SumOf(F, S) \in Int /\ SumOf(G, T) \in Int /\ S \cap T = S
  BY FS_Subset, SumType
<1>2. SUFFICES ASSUME B # {} PROVE FALSE
  BY <1>1
<1>3. PICK V \in B : \A W \in B : ~(W \subseteq V /\ W # V)
  <2>1. B \in SUBSET SUBSET T
    OBVIOUS
  <2> HIDE DEF B
  <2> QED
    BY <1>2, <2>1, SmallestSubset
<1>4. V \subseteq T /\ ~(SumOf(F, S \cap V) <= SumOf(G, V)) /\ IsFiniteSet(V)
  BY FS_Subset
<1>5. V # {}
  <2>1. S \cap {} = {} /\ 0 <= 0
    OBVIOUS
  <2>2. SumOf(F, {}) = 0 /\ SumOf(G, {}) = 0
    BY SumEmpty
  <2> QED
    BY <1>4, <2>1, <2>2
<1> DEFINE p == Some(V)
           U == V \ {p}
<1>6. p \in V /\ U \subseteq V /\ U # V
  BY <1>5, SomeMember
<1>7. SumOf(G, V) = G[p] + SumOf(G, U)
  BY <1>4, <1>5, SumStep
<1>8. p \notin U /\ V = U \cup {p}
  BY <1>6
<1> HIDE DEF p, U
<1>9. SumOf(F, S \cap U) <= SumOf(G, U)
  BY <1>3, <1>4, <1>6
<1>10. /\ IsFiniteSet(U) /\ IsFiniteSet(S \cap U) /\ IsFiniteSet(S \cap V)
       /\ \A x \in S \cap V : F[x] \in Int
  BY <1>4, <1>6, FS_Subset
<1>11. SumOf(F, S \cap U) \in Int /\ SumOf(G, U) \in Int /\ G[p] \in Nat
  <2>1. (\A x \in S \cap U : F[x] \in Int) /\ (\A x \in U : G[x] \in Int)
    BY <1>4, <1>6
  <2> QED
    BY <1>4, <1>6, <1>10, <2>1, SumType
<1>12. CASE p \in S
  <2>1. S \cap V = (S \cap U) \cup {p} /\ p \notin S \cap U
    BY <1>8, <1>12
  <2>2. SumOf(F, S \cap V) = F[p] + SumOf(F, S \cap U)
    BY <1>10, <2>1, SumAdd
  <2>3. F[p] \in Int /\ F[p] <= G[p]
    BY <1>12
  <2> QED
    BY <1>4, <1>7, <1>9, <1>11, <2>2, <2>3
<1>13. CASE p \notin S
  <2>1. S \cap V = S \cap U
    BY <1>8, <1>13
  <2>2. SumOf(F, S \cap V) = SumOf(F, S \cap U)
    BY <2>1
  <2> HIDE DEF B
  <2> QED
    BY <1>4, <1>7, <1>9, <1>11, <2>2
<1> QED
  BY <1>12, <1>13

\* A sum of amounts that each have a larger one of their own is no larger.
LEMMA SumInject ==
  ASSUME NEW S, IsFiniteSet(S), NEW T, IsFiniteSet(T), NEW f \in [S -> T],
         \A x, y \in S : f[x] = f[y] => x = y, NEW F, NEW G,
         \A y \in T : G[y] \in Nat, \A x \in S : F[x] \in Int /\ F[x] <= G[f[x]]
  PROVE  SumOf(F, S) <= SumOf(G, T) /\ SumOf(F, S) \in Int /\ SumOf(G, T) \in Int
<1> DEFINE Image(U) == {f[x] : x \in U}
           B == {U \in SUBSET S : ~(SumOf(F, U) <= SumOf(G, Image(U)))}
<1>1. SumOf(F, S) \in Int /\ SumOf(G, T) \in Int
  BY SumType
<1>2. ASSUME NEW U \in SUBSET S
      PROVE  /\ Image(U) \in SUBSET T /\ IsFiniteSet(U) /\ IsFiniteSet(Image(U))
             /\ SumOf(F, U) \in Int /\ SumOf(G, Image(U)) \in Int
  <2>1. Image(U) \in SUBSET T
    OBVIOUS
  <2>2. IsFiniteSet(U) /\ IsFiniteSet(Image(U))
    BY <2>1, FS_Subset
  <2>3. (\A x \in U : F[x] \in Int) /\ (\A y \in Image(U) : G[y] \in Int)
    BY <2>1
  <2> HIDE DEF Image
  <2> QED
    BY <2>1, <2>2, <2>3, SumType
<1>3. B = {}
  <2>1. SUFFICES ASSUME B # {} PROVE FALSE
    OBVIOUS
  <2>2. PICK V \in B : \A W \in B : ~(W \subseteq V /\ W # V)
    <3>1. B \in SUBSET SUBSET S
      OBVIOUS
    <3> HIDE DEF B
    <3> QED
      BY <2>1, <3>1, SmallestSubset
  <2>3. V \subseteq S /\ ~(SumOf(F, V) <= SumOf(G, Image(V)))
    OBVIOUS
  <2>4. V # {}
    <3>1. Image({}) = {} /\ 0 <= 0
      OBVIOUS
    <3>2. SumOf(F, {}) = 0 /\ SumOf(G, {}) = 0
      BY SumEmpty
    <3> QED
      BY <2>3, <3>1, <3>2
  <2> DEFINE p == Some(V)
             U == V \ {p}
  <2>5. p \in V /\ U \subseteq V /\ U # V
    BY <2>4, SomeMember
  <2>6. IsFiniteSet(V) /\ SumOf(F, V) = F[p] + SumOf(F, U)
    BY <1>2, <2>3, <2>4, SumStep
  <2>7. U \in SUBSET S /\ p \in S /\ p \notin U /\ V = U \cup {p}
    BY <2>3, <2>5
  <2>8. SumOf(F, U) <= SumOf(G, Image(U))
    <3> HIDE DEF p, U, Image
    <3> QED
      BY <2>2, <2>3, <2>5, <2>7
  <2> HIDE DEF p, U, B
  <2>9. Image(V) = Image(U) \cup {f[p]} /\ f[p] \notin Image(U)
    <3>1. Image(V) = Image(U) \cup {f[p]}
      BY <2>7
    <3>2. f[p] \notin Image(U)
      BY <2>7
    <3> QED
      BY <3>1, <3>2
  <2>10. SumOf(G, Image(V)) = G[f[p]] + SumOf(G, Image(U))
    <3>1. \A y \in Image(U) \cup {f[p]} : G[y] \in Int
      BY <2>7
    <3>2. IsFiniteSet(Image(U))
      BY <1>2, <2>7
    <3> HIDE DEF Image
    <3> QED
      BY <2>9, <3>1, <3>2, SumAdd
  <2>11. F[p] \in Int /\ F[p] <= G[f[p]] /\ G[f[p]] \in Int
    BY <2>7
  <2>12. SumOf(F, U) \in Int /\ SumOf(G, Image(U)) \in Int
    BY <1>2, <2>7
  <2> HIDE DEF Image
  <2> QED
    BY <2>3, <2>6, <2>8, <2>10, <2>11, <2>12
<1>4. SumOf(F, S) <= SumOf(G, Image(S))
  BY <1>3
<1>5. SumOf(G, Image(S)) <= SumOf(G, T)
  <2>1. Image(S) \in SUBSET T /\ \A y \in T : G[y] \in Int /\ G[y] <= G[y]
    OBVIOUS
  <2> HIDE DEF Image, B
  <2> QED
    BY <2>1, SumGrows
<1>6. SumOf(G, Image(S)) \in Int
  BY <1>2
<1> HIDE DEF Image, B
<1> QED
  BY <1>1, <1>4, <1>5, <1>6

\* A sum of ones counts.
LEMMA SumOnes ==
  ASSUME NEW S, IsFiniteSet(S), NEW F, \A x \in S : F[x] = 1
  PROVE  SumOf(F, S) = Cardinality(S)
<1> DEFINE B == {U \in SUBSET S : SumOf(F, U) # Cardinality(U)}
<1>1. SUFFICES ASSUME B # {} PROVE FALSE
  OBVIOUS
<1>2. PICK V \in B : \A W \in B : ~(W \subseteq V /\ W # V)
  <2>1. B \in SUBSET SUBSET S
    OBVIOUS
  <2> HIDE DEF B
  <2> QED
    BY <1>1, <2>1, SmallestSubset
<1>3. V \subseteq S /\ SumOf(F, V) # Cardinality(V) /\ IsFiniteSet(V)
  BY FS_Subset
<1>4. V # {}
  BY <1>3, SumEmpty, FS_EmptySet
<1>5. Some(V) \in V /\ V \ {Some(V)} \subseteq V /\ V \ {Some(V)} # V
  BY <1>4, SomeMember
<1>6. SumOf(F, V \ {Some(V)}) = Cardinality(V \ {Some(V)}) /\ F[Some(V)] = 1
  BY <1>2, <1>3, <1>5
<1>7. SumOf(F, V) = F[Some(V)] + SumOf(F, V \ {Some(V)})
  BY <1>3, <1>4, SumStep
<1>8. Cardinality(V \ {Some(V)}) = Cardinality(V) - 1 /\ Cardinality(V) \in Nat
  BY <1>3, <1>5, FS_RemoveElement, FS_CardinalityType
<1> QED
  BY <1>3, <1>6, <1>7, <1>8

-----------------------------------------------------------------------------
(* Queues *)

Elements(q) == {q[i] : i \in 1..Len(q)}
Unique(q) == \A i, j \in 1..Len(q) : q[i] = q[j] => i = j

\* n elements of a queue are at most n entries.
LEMMA FrontSize ==
  ASSUME NEW T, NEW q \in Seq(T), NEW n \in 0..Len(q)
  PROVE  /\ {q[i] : i \in 1..n} \in SUBSET T /\ IsFiniteSet({q[i] : i \in 1..n})
         /\ Cardinality({q[i] : i \in 1..n}) <= n
         /\ Unique(q) => Cardinality({q[i] : i \in 1..n}) = n
<1> DEFINE front == {q[i] : i \in 1..n}
           f == [i \in 1..n |-> q[i]]
<1>1. Len(q) \in Nat /\ n \in Nat /\ \A i \in 1..Len(q) : q[i] \in T
  BY LenProperties, ElementOfSeq
<1>2. front \in SUBSET T
  BY <1>1
<1>3. f \in Surjection(1..n, front)
  BY DEF Surjection
<1>4. IsFiniteSet(1..n) /\ Cardinality(1..n) = n
  BY <1>1, FS_Interval
<1>5. IsFiniteSet(front) /\ Cardinality(front) <= n
  BY <1>3, <1>4, FS_Surjection DEF ExistsSurjection
<1>6. ASSUME Unique(q) PROVE Cardinality(front) = n
  <2>1. ASSUME NEW i \in 1..n, NEW j \in 1..n, f[i] = f[j] PROVE i = j
    <3>1. i \in 1..Len(q) /\ j \in 1..Len(q) /\ q[i] = q[j]
      BY <1>1, <2>1
    <3> QED
      BY <1>6, <3>1 DEF Unique
  <2>2. f \in Bijection(1..n, front)
    BY <1>3, <2>1 DEF Bijection, Injection, IsInjective, Surjection
  <2> QED
    BY <1>4, <2>2, FS_Bijection DEF ExistsBijection
<1> QED
  BY <1>2, <1>5, <1>6

\* What stays of a sequence without its first n entries.
LEMMA Suffix ==
  ASSUME NEW T, NEW q \in Seq(T), NEW n \in 0..Len(q)
  PROVE  LET rest == SubSeq(q, n + 1, Len(q)) IN
           /\ rest \in Seq(T) /\ Len(rest) = Len(q) - n
           /\ \A i \in 1..Len(rest) : n + i \in 1..Len(q) /\ n + i > n /\ rest[i] = q[n + i]
<1> DEFINE rest == SubSeq(q, n + 1, Len(q))
<1>1. Len(q) \in Nat /\ n \in Nat /\ \A i \in 1..Len(q) : q[i] \in T
  BY LenProperties, ElementOfSeq
<1>2. /\ rest \in Seq(T)
      /\ Len(rest) = IF n + 1 <= Len(q) THEN Len(q) - (n + 1) + 1 ELSE 0
      /\ \A i \in 1..(Len(q) - (n + 1) + 1) : rest[i] = q[n + 1 + i - 1]
  BY <1>1, SubSeqProperties
<1> HIDE DEF rest
<1>3. Len(rest) = Len(q) - n /\ \A i \in 1..(Len(q) - n) : rest[i] = q[n + i]
  BY <1>1, <1>2
<1>4. \A i \in 1..Len(rest) : n + i \in 1..Len(q) /\ n + i > n /\ rest[i] = q[n + i]
  BY <1>1, <1>3
<1> QED
  BY <1>2, <1>3, <1>4 DEF rest

\* What stays of a queue when its front leaves.
LEMMA RestOfQueue ==
  ASSUME NEW T, NEW q \in Seq(T), Unique(q), NEW n \in 0..Len(q)
  PROVE  LET rest == SubSeq(q, n + 1, Len(q)) IN
           /\ rest \in Seq(T) /\ Unique(rest)
           /\ Elements(rest) \cap {q[i] : i \in 1..n} = {}
           /\ Elements(rest) \cup {q[i] : i \in 1..n} = Elements(q)
<1> DEFINE rest == SubSeq(q, n + 1, Len(q))
<1>1. Len(q) \in Nat /\ n \in Nat /\ \A i \in 1..Len(q) : q[i] \in T
  BY LenProperties, ElementOfSeq
<1>2. rest \in Seq(T) /\ Len(rest) = Len(q) - n
  BY Suffix
<1>8. \A i \in 1..Len(rest) : n + i \in 1..Len(q) /\ n + i > n /\ rest[i] = q[n + i]
  BY Suffix
<1> HIDE DEF rest
<1>3. \A i \in 1..(Len(q) - n) : rest[i] = q[n + i]
  BY <1>2, <1>8
<1>4. Unique(rest)
  <2> SUFFICES ASSUME NEW i \in 1..Len(rest), NEW j \in 1..Len(rest), rest[i] = rest[j] PROVE i = j
    BY DEF Unique
  <2>1. n + i = n + j
    BY <1>8 DEF Unique
  <2> QED
    BY <1>1, <1>3, <2>1
<1>5. Elements(rest) \cap {q[i] : i \in 1..n} = {}
  <2> SUFFICES ASSUME NEW i \in 1..Len(rest), NEW j \in 1..n, rest[i] = q[j] PROVE FALSE
    BY DEF Elements
  <2>1. j \in 1..Len(q) /\ j <= n
    BY <1>1
  <2>2. n + i = j
    BY <1>8, <2>1 DEF Unique
  <2> QED
    BY <1>8, <2>1, <2>2
<1>6. ASSUME NEW x \in Elements(q) PROVE x \in Elements(rest) \cup {q[i] : i \in 1..n}
  <2>1. PICK i \in 1..Len(q) : q[i] = x
    BY <1>6 DEF Elements
  <2>2. CASE i > n
    <3>1. i - n \in 1..Len(rest) /\ rest[i - n] = x
      BY <1>1, <1>2, <1>3, <2>1, <2>2
    <3> QED
      BY <3>1 DEF Elements
  <2> QED
    BY <1>1, <2>1, <2>2
<1>7. Elements(rest) \cup {q[i] : i \in 1..n} \subseteq Elements(q)
  <2>1. ASSUME NEW i \in 1..n PROVE q[i] \in Elements(q)
    <3>1. i \in 1..Len(q)
      BY <1>1
    <3> QED
      BY <3>1 DEF Elements
  <2>2. ASSUME NEW i \in 1..Len(rest) PROVE rest[i] \in Elements(q)
    <3>1. n + i \in 1..Len(q) /\ rest[i] = q[n + i]
      BY <1>8
    <3> QED
      BY <3>1 DEF Elements
  <2>3. Elements(rest) \subseteq Elements(q)
    <3> SUFFICES ASSUME NEW x \in Elements(rest) PROVE x \in Elements(q)
      OBVIOUS
    <3>1. PICK i \in 1..Len(rest) : x = rest[i]
      BY DEF Elements
    <3> QED
      BY <2>2, <3>1
  <2>4. {q[i] : i \in 1..n} \subseteq Elements(q)
    BY <2>1
  <2> QED
    BY <2>3, <2>4
<1> QED
  BY <1>2, <1>4, <1>5, <1>6, <1>7 DEF rest

\* What stays of a queue when its i-th entry leaves.
LEMMA RemoveOne ==
  ASSUME NEW T, NEW q \in Seq(T), Unique(q), NEW i \in 1..Len(q)
  PROVE  LET w == SubSeq(q, 1, i - 1) \o SubSeq(q, i + 1, Len(q)) IN
           w \in Seq(T) /\ Unique(w) /\ Elements(w) = Elements(q) \ {q[i]} /\ Len(w) = Len(q) - 1
<1>0. Len(q) \in Nat /\ DOMAIN q = 1..Len(q) /\ \A k \in 1..Len(q) : q[k] \in T
  BY LenProperties, ElementOfSeq
<1> DEFINE a == SubSeq(q, 1, i - 1)
           b == SubSeq(q, i + 1, Len(q))
           w == a \o b
<1>1. i \in 1..Len(q)
  OBVIOUS
<1>3. /\ a \in Seq(T) /\ Len(a) = i - 1
      /\ \A k \in 1..(i - 1) : a[k] = q[k]
  <2>1. /\ a \in Seq(T) /\ Len(a) = IF 1 <= i - 1 THEN i - 1 - 1 + 1 ELSE 0
        /\ \A k \in 1..(i - 1 - 1 + 1) : a[k] = q[1 + k - 1]
    BY <1>0, <1>1, SubSeqProperties
  <2> HIDE DEF a
  <2> QED
    BY <1>1, <2>1
<1>4. /\ b \in Seq(T) /\ Len(b) = Len(q) - i
      /\ \A k \in 1..(Len(q) - i) : b[k] = q[i + k]
  <2>1. /\ b \in Seq(T) /\ Len(b) = IF i + 1 <= Len(q) THEN Len(q) - (i + 1) + 1 ELSE 0
        /\ \A k \in 1..(Len(q) - (i + 1) + 1) : b[k] = q[i + 1 + k - 1]
    BY <1>0, <1>1, SubSeqProperties
  <2> HIDE DEF b
  <2>2. \A k \in 1..(Len(q) - i) : k \in 1..(Len(q) - (i + 1) + 1) /\ i + 1 + k - 1 = i + k
    BY <1>0, <1>1
  <2>3. Len(b) = Len(q) - i
    <3>1. CASE i + 1 <= Len(q)
      <4>1. Len(b) = Len(q) - (i + 1) + 1
        BY <2>1, <3>1
      <4>2. Len(q) \in Int /\ i \in Int
        BY <1>0, <1>1
      <4> QED
        BY <4>1, <4>2
    <3>2. CASE ~(i + 1 <= Len(q))
      <4>1. Len(b) = 0
        BY <2>1, <3>2
      <4>0. Len(q) \in Int /\ i \in Int /\ i <= Len(q)
        BY <1>0, <1>1
      <4>2. i = Len(q)
        BY <3>2, <4>0
      <4> QED
        BY <1>0, <4>1, <4>2
    <3> QED
      BY <3>1, <3>2
  <2> QED
    BY <2>1, <2>2, <2>3
<1> HIDE DEF a, b
<1>5. /\ w \in Seq(T) /\ Len(w) = Len(q) - 1
      /\ \A k \in 1..(Len(q) - 1) : w[k] = IF k < i THEN q[k] ELSE q[k + 1]
  <2>0. a \in Seq(T) /\ b \in Seq(T)
    BY <1>3, <1>4
  <2>1. /\ w \in Seq(T) /\ Len(w) = Len(a) + Len(b)
        /\ \A k \in 1..(Len(a) + Len(b)) : w[k] = IF k <= Len(a) THEN a[k] ELSE b[k - Len(a)]
    BY <2>0, ConcatProperties
  <2> HIDE DEF w
  <2>2. Len(w) = Len(q) - 1
    BY <1>0, <1>1, <1>3, <1>4, <2>1
  <2>3. ASSUME NEW k \in 1..(Len(q) - 1), k < i PROVE w[k] = q[k]
    <3>1. k \in 1..(Len(a) + Len(b)) /\ k <= Len(a) /\ k \in 1..(i - 1)
      BY <1>0, <1>1, <1>3, <1>4, <2>3
    <3> QED
      BY <1>3, <2>1, <3>1
  <2>4. ASSUME NEW k \in 1..(Len(q) - 1), ~(k < i) PROVE w[k] = q[k + 1]
    <3>1. k \in 1..(Len(a) + Len(b)) /\ ~(k <= Len(a)) /\ k - Len(a) \in 1..(Len(q) - i) /\ i + (k - Len(a)) = k + 1
      BY <1>0, <1>1, <1>3, <1>4, <2>4
    <3> QED
      BY <1>4, <2>1, <3>1
  <2> QED
    BY <2>1, <2>2, <2>3, <2>4
<1> HIDE DEF w
<1> DEFINE Place(k) == IF k < i THEN k ELSE k + 1
<1>9. \A k \in 1..Len(w) : Place(k) \in 1..Len(q) /\ Place(k) # i /\ w[k] = q[Place(k)]
  <2> SUFFICES ASSUME NEW k \in 1..Len(w)
               PROVE  Place(k) \in 1..Len(q) /\ Place(k) # i /\ w[k] = q[Place(k)]
    OBVIOUS
  <2>1. k \in 1..(Len(q) - 1)
    BY <1>5
  <2>2. Place(k) \in 1..Len(q) /\ Place(k) # i
    BY <1>0, <1>1, <2>1
  <2>3. w[k] = q[Place(k)]
    BY <1>5, <2>1
  <2> QED
    BY <2>2, <2>3
<1>6. Unique(w)
  <2> SUFFICES ASSUME NEW k \in 1..Len(w), NEW l \in 1..Len(w), w[k] = w[l] PROVE k = l
    BY DEF Unique
  <2>1. q[Place(k)] = q[Place(l)]
    BY <1>9
  <2> HIDE DEF Place
  <2>2. Place(k) = Place(l)
    BY <1>9, <2>1 DEF Unique
  <2> USE DEF Place
  <2>3. k \in Int /\ l \in Int /\ i \in Int
    BY <1>1, <1>5
  <2> QED
    BY <2>2, <2>3
<1>7. ASSUME NEW x \in Elements(w) PROVE x \in Elements(q) \ {q[i]}
  <2>1. PICK k \in 1..Len(w) : w[k] = x
    BY <1>7 DEF Elements
  <2>2. \E j \in 1..Len(q) : j # i /\ q[j] = x
    BY <1>9, <2>1
  <2> QED
    BY <1>1, <2>2 DEF Unique, Elements
<1>8. ASSUME NEW x \in Elements(q) \ {q[i]} PROVE x \in Elements(w)
  <2>1. PICK j \in 1..Len(q) : q[j] = x
    BY <1>8 DEF Elements
  <2>2. j # i
    BY <1>1, <1>8, <2>1
  <2>3. \E k \in 1..Len(w) : w[k] = x
    <3>1. CASE j < i
      <4>1. j \in 1..(Len(q) - 1) /\ j \in 1..Len(w)
        BY <1>0, <1>1, <1>5, <3>1
      <4>2. w[j] = q[j]
        BY <1>5, <3>1, <4>1
      <4> QED
        BY <2>1, <4>1, <4>2
    <3>2. CASE j > i
      <4>1. /\ j - 1 \in 1..(Len(q) - 1) /\ j - 1 \in 1..Len(w)
            /\ ~(j - 1 < i) /\ j - 1 + 1 = j
        BY <1>0, <1>1, <1>5, <3>2
      <4>2. w[j - 1] = q[j]
        BY <1>5, <4>1
      <4> QED
        BY <2>1, <4>1, <4>2
    <3> QED
      BY <1>0, <1>1, <2>1, <2>2, <3>1, <3>2
  <2> QED
    BY <2>3 DEF Elements
<1> QED
  BY <1>5, <1>6, <1>7, <1>8 DEF w, a, b

\* A queue is as long as it has members.
LEMMA QueueSize ==
  ASSUME NEW T, NEW q \in Seq(T), Unique(q)
  PROVE  /\ Elements(q) \in SUBSET T /\ IsFiniteSet(Elements(q)) /\ Cardinality(Elements(q)) = Len(q)
         /\ q = <<>> <=> Elements(q) = {}
<1>1. Len(q) \in Nat /\ Len(q) \in 0..Len(q)
  BY LenProperties
<1>2. /\ Elements(q) \in SUBSET T /\ IsFiniteSet(Elements(q)) /\ Cardinality(Elements(q)) = Len(q)
  BY <1>1, FrontSize DEF Elements
<1>3. q = <<>> <=> Len(q) = 0
  BY EmptySeq
<1>4. Len(q) = 0 <=> Elements(q) = {}
  BY <1>2, FS_EmptySet
<1> QED
  BY <1>2, <1>3, <1>4

\* Somebody new joins a queue.
LEMMA AppendNew ==
  ASSUME NEW T, NEW q \in Seq(T), Unique(q), NEW x \in T, x \notin Elements(q)
  PROVE  /\ Append(q, x) \in Seq(T) /\ Unique(Append(q, x))
         /\ Elements(Append(q, x)) = Elements(q) \cup {x}
<1> DEFINE w == Append(q, x)
<1>1. /\ w \in Seq(T) /\ Len(w) = Len(q) + 1 /\ Len(q) \in Nat
      /\ \A i \in 1..Len(q) : w[i] = q[i]
      /\ w[Len(q) + 1] = x
  BY AppendProperties, LenProperties
<1> HIDE DEF w
<1>2. ASSUME NEW i \in 1..Len(w) PROVE i \in 1..Len(q) \/ i = Len(q) + 1
  BY <1>1
<1>3. \A i \in 1..Len(q) : i \in 1..Len(w) /\ q[i] # x
  BY <1>1 DEF Elements
<1>4. Unique(w)
  <2> SUFFICES ASSUME NEW i \in 1..Len(w), NEW j \in 1..Len(w), w[i] = w[j] PROVE i = j
    BY DEF Unique
  <2>1. CASE i \in 1..Len(q) /\ j \in 1..Len(q)
    BY <1>1, <2>1 DEF Unique
  <2>2. CASE i = Len(q) + 1 \/ j = Len(q) + 1
    BY <1>1, <1>2, <1>3, <2>2
  <2> QED
    BY <1>2, <2>1, <2>2
<1>5. Len(q) + 1 \in 1..Len(w)
  BY <1>1
<1>6. Elements(w) = Elements(q) \cup {x}
  BY <1>1, <1>2, <1>3, <1>5 DEF Elements
<1> QED
  BY <1>1, <1>4, <1>6 DEF w
=============================================================================
