---------------------------- MODULE EconomyProofs ----------------------------
(***************************************************************************)
(* Proofs about EconomyLedger: how content is hidden and shown again, items  *)
(* taken down and their owners refunded, rows locked without deadlock, and   *)
(* what the ledger sums up to.                                               *)
(***************************************************************************)
EXTENDS EconomyLedger, FiniteSetTheorems, TLAPS

-----------------------------------------------------------------------------
(* Sums.  Induction is by the smallest counterexample.                       *)

LEMMA LeastNatural ==
  ASSUME NEW T, T \subseteq Nat, T # {}
  PROVE  \E n \in T : \A m \in T : n <= m
<1>1. PICK n \in T : \A m \in T : <<m, n>> \notin OpToRel(<, Nat)
  BY NatLessThanWellFounded, WFMin
<1>2. ASSUME NEW m \in T PROVE n <= m
  <2>1. <<m, n>> \in Nat \X Nat
    OBVIOUS
  <2>2. ~(m < n)
    BY <1>1, <2>1 DEF OpToRel
  <2>. QED  BY <2>2
<1>. QED  BY <1>2

Some(s) == CHOOSE x \in s : TRUE

\* g sums the subsets of S.
Sums(g, S) == g = [s \in SUBSET S |-> IF s = {} THEN 0 ELSE Some(s).delta + g[s \ {Some(s)}]]

LEMMA SumIsOne == \A S : SumOver(S) = (CHOOSE g : Sums(g, S))[S]
BY DEF SumOver, MapThenSumSet, MapThenFoldSet, Sums, Some

\* Such a g is built up from the smaller subsets.
LEMMA SumsExist == ASSUME NEW S, IsFiniteSet(S) PROVE \E g : Sums(g, S)
<1>. DEFINE Small(n) == {s \in SUBSET S : Cardinality(s) <= n}
            Upto(g, n) == g = [s \in Small(n) |-> IF s = {} THEN 0 ELSE Some(s).delta + g[s \ {Some(s)}]]
            Fails == {n \in Nat : ~ \E g : Upto(g, n)}
<1>0. ASSUME NEW s \in SUBSET S PROVE IsFiniteSet(s) /\ Cardinality(s) \in Nat
  BY FS_Subset, FS_CardinalityType
<1>1. \A s \in SUBSET S : s # {} => /\ Some(s) \in s /\ s \ {Some(s)} \in SUBSET S
                                    /\ Cardinality(s \ {Some(s)}) = Cardinality(s) - 1
  BY <1>0, FS_RemoveElement DEF Some
<1>2. 0 \notin Fails
  <2>. DEFINE g == [s \in Small(0) |-> 0]
  <2>1. ASSUME NEW s \in Small(0) PROVE s = {}
    <3>1. s \in SUBSET S /\ Cardinality(s) <= 0
      OBVIOUS
    <3>2. IsFiniteSet(s) /\ Cardinality(s) \in Nat
      BY <1>0, <3>1
    <3>3. Cardinality(s) = 0
      BY <3>1, <3>2
    <3>. QED  BY <3>2, <3>3, FS_EmptySet
  <2>2. Upto(g, 0)
    BY <2>1
  <2>. QED  BY <2>2
<1>3. ASSUME NEW n \in Nat, n \notin Fails PROVE n + 1 \notin Fails
  <2>1. PICK g : Upto(g, n)
    BY <1>3
  <2>. DEFINE h == [s \in Small(n + 1) |-> IF s = {} THEN 0 ELSE Some(s).delta + g[s \ {Some(s)}]]
  <2>2. ASSUME NEW s \in Small(n + 1), s # {} PROVE s \ {Some(s)} \in Small(n) /\ s \ {Some(s)} \in Small(n + 1)
    <3>1. s \in SUBSET S /\ Cardinality(s) <= n + 1
      OBVIOUS
    <3>. QED  BY <1>0, <1>1, <2>2, <3>1
  <2>3. ASSUME NEW s \in Small(n) PROVE s \in Small(n + 1) /\ h[s] = g[s]
    <3>0. s \in SUBSET S /\ Cardinality(s) <= n
      OBVIOUS
    <3>1. s \in Small(n + 1)
      BY <1>0, <3>0
    <3>. QED  BY <2>1, <3>1
  <2>4. Upto(h, n + 1)
    BY <2>2, <2>3
  <2>. QED  BY <2>4
<1>4. Fails = {}
  <2>0. Fails \subseteq Nat
    OBVIOUS
  <2>. HIDE DEF Fails
  <2>. SUFFICES ASSUME Fails # {} PROVE FALSE
    OBVIOUS
  <2>1. PICK n \in Fails : \A m \in Fails : n <= m
    BY <2>0, LeastNatural
  <2>2. n \in Nat /\ n # 0 /\ n - 1 \in Nat /\ n - 1 \notin Fails
    BY <1>2, <2>0, <2>1
  <2>. QED  BY <1>3, <2>2
<1>5. Cardinality(S) \in Nat
  BY FS_CardinalityType
<1>6. PICK g : Upto(g, Cardinality(S))
  BY <1>4, <1>5
<1>7. Small(Cardinality(S)) = SUBSET S
  BY FS_Subset
<1>. QED  BY <1>6, <1>7 DEF Sums

\* A counterexample among the finite subsets of S is least when its smaller ones are none.
LEMMA LeastSet ==
  ASSUME NEW S, IsFiniteSet(S), NEW F, F \subseteq SUBSET S, F # {}
  PROVE  \E s \in F : \A t \in SUBSET s : t # s => t \notin F
<1>. DEFINE Sizes == {Cardinality(s) : s \in F}
<1>1. ASSUME NEW s \in F PROVE IsFiniteSet(s) /\ Cardinality(s) \in Nat
  BY FS_Subset, FS_CardinalityType
<1>2. Sizes \subseteq Nat /\ Sizes # {}
  BY <1>1
<1>3. PICK n \in Sizes : \A m \in Sizes : n <= m
  BY <1>2, LeastNatural
<1>4. PICK s \in F : Cardinality(s) = n
  BY <1>3
<1>5. ASSUME NEW t \in SUBSET s, t # s PROVE t \notin F
  <2>1. Cardinality(t) <= Cardinality(s) /\ Cardinality(t) # Cardinality(s)
    BY <1>1, <1>5, FS_Subset
  <2>2. SUFFICES ASSUME t \in F PROVE FALSE
    OBVIOUS
  <2>3. n <= Cardinality(t)
    BY <1>3, <2>2
  <2>. QED  BY <1>1, <1>4, <2>1, <2>2, <2>3
<1>. QED  BY <1>5

Amounts(S) == \A e \in S : e.delta \in Int

LEMMA SumsAgree ==
  ASSUME NEW S, IsFiniteSet(S), NEW T, NEW g, NEW h, Sums(g, S), Sums(h, T), NEW s \in SUBSET S, s \in SUBSET T
  PROVE  g[s] = h[s]
<1>. DEFINE F == {t \in SUBSET S : t \in SUBSET T /\ g[t] # h[t]}
<1>1. F = {}
  <2>. SUFFICES ASSUME F # {} PROVE FALSE
    OBVIOUS
  <2>1. PICK t \in F : \A u \in SUBSET t : u # t => u \notin F
    <3>1. F \subseteq SUBSET S
      OBVIOUS
    <3>. HIDE DEF F
    <3>. QED  BY <3>1, LeastSet
  <2>2. CASE t = {}
    BY <2>1, <2>2 DEF Sums
  <2>3. CASE t # {}
    <3>1. Some(t) \in t
      BY <2>3 DEF Some
    <3>2. t \ {Some(t)} \notin F
      BY <2>1, <3>1
    <3>3. g[t \ {Some(t)}] = h[t \ {Some(t)}]
      BY <3>2
    <3>. QED  BY <2>1, <2>3, <3>3 DEF Sums
  <2>. QED  BY <2>2, <2>3
<1>. QED  BY <1>1

\* What the sums over a set and its subsets are.
LEMMA SumUnfolds ==
  ASSUME NEW S, IsFiniteSet(S)
  PROVE  /\ SumOver({}) = 0
         /\ S # {} => Some(S) \in S /\ SumOver(S) = Some(S).delta + SumOver(S \ {Some(S)})
<1>. DEFINE G(T) == CHOOSE g : Sums(g, T)
<1>1. ASSUME NEW T, IsFiniteSet(T) PROVE Sums(G(T), T) /\ SumOver(T) = G(T)[T]
  BY <1>1, SumsExist, SumIsOne
<1>2. IsFiniteSet({}) /\ IsFiniteSet(S \ {Some(S)})
  BY FS_EmptySet, FS_RemoveElement
<1>3. SumOver({}) = 0
  BY <1>1, <1>2 DEF Sums
<1>4. ASSUME S # {} PROVE Some(S) \in S /\ SumOver(S) = Some(S).delta + SumOver(S \ {Some(S)})
  <2>1. Some(S) \in S
    BY <1>4 DEF Some
  <2>. DEFINE g == G(S)  h == G(S \ {Some(S)})
  <2>2. Sums(g, S) /\ SumOver(S) = g[S] /\ Sums(h, S \ {Some(S)}) /\ SumOver(S \ {Some(S)}) = h[S \ {Some(S)}]
    BY <1>1, <1>2
  <2>. HIDE DEF g, h
  <2>3. g[S] = Some(S).delta + g[S \ {Some(S)}]
    BY <1>4, <2>2 DEF Sums
  <2>4. g[S \ {Some(S)}] = h[S \ {Some(S)}]
    BY <2>2, SumsAgree
  <2>. QED  BY <2>1, <2>2, <2>3, <2>4
<1>. QED  BY <1>3, <1>4

LEMMA SumIsInt ==
  ASSUME NEW S, IsFiniteSet(S), Amounts(S)
  PROVE  SumOver(S) \in Int
<1>. DEFINE F == {t \in SUBSET S : SumOver(t) \notin Int}
<1>. SUFFICES ASSUME F # {} PROVE FALSE
  OBVIOUS
<1>1. PICK t \in F : \A u \in SUBSET t : u # t => u \notin F
  <2>1. F \subseteq SUBSET S
    OBVIOUS
  <2>. HIDE DEF F
  <2>. QED  BY <2>1, LeastSet
<1>2. IsFiniteSet(t)
  BY <1>1, FS_Subset
<1>0. SumOver(t) \notin Int /\ SumOver({}) = 0
  BY <1>1, <1>2, SumUnfolds
<1>3. t # {}
  BY <1>0
<1>4. Some(t) \in t /\ SumOver(t) = Some(t).delta + SumOver(t \ {Some(t)})
  BY <1>2, <1>3, SumUnfolds
<1>5. t \ {Some(t)} \notin F
  BY <1>1, <1>4
<1>6. SumOver(t \ {Some(t)}) \in Int
  BY <1>5
<1>. QED  BY <1>1, <1>4, <1>6 DEF Amounts

\* Whichever element is taken out first.
LEMMA SumWithout ==
  ASSUME NEW S, IsFiniteSet(S), Amounts(S), NEW x \in S
  PROVE  SumOver(S) = x.delta + SumOver(S \ {x})
<1>. DEFINE F == {t \in SUBSET S : \E y \in t : SumOver(t) # y.delta + SumOver(t \ {y})}
<1>. SUFFICES ASSUME F # {} PROVE FALSE
  OBVIOUS
<1>1. PICK t \in F : \A u \in SUBSET t : u # t => u \notin F
  <2>1. F \subseteq SUBSET S
    OBVIOUS
  <2>. HIDE DEF F
  <2>. QED  BY <2>1, LeastSet
<1>2. PICK y \in t : SumOver(t) # y.delta + SumOver(t \ {y})
  BY <1>1
<1>3. IsFiniteSet(t) /\ t # {} /\ t \in SUBSET S
  BY <1>1, <1>2, FS_Subset
<1>. DEFINE z == Some(t)
<1>4. z \in t /\ SumOver(t) = z.delta + SumOver(t \ {z})
  BY <1>3, SumUnfolds
<1>. HIDE DEF z
<1>5. y # z
  BY <1>2, <1>4
<1>6. t \ {z} \notin F /\ t \ {y} \notin F
  BY <1>1, <1>2, <1>4
<1>7. SumOver(t \ {z}) = y.delta + SumOver((t \ {z}) \ {y})
  BY <1>2, <1>3, <1>5, <1>6
<1>8. SumOver(t \ {y}) = z.delta + SumOver((t \ {y}) \ {z})
  BY <1>3, <1>4, <1>5, <1>6
<1>9. (t \ {z}) \ {y} = (t \ {y}) \ {z}
  OBVIOUS
<1>10. IsFiniteSet((t \ {z}) \ {y}) /\ Amounts((t \ {z}) \ {y})
  BY <1>3, FS_RemoveElement DEF Amounts
<1>11. SumOver((t \ {z}) \ {y}) \in Int /\ y.delta \in Int /\ z.delta \in Int
  BY <1>2, <1>3, <1>4, <1>10, SumIsInt DEF Amounts
<1>12. PICK w \in Int : w = SumOver((t \ {z}) \ {y})
  BY <1>11
<1>13. SumOver(t) = z.delta + (y.delta + w)
  BY <1>4, <1>7, <1>12
<1>14. y.delta + SumOver(t \ {y}) = y.delta + (z.delta + w)
  BY <1>8, <1>9, <1>12
<1>. QED  BY <1>2, <1>11, <1>13, <1>14

LEMMA SumWith ==
  ASSUME NEW S, IsFiniteSet(S), Amounts(S), NEW x, x \notin S, x.delta \in Int
  PROVE  SumOver(S \cup {x}) = SumOver(S) + x.delta
<1>1. IsFiniteSet(S \cup {x}) /\ Amounts(S \cup {x}) /\ (S \cup {x}) \ {x} = S
  BY FS_AddElement DEF Amounts
<1>2. SumOver(S \cup {x}) = x.delta + SumOver(S)
  BY <1>1, SumWithout
<1>. QED  BY <1>2, SumIsInt

\* The sum over two sets without a common element.
LEMMA SumOfUnion ==
  ASSUME NEW S, IsFiniteSet(S), Amounts(S), NEW T, IsFiniteSet(T), Amounts(T), S \cap T = {}
  PROVE  SumOver(S \cup T) = SumOver(S) + SumOver(T)
<1>. DEFINE F == {t \in SUBSET T : SumOver(S \cup t) # SumOver(S) + SumOver(t)}
<1>. SUFFICES ASSUME F # {} PROVE FALSE
  OBVIOUS
<1>1. PICK t \in F : \A u \in SUBSET t : u # t => u \notin F
  <2>1. F \subseteq SUBSET T
    OBVIOUS
  <2>. HIDE DEF F
  <2>. QED  BY <2>1, LeastSet
<1>2. t \in SUBSET T /\ IsFiniteSet(t) /\ Amounts(t)
  BY <1>1, FS_Subset DEF Amounts
<1>3. t # {}
  <2>1. S \cup {} = S /\ SumOver({}) = 0 /\ SumOver(S) \in Int
    BY SumUnfolds, SumIsInt
  <2>2. SumOver(S \cup t) # SumOver(S) + SumOver(t)
    BY <1>1
  <2>. SUFFICES ASSUME t = {} PROVE FALSE
    OBVIOUS
  <2>3. SumOver(S \cup t) = SumOver(S) /\ SumOver(t) = 0
    BY <2>1
  <2>. QED  BY <2>1, <2>2, <2>3
<1>4. PICK x : x \in t
  BY <1>3
<1>. DEFINE u == t \ {x}
<1>5. u \notin F /\ u \in SUBSET T /\ IsFiniteSet(u) /\ Amounts(u) /\ t = u \cup {x} /\ x \notin u /\ x \notin S
  BY <1>1, <1>2, <1>4, FS_RemoveElement DEF Amounts
<1>6. SumOver(S \cup u) = SumOver(S) + SumOver(u)
  BY <1>5
<1>7. x.delta \in Int
  BY <1>2, <1>4 DEF Amounts
<1>8. IsFiniteSet(S \cup u) /\ Amounts(S \cup u) /\ x \notin S \cup u /\ S \cup t = (S \cup u) \cup {x}
  BY <1>5, FS_Union DEF Amounts
<1>. HIDE DEF u
<1>9. SumOver(S \cup t) = SumOver(S \cup u) + x.delta
  BY <1>7, <1>8, SumWith
<1>10. SumOver(t) = SumOver(u) + x.delta
  BY <1>5, <1>7, SumWith
<1>11. SumOver(S) \in Int /\ SumOver(u) \in Int
  BY <1>5, SumIsInt
<1>. QED  BY <1>1, <1>6, <1>7, <1>9, <1>10, <1>11

\* Amounts that are not negative do not sum up to less than nothing.
LEMMA SumIsNatural ==
  ASSUME NEW S, IsFiniteSet(S), Amounts(S), \A e \in S : e.delta >= 0
  PROVE  SumOver(S) >= 0
<1>. DEFINE F == {t \in SUBSET S : ~(SumOver(t) >= 0)}
<1>. SUFFICES ASSUME F # {} PROVE FALSE
  <2>1. F = {} => S \notin F
    OBVIOUS
  <2>. QED  BY <2>1
<1>1. PICK t \in F : \A u \in SUBSET t : u # t => u \notin F
  <2>1. F \subseteq SUBSET S
    OBVIOUS
  <2>. HIDE DEF F
  <2>. QED  BY <2>1, LeastSet
<1>2. IsFiniteSet(t) /\ ~(SumOver(t) >= 0) /\ SumOver({}) = 0 /\ t \in SUBSET S
  BY <1>1, FS_Subset, SumUnfolds
<1>3. t # {}
  BY <1>2
<1>4. Some(t) \in t /\ SumOver(t) = Some(t).delta + SumOver(t \ {Some(t)})
  BY <1>2, <1>3, SumUnfolds
<1>5. t \ {Some(t)} \notin F /\ t \ {Some(t)} \in SUBSET S
  BY <1>1, <1>2, <1>4
<1>6. SumOver(t \ {Some(t)}) >= 0
  BY <1>5
<1>7. IsFiniteSet(t \ {Some(t)}) /\ Amounts(t \ {Some(t)})
  BY <1>2, FS_RemoveElement DEF Amounts
<1>8. SumOver(t \ {Some(t)}) \in Int /\ Some(t).delta \in Int /\ Some(t).delta >= 0
  BY <1>2, <1>4, <1>7, SumIsInt DEF Amounts
<1>. QED  BY <1>2, <1>4, <1>6, <1>8

LEMMA SumOfOne == ASSUME NEW x, x.delta \in Int PROVE SumOver({x}) = x.delta
<1>1. IsFiniteSet({}) /\ Amounts({}) /\ SumOver({}) = 0 /\ {} \cup {x} = {x}
  BY FS_EmptySet, SumUnfolds DEF Amounts
<1>2. SumOver({} \cup {x}) = SumOver({}) + x.delta
  BY <1>1, SumWith
<1>. QED  BY <1>1, <1>2

\* Rows that change in another column sum up to the same.
LEMMA SumOfImage ==
  ASSUME NEW S, IsFiniteSet(S), Amounts(S), NEW f, \A x \in S : f[x].delta = x.delta,
         \A x, y \in S : f[x] = f[y] => x = y
  PROVE  SumOver({f[x] : x \in S}) = SumOver(S)
<1>. DEFINE Im(t) == {f[x] : x \in t}
            F == {t \in SUBSET S : SumOver(Im(t)) # SumOver(t)}
<1>. SUFFICES ASSUME F # {} PROVE FALSE
  <2>1. F = {} => S \notin F
    OBVIOUS
  <2>. QED  BY <2>1
<1>1. PICK t \in F : \A u \in SUBSET t : u # t => u \notin F
  <2>1. F \subseteq SUBSET S
    OBVIOUS
  <2>. HIDE DEF F
  <2>. QED  BY <2>1, LeastSet
<1>2. IsFiniteSet(t) /\ SumOver(Im(t)) # SumOver(t) /\ t \in SUBSET S
  BY <1>1, FS_Subset
<1>3. t # {}
  <2>1. Im({}) = {}
    OBVIOUS
  <2>. HIDE DEF Im
  <2>. QED  BY <1>2, <2>1
<1>4. PICK x : x \in t
  BY <1>3
<1>. DEFINE u == t \ {x}
<1>5. u \notin F /\ u \in SUBSET S
  BY <1>1, <1>2, <1>4
<1>6. SumOver(Im(u)) = SumOver(u)
  BY <1>5
<1>7. IsFiniteSet(u) /\ Amounts(u) /\ x \notin u /\ t = u \cup {x} /\ x.delta \in Int
  BY <1>2, <1>4, FS_RemoveElement DEF Amounts
<1>8. SumOver(t) = SumOver(u) + x.delta
  <2>. HIDE DEF u
  <2>. QED  BY <1>7, SumWith
<1>9. Im(t) = Im(u) \cup {f[x]} /\ f[x] \notin Im(u) /\ f[x].delta = x.delta
  BY <1>2, <1>4
<1>10. IsFiniteSet(Im(u)) /\ Amounts(Im(u))
  <2>1. Amounts(Im(u))
    BY <1>2 DEF Amounts
  <2>2. IsFiniteSet({f[y] : y \in u})
    <3>. DEFINE g == [y \in u |-> f[y]]
    <3>1. g \in Surjection(u, {f[y] : y \in u})
      BY DEF Surjection
    <3>. QED  BY <1>7, <3>1, FS_Surjection
  <2>. QED  BY <2>1, <2>2
<1>11. SumOver(Im(t)) = SumOver(Im(u)) + x.delta
  <2>. PICK V, y : V = Im(u) /\ y = f[x]
    OBVIOUS
  <2>. HIDE DEF Im, u
  <2>1. y.delta \in Int /\ y.delta = x.delta /\ y \notin V /\ IsFiniteSet(V) /\ Amounts(V)
    BY <1>7, <1>9, <1>10
  <2>2. SumOver(V \cup {y}) = SumOver(V) + y.delta
    BY <2>1, SumWith
  <2>. QED  BY <1>9, <2>1, <2>2
<1>. QED  BY <1>2, <1>6, <1>8, <1>11

-----------------------------------------------------------------------------
(* The order of the locks.                                                   *)

LEMMA GreatestNatural ==
  ASSUME NEW T, IsFiniteSet(T), T \subseteq Nat, T # {}
  PROVE  \E n \in T : \A m \in T : m <= n
<1>. DEFINE F == {t \in SUBSET T : t # {} /\ \A n \in t : \E m \in t : ~(m <= n)}
<1>. SUFFICES ASSUME F # {} PROVE FALSE
  OBVIOUS
<1>1. PICK t \in F : \A u \in SUBSET t : u # t => u \notin F
  <2>1. F \subseteq SUBSET T
    OBVIOUS
  <2>. HIDE DEF F
  <2>. QED  BY <2>1, LeastSet
<1>2. t \subseteq Nat /\ t # {} /\ \A n \in t : \E m \in t : ~(m <= n)
  BY <1>1
<1>3. PICK x \in t : TRUE
  BY <1>2
<1>. DEFINE u == t \ {x}
<1>4. CASE u = {}
  BY <1>2, <1>3, <1>4
<1>5. CASE u # {}
  <2>1. u \notin F /\ u \in SUBSET T
    BY <1>1, <1>3
  <2>2. PICK n \in u : \A m \in u : m <= n
    BY <1>5, <2>1
  <2>3. CASE x <= n
    BY <1>2, <2>2, <2>3
  <2>4. CASE ~(x <= n)
    <3>1. \A m \in t : m <= x
      BY <1>2, <2>2, <2>4
    <3>. QED  BY <1>2, <1>3, <3>1
  <2>. QED  BY <2>3, <2>4
<1>. QED  BY <1>4, <1>5

Rising(s) == \A i, j \in DOMAIN s : i < j => s[i] < s[j]

\* The users of a set can be put in the order of their ids.
LEMMA AscendingExists ==
  ASSUME NEW S, IsFiniteSet(S), S \subseteq Nat
  PROVE  Ascending(S) \in SetToSeqs(S) /\ Rising(Ascending(S))
<1>. DEFINE F == {t \in SUBSET S : ~ \E s \in SetToSeqs(t) : Rising(s)}
<1>1. F = {}
  <2>. SUFFICES ASSUME F # {} PROVE FALSE
    OBVIOUS
  <2>1. PICK t \in F : \A u \in SUBSET t : u # t => u \notin F
    <3>1. F \subseteq SUBSET S
      OBVIOUS
    <3>. HIDE DEF F
    <3>. QED  BY <3>1, LeastSet
  <2>2. t \subseteq Nat /\ IsFiniteSet(t) /\ ~ \E s \in SetToSeqs(t) : Rising(s)
    BY <2>1, FS_Subset
  <2>. HIDE DEF F
  <2>3. t # {}
    <3>. SUFFICES ASSUME t = {} PROVE FALSE
      OBVIOUS
    <3>1. Cardinality(t) = 0
      BY FS_EmptySet
    <3>2. <<>> \in SetToSeqs(t) /\ Rising(<<>>)
      BY <3>1 DEF SetToSeqs, Rising
    <3>. QED  BY <2>2, <3>2
  <2>4. PICK m \in t : \A n \in t : n <= m
    BY <2>2, <2>3, GreatestNatural
  <2>. DEFINE u == t \ {m}  k == Cardinality(u)
  <2>5. IsFiniteSet(u) /\ k \in Nat /\ Cardinality(t) = k + 1 /\ u \notin F /\ u \in SUBSET S
    <3>1. IsFiniteSet(u) /\ k = Cardinality(t) - 1
      BY <2>2, <2>4, FS_RemoveElement
    <3>2. k \in Nat /\ Cardinality(t) \in Nat
      BY <2>2, <3>1, FS_CardinalityType
    <3>3. u \in SUBSET t /\ u # t
      BY <2>4
    <3>4. u \notin F
      BY <2>1, <3>3
    <3>5. t \in SUBSET S
      BY <2>1 DEF F
    <3>. QED  BY <3>1, <3>2, <3>4, <3>5
  <2>6. PICK s \in SetToSeqs(u) : Rising(s)
    BY <2>5 DEF F
  <2>7. s \in [1 .. k -> u] /\ \A i, j \in 1 .. k : i # j => s[i] # s[j]
    BY <2>6 DEF SetToSeqs
  <2>. HIDE DEF k
  <2>. DEFINE w == [i \in 1 .. (k + 1) |-> IF i = k + 1 THEN m ELSE s[i]]
  <2>8. ASSUME NEW i \in 1 .. k PROVE s[i] \in Nat /\ s[i] < m /\ s[i] \in t
    <3>1. s[i] \in u
      BY <2>7
    <3>2. s[i] \in t /\ s[i] # m
      BY <3>1
    <3>3. s[i] \in Nat /\ m \in Nat /\ s[i] <= m
      BY <2>2, <2>4, <3>2
    <3>. QED  BY <3>2, <3>3
  <2>9. w \in [1 .. (k + 1) -> t] /\ \A i, j \in 1 .. (k + 1) : i # j => w[i] # w[j]
    BY <2>4, <2>5, <2>7, <2>8
  <2>10. Rising(w)
    BY <2>5, <2>6, <2>7, <2>8 DEF Rising
  <2>11. w \in SetToSeqs(t)
    BY <2>5, <2>9 DEF SetToSeqs
  <2>. QED  BY <2>2, <2>10, <2>11
<1>2. PICK s \in SetToSeqs(S) : Rising(s)
  BY <1>1
<1>. QED  BY <1>2 DEF Ascending, Rising

\* Content before item, day and wallet; a comment before its post; days and wallets by user.
Class(l) == IF l[1] = "content" THEN (IF l[2] \in Comments THEN 0 ELSE 1)
            ELSE IF l[1] = "item" THEN 1 ELSE IF l[1] = "day" THEN 2 ELSE 3
Before(l, m) == \/ Class(l) < Class(m)
                \/ Class(l) = Class(m) /\ Class(l) >= 2 /\ l[2] < m[2]
InOrder(s) == \A i, j \in DOMAIN s : i < j => Before(s[i], s[j])
AllAfter(l, s) == \A i \in DOMAIN s : Before(l, s[i])

LEMMA ClassOf ==
  /\ \A l \in Locks : Class(l) \in Nat /\ (Class(l) >= 2 => l[2] \in Users)
  /\ \A u : Class(<<"day", u>>) = 2 /\ Class(<<"wallet", u>>) = 3
  /\ \A c : c \in Comments => Class(<<"content", c>>) = 0
  /\ \A p : p \in Posts => Class(<<"content", p>>) = 1
  /\ \A i : Class(<<"item", i>>) = 1
BY ContentsAssumption DEF Class, Locks

LEMMA LocksOfOrder ==
  ASSUME NEW U, U \subseteq Users, NEW kind \in {"day", "wallet"}
  PROVE  /\ LocksOf(kind, U) \in Seq({kind} \X U) /\ InOrder(LocksOf(kind, U))
         /\ \A u \in U : \E i \in DOMAIN LocksOf(kind, U) : LocksOf(kind, U)[i] = <<kind, u>>
<1>1. IsFiniteSet(U) /\ U \subseteq Nat
  BY UsersAssumption, FS_Subset
<1>. DEFINE s == Ascending(U)  k == Cardinality(U)
<1>2. s \in SetToSeqs(U) /\ Rising(s) /\ k \in Nat
  BY <1>1, AscendingExists, FS_CardinalityType
<1>3. s \in [1 .. k -> U] /\ \A i, j \in 1 .. k : i # j => s[i] # s[j]
  BY <1>2 DEF SetToSeqs
<1>4. \A u \in U : \E i \in 1 .. k : s[i] = u
  <2>1. s \in Injection(1 .. k, U)
    BY <1>3 DEF Injection, IsInjective
  <2>2. Cardinality(1 .. k) = k
    BY <1>2, FS_Interval
  <2>3. s \in Surjection(1 .. k, U)
    BY <1>1, <2>1, <2>2, FS_Injection
  <2>. QED  BY <2>3 DEF Surjection
<1>. HIDE DEF s, k
<1>5. LocksOf(kind, U) = [i \in 1 .. k |-> <<kind, s[i]>>]
  BY <1>3 DEF LocksOf, s
<1>6. LocksOf(kind, U) \in Seq({kind} \X U)
  BY <1>2, <1>3, <1>5
<1>7. InOrder(LocksOf(kind, U))
  <2>1. \A i \in 1 .. k : Class(<<kind, s[i]>>) = IF kind = "day" THEN 2 ELSE 3
    BY DEF Class
  <2>2. \A i, j \in 1 .. k : i < j => s[i] < s[j]
    BY <1>2, <1>3 DEF Rising
  <2>. QED  BY <1>5, <2>1, <2>2 DEF InOrder, Before
<1>. QED  BY <1>4, <1>5, <1>6, <1>7

-----------------------------------------------------------------------------
(* The inductive invariant.                                                  *)

\* The rows hold what their columns can hold.
WalletOk(w) == /\ w = [REPUTATION |-> w.REPUTATION, SHARDS |-> w.SHARDS, recent |-> w.recent, rank |-> w.rank]
               /\ w.REPUTATION \in Int /\ w.SHARDS \in Int /\ w.recent \in Int

DayOk(d) == /\ d = [base |-> d.base, credited |-> d.credited, likes |-> d.likes, fromLikes |-> d.fromLikes,
                    comments |-> d.comments, fromComments |-> d.fromComments, written |-> d.written]
            /\ d.base \in Nat /\ d.credited \in Nat /\ d.likes \in Nat /\ d.fromLikes \in Int
            /\ d.comments \in Nat /\ d.fromComments \in Int /\ d.written \in Nat

Tables ==
  /\ status \in [Contents -> {"ABSENT", "PUBLISHED", "HIDDEN"}]
  /\ enforced \in [Contents -> SUBSET Scopes]
  /\ flips \in [Contents -> Nat]
  /\ wallet = [u \in Users |-> wallet[u]] /\ \A u \in Users : WalletOk(wallet[u])
  /\ today = [u \in Users |-> today[u]] /\ \A u \in Users : DayOk(today[u])
  /\ active \in [Items -> BOOLEAN]
  /\ owners \in [Items -> SUBSET Users]
  /\ equipped \subseteq Users \X Items

\* The first part of an idempotency key says what the row is for.
KeyHead ==
  [LIKE_RECEIVED |-> "like", COMMENT_RECEIVED |-> "comment", LIKE_MILESTONE |-> "milestone",
   COMMENT_WRITTEN |-> "comment-written", DAILY_CHECKIN |-> "checkin", ADMIN_ADJUST |-> "adjust",
   REVOKED |-> "revoke", RESTORED |-> "restore", TAKEDOWN_REFUND |-> "takedown"]

Returns == {"REVOKED", "RESTORED"}

RowOk(e) ==
  /\ e = [key |-> e.key, user |-> e.user, currency |-> e.currency, delta |-> e.delta, reason |-> e.reason,
          on |-> e.on, award |-> e.award, taken |-> e.taken]
  /\ e.user \in Users /\ e.currency \in Currencies /\ e.delta \in Int /\ e.taken \in Int /\ e.taken >= -1
  /\ e.reason \in DOMAIN KeyHead /\ e.key # <<>> /\ e.key[1] = KeyHead[e.reason]
  /\ e.reason = "TAKEDOWN_REFUND" => e.key = <<"takedown", e.on, e.user>>
  /\ IsAward(e) => e.on \in Contents /\ e.delta > 0
  /\ e.reason \notin Returns => e.award = <<>>


Book ==
  /\ IsFiniteSet(ledger) /\ \A e \in ledger : RowOk(e)
  /\ \A e, f \in ledger : e.key = f.key /\ {e.reason, f.reason} \cap Returns = {} => e = f

\* The lock each transaction takes first, and holds from then on.
FirstLock(r) ==
  IF r.op \in ContentCalls THEN <<"content", r.on>>
  ELSE IF r.op = "COMMENT" THEN <<"content", PostOf[r.on]>>
  ELSE IF r.op = "CHECKIN" THEN <<"day", r.who>>
  ELSE IF r.op = "ADJUST" THEN <<"wallet", r.who>> ELSE <<"item", r.on>>

CallOk(q) ==
  /\ q = [at |-> q.at, want |-> q.want, held |-> q.held, found |-> q.found, saw |-> q.saw]
  /\ q.at \in {"closed", "locking", "decided"}
  /\ q.want \in Seq(Locks) /\ q.held \subseteq Locks
  /\ q.saw = [u \in Users |-> q.saw[u]] /\ \A u \in Users : WalletOk(q.saw[u])

\* Locks are taken in order, the first of them before the request decides.
Locking(r) ==
  LET q == request[r]
  IN /\ q.at = "closed" => q.want = <<>> /\ q.held = {}
     /\ q.at = "locking" => \/ q.want = <<FirstLock(r)>> /\ q.held = {}
                            \/ q.want = <<>> /\ q.held = {FirstLock(r)}
     /\ q.at = "decided" => FirstLock(r) \in q.held
     /\ InOrder(q.want) /\ \A l \in q.held : AllAfter(l, q.want)

\* A moderator found awards.
TypedFor(r, q) ==
  r.op \in {"HIDE", "UNHIDE", "REVERSE"} =>
    IsFiniteSet(q.found) /\ \A a \in q.found : RowOk(a) /\ IsAward(a) /\ a.on = r.on

Exclusive == \A r, q \in Requests : r # q => request[r].held \cap request[q].held = {}

Calls ==
  /\ request = [r \in Requests |-> request[r]]
  /\ \A r \in Requests : CallOk(request[r]) /\ Locking(r) /\ TypedFor(r, request[r])
  /\ Exclusive

\* A comment is absent until the call that writes it commits; nobody moderates what is absent.
Visibility ==
  /\ HiddenWhileRestricted
  /\ \A r \in Requests :
       /\ r.op = "COMMENT" /\ IsOpen(r) => status[r.on] = "ABSENT"
       /\ r.op \in {"HIDE", "UNHIDE", "REVERSE"} /\ request[r].at = "decided" => status[r.on] # "ABSENT"

\* What was decided about an item stays true while it is locked.
ItemsDecided ==
  /\ NobodyWearsRemovedItems
  /\ \A r \in Requests : request[r].at = "decided" =>
       /\ r.op \in {"GRANT", "EQUIP"} => active[r.on]
       /\ r.op = "EQUIP" => r.who \in owners[r.on]
       /\ r.op = "TAKEDOWN" => request[r].found = owners[r.on]

RefundsWritten ==
  \A i \in Items, u \in Users : ~active[i] /\ u \in owners[i] => <<"takedown", i, u>> \in Keys

IInv == Tables /\ Book /\ Calls /\ Visibility /\ ItemsDecided /\ RefundsWritten

-----------------------------------------------------------------------------
(* Calls and their locks.                                                    *)

LEMMA FirstLockOf ==
  ASSUME NEW r \in Requests
  PROVE  FirstLocks(r) = <<FirstLock(r)>> /\ FirstLock(r) \in Locks
<1>1. r.op \in ContentCalls \cup ItemCalls \cup {"COMMENT", "CHECKIN", "ADJUST"}
  BY RequestsAssumption
<1>2. CASE r.op \in ContentCalls
  BY <1>2, RequestsAssumption DEF FirstLocks, FirstLock, ContentCalls, ItemCalls, LocksItem, Locks
<1>3. CASE r.op = "COMMENT"
  BY <1>3, RequestsAssumption, AuthorAssumption DEF FirstLocks, FirstLock, ContentCalls, ItemCalls, LocksItem, Locks, Contents
<1>4. CASE r.op = "CHECKIN"
  BY <1>4, RequestsAssumption DEF FirstLocks, FirstLock, ContentCalls, ItemCalls, LocksItem, Locks
<1>5. CASE r.op = "ADJUST"
  BY <1>5, RequestsAssumption DEF FirstLocks, FirstLock, ContentCalls, ItemCalls, LocksItem, Locks
<1>6. CASE r.op \in ItemCalls
  BY <1>6, RequestsAssumption DEF FirstLocks, FirstLock, ContentCalls, ItemCalls, Locks, LocksItem
<1>. QED  BY <1>1, <1>2, <1>3, <1>4, <1>5, <1>6

LEMMA ClosedOk == CallOk(Closed) /\ Closed.at = "closed" /\ Closed.want = <<>> /\ Closed.held = {}
BY DEF CallOk, Closed, NewWallet, WalletOk

\* A request becomes c, in the order of the locks.
Turns(r, c) == request' = [request EXCEPT ![r] = c]

Follows(r, c) ==
  /\ CallOk(c)
  /\ c.at = "closed" => c.want = <<>> /\ c.held = {}
  /\ c.at = "locking" => \/ c.want = <<FirstLock(r)>> /\ c.held = {}
                         \/ c.want = <<>> /\ c.held = {FirstLock(r)}
  /\ c.at = "decided" => FirstLock(r) \in c.held
  /\ InOrder(c.want) /\ \A l \in c.held : AllAfter(l, c.want)
  /\ \A q \in Requests : q # r => c.held \cap request[q].held = {}

LEMMA CallsTurn ==
  ASSUME Calls, NEW r \in Requests, NEW c, Turns(r, c), Follows(r, c), TypedFor(r, c)
  PROVE  Calls'
<1>1. \A q \in Requests : request'[q] = IF q = r THEN c ELSE request[q]
  BY DEF Calls, Turns
<1>2. request' = [q \in Requests |-> request'[q]]
  BY DEF Calls, Turns
<1>3. ASSUME NEW q \in Requests PROVE CallOk(request'[q]) /\ Locking(q)' /\ TypedFor(q, request'[q])
  <2>1. CASE q = r
    BY <1>1, <2>1 DEF Follows, Locking
  <2>2. CASE q # r
    BY <1>1, <2>2 DEF Calls, Locking
  <2>. QED  BY <2>1, <2>2
<1>4. Exclusive'
  BY <1>1 DEF Calls, Exclusive, Follows
<1>5. \A q \in Requests : TypedFor(q, request[q])'
  BY <1>3 DEF TypedFor, RowOk, IsAward
<1>. QED  BY <1>2, <1>3, <1>4, <1>5 DEF Calls

LEMMA EmptyOrder == InOrder(<<>>) /\ \A l : AllAfter(l, <<>>)
BY DEF InOrder, AllAfter

LEMMA CloseCalls ==
  ASSUME Calls, NEW r \in Requests, Turns(r, Closed)
  PROVE  Calls'
<1>1. Follows(r, Closed) /\ TypedFor(r, Closed)
  BY ClosedOk, EmptyOrder, FS_EmptySet DEF Follows, Closed, TypedFor
<1>. QED  BY <1>1, CallsTurn

LEMMA OpenCalls ==
  ASSUME Calls, NEW r \in Requests, Open(r)
  PROVE  Calls'
<1>. DEFINE c == [Closed EXCEPT !.at = "locking", !.want = FirstLocks(r)]
<1>1. Turns(r, c)
  BY DEF Open, Turns
<1>2. CallOk(c) /\ c.at = "locking" /\ c.want = <<FirstLock(r)>> /\ c.held = {}
  <2>1. <<FirstLock(r)>> \in Seq(Locks)
    BY FirstLockOf
  <2>0. Closed.saw = [u \in Users |-> NewWallet]
    BY DEF Closed
  <2>2. c = [at |-> "locking", want |-> FirstLocks(r), held |-> {}, found |-> {}, saw |-> [u \in Users |-> NewWallet]]
    <3>. DEFINE saw == [u \in Users |-> NewWallet]
    <3>1. Closed = [at |-> "closed", want |-> <<>>, held |-> {}, found |-> {}, saw |-> saw]
      BY DEF Closed
    <3>. HIDE DEF saw
    <3>2. PICK d, k, want : d = c /\ k = Closed /\ want = FirstLocks(r)
      OBVIOUS
    <3>3. d = [k EXCEPT !.at = "locking", !.want = want]
      BY <3>2
    <3>4. k = [at |-> "closed", want |-> <<>>, held |-> {}, found |-> {}, saw |-> saw]
      BY <3>1, <3>2
    <3>. HIDE DEF c
    <3>5. d = [at |-> "locking", want |-> want, held |-> {}, found |-> {}, saw |-> saw]
      BY <3>3, <3>4
    <3>. QED  BY <3>2, <3>5 DEF saw
  <2>3. \A u \in Users : WalletOk([v \in Users |-> NewWallet][u])
    BY ClosedOk, <2>0 DEF CallOk
  <2>. HIDE DEF c
  <2>. QED  BY <2>1, <2>2, <2>3, FirstLockOf DEF CallOk
<1>. HIDE DEF c
<1>3. InOrder(c.want)
  BY <1>2 DEF InOrder
<1>4. Follows(r, c)
  BY <1>2, <1>3 DEF Follows
<1>5. c.found = {}
  BY DEF c, Closed
<1>6. TypedFor(r, c)
  BY <1>5, FS_EmptySet DEF TypedFor
<1>. QED  BY <1>1, <1>4, <1>6, CallsTurn

\* What a lock changes in a request.
Locked(r) ==
  LET lock == Head(request[r].want)
  IN [request[r] EXCEPT !.want = Tail(@), !.held = @ \cup {lock},
        !.saw = IF lock[1] = "wallet" THEN [@ EXCEPT ![lock[2]] = wallet[lock[2]]] ELSE @]

LEMMA AcquireTurns ==
  ASSUME Calls, NEW r \in Requests, Acquire(r)
  PROVE  /\ Turns(r, Locked(r)) /\ request[r].want # <<>> /\ Free(Head(request[r].want))
         /\ Locked(r).at = request[r].at /\ Locked(r).found = request[r].found
         /\ Locked(r).want = Tail(request[r].want) /\ Locked(r).held = request[r].held \cup {Head(request[r].want)}
         /\ Locked(r).saw = [u \in Users |-> IF Head(request[r].want) = <<"wallet", u>> THEN wallet[u] ELSE request[r].saw[u]]
<1>. PICK q : q = request[r]
  OBVIOUS
<1>1. CallOk(q)
  BY DEF Calls
<1>2. Turns(r, Locked(r)) /\ q.want # <<>> /\ Free(Head(q.want))
  BY DEF Acquire, Turns, Locked, Calls
<1>3. Head(q.want) \in Locks
  BY <1>1, <1>2 DEF CallOk
<1>. PICK lock : lock = Head(q.want)
  OBVIOUS
<1>4. IF lock[1] = "wallet" THEN \E u \in Users : lock = <<"wallet", u>> ELSE \A u : lock # <<"wallet", u>>
  BY <1>3 DEF Locks
<1>5. Locked(r) = [at |-> q.at, want |-> Tail(q.want), held |-> q.held \cup {lock}, found |-> q.found,
                   saw |-> IF lock[1] = "wallet" THEN [q.saw EXCEPT ![lock[2]] = wallet[lock[2]]] ELSE q.saw]
  <2>1. Locked(r) = [q EXCEPT !.want = Tail(q.want), !.held = q.held \cup {lock},
                       !.saw = IF lock[1] = "wallet" THEN [q.saw EXCEPT ![lock[2]] = wallet[lock[2]]] ELSE q.saw]
    BY <1>1 DEF Locked, CallOk
  <2>2. q = [at |-> q.at, want |-> q.want, held |-> q.held, found |-> q.found, saw |-> q.saw]
    BY <1>1 DEF CallOk
  <2>. QED  BY <2>1, <2>2
<1>6. (IF lock[1] = "wallet" THEN [q.saw EXCEPT ![lock[2]] = wallet[lock[2]]] ELSE q.saw)
        = [u \in Users |-> IF lock = <<"wallet", u>> THEN wallet[u] ELSE q.saw[u]]
  <2>1. CASE lock[1] = "wallet"
    BY <1>1, <1>4, <2>1 DEF CallOk
  <2>2. CASE lock[1] # "wallet"
    BY <1>1, <1>4, <2>2 DEF CallOk
  <2>. QED  BY <2>1, <2>2
<1>. QED  BY <1>2, <1>5, <1>6

LEMMA AcquireCalls ==
  ASSUME Calls, Tables, NEW r \in Requests, Acquire(r)
  PROVE  Calls'
<1>. PICK q, c : q = request[r] /\ c = Locked(r)
  OBVIOUS
<1>1. /\ CallOk(q) /\ Locking(r)
      /\ InOrder(q.want) /\ \A l \in q.held : AllAfter(l, q.want)
      /\ TypedFor(r, q)
  BY DEF Calls, Locking
<1>. PICK lock : lock = Head(q.want)
  OBVIOUS
<1>2. /\ Turns(r, c) /\ q.want # <<>> /\ Free(lock) /\ c.at = q.at /\ c.found = q.found
      /\ c.want = Tail(q.want) /\ c.held = q.held \cup {lock}
      /\ c.saw = [u \in Users |-> IF lock = <<"wallet", u>> THEN wallet[u] ELSE q.saw[u]]
  BY AcquireTurns
<1>3. q.want \in Seq(Locks) /\ lock \in Locks /\ c.want \in Seq(Locks)
  BY <1>1, <1>2 DEF CallOk
<1>4. CallOk(c)
  <2>1. c = [at |-> c.at, want |-> c.want, held |-> c.held, found |-> c.found, saw |-> c.saw]
    BY <1>1 DEF Locked, CallOk
  <2>2. \A u \in Users : WalletOk(c.saw[u])
    BY <1>1, <1>2 DEF CallOk, Tables
  <2>. QED  BY <1>1, <1>2, <1>3, <2>1, <2>2 DEF CallOk
<1>5. /\ DOMAIN c.want = 1 .. (Len(q.want) - 1) /\ lock = q.want[1] /\ Len(q.want) \in Nat \ {0}
      /\ DOMAIN q.want = 1 .. Len(q.want)
      /\ \A i \in DOMAIN c.want : c.want[i] = q.want[i + 1]
  BY <1>2, <1>3
<1>. PICK n \in Nat \ {0} : n = Len(q.want)
  BY <1>5
<1>6. InOrder(c.want)
  <2>. SUFFICES ASSUME NEW i \in DOMAIN c.want, NEW j \in DOMAIN c.want, i < j PROVE Before(c.want[i], c.want[j])
    BY DEF InOrder
  <2>1. i \in 1 .. (n - 1) /\ j \in 1 .. (n - 1)
    BY <1>5
  <2>2. i + 1 \in 1 .. n /\ j + 1 \in 1 .. n /\ i + 1 < j + 1
    BY <2>1
  <2>3. Before(q.want[i + 1], q.want[j + 1])
    BY <1>1, <1>5, <2>2 DEF InOrder
  <2>. QED  BY <1>5, <2>3
<1>7. AllAfter(lock, c.want)
  <2>. SUFFICES ASSUME NEW i \in DOMAIN c.want PROVE Before(lock, c.want[i])
    BY DEF AllAfter
  <2>1. i \in 1 .. (n - 1)
    BY <1>5
  <2>2. 1 \in 1 .. n /\ i + 1 \in 1 .. n /\ 1 < i + 1
    BY <2>1
  <2>3. Before(q.want[1], q.want[i + 1])
    BY <1>1, <1>5, <2>2 DEF InOrder
  <2>. QED  BY <1>5, <2>3
<1>8. \A l \in c.held : AllAfter(l, c.want)
  <2>1. ASSUME NEW l \in q.held, NEW i \in DOMAIN c.want PROVE Before(l, c.want[i])
    <3>1. i + 1 \in DOMAIN q.want /\ c.want[i] = q.want[i + 1]
      BY <1>5
    <3>. QED  BY <1>1, <3>1 DEF AllAfter
  <2>2. \A l \in q.held : AllAfter(l, c.want)
    BY <2>1 DEF AllAfter
  <2>. QED  BY <1>2, <1>7, <2>2
<1>9. c.at = "locking" => c.want = <<>> /\ c.held = {FirstLock(r)}
  <2>. SUFFICES ASSUME c.at = "locking" PROVE c.want = <<>> /\ c.held = {FirstLock(r)}
    OBVIOUS
  <2>1. q.want = <<FirstLock(r)>> /\ q.held = {}
    BY <1>1, <1>2 DEF Locking
  <2>2. lock = FirstLock(r)
    BY <1>5, <2>1
  <2>. QED  BY <1>2, <2>1, <2>2
<1>10. \A p \in Requests : p # r => c.held \cap request[p].held = {}
  BY <1>2 DEF Calls, Exclusive, Free
<1>11. c.at # "closed"
  BY <1>1, <1>2 DEF Locking
<1>12. c.at = "decided" => FirstLock(r) \in c.held
  BY <1>1, <1>2 DEF Locking
<1>13. Follows(r, c)
  BY <1>4, <1>6, <1>8, <1>9, <1>10, <1>11, <1>12 DEF Follows
<1>14. TypedFor(r, c)
  BY <1>1, <1>2 DEF TypedFor
<1>. QED  BY <1>2, <1>13, <1>14, CallsTurn

\* Lists of locks, one after the other.
LEMMA OrderOfTwo ==
  ASSUME NEW s \in Seq(Locks), NEW t \in Seq(Locks), InOrder(s), InOrder(t),
         \A i \in DOMAIN s, j \in DOMAIN t : Before(s[i], t[j])
  PROVE  /\ s \o t \in Seq(Locks) /\ InOrder(s \o t)
         /\ \A l : AllAfter(l, s) /\ AllAfter(l, t) => AllAfter(l, s \o t)
         /\ \A i \in DOMAIN t : \E k \in DOMAIN (s \o t) : (s \o t)[k] = t[i]
<1>0. Len(s) \in Nat /\ Len(t) \in Nat
  OBVIOUS
<1>. PICK m \in Nat, n \in Nat : m = Len(s) /\ n = Len(t)
  BY <1>0
<1>. PICK w : w = s \o t
  OBVIOUS
<1>1. /\ DOMAIN s = 1 .. m /\ DOMAIN t = 1 .. n /\ DOMAIN w = 1 .. (m + n) /\ w \in Seq(Locks)
      /\ \A i \in 1 .. m : w[i] = s[i]
      /\ \A i \in 1 .. (m + n) : i > m => w[i] = t[i - m] /\ i - m \in 1 .. n
      /\ \A i \in 1 .. n : m + i \in 1 .. (m + n) /\ w[m + i] = t[i]
  OBVIOUS
<1>2. ASSUME NEW i \in 1 .. (m + n), NEW j \in 1 .. (m + n), i < j PROVE Before(w[i], w[j])
  <2>1. CASE j <= m
    <3>1. i \in 1 .. m /\ j \in 1 .. m
      BY <1>2, <2>1
    <3>. QED  BY <1>1, <1>2, <3>1 DEF InOrder
  <2>2. CASE i <= m /\ j > m
    <3>1. i \in 1 .. m /\ j - m \in 1 .. n
      BY <1>2, <2>2
    <3>2. w[i] = s[i] /\ w[j] = t[j - m]
      BY <1>1, <2>2, <3>1
    <3>. QED  BY <1>1, <3>1, <3>2, ZenonT(40)
  <2>3. CASE i > m
    <3>1. i - m \in 1 .. n /\ j - m \in 1 .. n /\ i - m < j - m /\ j > m
      BY <1>2, <2>3
    <3>2. Before(t[i - m], t[j - m])
      BY <1>1, <3>1 DEF InOrder
    <3>3. w[i] = t[i - m] /\ w[j] = t[j - m]
      BY <1>1, <2>3, <3>1
    <3>. QED  BY <3>2, <3>3
  <2>. QED  BY <2>1, <2>2, <2>3
<1>3. InOrder(w)
  BY <1>1, <1>2 DEF InOrder
<1>4. ASSUME NEW l, AllAfter(l, s), AllAfter(l, t) PROVE AllAfter(l, w)
  BY <1>1, <1>4 DEF AllAfter
<1>. QED  BY <1>1, <1>3, <1>4

LEMMA LocksOfAfter ==
  ASSUME NEW U, U \subseteq Users, NEW kind \in {"day", "wallet"}
  PROVE  /\ LocksOf(kind, U) \in Seq(Locks) /\ InOrder(LocksOf(kind, U))
         /\ \A i \in DOMAIN LocksOf(kind, U) : Class(LocksOf(kind, U)[i]) = IF kind = "day" THEN 2 ELSE 3
<1>. PICK s : s = LocksOf(kind, U)
  OBVIOUS
<1>1. s \in Seq({kind} \X U) /\ InOrder(s)
  BY LocksOfOrder
<1>2. {kind} \X U \subseteq Locks
  BY DEF Locks
<1>3. \A i \in DOMAIN s : s[i] \in {kind} \X U
  BY <1>1
<1>4. \A u \in U : Class(<<kind, u>>) = IF kind = "day" THEN 2 ELSE 3
  BY ClassOf
<1>. QED  BY <1>1, <1>2, <1>3, <1>4

\* Whose wallets a call writes, after those it locks first.
Paid(r) ==
  CASE r.op = "LIKE" /\ Earns(r) -> {Author[r.on]}
    [] r.op = "COMMENT" /\ Author[PostOf[r.on]] # r.who -> {r.who, Author[PostOf[r.on]]}
    [] r.op = "CHECKIN" -> {r.who}
    [] r.op \in {"HIDE", "UNHIDE", "REVERSE"} /\ (Hides(r) \/ Publishes(r)) -> {e.user : e \in Found(r)}
    [] r.op = "TAKEDOWN" -> Found(r)
    [] OTHER -> {}

\* What is locked before those.
Ahead(r) ==
  CASE r.op = "LIKE" /\ Earns(r) -> LocksOf("day", {Author[r.on]})
    [] r.op = "COMMENT" /\ Author[PostOf[r.on]] # r.who -> LocksOf("day", {r.who, Author[PostOf[r.on]]})
    [] r.op \in {"HIDE", "UNHIDE", "REVERSE"} /\ (Hides(r) \/ Publishes(r)) /\ r.on \in Comments ->
         <<<<"content", PostOf[r.on]>>>>
    [] OTHER -> <<>>

LEMMA PaidUsers ==
  ASSUME Tables, Book, NEW r \in Requests
  PROVE  Paid(r) \subseteq Users
<1>1. \A e \in ledger : e.user \in Users
  BY DEF Book, RowOk
<1>2. Hides(r) \/ Publishes(r) => Found(r) \subseteq ledger
  <2>1. \A b : AwardsOn(r.on, b) \subseteq ledger
    BY DEF AwardsOn
  <2>2. Hides(r) \/ Publishes(r) => r.op # "TAKEDOWN"
    BY DEF Hides, Publishes
  <2>. QED  BY <2>1, <2>2 DEF Found
<1>3. r.op = "TAKEDOWN" => Found(r) = owners[r.on] /\ r.on \in Items
  BY RequestsAssumption DEF Found, Hides, Publishes, ItemCalls
<1>4. r.op \in {"LIKE", "HIDE"} => r.on \in Contents
  BY RequestsAssumption DEF ContentCalls
<1>5. r.op = "LIKE" => Author[r.on] \in Users
  BY <1>4, AuthorAssumption
<1>6. r.op = "COMMENT" => r.who \in Users /\ Author[PostOf[r.on]] \in Users
  BY RequestsAssumption, AuthorAssumption DEF Contents
<1>7. r.op = "CHECKIN" => r.who \in Users
  BY RequestsAssumption
<1>8. r.op = "TAKEDOWN" => Found(r) \subseteq Users
  BY <1>3 DEF Tables
<1>. QED  BY <1>1, <1>2, <1>5, <1>6, <1>7, <1>8 DEF Paid

LEMMA AheadOrder ==
  ASSUME NEW r \in Requests
  PROVE  /\ Ahead(r) \in Seq(Locks) /\ InOrder(Ahead(r)) /\ AllAfter(FirstLock(r), Ahead(r))
         /\ \A i \in DOMAIN Ahead(r) : Class(Ahead(r)[i]) < 3
         /\ r.op # "ADJUST" => Class(FirstLock(r)) < 3
<1>. PICK s : s = Ahead(r)
  OBVIOUS
<1>0. r.op # "ADJUST" => Class(FirstLock(r)) < 3
  <2>1. r.op \in ItemCalls => r.op \notin ContentCalls \cup {"COMMENT", "CHECKIN", "ADJUST"}
    BY DEF ItemCalls, ContentCalls
  <2>2. r.op \in ContentCalls \cup ItemCalls \cup {"COMMENT", "CHECKIN", "ADJUST"}
    BY RequestsAssumption
  <2>. QED  BY <2>1, <2>2, ClassOf DEF FirstLock, Class
<1>1. CASE s = <<>>
  BY <1>0, <1>1, EmptyOrder
<1>2. CASE r.op \in {"LIKE", "COMMENT"} /\ s # <<>>
  <2>1. PICK U : U \subseteq Users /\ s = LocksOf("day", U)
    <3>1. CASE r.op = "LIKE"
      BY <1>2, <3>1, RequestsAssumption, AuthorAssumption DEF Ahead, ContentCalls
    <3>2. CASE r.op = "COMMENT"
      BY <1>2, <3>2, RequestsAssumption, AuthorAssumption DEF Ahead, Contents
    <3>. QED  BY <1>2, <3>1, <3>2
  <2>2. s \in Seq(Locks) /\ InOrder(s) /\ \A i \in DOMAIN s : Class(s[i]) = 2
    BY <2>1, LocksOfAfter
  <2>3. Class(FirstLock(r)) \in 0 .. 1
    BY <1>2, ContentsAssumption DEF FirstLock, Class, ContentCalls
  <2>. QED  BY <1>0, <2>2, <2>3 DEF AllAfter, Before
<1>3. CASE r.op \notin {"LIKE", "COMMENT"} /\ s # <<>>
  <2>1. r.op \in {"HIDE", "UNHIDE", "REVERSE"} /\ r.on \in Comments /\ s = <<<<"content", PostOf[r.on]>>>>
    BY <1>3 DEF Ahead
  <2>2. PostOf[r.on] \in Posts /\ FirstLock(r) = <<"content", r.on>>
    BY <2>1, AuthorAssumption DEF FirstLock, ContentCalls
  <2>3. Class(FirstLock(r)) = 0 /\ Class(<<"content", PostOf[r.on]>>) = 1 /\ <<"content", PostOf[r.on]>> \in Locks
    BY <2>1, <2>2, ClassOf DEF Locks, Contents
  <2>4. s \in Seq(Locks) /\ DOMAIN s = {1} /\ s[1] = <<"content", PostOf[r.on]>>
    BY <2>1, <2>3
  <2>5. InOrder(s)
    BY <2>4 DEF InOrder
  <2>. QED  BY <1>0, <2>3, <2>4, <2>5 DEF AllAfter, Before
<1>. QED  BY <1>1, <1>2, <1>3

LEMMA NextLocksOrder ==
  ASSUME Tables, Book, NEW r \in Requests
  PROVE  /\ NextLocks(r) \in Seq(Locks) /\ InOrder(NextLocks(r)) /\ AllAfter(FirstLock(r), NextLocks(r))
         /\ \A u \in Paid(r) : \E i \in DOMAIN NextLocks(r) : NextLocks(r)[i] = <<"wallet", u>>
<1>. PICK s, P : s = Ahead(r) /\ P = Paid(r)
  OBVIOUS
<1>1. P \subseteq Users
  BY PaidUsers
<1>. PICK w : w = LocksOf("wallet", P)
  OBVIOUS
<1>2. /\ w \in Seq(Locks) /\ InOrder(w) /\ \A i \in DOMAIN w : Class(w[i]) = 3
      /\ \A u \in P : \E i \in DOMAIN w : w[i] = <<"wallet", u>>
  BY <1>1, LocksOfAfter, LocksOfOrder
<1>3. /\ s \in Seq(Locks) /\ InOrder(s) /\ AllAfter(FirstLock(r), s) /\ \A i \in DOMAIN s : Class(s[i]) < 3
      /\ r.op # "ADJUST" => Class(FirstLock(r)) < 3
  BY AheadOrder
<1>4. CASE P = {} /\ NextLocks(r) = <<>>
  BY <1>4, EmptyOrder
<1>5. CASE NextLocks(r) = s \o w /\ r.op # "ADJUST"
  <2>1. \A i \in DOMAIN s, j \in DOMAIN w : Before(s[i], w[j])
    BY <1>2, <1>3 DEF Before
  <2>2. AllAfter(FirstLock(r), w)
    BY <1>2, <1>3, <1>5 DEF AllAfter, Before
  <2>. PICK z : z = s \o w
    OBVIOUS
  <2>3. z \in Seq(Locks) /\ InOrder(z) /\ \A i \in DOMAIN w : \E k \in DOMAIN z : z[k] = w[i]
    BY <1>2, <1>3, <2>1, OrderOfTwo
  <2>4. AllAfter(FirstLock(r), z)
    BY <1>2, <1>3, <2>1, <2>2, OrderOfTwo
  <2>5. ASSUME NEW u \in P PROVE \E k \in DOMAIN z : z[k] = <<"wallet", u>>
    <3>1. PICK i \in DOMAIN w : w[i] = <<"wallet", u>>
      BY <1>2
    <3>2. PICK k \in DOMAIN z : z[k] = w[i]
      BY <2>3
    <3>. QED  BY <3>1, <3>2
  <2>6. NextLocks(r) = z
    BY <1>5
  <2>. HIDE <1>5
  <2>. QED  BY <2>3, <2>4, <2>5, <2>6
<1>6. r.op \in {"HIDE", "UNHIDE", "REVERSE"} \/ ~(Hides(r) \/ Publishes(r))
  BY DEF Hides, Publishes
<1>7. <<>> \o w = w
  BY <1>2
<1>8. CASE r.op = "LIKE"
  <2>1. CASE Earns(r)
    BY <1>5, <1>8, <2>1 DEF NextLocks, Paid, Ahead
  <2>2. CASE ~Earns(r)
    BY <1>4, <1>8, <2>2 DEF NextLocks, Paid, Ahead
  <2>. QED  BY <2>1, <2>2
<1>9. CASE r.op = "COMMENT"
  <2>1. CASE Author[PostOf[r.on]] # r.who
    BY <1>5, <1>9, <2>1 DEF NextLocks, Paid, Ahead, CommentLocks
  <2>2. CASE Author[PostOf[r.on]] = r.who
    BY <1>4, <1>9, <2>2 DEF NextLocks, Paid, Ahead
  <2>. QED  BY <2>1, <2>2
<1>10. CASE r.op = "CHECKIN"
  BY <1>5, <1>7, <1>10 DEF NextLocks, Paid, Ahead
<1>11. CASE r.op = "TAKEDOWN"
  BY <1>5, <1>7, <1>11 DEF NextLocks, Paid, Ahead
<1>12. CASE Hides(r) \/ Publishes(r)
  <2>1. r.op \in {"HIDE", "UNHIDE", "REVERSE"}
    BY <1>6, <1>12
  <2>2. P = {e.user : e \in Found(r)}
    BY <1>12, <2>1 DEF Paid
  <2>3. NextLocks(r) = s \o w
    BY <1>7, <1>12, <2>1, <2>2 DEF NextLocks, Ahead
  <2>. QED  BY <1>5, <2>1, <2>3
<1>13. CASE r.op \notin {"LIKE", "COMMENT", "CHECKIN", "TAKEDOWN"} /\ ~(Hides(r) \/ Publishes(r))
  BY <1>4, <1>13 DEF NextLocks, Paid
<1>. QED  BY <1>8, <1>9, <1>10, <1>11, <1>12, <1>13

\* What a request becomes when it decides.
Decided(r) == [request[r] EXCEPT !.at = "decided", !.want = NextLocks(r), !.found = Found(r)]

LEMMA DecideTurns ==
  ASSUME Calls, NEW r \in Requests, Decide(r)
  PROVE  /\ request[r].at = "locking" /\ request[r].want = <<>> /\ request[r].held = {FirstLock(r)}
         /\ \/ ~Admitted(r) /\ Turns(r, Closed)
            \/ Admitted(r) /\ Turns(r, Decided(r))
         /\ Decided(r) = [at |-> "decided", want |-> NextLocks(r), held |-> {FirstLock(r)}, found |-> Found(r),
                          saw |-> request[r].saw]
<1>. PICK q, want, found : q = request[r] /\ want = NextLocks(r) /\ found = Found(r)
  OBVIOUS
<1>1. CallOk(q) /\ q.at = "locking" /\ q.want = <<>>
  BY DEF Calls, Decide
<1>2. q.held = {FirstLock(r)}
  BY <1>1 DEF Calls, Locking
<1>. DEFINE c == IF Admitted(r) THEN Decided(r) ELSE Closed
<1>0. request' = [request EXCEPT ![r] = c]
  BY DEF Decide, Decided, Calls
<1>. HIDE DEF c
<1>3. Admitted(r) => Turns(r, Decided(r))
  BY <1>0 DEF Turns, c
<1>4. ~Admitted(r) => Turns(r, Closed)
  BY <1>0 DEF Turns, c
<1>5. q = [at |-> q.at, want |-> q.want, held |-> q.held, found |-> q.found, saw |-> q.saw]
  BY <1>1 DEF CallOk
<1>6. Decided(r) = [q EXCEPT !.at = "decided", !.want = want, !.found = found]
  BY DEF Decided
<1>7. Decided(r) = [at |-> "decided", want |-> want, held |-> q.held, found |-> found, saw |-> q.saw]
  BY <1>5, <1>6
<1>. QED  BY <1>1, <1>2, <1>3, <1>4, <1>7

LEMMA FoundTyped ==
  ASSUME Book, NEW r \in Requests
  PROVE  TypedFor(r, Decided(r))
<1>1. \A b : AwardsOn(r.on, b) \subseteq ledger /\ \A a \in AwardsOn(r.on, b) : IsAward(a) /\ a.on = r.on
  BY DEF AwardsOn
<1>2. r.op \in {"HIDE", "UNHIDE", "REVERSE"} => Found(r) \in {{}, AwardsOn(r.on, TRUE), AwardsOn(r.on, FALSE)}
  BY DEF Found
<1>3. r.op \in {"HIDE", "UNHIDE", "REVERSE"} =>
        Found(r) \subseteq ledger /\ \A a \in Found(r) : RowOk(a) /\ IsAward(a) /\ a.on = r.on
  BY <1>1, <1>2 DEF Book
<1>. QED  BY <1>3, FS_Subset DEF Book, TypedFor, Decided

LEMMA DecideCalls ==
  ASSUME Calls, Tables, Book, NEW r \in Requests, Decide(r)
  PROVE  Calls'
<1>. PICK q, c, want : q = request[r] /\ c = Decided(r) /\ want = NextLocks(r)
  OBVIOUS
<1>0. /\ q.at = "locking" /\ q.want = <<>> /\ q.held = {FirstLock(r)}
      /\ Turns(r, Closed) \/ Turns(r, c)
  BY DecideTurns
<1>. PICK found : found = Found(r)
  OBVIOUS
<1>10. c = [at |-> "decided", want |-> want, held |-> {FirstLock(r)}, found |-> found, saw |-> q.saw]
  BY DecideTurns
<1>1. /\ q.at = "locking" /\ q.want = <<>> /\ q.held = {FirstLock(r)}
      /\ Turns(r, Closed) \/ Turns(r, c)
      /\ c = [at |-> "decided", want |-> want, held |-> q.held, found |-> c.found, saw |-> q.saw]
  BY <1>0, <1>10
<1>2. CallOk(q)
  BY DEF Calls
<1>3. want \in Seq(Locks) /\ InOrder(want) /\ AllAfter(FirstLock(r), want)
  BY NextLocksOrder
<1>4. c.at = "decided" /\ c.want = want /\ c.held = q.held /\ c.saw = q.saw
  BY <1>1
<1>5. CallOk(c)
  BY <1>1, <1>2, <1>3, <1>4 DEF CallOk
<1>6. \A p \in Requests : p # r => c.held \cap request[p].held = {}
  BY <1>4 DEF Calls, Exclusive
<1>7. Follows(r, c)
  BY <1>1, <1>3, <1>4, <1>5, <1>6 DEF Follows
<1>8. TypedFor(r, c)
  BY FoundTyped
<1>. QED  BY <1>1, <1>7, <1>8, CallsTurn, CloseCalls

LEMMA BeforeIsStrict ==
  /\ \A l \in Locks : ~Before(l, l)
  /\ \A l, m, n \in Locks : Before(l, m) /\ Before(m, n) => Before(l, n)
<1>1. \A l \in Locks : Class(l) \in Nat /\ (Class(l) >= 2 => l[2] \in Nat)
  BY ClassOf, UsersAssumption
<1>. QED  BY <1>1 DEF Before

\* What each of a set of waiting requests waits for comes later than what it holds: no such set is closed.
LEMMA OrderAvoidsDeadlock == ASSUME Calls PROVE NoDeadlock
<1>. SUFFICES ASSUME NEW W \in SUBSET {r \in Requests : IsOpen(r)}, W # {},
                     \A r \in W : \E q \in W : WaitsFor(r, q)
              PROVE  FALSE
  BY DEF NoDeadlock
<1>. DEFINE Goal(r) == Head(request[r].want)
            F == {t \in SUBSET W : t # {} /\ \A r \in t : \E q \in t : Before(Goal(r), Goal(q))}
<1>1. ASSUME NEW r \in W PROVE /\ request[r].want # <<>> /\ Goal(r) \in Locks
                               /\ \E q \in W : Before(Goal(r), Goal(q))
  <2>1. PICK q \in W : WaitsFor(r, q)
    OBVIOUS
  <2>2. request[r].want # <<>> /\ Goal(r) \in request[q].held
    BY <2>1 DEF WaitsFor
  <2>3. request[q].want # <<>>
    BY DEF WaitsFor
  <2>4. request[r].want \in Seq(Locks) /\ request[q].want \in Seq(Locks) /\ r \in Requests /\ q \in Requests
    BY DEF Calls, CallOk
  <2>5. AllAfter(Goal(r), request[q].want)
    BY <2>2, <2>4 DEF Calls, Locking
  <2>6. 1 \in DOMAIN request[q].want /\ Goal(q) = request[q].want[1]
    BY <2>3, <2>4
  <2>7. Before(Goal(r), Goal(q))
    BY <2>5, <2>6 DEF AllAfter
  <2>8. Goal(r) \in Locks
    BY <2>2, <2>4
  <2>. QED  BY <2>2, <2>7, <2>8
<1>. HIDE DEF Goal
<1>2. W \in F
  BY <1>1
<1>3. PICK t \in F : \A u \in SUBSET t : u # t => u \notin F
  <2>1. F \subseteq SUBSET W /\ IsFiniteSet(W)
    BY RequestsAssumption, FS_Subset
  <2>. HIDE DEF F
  <2>. QED  BY <1>2, <2>1, LeastSet
<1>4. t \in SUBSET W /\ \A r \in t : \E q \in t : Before(Goal(r), Goal(q))
  BY <1>3
<1>5. PICK x \in t : TRUE
  BY <1>3
<1>6. PICK y \in t : Before(Goal(x), Goal(y))
  BY <1>4
<1>7. \A r \in t : Goal(r) \in Locks
  BY <1>1, <1>4
<1>8. y # x
  BY <1>6, <1>7, BeforeIsStrict
<1>9. ASSUME NEW r \in t \ {x} PROVE \E q \in t \ {x} : Before(Goal(r), Goal(q))
  <2>1. PICK q \in t : Before(Goal(r), Goal(q))
    BY <1>4
  <2>2. CASE q = x
    <3>1. Before(Goal(r), Goal(y))
      BY <1>6, <1>7, <2>1, <2>2, BeforeIsStrict
    <3>. QED  BY <1>8, <3>1
  <2>. QED  BY <2>1, <2>2
<1>10. t \ {x} \in F
  BY <1>4, <1>8, <1>9
<1>. QED  BY <1>3, <1>5, <1>10

-----------------------------------------------------------------------------
(* The rows of the ledger.                                                   *)

LEMMA FiniteRange ==
  ASSUME NEW S, IsFiniteSet(S), NEW f
  PROVE  IsFiniteSet({f[x] : x \in S})
<1>. DEFINE g == [x \in S |-> f[x]]
<1>1. g \in Surjection(S, {f[x] : x \in S})
  BY DEF Surjection
<1>. QED  BY <1>1, FS_Surjection

LEMMA EntryOk ==
  ASSUME NEW key, key # <<>>, NEW user \in Users, NEW currency \in Currencies, NEW delta \in Int,
         NEW reason \in DOMAIN KeyHead, key[1] = KeyHead[reason], NEW on,
         reason \in AwardReasons => on \in Contents /\ delta > 0,
         reason = "TAKEDOWN_REFUND" => key = <<"takedown", on, user>>
  PROVE  RowOk(Entry(key, user, currency, delta, reason, on))
BY DEF RowOk, Entry, Row, IsAward

LEMMA ReturnOk ==
  ASSUME NEW key, key # <<>>, NEW user \in Users, NEW currency \in Currencies, NEW delta \in Int,
         NEW reason \in Returns, key[1] = KeyHead[reason], NEW on, NEW award
  PROVE  RowOk(Row(key, user, currency, delta, reason, on, award))
BY DEF RowOk, Row, IsAward, AwardReasons, Returns, KeyHead

LEMMA RowIsWhat ==
  ASSUME NEW e, RowOk(e), NEW f, RowOk(f), e.key = f.key
  PROVE  e.reason = f.reason
BY DEF RowOk, KeyHead

\* The rows a transaction posts: each with a key of its own.
Postable(entries) ==
  /\ IsFiniteSet(entries)
  /\ \A e \in entries : RowOk(e) /\ e.reason \notin Returns
  /\ \A e, f \in entries : e.key = f.key => e = f

LEMMA PostBook ==
  ASSUME Book, NEW r, NEW entries, Postable(entries), Post(r, entries)
  PROVE  Book' /\ Keys \subseteq Keys' /\ \A e \in entries : e.key \in Keys'
<1>1. ledger' = ledger \cup entries /\ \A e \in entries : \A f \in ledger : e.key # f.key
  BY DEF Post, Keys
<1>2. IsFiniteSet(ledger')
  BY <1>1, FS_Union DEF Book, Postable
<1>3. \A e \in ledger' : RowOk(e)'
  BY <1>1 DEF Book, Postable, RowOk, IsAward
<1>4. \A e, f \in ledger' : e.key = f.key /\ {e.reason, f.reason} \cap Returns = {} => e = f
  BY <1>1 DEF Book, Postable
<1>. QED  BY <1>1, <1>2, <1>3, <1>4 DEF Book, Keys

-----------------------------------------------------------------------------
(* The points of a day.                                                      *)

\* One more step, from what was paid before it.
Stepping(s, step) ==
  LET paid == Smaller(step.upTo - s.points, s.left \div step.per)
  IN IF s.full THEN [points |-> s.points + paid, left |-> s.left - paid * step.per,
                     full |-> s.points + paid = step.upTo]
     ELSE s
Unpaid(count) == [points |-> 0, left |-> count, full |-> TRUE]
Steps(g, count, steps, n) == g = [i \in 0 .. n |-> IF i = 0 THEN Unpaid(count) ELSE Stepping(g[i - 1], steps[i])]

LEMMA StepsExist ==
  ASSUME NEW count, NEW steps, NEW n \in Nat
  PROVE  \E g : Steps(g, count, steps, n)
<1>. DEFINE Fails == {m \in Nat : ~ \E g : Steps(g, count, steps, m)}
<1>1. 0 \notin Fails
  <2>. DEFINE g == [i \in 0 .. 0 |-> Unpaid(count)]
  <2>1. Steps(g, count, steps, 0)
    BY DEF Steps
  <2>. QED  BY <2>1
<1>2. ASSUME NEW m \in Nat, m \notin Fails PROVE m + 1 \notin Fails
  <2>1. PICK g : Steps(g, count, steps, m)
    BY <1>2
  <2>. DEFINE h == [i \in 0 .. (m + 1) |-> IF i = 0 THEN Unpaid(count) ELSE Stepping(g[i - 1], steps[i])]
  <2>2. ASSUME NEW i \in 0 .. m PROVE h[i] = g[i]
    BY <2>1 DEF Steps
  <2>3. ASSUME NEW i \in 0 .. (m + 1), i # 0 PROVE h[i - 1] = g[i - 1]
    BY <2>2, <2>3
  <2>4. Steps(h, count, steps, m + 1)
    BY <2>3 DEF Steps
  <2>. QED  BY <2>4
<1>3. Fails = {}
  <2>0. Fails \subseteq Nat
    OBVIOUS
  <2>. HIDE DEF Fails
  <2>. SUFFICES ASSUME Fails # {} PROVE FALSE
    OBVIOUS
  <2>1. PICK m \in Fails : \A k \in Fails : m <= k
    BY <2>0, LeastNatural
  <2>2. m \in Nat /\ m # 0 /\ m - 1 \in Nat /\ m - 1 \notin Fails
    BY <1>1, <2>0, <2>1
  <2>. QED  BY <1>2, <2>2
<1>. QED  BY <1>3

StepRow == [upTo : Nat, per : Nat \ {0}]
Paying == [points : Int, left : Int, full : BOOLEAN]

LEMMA SteppedPointsIsInt ==
  ASSUME NEW count \in Int, NEW steps \in {LikeSteps, CommentSteps}
  PROVE  SteppedPoints(count, steps) \in Int
<1>0. steps \in Seq(StepRow)
  BY StepsAssumption DEF StepRow
<1>. PICK n \in Nat : n = Len(steps)
  BY <1>0
<1>. DEFINE g == CHOOSE g : Steps(g, count, steps, n)
<1>1. Steps(g, count, steps, n)
  BY StepsExist
<1>2. SteppedPoints(count, steps) = g[n].points
  BY DEF SteppedPoints, Steps, Stepping, Unpaid
<1>. HIDE DEF g
<1>3. ASSUME NEW s \in Paying, NEW step \in StepRow PROVE Stepping(s, step) \in Paying
  <2>1. s.left \div step.per \in Int
    BY DEF Paying, StepRow
  <2>2. PICK q \in Int : q = s.left \div step.per
    BY <2>1
  <2>3. Smaller(step.upTo - s.points, q) \in Int
    BY DEF Smaller, Paying, StepRow
  <2>4. PICK paid \in Int : paid = Smaller(step.upTo - s.points, s.left \div step.per)
    BY <2>2, <2>3
  <2>. USE DEF StepRow
  <2>5. Stepping(s, step) = IF s.full THEN [points |-> s.points + paid, left |-> s.left - paid * step.per,
                                            full |-> s.points + paid = step.upTo]
                            ELSE s
    BY <2>4 DEF Stepping
  <2>6. s.points + paid \in Int /\ paid * step.per \in Int /\ s.left - paid * step.per \in Int
    BY DEF Paying
  <2>. QED  BY <2>5, <2>6 DEF Paying
<1>. DEFINE Fails == {i \in Nat : i \in 0 .. n /\ g[i] \notin Paying}
<1>4. Fails = {}
  <2>0. Fails \subseteq Nat
    OBVIOUS
  <2>1. 0 \notin Fails
    BY <1>1 DEF Steps, Paying, Unpaid
  <2>2. ASSUME NEW i \in Nat, i # 0, i - 1 \notin Fails PROVE i \notin Fails
    <3>. SUFFICES ASSUME i \in 0 .. n PROVE g[i] \in Paying
      OBVIOUS
    <3>1. i - 1 \in 0 .. n /\ i \in 1 .. n
      BY <2>2
    <3>2. g[i - 1] \in Paying
      BY <2>2, <3>1
    <3>4. steps[i] \in StepRow
      BY <1>0, <3>1
    <3>3. g[i] = Stepping(g[i - 1], steps[i])
      BY <1>1, <2>2 DEF Steps
    <3>. QED  BY <1>3, <3>2, <3>3, <3>4
  <2>. HIDE DEF Fails
  <2>. SUFFICES ASSUME Fails # {} PROVE FALSE
    OBVIOUS
  <2>3. PICK m \in Fails : \A k \in Fails : m <= k
    BY <2>0, LeastNatural
  <2>4. m \in Nat /\ m # 0 /\ m - 1 \in Nat /\ m - 1 \notin Fails
    BY <2>0, <2>1, <2>3
  <2>. QED  BY <2>2, <2>3, <2>4
<1>5. g[n] \in Paying
  BY <1>4
<1>. QED  BY <1>2, <1>5 DEF Paying

-----------------------------------------------------------------------------
(* What awards write.                                                        *)

LEMMA SteppedOk ==
  ASSUME NEW day, DayOk(day), NEW gained \in Int, NEW counter \in {"likes", "comments"}
  PROVE  DayOk(Stepped(day, counter, gained)) /\ Stepped(day, counter, gained).credited = day.credited
<1>. PICK d : d = Stepped(day, counter, gained)
  OBVIOUS
<1>1. day = [base |-> day.base, credited |-> day.credited, likes |-> day.likes, fromLikes |-> day.fromLikes,
             comments |-> day.comments, fromComments |-> day.fromComments, written |-> day.written]
  BY DEF DayOk
<1>2. CASE counter = "likes"
  <2>1. d = [day EXCEPT !.likes = day.likes + 1, !.fromLikes = day.fromLikes + gained]
    BY <1>1, <1>2 DEF Stepped
  <2>2. d = [base |-> day.base, credited |-> day.credited, likes |-> day.likes + 1, fromLikes |-> day.fromLikes + gained,
             comments |-> day.comments, fromComments |-> day.fromComments, written |-> day.written]
    BY <1>1, <2>1
  <2>. QED  BY <2>2 DEF DayOk
<1>3. CASE counter = "comments"
  <2>1. d = [day EXCEPT !.comments = day.comments + 1, !.fromComments = day.fromComments + gained]
    BY <1>1, <1>3 DEF Stepped
  <2>2. d = [base |-> day.base, credited |-> day.credited, likes |-> day.likes, fromLikes |-> day.fromLikes,
             comments |-> day.comments + 1, fromComments |-> day.fromComments + gained, written |-> day.written]
    BY <1>1, <2>1
  <2>. QED  BY <2>2 DEF DayOk
<1>. QED  BY <1>2, <1>3

LEMMA WithShardsOk ==
  ASSUME NEW day, DayOk(day), NEW base \in Nat
  PROVE  /\ DayOk(WithShards(day, base)) /\ WithShards(day, base).credited >= day.credited
         /\ day.credited <= DailyShardCap => WithShards(day, base).credited <= DailyShardCap
<1>1. ShardsToCredit(day.base + base, day.credited) \in Nat /\ DailyShardCap \in Nat
  BY AmountsAssumption DEF ShardsToCredit, Larger, Smaller, DayOk
<1>. PICK more \in Nat : more = ShardsToCredit(day.base + base, day.credited)
  BY <1>1
<1>2. day.credited <= DailyShardCap => day.credited + more <= DailyShardCap
  BY <1>1 DEF ShardsToCredit, Larger, Smaller, DayOk
<1>3. day = [base |-> day.base, credited |-> day.credited, likes |-> day.likes, fromLikes |-> day.fromLikes,
             comments |-> day.comments, fromComments |-> day.fromComments, written |-> day.written]
  BY DEF DayOk
<1>4. WithShards(day, base) = [day EXCEPT !.base = day.base + base, !.credited = day.credited + more]
  BY <1>3 DEF WithShards
<1>5. WithShards(day, base) =
        [base |-> day.base + base, credited |-> day.credited + more, likes |-> day.likes, fromLikes |-> day.fromLikes,
         comments |-> day.comments, fromComments |-> day.fromComments, written |-> day.written]
  BY <1>3, <1>4
<1>. QED  BY <1>2, <1>5 DEF DayOk

LEMMA OnlyRows ==
  ASSUME NEW condition, NEW e, condition => RowOk(e)
  PROVE  /\ IsFiniteSet(Only(condition, e)) /\ \A f \in Only(condition, e) : RowOk(f) /\ f = e
         /\ \A a, b \in Only(condition, e) : a.key = b.key => a = b
BY FS_EmptySet, FS_Singleton DEF Only

\* What one interaction earns the owner: a row of Reputation and a row of Shards, and the day that counts them.
Earning(r, owner, reason, key, received) ==
  /\ DayOk(received.day) /\ received.gained \in Int
  /\ \E gained, shards \in Int :
       /\ received.day.credited = today[owner].credited + shards /\ shards >= 0
       /\ today[owner].credited <= DailyShardCap => received.day.credited <= DailyShardCap
       /\ received.entries =
            Only(gained > 0, Entry(key \o <<"rep">>, owner, "REPUTATION", gained, reason, r.on))
              \cup Only(shards > 0, Entry(key \o <<"shards">>, owner, "SHARDS", shards, reason, r.on))

LEMMA ReceivedIs ==
  ASSUME Tables, NEW r, NEW owner \in Users, NEW counter \in {"likes", "comments"}, NEW reason, NEW key
  PROVE  Earning(r, owner, reason, key, Received(r, owner, counter, reason, key))
<1>. PICK day : day = today[owner]
  OBVIOUS
<1>1. DayOk(day)
  BY DEF Tables
<1>. DEFINE gained == IF HasRoom(owner, r.who) THEN Larger(0, Points(day, counter)) ELSE 0
            stepped == IF HasRoom(owner, r.who) THEN Stepped(day, counter, gained) ELSE day
            after == WithShards(stepped, InteractionShards)
            shards == after.credited - stepped.credited
<1>2. Points(day, counter) \in Int
  <2>1. day.likes + 1 \in Int /\ day.comments + 1 \in Int /\ day.fromLikes \in Int /\ day.fromComments \in Int
    BY <1>1 DEF DayOk
  <2>2. SteppedPoints(day.likes + 1, LikeSteps) \in Int /\ SteppedPoints(day.comments + 1, CommentSteps) \in Int
    BY <2>1, SteppedPointsIsInt
  <2>. QED  BY <2>1, <2>2 DEF Points
<1>3. gained \in Int
  BY <1>2 DEF Larger
<1>4. DayOk(stepped) /\ stepped.credited = day.credited
  BY <1>1, <1>3, SteppedOk
<1>5. /\ DayOk(after) /\ after.credited >= stepped.credited
      /\ stepped.credited <= DailyShardCap => after.credited <= DailyShardCap
  BY <1>4, WithShardsOk, AmountsAssumption
<1>6. shards \in Int /\ shards >= 0 /\ after.credited = day.credited + shards
  BY <1>4, <1>5 DEF DayOk
<1>7. Received(r, owner, counter, reason, key) =
        [day |-> after, gained |-> gained,
         entries |-> Only(gained > 0, Entry(key \o <<"rep">>, owner, "REPUTATION", gained, reason, r.on))
                       \cup Only(shards > 0, Entry(key \o <<"shards">>, owner, "SHARDS", shards, reason, r.on))]
  BY DEF Received
<1>. HIDE DEF gained, stepped, after, shards
<1>. QED  BY <1>3, <1>4, <1>5, <1>6, <1>7 DEF Earning

KeyOfInteraction(reason, key) ==
  \E c, u : \/ reason = "LIKE_RECEIVED" /\ key = <<"like", c, u>>
            \/ reason = "COMMENT_RECEIVED" /\ key = <<"comment", c, u>>

LEMMA EarningRows ==
  ASSUME NEW r, NEW owner \in Users, NEW reason, NEW key, NEW received, Earning(r, owner, reason, key, received),
         r.on \in Contents, KeyOfInteraction(reason, key)
  PROVE  Postable(received.entries) /\ \A e \in received.entries : e.reason = reason /\ e.user = owner
<1>1. PICK gained, shards \in Int :
        /\ shards >= 0
        /\ received.entries =
             Only(gained > 0, Entry(key \o <<"rep">>, owner, "REPUTATION", gained, reason, r.on))
               \cup Only(shards > 0, Entry(key \o <<"shards">>, owner, "SHARDS", shards, reason, r.on))
  BY DEF Earning
<1>. PICK k, m : k = key \o <<"rep">> /\ m = key \o <<"shards">>
  OBVIOUS
<1>. PICK c, u : \/ reason = "LIKE_RECEIVED" /\ key = <<"like", c, u>>
                 \/ reason = "COMMENT_RECEIVED" /\ key = <<"comment", c, u>>
  BY DEF KeyOfInteraction
<1>2. reason \in AwardReasons /\ reason \in DOMAIN KeyHead /\ reason \notin Returns /\ reason # "TAKEDOWN_REFUND"
  BY DEF AwardReasons, KeyHead, Returns
<1>3. k # <<>> /\ k[1] = KeyHead[reason] /\ m # <<>> /\ m[1] = KeyHead[reason] /\ k # m
  BY DEF KeyHead
<1>. PICK d, e : /\ d = Entry(k, owner, "REPUTATION", gained, reason, r.on)
                 /\ e = Entry(m, owner, "SHARDS", shards, reason, r.on)
  OBVIOUS
<1>4. d.key = k /\ d.reason = reason /\ d.user = owner /\ e.key = m /\ e.reason = reason /\ e.user = owner
  BY DEF Entry, Row
<1>5. gained > 0 => RowOk(d)
  BY <1>2, <1>3, EntryOk DEF Currencies
<1>6. shards > 0 => RowOk(e)
  BY <1>2, <1>3, EntryOk DEF Currencies
<1>. DEFINE D == Only(gained > 0, d)  E == Only(shards > 0, e)
<1>7. IsFiniteSet(D) /\ IsFiniteSet(E) /\ (\A f \in D : RowOk(f) /\ f = d) /\ (\A f \in E : RowOk(f) /\ f = e)
  <2>1. IsFiniteSet({}) /\ IsFiniteSet({d}) /\ IsFiniteSet({e})
    BY FS_EmptySet, FS_Singleton
  <2>2. IsFiniteSet(D) /\ \A f \in D : RowOk(f) /\ f = d
    BY <1>5, <2>1 DEF Only
  <2>3. IsFiniteSet(E) /\ \A f \in E : RowOk(f) /\ f = e
    BY <1>6, <2>1 DEF Only
  <2>. QED  BY <2>2, <2>3
<1>8. received.entries = D \cup E
  BY <1>1
<1>. HIDE DEF D, E
<1>9. IsFiniteSet(D \cup E)
  BY <1>7, FS_Union
<1>10. \A f \in D \cup E : RowOk(f) /\ f.reason = reason /\ f.user = owner
  BY <1>4, <1>7
<1>11. \A f, g \in D \cup E : f.key = g.key => f = g
  BY <1>3, <1>4, <1>7
<1>. QED  BY <1>2, <1>8, <1>9, <1>10, <1>11 DEF Postable

LEMMA PostableUnion ==
  ASSUME NEW S, NEW T, Postable(S), Postable(T), \A s \in S, t \in T : s.reason # t.reason
  PROVE  Postable(S \cup T)
<1>1. \A s \in S, t \in T : s.key # t.key
  BY RowIsWhat DEF Postable
<1>. QED  BY <1>1, FS_Union DEF Postable

LEMMA PostableOne ==
  ASSUME NEW condition, NEW e, condition => RowOk(e), e.reason \notin Returns
  PROVE  Postable(Only(condition, e))
BY OnlyRows DEF Postable

-----------------------------------------------------------------------------
(* The wallets.                                                              *)

LEMMA MovedIsInt ==
  ASSUME NEW entries, IsFiniteSet(entries), \A e \in entries : RowOk(e), NEW u, NEW currency
  PROVE  Moved(entries, u, currency) \in Int
<1>. DEFINE S == {e \in entries : e.user = u /\ e.currency = currency}
<1>1. IsFiniteSet(S) /\ Amounts(S)
  BY FS_Subset DEF Amounts, RowOk
<1>. QED  BY <1>1, SumIsInt DEF Moved

\* What an award adds to the recent Reputation.
Earned(entries, u) == SumOver({e \in entries : e.user = u /\ e.currency = "REPUTATION" /\ IsAward(e)})

LEMMA CreditedIs ==
  ASSUME Tables, NEW entries, IsFiniteSet(entries), \A e \in entries : RowOk(e), NEW saw, NEW u \in Users
  PROVE  LET reputation == Moved(entries, u, "REPUTATION")
             w == Credited(entries, saw)[u]
         IN /\ Credited(entries, saw) = [v \in Users |-> Credited(entries, saw)[v]]
            /\ WalletOk(w)
            /\ w.REPUTATION = wallet[u].REPUTATION + reputation
            /\ w.SHARDS = wallet[u].SHARDS + Moved(entries, u, "SHARDS")
            /\ w.recent = wallet[u].recent + Earned(entries, u)
            /\ w.rank = IF reputation = 0 THEN wallet[u].rank
                        ELSE RankFor(saw[u].REPUTATION + reputation, Larger(0, saw[u].recent + Earned(entries, u)))
<1>. PICK rep, sha, earned : /\ rep = Moved(entries, u, "REPUTATION") /\ sha = Moved(entries, u, "SHARDS")
                             /\ earned = Earned(entries, u)
  OBVIOUS
<1>1. rep \in Int /\ sha \in Int
  BY MovedIsInt
<1>2. earned \in Int
  <2>. DEFINE S == {e \in entries : e.user = u /\ e.currency = "REPUTATION" /\ IsAward(e)}
  <2>1. IsFiniteSet(S) /\ Amounts(S)
    BY FS_Subset DEF Amounts, RowOk
  <2>. QED  BY <2>1, SumIsInt DEF Earned
<1>. PICK old : old = wallet[u]
  OBVIOUS
<1>3. WalletOk(old)
  BY DEF Tables
<1>4. old = [REPUTATION |-> old.REPUTATION, SHARDS |-> old.SHARDS, recent |-> old.recent, rank |-> old.rank]
  BY <1>3 DEF WalletOk
<1>. PICK rank : rank = IF rep = 0 THEN old.rank
                        ELSE RankFor(saw[u].REPUTATION + rep, Larger(0, saw[u].recent + earned))
  OBVIOUS
<1>. PICK w : w = Credited(entries, saw)[u]
  OBVIOUS
<1>5. w = [old EXCEPT !.REPUTATION = old.REPUTATION + rep, !.SHARDS = old.SHARDS + sha,
                      !.recent = old.recent + earned, !.rank = rank]
  BY <1>4 DEF Credited, Earned
<1>6. w = [REPUTATION |-> old.REPUTATION + rep, SHARDS |-> old.SHARDS + sha, recent |-> old.recent + earned, rank |-> rank]
  BY <1>4, <1>5
<1>7. Credited(entries, saw) = [v \in Users |-> Credited(entries, saw)[v]]
  BY DEF Credited
<1>8. WalletOk(w) /\ w.REPUTATION = old.REPUTATION + rep /\ w.SHARDS = old.SHARDS + sha /\ w.recent = old.recent + earned /\ w.rank = rank
  BY <1>1, <1>2, <1>3, <1>6 DEF WalletOk
<1>. QED  BY <1>7, <1>8

LEMMA PostWallets ==
  ASSUME Tables, NEW r, NEW entries, Postable(entries), Post(r, entries)
  PROVE  wallet' = [u \in Users |-> wallet'[u]] /\ \A u \in Users : WalletOk(wallet'[u])
<1>. PICK w : w = wallet'
  OBVIOUS
<1>1. w = Credited(entries, request[r].saw) /\ IsFiniteSet(entries) /\ \A e \in entries : RowOk(e)
  BY DEF Post, Postable
<1>2. w = [u \in Users |-> w[u]]
  BY <1>1 DEF Credited
<1>3. \A u \in Users : WalletOk(w[u])
  BY <1>1, CreditedIs
<1>. QED  BY <1>2, <1>3

-----------------------------------------------------------------------------
(* What each commit posts.                                                   *)

LikeRows(r) ==
  LET owner == Author[r.on]
      nth == 1 + Cardinality({i \in counted : i[1] = "LIKE" /\ i[2] = r.on})
      bonus == IF nth \in DOMAIN Milestones THEN Milestones[nth] ELSE 0
  IN Received(r, owner, "likes", "LIKE_RECEIVED", <<"like", r.on, r.who>>).entries \cup
       Only(bonus > 0, Entry(<<"milestone", r.on, nth>>, owner, "SHARDS", bonus, "LIKE_MILESTONE", r.on))

LEMMA LikeRowsPostable ==
  ASSUME Tables, NEW r \in Requests, r.op = "LIKE"
  PROVE  Postable(LikeRows(r))
<1>1. r.on \in Contents /\ Author[r.on] \in Users
  BY RequestsAssumption, AuthorAssumption DEF ContentCalls
<1>. PICK owner \in Users : owner = Author[r.on]
  BY <1>1
<1>. PICK key : key = <<"like", r.on, r.who>>
  OBVIOUS
<1>. DEFINE nth == 1 + Cardinality({i \in counted : i[1] = "LIKE" /\ i[2] = r.on})
            bonus == IF nth \in DOMAIN Milestones THEN Milestones[nth] ELSE 0
            received == Received(r, owner, "likes", "LIKE_RECEIVED", key)
            extra == Entry(<<"milestone", r.on, nth>>, owner, "SHARDS", bonus, "LIKE_MILESTONE", r.on)
<1>2. Earning(r, owner, "LIKE_RECEIVED", key, received)
  BY ReceivedIs
<1>3. Postable(received.entries) /\ \A e \in received.entries : e.reason = "LIKE_RECEIVED"
  <2>. HIDE DEF received
  <2>1. KeyOfInteraction("LIKE_RECEIVED", key)
    BY DEF KeyOfInteraction
  <2>. QED  BY <1>1, <1>2, <2>1, EarningRows
<1>4. bonus \in Int
  BY MilestonesAssumption
<1>. HIDE DEF received, bonus, nth
<1>5. bonus > 0 => RowOk(extra)
  BY <1>1, <1>4, EntryOk DEF KeyHead, Currencies
<1>6. extra.reason = "LIKE_MILESTONE"
  BY DEF Entry, Row
<1>. HIDE DEF extra
<1>7. Postable(Only(bonus > 0, extra)) /\ \A e \in Only(bonus > 0, extra) : e.reason = "LIKE_MILESTONE"
  <2>. DEFINE T == Only(bonus > 0, extra)
  <2>1. T = {} \/ (T = {extra} /\ RowOk(extra))
    BY <1>5 DEF Only
  <2>. HIDE DEF T
  <2>2. IsFiniteSet(T)
    BY <2>1, FS_EmptySet, FS_Singleton
  <2>3. Postable(T) /\ \A e \in T : e.reason = "LIKE_MILESTONE"
    BY <1>6, <2>1, <2>2 DEF Postable, Returns
  <2>. QED  BY <2>3 DEF T
<1>8. Postable(received.entries \cup Only(bonus > 0, extra))
  <2>. DEFINE T == Only(bonus > 0, extra)
  <2>. HIDE DEF T
  <2>. QED  BY <1>3, <1>7, PostableUnion DEF T
<1>. QED  BY <1>8 DEF LikeRows, received, extra, bonus, nth

LEMMA LikeCommits ==
  ASSUME Tables, Book, NEW r \in Requests, CommitLike(r)
  PROVE  /\ Earns(r) => Post(r, LikeRows(r)) /\ Postable(LikeRows(r))
         /\ Tables' /\ Book' /\ Keys \subseteq Keys'
<1>1. r.op = "LIKE" /\ r.on \in Contents /\ Author[r.on] \in Users
  BY RequestsAssumption, AuthorAssumption DEF ContentCalls, CommitLike, Commits
<1>2. CASE ~Earns(r)
  BY <1>2 DEF CommitLike, bookVars, cosmeticVars, Tables, Book, Keys, RowOk, IsAward
<1>3. CASE Earns(r)
  <2>1. Post(r, LikeRows(r)) /\ Postable(LikeRows(r))
    BY <1>1, <1>3, LikeRowsPostable DEF CommitLike, LikeRows
  <2>2. Book' /\ Keys \subseteq Keys'
    BY <2>1, PostBook
  <2>3. wallet' = [u \in Users |-> wallet'[u]] /\ \A u \in Users : WalletOk(wallet'[u])
    BY <2>1, PostWallets
  <2>. DEFINE received == Received(r, Author[r.on], "likes", "LIKE_RECEIVED", <<"like", r.on, r.who>>)
  <2>4. DayOk(received.day)
    <3>1. Earning(r, Author[r.on], "LIKE_RECEIVED", <<"like", r.on, r.who>>, received)
      BY <1>1, ReceivedIs
    <3>. QED  BY <3>1 DEF Earning
  <2>5. today' = [today EXCEPT ![Author[r.on]] = received.day]
    BY <1>3 DEF CommitLike
  <2>. HIDE DEF received
  <2>6. today' = [u \in Users |-> today'[u]] /\ \A u \in Users : DayOk(today'[u])
    BY <2>4, <2>5 DEF Tables
  <2>. QED  BY <2>1, <2>2, <2>3, <2>6 DEF CommitLike, Tables, cosmeticVars
<1>. QED  BY <1>2, <1>3

\* The commenter's day after a comment that pays.
OwnDay(r) == IF today[r.who].written < PayingComments
             THEN WithShards([today[r.who] EXCEPT !.written = @ + 1], 1) ELSE today[r.who]
Counts(r) == r.who \in Established /\ <<"COMMENT", PostOf[r.on], r.who>> \notin counted
FromComment(r) ==
  Received(r, Author[PostOf[r.on]], "comments", "COMMENT_RECEIVED", <<"comment", PostOf[r.on], r.who>>)
WrittenRow(r) ==
  LET paid == OwnDay(r).credited - today[r.who].credited
  IN Only(paid > 0, Entry(<<"comment-written", r.on>>, r.who, "SHARDS", paid, "COMMENT_WRITTEN", r.on))
CommentRows(r) == IF Counts(r) THEN WrittenRow(r) \cup FromComment(r).entries ELSE WrittenRow(r)

LEMMA OwnDayOk ==
  ASSUME Tables, NEW r, r.who \in Users
  PROVE  /\ DayOk(OwnDay(r)) /\ OwnDay(r).credited - today[r.who].credited \in Nat
         /\ today[r.who].credited <= DailyShardCap => OwnDay(r).credited <= DailyShardCap
<1>. PICK day, more : day = today[r.who] /\ more = [day EXCEPT !.written = day.written + 1]
  OBVIOUS
<1>1. DayOk(day)
  BY DEF Tables
<1>2. day = [base |-> day.base, credited |-> day.credited, likes |-> day.likes, fromLikes |-> day.fromLikes,
             comments |-> day.comments, fromComments |-> day.fromComments, written |-> day.written]
  BY <1>1 DEF DayOk
<1>3. more = [base |-> day.base, credited |-> day.credited, likes |-> day.likes, fromLikes |-> day.fromLikes,
              comments |-> day.comments, fromComments |-> day.fromComments, written |-> day.written + 1]
  BY <1>2
<1>4. DayOk(more) /\ more.credited = day.credited
  BY <1>1, <1>3 DEF DayOk
<1>5. OwnDay(r) = IF day.written < PayingComments THEN WithShards(more, 1) ELSE day
  BY DEF OwnDay
<1>6. /\ DayOk(WithShards(more, 1)) /\ WithShards(more, 1).credited >= more.credited
      /\ more.credited <= DailyShardCap => WithShards(more, 1).credited <= DailyShardCap
  BY <1>4, WithShardsOk
<1>. QED  BY <1>1, <1>4, <1>5, <1>6 DEF DayOk

LEMMA CommentRowsPostable ==
  ASSUME Tables, NEW r \in Requests, r.op = "COMMENT"
  PROVE  /\ Postable(CommentRows(r))
         /\ Earning(r, Author[PostOf[r.on]], "COMMENT_RECEIVED", <<"comment", PostOf[r.on], r.who>>, FromComment(r))
<1>1. r.on \in Contents /\ Author[PostOf[r.on]] \in Users /\ r.who \in Users
  BY RequestsAssumption, AuthorAssumption DEF Contents
<1>. DEFINE paid == OwnDay(r).credited - today[r.who].credited
            row == Entry(<<"comment-written", r.on>>, r.who, "SHARDS", paid, "COMMENT_WRITTEN", r.on)
            received == FromComment(r)
            key == <<"comment", PostOf[r.on], r.who>>
<1>2. paid \in Int
  BY <1>1, OwnDayOk
<1>3. Earning(r, Author[PostOf[r.on]], "COMMENT_RECEIVED", key, received)
  BY <1>1, ReceivedIs DEF FromComment
<1>4. KeyOfInteraction("COMMENT_RECEIVED", key)
  BY DEF KeyOfInteraction
<1>. HIDE DEF paid, received
<1>5. paid > 0 => RowOk(row)
  BY <1>1, <1>2, EntryOk DEF KeyHead, Currencies
<1>6. row.reason = "COMMENT_WRITTEN"
  BY DEF Entry, Row
<1>. HIDE DEF row, key
<1>7. Postable(received.entries) /\ \A e \in received.entries : e.reason = "COMMENT_RECEIVED"
  BY <1>1, <1>3, <1>4, EarningRows
<1>8. Postable(WrittenRow(r)) /\ \A e \in WrittenRow(r) : e.reason = "COMMENT_WRITTEN"
  <2>1. WrittenRow(r) = {} \/ (WrittenRow(r) = {row} /\ RowOk(row))
    BY <1>5 DEF Only, WrittenRow, paid, row
  <2>2. IsFiniteSet(WrittenRow(r))
    BY <2>1, FS_EmptySet, FS_Singleton
  <2>. QED  BY <1>6, <2>1, <2>2 DEF Postable, Returns
<1>9. Postable(WrittenRow(r) \cup received.entries)
  BY <1>7, <1>8, PostableUnion
<1>. QED  BY <1>3, <1>8, <1>9 DEF CommentRows, received, key

LEMMA CommentCommits ==
  ASSUME Tables, Book, NEW r \in Requests, CommitComment(r)
  PROVE  /\ r.who \in Users /\ Author[PostOf[r.on]] \in Users
         /\ Author[PostOf[r.on]] # r.who =>
              /\ Post(r, CommentRows(r)) /\ Postable(CommentRows(r))
              /\ today' = IF Counts(r) THEN [today EXCEPT ![r.who] = OwnDay(r), ![Author[PostOf[r.on]]] = FromComment(r).day]
                          ELSE [today EXCEPT ![r.who] = OwnDay(r)]
         /\ Tables' /\ Book' /\ Keys \subseteq Keys'
<1>1. r.op = "COMMENT" /\ r.on \in Comments /\ r.on \in Contents /\ Author[PostOf[r.on]] \in Users /\ r.who \in Users
  BY RequestsAssumption, AuthorAssumption DEF CommitComment, Commits, Contents
<1>. PICK owner : owner = Author[PostOf[r.on]]
  OBVIOUS
<1>2. status' \in [Contents -> {"ABSENT", "PUBLISHED", "HIDDEN"}]
  BY DEF CommitComment, Tables
<1>3. CASE owner = r.who
  BY <1>1, <1>2, <1>3 DEF CommitComment, bookVars, cosmeticVars, Tables, Book, Keys, RowOk, IsAward
<1>4. CASE owner # r.who
  <2>1. Postable(CommentRows(r)) /\ DayOk(FromComment(r).day)
    BY <1>1, CommentRowsPostable DEF Earning
  <2>2. /\ Post(r, CommentRows(r))
        /\ today' = IF Counts(r) THEN [today EXCEPT ![r.who] = OwnDay(r), ![owner] = FromComment(r).day]
                    ELSE [today EXCEPT ![r.who] = OwnDay(r)]
    <3>1. CASE Counts(r)
      BY <1>4, <3>1 DEF CommitComment, CommentRows, Counts, FromComment, OwnDay, WrittenRow
    <3>2. CASE ~Counts(r)
      BY <1>4, <3>2 DEF CommitComment, CommentRows, Counts, FromComment, OwnDay, WrittenRow
    <3>. QED  BY <3>1, <3>2
  <2>3. Book' /\ Keys \subseteq Keys'
    BY <2>1, <2>2, PostBook
  <2>4. wallet' = [u \in Users |-> wallet'[u]] /\ \A u \in Users : WalletOk(wallet'[u])
    BY <2>1, <2>2, PostWallets
  <2>5. DayOk(OwnDay(r))
    BY <1>1, OwnDayOk
  <2>6. today' = [u \in Users |-> today'[u]] /\ \A u \in Users : DayOk(today'[u])
    BY <1>1, <2>1, <2>2, <2>5 DEF Tables
  <2>. QED  BY <1>1, <1>2, <2>1, <2>2, <2>3, <2>4, <2>6 DEF CommitComment, Tables, cosmeticVars
<1>. QED  BY <1>3, <1>4

LEMMA CheckInCommits ==
  ASSUME Tables, Book, NEW r \in Requests, CommitCheckIn(r)
  PROVE  LET day == WithShards(today[r.who], CheckInShards)
             row == Entry(<<"checkin", r.who>>, r.who, "SHARDS", day.credited - today[r.who].credited, "DAILY_CHECKIN", Nothing)
         IN /\ r.who \in Users /\ DayOk(day) /\ Post(r, {row}) /\ Postable({row})
            /\ today' = [today EXCEPT ![r.who] = day]
            /\ Tables' /\ Book' /\ Keys \subseteq Keys'
<1>1. r.who \in Users /\ CheckInShards \in Nat
  BY RequestsAssumption, AmountsAssumption DEF CommitCheckIn, Commits
<1>. DEFINE day == WithShards(today[r.who], CheckInShards)
            row == Entry(<<"checkin", r.who>>, r.who, "SHARDS", day.credited - today[r.who].credited, "DAILY_CHECKIN", Nothing)
<1>2. DayOk(day) /\ DayOk(today[r.who])
  BY <1>1, WithShardsOk DEF Tables
<1>3. today' = [today EXCEPT ![r.who] = day] /\ Post(r, {row})
  BY DEF CommitCheckIn
<1>. HIDE DEF day
<1>4. day.credited - today[r.who].credited \in Int
  BY <1>2 DEF DayOk
<1>5. RowOk(row)
  BY <1>1, <1>4, EntryOk DEF KeyHead, Currencies, AwardReasons
<1>6. row.reason = "DAILY_CHECKIN"
  BY DEF Entry, Row
<1>. HIDE DEF row
<1>7. Postable({row})
  BY <1>5, <1>6, FS_Singleton DEF Postable, Returns
<1>8. Book' /\ Keys \subseteq Keys'
  BY <1>3, <1>7, PostBook
<1>9. wallet' = [u \in Users |-> wallet'[u]] /\ \A u \in Users : WalletOk(wallet'[u])
  BY <1>3, <1>7, PostWallets
<1>10. today' = [u \in Users |-> today'[u]] /\ \A u \in Users : DayOk(today'[u])
  BY <1>2, <1>3 DEF Tables
<1>11. Tables'
  BY <1>9, <1>10 DEF Tables, CommitCheckIn, contentVars, cosmeticVars
<1>. QED  BY <1>1, <1>2, <1>3, <1>7, <1>8, <1>11 DEF row, day

LEMMA AdjustCommits ==
  ASSUME Tables, Book, NEW r \in Requests, CommitAdjust(r)
  PROVE  LET row == Entry(<<"adjust", Cardinality(Corrections)>>, r.who, r.on, r.arg, "ADMIN_ADJUST", Nothing)
         IN /\ r.who \in Users /\ r.on \in Currencies /\ r.arg \in Int /\ Post(r, {row}) /\ Postable({row})
            /\ Tables' /\ Book' /\ Keys \subseteq Keys'
<1>1. r.who \in Users /\ r.on \in Currencies /\ r.arg \in Int
  BY RequestsAssumption DEF CommitAdjust, Commits
<1>. DEFINE n == Cardinality(Corrections)
            row == Entry(<<"adjust", n>>, r.who, r.on, r.arg, "ADMIN_ADJUST", Nothing)
<1>2. Post(r, {row})
  BY DEF CommitAdjust
<1>. HIDE DEF n
<1>3. RowOk(row)
  BY <1>1, EntryOk DEF KeyHead, AwardReasons
<1>4. row.reason = "ADMIN_ADJUST"
  BY DEF Entry, Row
<1>. HIDE DEF row
<1>5. Postable({row})
  BY <1>3, <1>4, FS_Singleton DEF Postable, Returns
<1>6. Book' /\ Keys \subseteq Keys'
  BY <1>2, <1>5, PostBook
<1>7. wallet' = [u \in Users |-> wallet'[u]] /\ \A u \in Users : WalletOk(wallet'[u])
  BY <1>2, <1>5, PostWallets
<1>8. Tables'
  BY <1>7 DEF Tables, CommitAdjust, contentVars, cosmeticVars
<1>. QED  BY <1>1, <1>2, <1>5, <1>6, <1>8 DEF row, n

Refund(r, u) == Entry(<<"takedown", r.on, u>>, u, "SHARDS", RefundShards, "TAKEDOWN_REFUND", r.on)
RefundRows(r) == {Refund(r, u) : u \in ToRefund(r.on, request[r].found)}

LEMMA RefundIs == ASSUME NEW r, NEW u \in Users
                  PROVE  /\ RowOk(Refund(r, u)) /\ Refund(r, u).key = <<"takedown", r.on, u>> /\ Refund(r, u).user = u
                         /\ Refund(r, u).reason = "TAKEDOWN_REFUND" /\ Refund(r, u).currency = "SHARDS"
<1>1. RefundShards \in Int
  BY AmountsAssumption
<1>2. RowOk(Refund(r, u))
  BY <1>1, EntryOk DEF Refund, KeyHead, Currencies, AwardReasons
<1>. QED  BY <1>2 DEF Refund, Entry, Row

LEMMA TakedownCommits ==
  ASSUME Tables, Book, NEW r \in Requests, CommitTakedown(r), request[r].found \subseteq Users
  PROVE  /\ Post(r, RefundRows(r)) /\ Postable(RefundRows(r))
         /\ Tables' /\ Book' /\ Keys \subseteq Keys'
         /\ \A u \in request[r].found : <<"takedown", r.on, u>> \in Keys'
<1>. DEFINE U == ToRefund(r.on, request[r].found)  f == [u \in U |-> Refund(r, u)]
<1>1. U \subseteq Users /\ IsFiniteSet(U)
  BY UsersAssumption, FS_Subset DEF ToRefund
<1>2. RefundRows(r) = {f[u] : u \in U}
  BY DEF RefundRows
<1>3. IsFiniteSet({f[u] : u \in U})
  <2>. HIDE DEF f, U
  <2>. QED  BY <1>1, FiniteRange
<1>4. \A e \in RefundRows(r) : \E u \in U : e = Refund(r, u)
  BY DEF RefundRows
<1>5. \A e \in RefundRows(r) : RowOk(e) /\ e.reason \notin Returns
  BY <1>1, <1>4, RefundIs DEF Returns
<1>6. \A d, e \in RefundRows(r) : d.key = e.key => d = e
  <2>. SUFFICES ASSUME NEW d \in RefundRows(r), NEW e \in RefundRows(r), d.key = e.key PROVE d = e
    OBVIOUS
  <2>1. PICK u \in U, v \in U : d = Refund(r, u) /\ e = Refund(r, v)
    BY <1>4
  <2>2. <<"takedown", r.on, u>> = <<"takedown", r.on, v>>
    BY <1>1, <2>1, RefundIs
  <2>. QED  BY <2>1, <2>2
<1>7. Postable(RefundRows(r))
  BY <1>2, <1>3, <1>5, <1>6 DEF Postable
<1>8. Post(r, RefundRows(r))
  BY DEF CommitTakedown, RefundRows, Refund
<1>9. Book' /\ Keys \subseteq Keys' /\ \A e \in RefundRows(r) : e.key \in Keys'
  BY <1>7, <1>8, PostBook
<1>10. wallet' = [u \in Users |-> wallet'[u]] /\ \A u \in Users : WalletOk(wallet'[u])
  BY <1>7, <1>8, PostWallets
<1>11. ASSUME NEW u \in request[r].found PROVE <<"takedown", r.on, u>> \in Keys'
  <2>1. CASE u \in U
    <3>1. Refund(r, u) \in RefundRows(r)
      BY <2>1 DEF RefundRows
    <3>. QED  BY <1>9, <3>1, RefundIs
  <2>2. CASE u \notin U
    BY <1>9, <2>2 DEF ToRefund
  <2>. QED  BY <2>1, <2>2
<1>12. active' \in [Items -> BOOLEAN] /\ equipped' \subseteq Users \X Items
  BY DEF Tables, CommitTakedown
<1>13. Tables'
  BY <1>10, <1>12 DEF Tables, CommitTakedown, contentVars
<1>. QED  BY <1>7, <1>8, <1>9, <1>11, <1>13

\* Neither posts nor pays.
LEMMA ItemCommits ==
  ASSUME Tables, Book, NEW r \in Requests, CommitReactivate(r) \/ CommitGrant(r) \/ CommitEquip(r)
  PROVE  Tables' /\ Book' /\ Keys' = Keys
<1>1. r.op \in {"GRANT", "EQUIP"} => r.who \in Users /\ r.on \in Items
  BY RequestsAssumption DEF ItemCalls
<1>2. CASE CommitReactivate(r)
  BY <1>2 DEF CommitReactivate, Tables, Book, Keys, RowOk, IsAward, contentVars, bookVars
<1>3. CASE CommitGrant(r)
  <2>1. owners' \in [Items -> SUBSET Users]
    BY <1>1, <1>3 DEF CommitGrant, Commits, Tables
  <2>. QED  BY <1>3, <2>1 DEF CommitGrant, Tables, Book, Keys, RowOk, IsAward, contentVars, bookVars
<1>4. CASE CommitEquip(r)
  <2>1. equipped' \subseteq Users \X Items
    BY <1>1, <1>4 DEF CommitEquip, Commits, Tables
  <2>. QED  BY <1>4, <2>1 DEF CommitEquip, Tables, Book, Keys, RowOk, IsAward, contentVars, bookVars
<1>. QED  BY <1>2, <1>3, <1>4

LEMMA SingleStatements ==
  ASSUME Tables, Book, (\E u \in Users, c \in Contents : Unlike(u, c)) \/ (\E u \in Users : Unequip(u))
  PROVE  Tables' /\ Book' /\ Keys' = Keys
BY DEF Unlike, Unequip, Tables, Book, Keys, RowOk, IsAward, contentVars, bookVars, cosmeticVars

-----------------------------------------------------------------------------
(* What hiding takes back, and publishing returns.                           *)

LEMMA SeqOfSet ==
  ASSUME NEW S, IsFiniteSet(S), NEW s \in SetToSeqs(S)
  PROVE  /\ Cardinality(S) \in Nat /\ s \in [1 .. Cardinality(S) -> S]
         /\ \A i, j \in 1 .. Cardinality(S) : s[i] = s[j] => i = j
         /\ \A x \in S : \E i \in 1 .. Cardinality(S) : s[i] = x
<1>. PICK k : k = Cardinality(S)
  OBVIOUS
<1>1. k \in Nat
  BY FS_CardinalityType
<1>2. s \in [1 .. k -> S] /\ \A i, j \in 1 .. k : i # j => s[i] # s[j]
  BY DEF SetToSeqs
<1>3. s \in Injection(1 .. k, S)
  BY <1>2 DEF Injection, IsInjective
<1>4. Cardinality(1 .. k) = k
  BY <1>1, FS_Interval
<1>5. s \in Surjection(1 .. k, S)
  BY <1>3, <1>4, FS_Injection
<1>. QED  BY <1>1, <1>2, <1>5 DEF Surjection

LEMMA TakenIs ==
  ASSUME NEW a, RowOk(a), IsAward(a), NEW before, IsFiniteSet(before), \A b \in before : RowOk(b),
         NEW saw, \A u \in Users : WalletOk(saw[u])
  PROVE  Taken(a, before, saw) \in Int /\ Taken(a, before, saw) >= 0 /\ Taken(a, before, saw) <= a.delta
<1>. DEFINE same == {b \in before : b.user = a.user /\ b.currency = a.currency}
<1>1. IsFiniteSet(same) /\ Amounts(same)
  BY FS_Subset DEF Amounts, RowOk
<1>2. SumOver(same) \in Int
  <2>. HIDE DEF same
  <2>. QED  BY <1>1, SumIsInt
<1>3. saw[a.user][a.currency] \in Int
  <2>1. WalletOk(saw[a.user]) /\ a.currency \in {"REPUTATION", "SHARDS"}
    BY DEF RowOk, Currencies
  <2>. QED  BY <2>1 DEF WalletOk
<1>4. a.delta \in Int /\ a.delta > 0
  BY DEF RowOk
<1>. PICK x \in Int : x = saw[a.user][a.currency]
  BY <1>3
<1>. PICK y \in Int : y = SumOver(same)
  BY <1>2
<1>6. x - y \in Int
  OBVIOUS
<1>. PICK d \in Int : d = x - y
  BY <1>6
<1>5. Taken(a, before, saw) = Smaller(a.delta, Larger(0, d))
  BY DEF Taken
<1>. QED  BY <1>4, <1>5 DEF Smaller, Larger

\* Each of these entries is about one of the awards, and each award has one.
Answers(r, entries, reason, head) ==
  /\ IsFiniteSet(entries)
  /\ \A e \in entries : /\ RowOk(e) /\ e.reason = reason /\ e.taken = -1
                        /\ reason = "REVOKED" => e.delta <= 0
                        /\ \E a \in request[r].found :
                             /\ e.award = a.key /\ e.key = <<head, a.key, Nth(r)>>
                             /\ e.user = a.user /\ e.currency = a.currency /\ e.on = a.on
  /\ \A a \in request[r].found : \E e \in entries : e.award = a.key

LEMMA RevokeAnswers ==
  ASSUME NEW r, IsFiniteSet(request[r].found), \A a \in request[r].found : RowOk(a) /\ IsAward(a),
         \A u \in Users : WalletOk(request[r].saw[u]), NEW order \in SetToSeqs(request[r].found)
  PROVE  Answers(r, RevokeEntries(r, order), "REVOKED", "revoke")
<1>. PICK found, k, saw : found = request[r].found /\ k = Cardinality(found) /\ saw = request[r].saw
  OBVIOUS
<1>1. /\ k \in Nat /\ order \in [1 .. k -> found] /\ \A a \in found : \E i \in 1 .. k : order[i] = a
  BY SeqOfSet
<1>. DEFINE Ahd(i) == {order[j] : j \in 1 .. (i - 1)}
            D(i) == 0 - Taken(order[i], Ahd(i), saw)
            E(i) == Row(<<"revoke", order[i].key, Nth(r)>>, order[i].user, order[i].currency, D(i), "REVOKED",
                        order[i].on, order[i].key)
            f == [i \in 1 .. k |-> E(i)]
<1>2. RevokeEntries(r, order) = {f[i] : i \in 1 .. k}
  BY <1>1 DEF RevokeEntries
<1>3. IsFiniteSet({f[i] : i \in 1 .. k})
  <2>1. IsFiniteSet(1 .. k)
    BY <1>1, FS_Interval
  <2>. HIDE DEF f
  <2>. QED  BY <2>1, FiniteRange
<1>4. ASSUME NEW i \in 1 .. k PROVE D(i) \in Int /\ D(i) <= 0 /\ order[i] \in found
  <2>1. order[i] \in found /\ RowOk(order[i]) /\ IsAward(order[i])
    BY <1>1
  <2>2. Ahd(i) \subseteq found
    BY <1>1
  <2>3. IsFiniteSet(Ahd(i)) /\ \A b \in Ahd(i) : RowOk(b)
    BY <2>2, FS_Subset
  <2>. HIDE DEF Ahd
  <2>4. Taken(order[i], Ahd(i), saw) \in Int /\ Taken(order[i], Ahd(i), saw) >= 0
    BY <2>1, <2>3, TakenIs
  <2>. QED  BY <2>1, <2>4
<1>. HIDE DEF D
<1>5. ASSUME NEW i \in 1 .. k
      PROVE  /\ RowOk(E(i)) /\ E(i).reason = "REVOKED" /\ E(i).taken = -1 /\ E(i).delta <= 0
             /\ E(i).award = order[i].key /\ E(i).key = <<"revoke", order[i].key, Nth(r)>>
             /\ E(i).user = order[i].user /\ E(i).currency = order[i].currency /\ E(i).on = order[i].on
  <2>1. order[i].user \in Users /\ order[i].currency \in Currencies
    BY <1>4 DEF RowOk
  <2>. PICK key : key = <<"revoke", order[i].key, Nth(r)>>
    OBVIOUS
  <2>2. key # <<>> /\ key[1] = KeyHead["REVOKED"]
    BY DEF KeyHead
  <2>3. RowOk(E(i))
    BY <1>4, <2>1, <2>2, ReturnOk DEF Returns
  <2>. QED  BY <1>4, <2>3 DEF Row
<1>6. \A i \in 1 .. k : f[i] = E(i)
  OBVIOUS
<1>. HIDE DEF E, f
<1>7. \A e \in RevokeEntries(r, order) : \E i \in 1 .. k : e = E(i)
  BY <1>2, <1>6
<1>8. ASSUME NEW e \in RevokeEntries(r, order)
      PROVE  /\ RowOk(e) /\ e.reason = "REVOKED" /\ e.taken = -1 /\ e.delta <= 0
             /\ \E a \in found : /\ e.award = a.key /\ e.key = <<"revoke", a.key, Nth(r)>>
                                 /\ e.user = a.user /\ e.currency = a.currency /\ e.on = a.on
  <2>1. PICK i \in 1 .. k : e = E(i)
    BY <1>7
  <2>. QED  BY <1>4, <1>5, <2>1
<1>9. ASSUME NEW a \in found PROVE \E e \in RevokeEntries(r, order) : e.award = a.key
  <2>1. PICK i \in 1 .. k : order[i] = a
    BY <1>1
  <2>. QED  BY <1>2, <1>5, <1>6, <2>1
<1>. QED  BY <1>2, <1>3, <1>8, <1>9 DEF Answers

LEMMA RestoreAnswers ==
  ASSUME NEW r, IsFiniteSet(request[r].found), \A a \in request[r].found : RowOk(a) /\ IsAward(a)
  PROVE  Answers(r, RestoreEntries(r), "RESTORED", "restore")
<1>. PICK found : found = request[r].found
  OBVIOUS
<1>. DEFINE E(a) == Row(<<"restore", a.key, Nth(r)>>, a.user, a.currency, GivenBack(a), "RESTORED", a.on, a.key)
            f == [a \in found |-> E(a)]
<1>1. RestoreEntries(r) = {f[a] : a \in found}
  BY DEF RestoreEntries
<1>2. IsFiniteSet({f[a] : a \in found})
  <2>. HIDE DEF f
  <2>. QED  BY FiniteRange
<1>3. ASSUME NEW a \in found
      PROVE  /\ RowOk(E(a)) /\ E(a).reason = "RESTORED" /\ E(a).taken = -1
             /\ E(a).award = a.key /\ E(a).key = <<"restore", a.key, Nth(r)>>
             /\ E(a).user = a.user /\ E(a).currency = a.currency /\ E(a).on = a.on
  <2>1. a.user \in Users /\ a.currency \in Currencies /\ GivenBack(a) \in Int
    BY DEF RowOk, GivenBack
  <2>. PICK key : key = <<"restore", a.key, Nth(r)>>
    OBVIOUS
  <2>2. key # <<>> /\ key[1] = KeyHead["RESTORED"]
    BY DEF KeyHead
  <2>3. RowOk(E(a))
    BY <2>1, <2>2, ReturnOk DEF Returns
  <2>. QED  BY <2>3 DEF Row
<1>4. \A a \in found : f[a] = E(a)
  OBVIOUS
<1>. HIDE DEF E, f
<1>5. ASSUME NEW e \in RestoreEntries(r)
      PROVE  /\ RowOk(e) /\ e.reason = "RESTORED" /\ e.taken = -1
             /\ \E a \in found : /\ e.award = a.key /\ e.key = <<"restore", a.key, Nth(r)>>
                                 /\ e.user = a.user /\ e.currency = a.currency /\ e.on = a.on
  <2>1. PICK a \in found : e = E(a)
    BY <1>1, <1>4
  <2>. QED  BY <1>3, <2>1
<1>6. ASSUME NEW a \in found PROVE \E e \in RestoreEntries(r) : e.award = a.key
  BY <1>1, <1>3, <1>4
<1>. QED  BY <1>1, <1>2, <1>5, <1>6 DEF Answers

\* What becomes of a row when these entries are written.
Mark(a, entries) ==
  LET mine == {e \in entries : e.award = a.key}
  IN IF mine = {} THEN a
     ELSE LET e == CHOOSE e \in mine : TRUE
          IN [a EXCEPT !.taken = IF e.reason = "REVOKED" THEN 0 - e.delta ELSE -1]

LEMMA MarkIs ==
  ASSUME NEW a, RowOk(a), NEW entries,
         \A e \in entries : e.delta \in Int /\ (e.reason = "REVOKED" => e.delta <= 0)
  PROVE  LET m == Mark(a, entries)
         IN /\ RowOk(m) /\ m.key = a.key /\ m.user = a.user /\ m.currency = a.currency /\ m.delta = a.delta
            /\ m.reason = a.reason /\ m.on = a.on /\ m.award = a.award
            /\ (\A e \in entries : e.award # a.key) => m = a
            /\ (\E e \in entries : e.award = a.key) =>
                 \E e \in entries : e.award = a.key /\ m.taken = IF e.reason = "REVOKED" THEN 0 - e.delta ELSE -1
<1>. PICK m : m = Mark(a, entries)
  OBVIOUS
<1>1. CASE \A e \in entries : e.award # a.key
  BY <1>1 DEF Mark
<1>2. CASE \E e \in entries : e.award = a.key
  <2>. DEFINE e == CHOOSE e \in {e \in entries : e.award = a.key} : TRUE
              taken == IF e.reason = "REVOKED" THEN 0 - e.delta ELSE -1
  <2>1. e \in entries /\ e.award = a.key
    BY <1>2
  <2>2. m = [a EXCEPT !.taken = taken]
    BY <1>2 DEF Mark
  <2>. HIDE DEF e
  <2>3. taken \in Int /\ taken >= -1
    BY <2>1
  <2>. HIDE DEF taken
  <2>4. a = [key |-> a.key, user |-> a.user, currency |-> a.currency, delta |-> a.delta, reason |-> a.reason,
             on |-> a.on, award |-> a.award, taken |-> a.taken]
    BY DEF RowOk
  <2>5. m = [key |-> a.key, user |-> a.user, currency |-> a.currency, delta |-> a.delta, reason |-> a.reason,
             on |-> a.on, award |-> a.award, taken |-> taken]
    BY <2>2, <2>4
  <2>6. /\ m.key = a.key /\ m.user = a.user /\ m.currency = a.currency /\ m.delta = a.delta
        /\ m.reason = a.reason /\ m.on = a.on /\ m.award = a.award /\ m.taken = taken
        /\ m = [key |-> m.key, user |-> m.user, currency |-> m.currency, delta |-> m.delta, reason |-> m.reason,
                on |-> m.on, award |-> m.award, taken |-> m.taken]
    BY <2>5
  <2>7. RowOk(m)
    BY <2>3, <2>6 DEF RowOk, IsAward
  <2>. QED  BY <1>2, <2>1, <2>6, <2>7 DEF taken
<1>. QED  BY <1>1, <1>2

LEMMA MarkedIs ==
  ASSUME Book, NEW entries, \A e \in entries : RowOk(e) /\ (e.reason = "REVOKED" => e.delta <= 0)
  PROVE  /\ IsFiniteSet(Marked(entries)) /\ Marked(entries) = {Mark(a, entries) : a \in ledger}
         /\ \A a \in ledger : RowOk(Mark(a, entries)) /\ Mark(a, entries).key = a.key
<1>. DEFINE f == [a \in ledger |-> Mark(a, entries)]
<1>1. Marked(entries) = {f[a] : a \in ledger}
  BY DEF Marked, Mark
<1>2. IsFiniteSet({f[a] : a \in ledger})
  <2>. HIDE DEF f
  <2>. QED  BY FiniteRange DEF Book
<1>3. Marked(entries) = {Mark(a, entries) : a \in ledger}
  BY DEF Marked, Mark
<1>4. ASSUME NEW a \in ledger PROVE RowOk(Mark(a, entries)) /\ Mark(a, entries).key = a.key
  <2>1. \A e \in entries : e.delta \in Int /\ (e.reason = "REVOKED" => e.delta <= 0)
    BY DEF RowOk
  <2>2. RowOk(a)
    BY DEF Book
  <2>. QED  BY <2>1, <2>2, MarkIs
<1>. QED  BY <1>1, <1>2, <1>3, <1>4

LEMMA ReturnBook ==
  ASSUME Book, NEW entries, IsFiniteSet(entries), TakeBackOrReturn(entries),
         \A e \in entries : RowOk(e) /\ e.reason \in Returns /\ (e.reason = "REVOKED" => e.delta <= 0)
  PROVE  Book' /\ Keys \subseteq Keys'
<1>. PICK M : M = Marked(entries)
  OBVIOUS
<1>1. IsFiniteSet(M) /\ M = {Mark(a, entries) : a \in ledger} /\ \A a \in ledger : RowOk(Mark(a, entries)) /\ Mark(a, entries).key = a.key
  BY MarkedIs
<1>2. ledger' = M \cup entries
  BY DEF TakeBackOrReturn
<1>3. IsFiniteSet(ledger')
  BY <1>1, <1>2, FS_Union
<1>4. \A e \in ledger' : RowOk(e)
  BY <1>1, <1>2
<1>5. \A e \in ledger' : RowOk(e)'
  BY <1>4 DEF RowOk, IsAward
<1>6. ASSUME NEW e \in ledger', NEW f \in ledger', e.key = f.key, e.reason \notin Returns, f.reason \notin Returns PROVE e = f
  <2>1. PICK a \in ledger, b \in ledger : e = Mark(a, entries) /\ f = Mark(b, entries)
    BY <1>1, <1>2, <1>6
  <2>2. a.key = b.key
    BY <1>1, <1>6, <2>1
  <2>3. RowOk(a) /\ RowOk(b) /\ \A d \in entries : d.delta \in Int /\ (d.reason = "REVOKED" => d.delta <= 0)
    BY DEF Book, RowOk
  <2>4. a.reason = e.reason /\ b.reason = f.reason
    BY <2>1, <2>3, MarkIs
  <2>5. a = b
    BY <1>6, <2>2, <2>4 DEF Book
  <2>. QED  BY <2>1, <2>5
<1>7. ASSUME NEW a \in ledger PROVE a.key \in Keys'
  <2>1. Mark(a, entries) \in ledger'
    BY <1>1, <1>2
  <2>. QED  BY <1>1, <2>1 DEF Keys
<1>8. \A e, f \in ledger' : e.key = f.key /\ {e.reason, f.reason} \cap Returns = {} => e = f
  BY <1>6
<1>. QED  BY <1>3, <1>5, <1>7, <1>8 DEF Book, Keys

\* The balances by increments, then what is recounted.
LEMMA ReturnWallets ==
  ASSUME Tables, NEW entries, IsFiniteSet(entries), \A e \in entries : RowOk(e), TakeBackOrReturn(entries),
         IsFiniteSet(ledger'), \A e \in ledger' : e.delta \in Int
  PROVE  /\ wallet' = [u \in Users |-> wallet'[u]]
         /\ \A u \in Users :
              /\ WalletOk(wallet'[u])
              /\ wallet'[u].REPUTATION = wallet[u].REPUTATION + Moved(entries, u, "REPUTATION")
              /\ wallet'[u].SHARDS = wallet[u].SHARDS + Moved(entries, u, "SHARDS")
              /\ IF \E e \in entries : e.user = u /\ e.currency = "REPUTATION"
                 THEN /\ wallet'[u].recent = Recent(ledger', u)
                      /\ wallet'[u].rank = RankFor(wallet'[u].REPUTATION, wallet'[u].recent)
                 ELSE wallet'[u].recent = wallet[u].recent /\ wallet'[u].rank = wallet[u].rank
<1>. PICK book, w : book = ledger' /\ w = wallet'
  OBVIOUS
<1>1. w = Recounted(Balances(entries), entries, book)
  BY DEF TakeBackOrReturn
<1>2. w = [u \in Users |-> w[u]]
  BY <1>1 DEF Recounted
<1>3. ASSUME NEW u \in Users
      PROVE  /\ WalletOk(w[u])
             /\ w[u].REPUTATION = wallet[u].REPUTATION + Moved(entries, u, "REPUTATION")
             /\ w[u].SHARDS = wallet[u].SHARDS + Moved(entries, u, "SHARDS")
             /\ IF \E e \in entries : e.user = u /\ e.currency = "REPUTATION"
                THEN /\ w[u].recent = Recent(book, u)
                     /\ w[u].rank = RankFor(w[u].REPUTATION, w[u].recent)
                ELSE w[u].recent = wallet[u].recent /\ w[u].rank = wallet[u].rank
  <2>. PICK rep, sha : rep = Moved(entries, u, "REPUTATION") /\ sha = Moved(entries, u, "SHARDS")
    OBVIOUS
  <2>1. rep \in Int /\ sha \in Int
    BY MovedIsInt
  <2>. PICK old, b : old = wallet[u] /\ b = Balances(entries)[u]
    OBVIOUS
  <2>2. WalletOk(old) /\ old = [REPUTATION |-> old.REPUTATION, SHARDS |-> old.SHARDS, recent |-> old.recent, rank |-> old.rank]
    BY DEF Tables, WalletOk
  <2>3. b = [old EXCEPT !.REPUTATION = old.REPUTATION + rep, !.SHARDS = old.SHARDS + sha]
    BY <2>2 DEF Balances
  <2>4. b = [REPUTATION |-> old.REPUTATION + rep, SHARDS |-> old.SHARDS + sha, recent |-> old.recent, rank |-> old.rank]
    BY <2>2, <2>3
  <2>5. WalletOk(b) /\ b.REPUTATION = old.REPUTATION + rep /\ b.SHARDS = old.SHARDS + sha /\ b.recent = old.recent /\ b.rank = old.rank
    BY <2>1, <2>2, <2>4 DEF WalletOk
  <2>6. CASE \E e \in entries : e.user = u /\ e.currency = "REPUTATION"
    <3>. PICK recent, rank : recent = Recent(book, u) /\ rank = RankFor(b.REPUTATION, recent)
      OBVIOUS
    <3>1. recent \in Int
      <4>. DEFINE S == {e \in book : /\ e.user = u /\ e.currency = "REPUTATION" /\ IsAward(e) /\ ~Revoked(e)}
      <4>1. IsFiniteSet(S) /\ Amounts(S)
        BY FS_Subset DEF Amounts
      <4>2. SumOver(S) \in Int
        <5>. HIDE DEF S
        <5>. QED  BY <4>1, SumIsInt
      <4>. QED  BY <4>2 DEF Recent, Larger
    <3>2. w[u] = [b EXCEPT !.recent = recent, !.rank = rank]
      BY <1>1, <2>6 DEF Recounted
    <3>3. w[u] = [REPUTATION |-> b.REPUTATION, SHARDS |-> b.SHARDS, recent |-> recent, rank |-> rank]
      BY <2>4, <3>2
    <3>. QED  BY <2>5, <2>6, <3>1, <3>3 DEF WalletOk
  <2>7. CASE ~ \E e \in entries : e.user = u /\ e.currency = "REPUTATION"
    <3>1. w[u] = b
      BY <1>1, <2>7 DEF Recounted
    <3>. QED  BY <2>5, <2>7, <3>1
  <2>. QED  BY <2>6, <2>7
<1>. QED  BY <1>2, <1>3

LEMMA ReturnCommits ==
  ASSUME Tables, Book, NEW r, NEW entries, NEW reason \in Returns, NEW head, Answers(r, entries, reason, head),
         TakeBackOrReturn(entries)
  PROVE  /\ Book' /\ Keys \subseteq Keys'
         /\ wallet' = [u \in Users |-> wallet'[u]] /\ \A u \in Users : WalletOk(wallet'[u])
<1>1. IsFiniteSet(entries) /\ \A e \in entries : RowOk(e) /\ e.reason \in Returns /\ (e.reason = "REVOKED" => e.delta <= 0)
  BY DEF Answers
<1>2. Book' /\ Keys \subseteq Keys'
  BY <1>1, ReturnBook
<1>3. IsFiniteSet(ledger') /\ \A e \in ledger' : e.delta \in Int
  BY <1>2 DEF Book, RowOk
<1>. QED  BY <1>1, <1>2, <1>3, ReturnWallets

LEMMA HideCommits ==
  ASSUME Tables, Book, Calls, NEW r \in Requests, CommitHide(r)
  PROVE  /\ Hides(r) => \E entries : Answers(r, entries, "REVOKED", "revoke") /\ TakeBackOrReturn(entries)
         /\ Tables' /\ Book' /\ Keys \subseteq Keys'
<1>1. r.op = "HIDE" /\ r.on \in Contents /\ r.arg \in Scopes
  BY RequestsAssumption DEF CommitHide, Commits, ContentCalls
<1>2. enforced' \in [Contents -> SUBSET Scopes]
  BY <1>1 DEF CommitHide, Tables
<1>3. CASE ~Hides(r)
  BY <1>2, <1>3 DEF CommitHide, Tables, Book, Keys, RowOk, IsAward, cosmeticVars
<1>4. CASE Hides(r)
  <2>1. IsFiniteSet(request[r].found) /\ \A a \in request[r].found : RowOk(a) /\ IsAward(a)
    BY <1>1 DEF Calls, TypedFor
  <2>2. \A u \in Users : WalletOk(request[r].saw[u])
    BY DEF Calls, CallOk
  <2>3. PICK order \in SetToSeqs(request[r].found) : TakeBackOrReturn(RevokeEntries(r, order))
    BY <1>4 DEF CommitHide
  <2>. PICK entries : entries = RevokeEntries(r, order)
    OBVIOUS
  <2>4. Answers(r, entries, "REVOKED", "revoke") /\ TakeBackOrReturn(entries)
    BY <2>1, <2>2, <2>3, RevokeAnswers
  <2>5. /\ Book' /\ Keys \subseteq Keys'
        /\ wallet' = [u \in Users |-> wallet'[u]] /\ \A u \in Users : WalletOk(wallet'[u])
    BY <2>4, ReturnCommits DEF Returns
  <2>6. status' \in [Contents -> {"ABSENT", "PUBLISHED", "HIDDEN"}] /\ flips' \in [Contents -> Nat]
    BY <1>1, <1>4 DEF CommitHide, Tables
  <2>7. Tables'
    BY <1>2, <2>5, <2>6 DEF CommitHide, Tables, cosmeticVars
  <2>. QED  BY <2>4, <2>5, <2>7
<1>. QED  BY <1>3, <1>4

LEMMA PublishCommits ==
  ASSUME Tables, Book, Calls, NEW r \in Requests, CommitPublish(r)
  PROVE  /\ Publishes(r) => /\ Answers(r, RestoreEntries(r), "RESTORED", "restore")
                            /\ TakeBackOrReturn(RestoreEntries(r))
         /\ Tables' /\ Book' /\ Keys \subseteq Keys'
<1>1. r.op \in {"UNHIDE", "REVERSE"} /\ r.on \in Contents
  BY RequestsAssumption DEF CommitPublish, Commits, ContentCalls
<1>2. enforced' \in [Contents -> SUBSET Scopes]
  BY <1>1 DEF CommitPublish, Tables
<1>3. CASE ~Publishes(r)
  BY <1>2, <1>3 DEF CommitPublish, Tables, Book, Keys, RowOk, IsAward, cosmeticVars
<1>4. CASE Publishes(r)
  <2>1. IsFiniteSet(request[r].found) /\ \A a \in request[r].found : RowOk(a) /\ IsAward(a)
    BY <1>1 DEF Calls, TypedFor
  <2>. PICK entries : entries = RestoreEntries(r)
    OBVIOUS
  <2>2. Answers(r, entries, "RESTORED", "restore") /\ TakeBackOrReturn(entries)
    BY <1>4, <2>1, RestoreAnswers DEF CommitPublish
  <2>3. /\ Book' /\ Keys \subseteq Keys'
        /\ wallet' = [u \in Users |-> wallet'[u]] /\ \A u \in Users : WalletOk(wallet'[u])
    BY <2>2, ReturnCommits DEF Returns
  <2>4. status' \in [Contents -> {"ABSENT", "PUBLISHED", "HIDDEN"}]
    BY <1>1, <1>4 DEF CommitPublish, Tables
  <2>5. Tables'
    BY <1>2, <2>3, <2>4 DEF CommitPublish, Tables, cosmeticVars
  <2>. QED  BY <2>2, <2>3, <2>5
<1>. QED  BY <1>3, <1>4

\* A transaction that only locks, reads or ends.
Waits(r) == Open(r) \/ Acquire(r) \/ Decide(r) \/ RollBack(r)
CommitsAny(r) ==
  \/ CommitLike(r) \/ CommitComment(r) \/ CommitCheckIn(r) \/ CommitAdjust(r) \/ CommitHide(r) \/ CommitPublish(r)
  \/ CommitTakedown(r) \/ CommitReactivate(r) \/ CommitGrant(r) \/ CommitEquip(r)
Statements == (\E u \in Users, c \in Contents : Unlike(u, c)) \/ (\E u \in Users : Unequip(u))

LEMMA NextIs ==
  ASSUME Next
  PROVE  (\E r \in Requests : Waits(r) \/ CommitsAny(r)) \/ Statements
BY DEF Next, Waits, CommitsAny, Statements

LEMMA WaitsOnlyWaits ==
  ASSUME NEW r, Waits(r)
  PROVE  UNCHANGED <<contentVars, bookVars, cosmeticVars>>
BY DEF Waits, Open, Acquire, Decide, RollBack

LEMMA Ends ==
  ASSUME NEW r, CommitsAny(r)
  PROVE  Turns(r, Closed) /\ request[r].at = "decided" /\ request[r].want = <<>>
BY DEF CommitsAny, CommitLike, CommitComment, CommitCheckIn, CommitAdjust, CommitHide, CommitPublish,
       CommitTakedown, CommitReactivate, CommitGrant, CommitEquip, Commits, Turns

\* The order of the locks is kept by every step.
LEMMA CallsNext == ASSUME Tables, Book, Calls, Next PROVE Calls'
<1>1. CASE \E r \in Requests : Waits(r)
  <2>. PICK r \in Requests : Waits(r)
    BY <1>1
  <2>1. RollBack(r) => Turns(r, Closed)
    BY DEF RollBack, Turns
  <2>. QED  BY <2>1, OpenCalls, AcquireCalls, DecideCalls, CloseCalls DEF Waits
<1>2. CASE \E r \in Requests : CommitsAny(r)
  BY <1>2, Ends, CloseCalls
<1>3. CASE Statements
  <2>1. request' = request
    BY <1>3 DEF Statements, Unlike, Unequip
  <2>2. \A r \in Requests : CallOk(request'[r]) /\ TypedFor(r, request'[r])
    BY <2>1 DEF Calls
  <2>3. \A r \in Requests : CallOk(request[r])' /\ TypedFor(r, request[r])'
    BY <2>2 DEF CallOk, TypedFor, RowOk, IsAward
  <2>4. \A r \in Requests : Locking(r)'
    BY <2>1 DEF Calls, Locking
  <2>5. Exclusive'
    BY <2>1 DEF Calls, Exclusive
  <2>. QED  BY <2>1, <2>3, <2>4, <2>5 DEF Calls
<1>. QED  BY <1>1, <1>2, <1>3, NextIs

LEMMA TurnIs ==
  ASSUME Calls, NEW r \in Requests, NEW c, Turns(r, c)
  PROVE  request'[r] = c /\ \A q \in Requests : q # r => request'[q] = request[q]
BY DEF Calls, Turns

\* What becomes of a request that does not commit.
LEMMA WaitsRequest ==
  ASSUME Calls, NEW r \in Requests, Waits(r)
  PROVE  /\ \A q \in Requests : q # r => request'[q] = request[q]
         /\ \/ request'[r].at = "closed"
            \/ request'[r].at = "locking" /\ request[r].at = "closed" /\ MayOpen(r) /\ request'[r].held = {}
            \/ request'[r].at = request[r].at /\ request'[r].found = request[r].found /\ Acquire(r)
            \/ request'[r] = Decided(r) /\ Decided(r).at = "decided" /\ Decided(r).found = Found(r)
               /\ request[r].at = "locking" /\ Decide(r) /\ Admitted(r)
<1>1. CASE Open(r)
  <2>. DEFINE c == [Closed EXCEPT !.at = "locking", !.want = FirstLocks(r)]
  <2>1. Turns(r, c) /\ request[r].at = "closed" /\ MayOpen(r)
    BY <1>1 DEF Open, Turns, IsOpen
  <2>2. c.at = "locking" /\ c.held = {}
    BY DEF Closed
  <2>. HIDE DEF c
  <2>. QED  BY <2>1, <2>2, TurnIs
<1>2. CASE Acquire(r)
  <2>. PICK c : c = Locked(r)
    OBVIOUS
  <2>1. Turns(r, c) /\ c.at = request[r].at /\ c.found = request[r].found
    BY <1>2, AcquireTurns
  <2>. QED  BY <1>2, <2>1, TurnIs
<1>3. CASE Decide(r)
  <2>. PICK c, found, want : c = Decided(r) /\ found = Found(r) /\ want = NextLocks(r)
    OBVIOUS
  <2>1. /\ request[r].at = "locking"
        /\ (~Admitted(r) /\ Turns(r, Closed)) \/ (Admitted(r) /\ Turns(r, c))
    BY <1>3, DecideTurns
  <2>2. c = [at |-> "decided", want |-> want, held |-> {FirstLock(r)}, found |-> found, saw |-> request[r].saw]
    BY <1>3, DecideTurns
  <2>3. c.at = "decided" /\ c.found = found
    BY <2>2
  <2>4. CASE Turns(r, c) /\ Admitted(r)
    BY <1>3, <2>1, <2>3, <2>4, TurnIs
  <2>5. CASE Turns(r, Closed)
    BY <2>5, TurnIs, ClosedOk
  <2>. QED  BY <2>1, <2>4, <2>5
<1>4. CASE RollBack(r)
  <2>1. Turns(r, Closed)
    BY <1>4 DEF RollBack, Turns
  <2>. QED  BY <2>1, TurnIs, ClosedOk
<1>. QED  BY <1>1, <1>2, <1>3, <1>4 DEF Waits

LEMMA EndsRequest ==
  ASSUME Calls, NEW r \in Requests, CommitsAny(r)
  PROVE  request'[r] = Closed /\ Closed.at = "closed" /\ \A q \in Requests : q # r => request'[q] = request[q]
BY Ends, TurnIs, ClosedOk

\* Two calls about the same row never have both decided.
LEMMA DecidedAlone ==
  ASSUME Calls, NEW r \in Requests, NEW q \in Requests, r # q,
         request[r].at = "decided", request[q].at = "decided"
  PROVE  FirstLock(r) # FirstLock(q)
BY DEF Calls, Locking, Exclusive

-----------------------------------------------------------------------------
(* Content is hidden exactly as long as it is restricted.                    *)

LEMMA VisibilityStays ==
  ASSUME Calls, Visibility, UNCHANGED <<status, enforced>>, NEW r \in Requests,
         \A q \in Requests : q # r => request'[q] = request[q],
         r.op = "COMMENT" /\ request'[r].at # "closed" => status[r.on] = "ABSENT",
         r.op \in {"HIDE", "UNHIDE", "REVERSE"} /\ request'[r].at = "decided" => status[r.on] # "ABSENT"
  PROVE  Visibility'
BY DEF Visibility, HiddenWhileRestricted, IsOpen

LEMMA VisibilityNext ==
  ASSUME Tables, Calls, Visibility, Next
  PROVE  Visibility'
<1>1. ASSUME NEW r \in Requests, Waits(r) PROVE Visibility'
  <2>1. UNCHANGED <<status, enforced>>
    BY <1>1, WaitsOnlyWaits DEF contentVars
  <2>2. r.op = "COMMENT" /\ request'[r].at # "closed" => status[r.on] = "ABSENT"
    <3>. SUFFICES ASSUME r.op = "COMMENT", request'[r].at # "closed" PROVE status[r.on] = "ABSENT"
      OBVIOUS
    <3>1. CASE MayOpen(r)
      BY <3>1 DEF MayOpen
    <3>2. CASE request[r].at # "closed"
      BY <3>2 DEF Visibility, IsOpen
    <3>. QED  BY <1>1, <3>1, <3>2, WaitsRequest
  <2>3. r.op \in {"HIDE", "UNHIDE", "REVERSE"} /\ request'[r].at = "decided" => status[r.on] # "ABSENT"
    <3>. SUFFICES ASSUME r.op \in {"HIDE", "UNHIDE", "REVERSE"}, request'[r].at = "decided" PROVE status[r.on] # "ABSENT"
      OBVIOUS
    <3>1. CASE Admitted(r)
      BY <3>1 DEF Admitted
    <3>2. CASE request[r].at = "decided"
      BY <3>2 DEF Visibility
    <3>. QED  BY <1>1, <3>1, <3>2, WaitsRequest
  <2>. QED  BY <1>1, <2>1, <2>2, <2>3, VisibilityStays, WaitsRequest
<1>2. ASSUME NEW r \in Requests, CommitsAny(r), UNCHANGED <<status, enforced>> PROVE Visibility'
  BY <1>2, EndsRequest, VisibilityStays
<1>3. ASSUME NEW r \in Requests, CommitComment(r) PROVE Visibility'
  <2>1. CommitsAny(r) /\ r.op = "COMMENT" /\ IsOpen(r)
    BY <1>3 DEF CommitsAny, CommitComment, Commits, IsOpen
  <2>2. request'[r].at = "closed" /\ \A q \in Requests : q # r => request'[q] = request[q]
    BY <2>1, EndsRequest
  <2>3. r.on \in Comments /\ r.on \in Contents /\ status[r.on] = "ABSENT"
    BY <2>1, RequestsAssumption DEF Visibility, Contents
  <2>4. status' = [status EXCEPT ![r.on] = "PUBLISHED"] /\ enforced' = enforced
    BY <1>3 DEF CommitComment
  <2>5. \A q \in Requests : q # r /\ q.op = "COMMENT" => q.on # r.on
    BY <2>1, RequestsAssumption
  <2>6. HiddenWhileRestricted'
    BY <2>3, <2>4 DEF HiddenWhileRestricted, Visibility, Tables
  <2>7. \A c \in Contents : status[c] # "ABSENT" => status'[c] # "ABSENT"
    BY <2>3, <2>4 DEF Tables
  <2>8. \A c \in Contents : c # r.on => status'[c] = status[c]
    BY <2>4 DEF Tables
  <2>9. \A q \in Requests : q.op \in {"HIDE", "UNHIDE", "REVERSE", "COMMENT"} => q.on \in Contents
    BY RequestsAssumption DEF ContentCalls, Contents
  <2>. QED  BY <2>2, <2>5, <2>6, <2>7, <2>8, <2>9 DEF Visibility, IsOpen
<1>4. ASSUME NEW r \in Requests, CommitHide(r) \/ CommitPublish(r) PROVE Visibility'
  <2>1. /\ CommitsAny(r) /\ r.op \in {"HIDE", "UNHIDE", "REVERSE"} /\ request[r].at = "decided"
        /\ CommitHide(r) => r.op = "HIDE"
        /\ CommitPublish(r) => r.op \in {"UNHIDE", "REVERSE"}
    BY <1>4 DEF CommitsAny, CommitHide, CommitPublish, Commits
  <2>2. request'[r].at = "closed" /\ \A q \in Requests : q # r => request'[q] = request[q]
    BY <2>1, EndsRequest
  <2>3. r.on \in Contents /\ r.arg \in Scopes /\ status[r.on] \in {"PUBLISHED", "HIDDEN"}
    BY <2>1, RequestsAssumption DEF Visibility, ContentCalls, Tables
  <2>4. /\ \A c \in Contents : c # r.on => status'[c] = status[c] /\ enforced'[c] = enforced[c]
        /\ status'[r.on] \in {"PUBLISHED", "HIDDEN"}
        /\ status'[r.on] = "HIDDEN" <=> enforced'[r.on] # {}
    <3>1. status[r.on] = "HIDDEN" <=> enforced[r.on] # {}
      BY <2>3 DEF Visibility, HiddenWhileRestricted
    <3>2. CASE CommitHide(r)
      <4>1. enforced' = [enforced EXCEPT ![r.on] = enforced[r.on] \cup {r.arg}]
        BY <2>3, <3>2 DEF CommitHide, Tables
      <4>2. status' = IF Hides(r) THEN [status EXCEPT ![r.on] = "HIDDEN"] ELSE status
        BY <3>2 DEF CommitHide
      <4>3. ~Hides(r) => status[r.on] = "HIDDEN"
        BY <2>1, <2>3, <3>2 DEF Hides
      <4>. QED  BY <2>3, <4>1, <4>2, <4>3 DEF Tables
    <3>3. CASE CommitPublish(r)
      <4>1. enforced' = [enforced EXCEPT ![r.on] = enforced[r.on] \ Lifted(r)]
        BY <2>3, <3>3 DEF CommitPublish, Tables
      <4>2. status' = IF Publishes(r) THEN [status EXCEPT ![r.on] = "PUBLISHED"] ELSE status
        BY <3>3 DEF CommitPublish
      <4>3. enforced[r.on] \subseteq Scopes
        BY <2>3 DEF Tables
      <4>4. Publishes(r) => enforced[r.on] \ Lifted(r) = {}
        BY <4>3 DEF Publishes, Lifted
      <4>5. ~Publishes(r) => (enforced[r.on] = {} <=> enforced[r.on] \ Lifted(r) = {})
        BY <2>1, <2>3, <3>1, <3>3, <4>3 DEF Publishes, Lifted
      <4>. QED  BY <2>3, <3>1, <4>1, <4>2, <4>4, <4>5 DEF Tables
    <3>. QED  BY <1>4, <3>2, <3>3
  <2>5. HiddenWhileRestricted'
    BY <2>4 DEF HiddenWhileRestricted, Visibility
  <2>6. \A q \in Requests : q.op \in {"HIDE", "UNHIDE", "REVERSE", "COMMENT"} => q.on \in Contents
    BY RequestsAssumption DEF ContentCalls, Contents
  <2>. QED  BY <2>2, <2>3, <2>4, <2>5, <2>6 DEF Visibility, IsOpen
<1>5. ASSUME Statements PROVE Visibility'
  BY <1>5 DEF Statements, Unlike, Unequip, Visibility, HiddenWhileRestricted, IsOpen, contentVars
<1>6. ASSUME NEW r \in Requests, CommitsAny(r), ~CommitComment(r), ~CommitHide(r), ~CommitPublish(r)
      PROVE  UNCHANGED <<status, enforced>>
  BY <1>6 DEF CommitsAny, CommitLike, CommitCheckIn, CommitAdjust, CommitTakedown, CommitReactivate, CommitGrant,
              CommitEquip, contentVars
<1>. QED  BY <1>1, <1>2, <1>3, <1>4, <1>5, <1>6, NextIs

-----------------------------------------------------------------------------
(* Nobody wears what was taken down, and every owner of it is refunded.      *)

LEMMA ItemsStay ==
  ASSUME Calls, ItemsDecided, UNCHANGED <<active, owners, equipped>>, NEW r \in Requests,
         \A q \in Requests : q # r => request'[q] = request[q],
         request'[r].at = "decided" =>
           /\ r.op \in {"GRANT", "EQUIP"} => active[r.on]
           /\ r.op = "EQUIP" => r.who \in owners[r.on]
           /\ r.op = "TAKEDOWN" => request'[r].found = owners[r.on]
  PROVE  ItemsDecided'
BY DEF ItemsDecided, NobodyWearsRemovedItems

LEMMA OtherItem ==
  ASSUME Calls, NEW r \in Requests, NEW q \in Requests, r # q, request[r].at = "decided", request[q].at = "decided",
         r.op \in ItemCalls, q.op \in ItemCalls
  PROVE  r.on # q.on
<1>1. FirstLock(r) = <<"item", r.on>> /\ FirstLock(q) = <<"item", q.on>>
  BY DEF FirstLock, ContentCalls, ItemCalls
<1>. QED  BY <1>1, DecidedAlone

LEMMA ItemsNext ==
  ASSUME Tables, Calls, ItemsDecided, Next
  PROVE  ItemsDecided'
<1>1. ASSUME NEW r \in Requests, Waits(r) PROVE ItemsDecided'
  <2>1. UNCHANGED <<active, owners, equipped>>
    BY <1>1, WaitsOnlyWaits DEF cosmeticVars
  <2>2. \A q \in Requests : q # r => request'[q] = request[q]
    BY <1>1, WaitsRequest
  <2>3. ASSUME request'[r].at = "decided"
        PROVE  /\ r.op \in {"GRANT", "EQUIP"} => active[r.on]
               /\ r.op = "EQUIP" => r.who \in owners[r.on]
               /\ r.op = "TAKEDOWN" => request'[r].found = owners[r.on]
    <3>1. CASE request[r].at = "decided" /\ request'[r].found = request[r].found
      BY <3>1 DEF ItemsDecided
    <3>2. CASE Admitted(r) /\ request'[r].found = Found(r)
      BY <3>2 DEF Admitted, Found, Hides, Publishes
    <3>. QED  BY <1>1, <2>3, <3>1, <3>2, WaitsRequest
  <2>. QED  BY <2>1, <2>2, <2>3, ItemsStay
<1>2. ASSUME NEW r \in Requests, CommitsAny(r), UNCHANGED <<active, owners, equipped>> PROVE ItemsDecided'
  BY <1>2, EndsRequest, ItemsStay
<1>3. ASSUME NEW r \in Requests, CommitTakedown(r) \/ CommitReactivate(r) \/ CommitGrant(r) \/ CommitEquip(r)
      PROVE  ItemsDecided'
  <2>1. /\ CommitsAny(r) /\ r.op \in ItemCalls /\ request[r].at = "decided" /\ r.on \in Items
        /\ CommitTakedown(r) => r.op = "TAKEDOWN"
        /\ CommitEquip(r) => r.op = "EQUIP"
        /\ CommitGrant(r) => r.op = "GRANT"
    BY <1>3, RequestsAssumption
       DEF CommitsAny, CommitTakedown, CommitReactivate, CommitGrant, CommitEquip, Commits, ItemCalls
  <2>2. request'[r].at = "closed" /\ \A q \in Requests : q # r => request'[q] = request[q]
    BY <2>1, EndsRequest
  <2>3. \A e \in equipped : e[1] \in Users /\ e[2] \in Items /\ active[e[2]] /\ e[1] \in owners[e[2]]
    BY DEF ItemsDecided, NobodyWearsRemovedItems, Tables
  <2>4. /\ NobodyWearsRemovedItems'
        /\ \A i \in Items : i # r.on => active'[i] = active[i] /\ owners'[i] = owners[i]
    <3>1. CASE CommitTakedown(r)
      <4>1. active' = [active EXCEPT ![r.on] = FALSE] /\ owners' = owners /\ equipped' = equipped \ (Users \X {r.on})
        BY <3>1 DEF CommitTakedown
      <4>2. ASSUME NEW e \in equipped' PROVE e \in equipped /\ e[2] # r.on
        <5>1. e \in equipped /\ e \in Users \X Items
          BY <4>1 DEF Tables
        <5>. QED  BY <4>1, <5>1
      <4>3. \A i \in Items : i # r.on => active'[i] = active[i] /\ owners'[i] = owners[i]
        BY <4>1 DEF Tables
      <4>4. \A e \in equipped' : active'[e[2]] /\ e[1] \in owners'[e[2]]
        BY <2>3, <4>1, <4>2, <4>3
      <4>. QED  BY <4>3, <4>4 DEF NobodyWearsRemovedItems
    <3>2. CASE CommitReactivate(r)
      BY <2>1, <2>3, <3>2 DEF CommitReactivate, NobodyWearsRemovedItems, Tables
    <3>3. CASE CommitGrant(r)
      <4>1. active' = active /\ equipped' = equipped /\ owners' = [owners EXCEPT ![r.on] = owners[r.on] \cup {r.who}]
        BY <2>1, <3>3 DEF CommitGrant, Tables
      <4>. QED  BY <2>1, <2>3, <4>1 DEF NobodyWearsRemovedItems, Tables
    <3>4. CASE CommitEquip(r)
      <4>1. active' = active /\ owners' = owners /\ equipped' = {e \in equipped : e[1] # r.who} \cup {<<r.who, r.on>>}
        BY <3>4 DEF CommitEquip
      <4>2. active[r.on] /\ r.who \in owners[r.on]
        BY <2>1, <3>4 DEF ItemsDecided
      <4>. QED  BY <2>3, <4>1, <4>2 DEF NobodyWearsRemovedItems
    <3>. QED  BY <1>3, <3>1, <3>2, <3>3, <3>4
  <2>5. ASSUME NEW q \in Requests, request'[q].at = "decided"
        PROVE  /\ q.op \in {"GRANT", "EQUIP"} => active'[q.on]
               /\ q.op = "EQUIP" => q.who \in owners'[q.on]
               /\ q.op = "TAKEDOWN" => request'[q].found = owners'[q.on]
    <3>1. q # r /\ request'[q] = request[q]
      BY <2>2, <2>5
    <3>2. q.op \in ItemCalls => q.on # r.on /\ q.on \in Items
      BY <2>1, <2>5, <3>1, OtherItem, RequestsAssumption
    <3>. QED  BY <2>4, <2>5, <3>1, <3>2 DEF ItemsDecided, ItemCalls
  <2>. QED  BY <2>4, <2>5 DEF ItemsDecided
<1>4. ASSUME NEW r \in Requests, CommitsAny(r),
             ~CommitTakedown(r), ~CommitReactivate(r), ~CommitGrant(r), ~CommitEquip(r)
      PROVE  UNCHANGED <<active, owners, equipped>>
  BY <1>4 DEF CommitsAny, CommitLike, CommitComment, CommitCheckIn, CommitAdjust, CommitHide, CommitPublish, cosmeticVars
<1>5. ASSUME Statements PROVE ItemsDecided'
  BY <1>5 DEF Statements, Unlike, Unequip, ItemsDecided, NobodyWearsRemovedItems, cosmeticVars
<1>. QED  BY <1>1, <1>2, <1>3, <1>4, <1>5, NextIs

\* Tables and book of every step.
LEMMA BookNext ==
  ASSUME Tables, Book, Calls, ItemsDecided, Next
  PROVE  Tables' /\ Book' /\ Keys \subseteq Keys'
<1>1. ASSUME NEW r \in Requests, Waits(r) PROVE Tables' /\ Book' /\ Keys \subseteq Keys'
  BY <1>1, WaitsOnlyWaits DEF Tables, Book, Keys, RowOk, IsAward, contentVars, bookVars, cosmeticVars
<1>2. ASSUME NEW r \in Requests, CommitsAny(r) PROVE Tables' /\ Book' /\ Keys \subseteq Keys'
  <2>1. CASE CommitTakedown(r)
    <3>1. request[r].found = owners[r.on] /\ r.on \in Items
      BY <2>1, RequestsAssumption DEF CommitTakedown, Commits, ItemsDecided, ItemCalls
    <3>2. request[r].found \subseteq Users
      BY <3>1 DEF Tables
    <3>. QED  BY <2>1, <3>2, TakedownCommits
  <2>2. CASE CommitCheckIn(r)
    BY <2>2, CheckInCommits
  <2>3. CASE CommitAdjust(r)
    BY <2>3, AdjustCommits
  <2>. QED  BY <1>2, <2>1, <2>2, <2>3, LikeCommits, CommentCommits, HideCommits, PublishCommits, ItemCommits
            DEF CommitsAny
<1>3. ASSUME Statements PROVE Tables' /\ Book' /\ Keys \subseteq Keys'
  BY <1>3, SingleStatements DEF Statements
<1>. QED  BY <1>1, <1>2, <1>3, NextIs

LEMMA RefundsNext ==
  ASSUME Tables, Book, Calls, ItemsDecided, RefundsWritten, Next
  PROVE  RefundsWritten'
<1>1. Keys \subseteq Keys'
  BY BookNext
<1>2. ASSUME UNCHANGED <<active, owners>> PROVE RefundsWritten'
  BY <1>1, <1>2 DEF RefundsWritten
<1>3. ASSUME NEW r \in Requests, CommitTakedown(r) PROVE RefundsWritten'
  <2>1. r.on \in Items /\ request[r].found = owners[r.on]
    BY <1>3, RequestsAssumption DEF CommitTakedown, Commits, ItemsDecided, ItemCalls
  <2>2. request[r].found \subseteq Users
    BY <2>1 DEF Tables
  <2>3. \A u \in owners[r.on] : <<"takedown", r.on, u>> \in Keys'
    BY <1>3, <2>1, <2>2, TakedownCommits
  <2>4. owners' = owners /\ active' = [active EXCEPT ![r.on] = FALSE]
    BY <1>3 DEF CommitTakedown
  <2>5. ASSUME NEW i \in Items, NEW u \in Users, ~active'[i], u \in owners'[i] PROVE <<"takedown", i, u>> \in Keys'
    <3>1. CASE i = r.on
      BY <2>3, <2>4, <2>5, <3>1
    <3>2. CASE i # r.on
      <4>1. ~active[i] /\ u \in owners[i]
        BY <2>4, <2>5, <3>2 DEF Tables
      <4>. QED  BY <1>1, <4>1 DEF RefundsWritten
    <3>. QED  BY <3>1, <3>2
  <2>. QED  BY <2>5 DEF RefundsWritten
<1>4. ASSUME NEW r \in Requests, CommitReactivate(r) PROVE RefundsWritten'
  BY <1>1, <1>4 DEF CommitReactivate, RefundsWritten, Tables
<1>5. ASSUME NEW r \in Requests, CommitGrant(r) PROVE RefundsWritten'
  <2>1. active[r.on] /\ active' = active /\ owners' = [owners EXCEPT ![r.on] = owners[r.on] \cup {r.who}]
    BY <1>5, RequestsAssumption DEF CommitGrant, Commits, ItemsDecided, ItemCalls, Tables
  <2>2. ASSUME NEW i \in Items, NEW u \in Users, ~active'[i], u \in owners'[i] PROVE <<"takedown", i, u>> \in Keys
    <3>1. ~active[i] /\ u \in owners[i]
      BY <2>1, <2>2 DEF Tables
    <3>. QED  BY <3>1 DEF RefundsWritten
  <2>. QED  BY <1>1, <2>2 DEF RefundsWritten
<1>6. ASSUME NEW r \in Requests, CommitsAny(r), ~CommitTakedown(r), ~CommitReactivate(r), ~CommitGrant(r)
      PROVE  UNCHANGED <<active, owners>>
  BY <1>6 DEF CommitsAny, CommitLike, CommitComment, CommitCheckIn, CommitAdjust, CommitHide, CommitPublish, CommitEquip,
              cosmeticVars
<1>7. ASSUME NEW r \in Requests, Waits(r) PROVE UNCHANGED <<active, owners>>
  BY <1>7, WaitsOnlyWaits DEF cosmeticVars
<1>8. ASSUME Statements PROVE UNCHANGED <<active, owners>>
  BY <1>8 DEF Statements, Unlike, Unequip, cosmeticVars
<1>. QED  BY <1>2, <1>3, <1>4, <1>5, <1>6, <1>7, <1>8, NextIs

LEMMA RefundsOnce ==
  ASSUME Tables, Book, RefundsWritten
  PROVE  OwnersRefundedOnce
<1>. SUFFICES ASSUME NEW i \in Items, NEW u \in Users
              PROVE  LET refunds == {e \in ledger : e.reason = "TAKEDOWN_REFUND" /\ e.on = i /\ e.user = u}
                     IN /\ Cardinality(refunds) <= 1
                        /\ ~active[i] /\ u \in owners[i] => refunds # {}
  BY DEF OwnersRefundedOnce
<1>. DEFINE refunds == {e \in ledger : e.reason = "TAKEDOWN_REFUND" /\ e.on = i /\ e.user = u}
<1>1. \A e \in refunds : e.key = <<"takedown", i, u>> /\ e.reason \notin Returns /\ e \in ledger
  BY DEF Book, RowOk, Returns
<1>2. \A e, f \in refunds : e = f
  BY <1>1 DEF Book
<1>3. refunds = {} \/ \E e : refunds = {e}
  <2>. HIDE DEF refunds
  <2>. SUFFICES ASSUME refunds # {} PROVE \E e : refunds = {e}
    OBVIOUS
  <2>1. PICK e : e \in refunds
    OBVIOUS
  <2>2. refunds = {e}
    BY <1>2, <2>1
  <2>. QED  BY <2>2
<1>4. Cardinality(refunds) <= 1
  <2>. HIDE DEF refunds
  <2>1. CASE refunds = {}
    BY <2>1, FS_EmptySet
  <2>2. CASE \E e : refunds = {e}
    <3>1. PICK e : refunds = {e}
      BY <2>2
    <3>2. Cardinality({e}) = 1
      BY FS_Singleton
    <3>. QED  BY <3>1, <3>2
  <2>. QED  BY <1>3, <2>1, <2>2
<1>5. ASSUME ~active[i], u \in owners[i] PROVE refunds # {}
  <2>1. PICK e \in ledger : e.key = <<"takedown", i, u>>
    BY <1>5 DEF RefundsWritten, Keys
  <2>2. RowOk(e) /\ e.key[1] = "takedown"
    BY <2>1 DEF Book
  <2>3. e.reason = "TAKEDOWN_REFUND"
    BY <2>2 DEF RowOk, KeyHead
  <2>4. <<"takedown", i, u>> = <<"takedown", e.on, e.user>>
    BY <2>1, <2>2, <2>3 DEF RowOk
  <2>. QED  BY <2>1, <2>3, <2>4
<1>. QED  BY <1>4, <1>5

-----------------------------------------------------------------------------
LEMMA StartInvariant == ASSUME Init PROVE IInv
<1>1. WalletOk(NewWallet) /\ DayOk(NewDay)
  BY DEF WalletOk, DayOk, NewWallet, NewDay
<1>2. Tables
  BY <1>1, OwnersAssumption DEF Init, Tables
<1>3. Book
  BY FS_EmptySet DEF Init, Book
<1>4. Calls
  <2>1. \A r \in Requests : request[r] = Closed
    BY DEF Init
  <2>2. request = [r \in Requests |-> request[r]]
    BY DEF Init
  <2>3. \A r \in Requests : CallOk(request[r]) /\ Locking(r)
    BY <2>1, ClosedOk, EmptyOrder DEF Locking
  <2>4. \A r \in Requests : TypedFor(r, request[r])
    <3>1. Closed.found = {}
      BY DEF Closed
    <3>. QED  BY <2>1, <3>1, FS_EmptySet DEF TypedFor
  <2>5. Exclusive
    BY <2>1, ClosedOk DEF Exclusive
  <2>. QED  BY <2>2, <2>3, <2>4, <2>5 DEF Calls
<1>5. Visibility
  <2>1. \A r \in Requests : request[r].at = "closed"
    BY ClosedOk DEF Init
  <2>2. HiddenWhileRestricted
    BY DEF Init, HiddenWhileRestricted
  <2>. QED  BY <2>1, <2>2 DEF Visibility, IsOpen
<1>6. ItemsDecided
  BY ClosedOk DEF Init, ItemsDecided, NobodyWearsRemovedItems
<1>7. RefundsWritten
  BY DEF Init, RefundsWritten
<1>. QED  BY <1>2, <1>3, <1>4, <1>5, <1>6, <1>7 DEF IInv

LEMMA StepInvariant == ASSUME IInv, Next PROVE IInv'
BY CallsNext, VisibilityNext, ItemsNext, BookNext, RefundsNext DEF IInv

LEMMA StutterInvariant == ASSUME IInv, UNCHANGED vars PROVE IInv'
<1>1. UNCHANGED <<contentVars, bookVars, cosmeticVars>> /\ request' = request
  BY DEF vars
<1>2. \A r \in Requests : CallOk(request'[r]) /\ TypedFor(r, request'[r])
  BY <1>1 DEF IInv, Calls
<1>3. \A r \in Requests : CallOk(request[r])' /\ TypedFor(r, request[r])'
  BY <1>2 DEF CallOk, TypedFor, RowOk, IsAward
<1>4. Calls'
  <2>1. \A r \in Requests : Locking(r)'
    BY <1>1 DEF IInv, Calls, Locking
  <2>2. Exclusive'
    BY <1>1 DEF IInv, Calls, Exclusive
  <2>. QED  BY <1>1, <1>3, <2>1, <2>2 DEF Calls, IInv
<1>5. Tables' /\ Book' /\ RefundsWritten'
  BY <1>1 DEF IInv, Tables, Book, Keys, RefundsWritten, RowOk, IsAward, contentVars, bookVars, cosmeticVars
<1>6. Visibility' /\ ItemsDecided'
  BY <1>1 DEF IInv, Visibility, HiddenWhileRestricted, IsOpen, ItemsDecided, NobodyWearsRemovedItems, contentVars, cosmeticVars
<1>. QED  BY <1>4, <1>5, <1>6 DEF IInv

\* IInv is an invariant: rows of their types, known by their keys, and every transaction's locks taken in order
\* and exclusive.
THEOREM LedgerInvariant == Spec => []IInv
<1>1. IInv /\ [Next]_vars => IInv'
  BY StepInvariant, StutterInvariant
<1>. QED  BY StartInvariant, <1>1, PTL DEF Spec

\* Transactions always lock rows in the same order: content, item, days, wallets, by the user's id.  However many are open, and
\* whatever they wait for, some one of them waits for no other.
THEOREM DeadlockSafe == Spec => []NoDeadlock
<1>1. IInv => NoDeadlock
  BY OrderAvoidsDeadlock DEF IInv
<1>. QED  BY <1>1, LedgerInvariant, PTL

\* Content is hidden exactly while a restriction on it is active, whoever hid, restored or appealed it meanwhile.
THEOREM HiddenSafe == Spec => []HiddenWhileRestricted
<1>1. IInv => HiddenWhileRestricted
  BY DEF IInv, Visibility
<1>. QED  BY <1>1, LedgerInvariant, PTL

\* Nobody wears an item that was taken down, however the takedown met the equipping.
THEOREM TakedownSafe == Spec => []NobodyWearsRemovedItems
<1>1. IInv => NobodyWearsRemovedItems
  BY DEF IInv, ItemsDecided
<1>. QED  BY <1>1, LedgerInvariant, PTL

\* Every owner of an item that was taken down was refunded for it, and nobody twice.
THEOREM RefundSafe == Spec => []OwnersRefundedOnce
<1>1. IInv => OwnersRefundedOnce
  BY RefundsOnce DEF IInv
<1>. QED  BY <1>1, LedgerInvariant, PTL

-----------------------------------------------------------------------------
(* The day's Shards.                                                         *)

Daily == {"LIKE_RECEIVED", "COMMENT_RECEIVED", "COMMENT_WRITTEN", "DAILY_CHECKIN"}
DayRows(rows, u) == {e \in rows : e.user = u /\ e.currency = "SHARDS" /\ e.reason \in Daily}
DaySum(rows, u) == SumOver(DayRows(rows, u))

LEMMA DayRowsOk ==
  ASSUME NEW rows, IsFiniteSet(rows), \A e \in rows : RowOk(e), NEW u
  PROVE  IsFiniteSet(DayRows(rows, u)) /\ Amounts(DayRows(rows, u)) /\ DaySum(rows, u) \in Int
<1>1. IsFiniteSet(DayRows(rows, u)) /\ Amounts(DayRows(rows, u))
  BY FS_Subset DEF DayRows, Amounts, RowOk
<1>. QED  BY <1>1, SumIsInt DEF DaySum

LEMMA DaySumOfUnion ==
  ASSUME NEW S, NEW T, IsFiniteSet(S), IsFiniteSet(T), \A e \in S \cup T : RowOk(e), S \cap T = {}, NEW u
  PROVE  DaySum(S \cup T, u) = DaySum(S, u) + DaySum(T, u)
<1>1. DayRows(S \cup T, u) = DayRows(S, u) \cup DayRows(T, u) /\ DayRows(S, u) \cap DayRows(T, u) = {}
  BY DEF DayRows
<1>2. /\ IsFiniteSet(DayRows(S, u)) /\ Amounts(DayRows(S, u))
      /\ IsFiniteSet(DayRows(T, u)) /\ Amounts(DayRows(T, u))
  BY DayRowsOk
<1>. QED  BY <1>1, <1>2, SumOfUnion DEF DaySum

LEMMA PostedDay ==
  ASSUME Book, NEW r, NEW entries, Postable(entries), Post(r, entries), NEW u
  PROVE  DaySum(ledger', u) = DaySum(ledger, u) + DaySum(entries, u)
<1>1. ledger' = ledger \cup entries /\ ledger \cap entries = {}
  BY DEF Post, Keys
<1>. QED  BY <1>1, DaySumOfUnion DEF Book, Postable

LEMMA ReturnedDay ==
  ASSUME Book, NEW entries, TakeBackOrReturn(entries), NEW u,
         \A e \in entries : RowOk(e) /\ e.reason \in Returns /\ (e.reason = "REVOKED" => e.delta <= 0)
  PROVE  DaySum(ledger', u) = DaySum(ledger, u)
<1>. DEFINE S == DayRows(ledger, u)  f == [a \in S |-> Mark(a, entries)]
<1>1. ledger' = {Mark(a, entries) : a \in ledger} \cup entries
  BY MarkedIs DEF TakeBackOrReturn
<1>2. ASSUME NEW a \in ledger
      PROVE  LET m == Mark(a, entries)
             IN m.key = a.key /\ m.user = a.user /\ m.currency = a.currency /\ m.delta = a.delta /\ m.reason = a.reason
  <2>1. \A e \in entries : e.delta \in Int /\ (e.reason = "REVOKED" => e.delta <= 0)
    BY DEF RowOk
  <2>2. RowOk(a)
    BY DEF Book
  <2>. QED  BY <2>1, <2>2, MarkIs
<1>3. \A e \in entries : e.reason \notin Daily
  BY DEF Daily, Returns
<1>4. DayRows(ledger', u) = {f[a] : a \in S}
  <2>1. ASSUME NEW e \in DayRows(ledger', u) PROVE e \in {f[a] : a \in S}
    <3>1. PICK a \in ledger : e = Mark(a, entries)
      BY <1>1, <1>3 DEF DayRows
    <3>2. a \in S
      BY <1>2, <3>1 DEF DayRows
    <3>. QED  BY <3>1, <3>2
  <2>2. ASSUME NEW a \in S PROVE f[a] \in DayRows(ledger', u)
    <3>1. a \in ledger /\ f[a] = Mark(a, entries)
      BY DEF DayRows
    <3>. QED  BY <1>1, <1>2, <3>1 DEF DayRows
  <2>. HIDE DEF S, f
  <2>. QED  BY <2>1, <2>2
<1>5. ASSUME NEW a \in S, NEW b \in S, f[a] = f[b] PROVE a = b
  <2>1. a \in ledger /\ b \in ledger /\ a.key = b.key
    BY <1>2, <1>5 DEF DayRows
  <2>2. a.reason \notin Returns /\ b.reason \notin Returns
    BY DEF DayRows, Daily, Returns
  <2>. QED  BY <2>1, <2>2 DEF Book
<1>6. \A a \in S : f[a].delta = a.delta
  BY <1>2 DEF DayRows
<1>7. IsFiniteSet(S) /\ Amounts(S)
  BY DayRowsOk DEF Book
<1>. HIDE DEF S, f
<1>8. SumOver({f[a] : a \in S}) = SumOver(S)
  BY <1>5, <1>6, <1>7, SumOfImage
<1>. QED  BY <1>4, <1>8 DEF DaySum, S

LEMMA DaySumOfOne ==
  ASSUME NEW e, RowOk(e), e.currency = "SHARDS", e.reason \in Daily, NEW u
  PROVE  DaySum({e}, u) = IF u = e.user THEN e.delta ELSE 0
<1>1. CASE u = e.user
  <2>1. DayRows({e}, u) = {e} /\ e.delta \in Int
    BY <1>1 DEF DayRows, RowOk
  <2>. QED  BY <1>1, <2>1, SumOfOne DEF DaySum
<1>2. CASE u # e.user
  <2>1. DayRows({e}, u) = {}
    BY <1>2 DEF DayRows
  <2>2. SumOver({}) = 0
    BY FS_EmptySet, SumUnfolds
  <2>. QED  BY <1>2, <2>1, <2>2 DEF DaySum
<1>. QED  BY <1>1, <1>2

\* An interaction adds to its owner's day only.
DayShare(received, owner) ==
  \A u : /\ u = owner => DaySum(received.entries, u) = received.day.credited - today[owner].credited
         /\ u # owner => DaySum(received.entries, u) = 0

LEMMA EarningDay ==
  ASSUME Tables, NEW r, NEW owner \in Users, NEW reason, NEW key, NEW received, Earning(r, owner, reason, key, received),
         r.on \in Contents, KeyOfInteraction(reason, key)
  PROVE  /\ DayShare(received, owner)
         /\ DayOk(received.day) /\ (today[owner].credited <= DailyShardCap => received.day.credited <= DailyShardCap)
<1>1. PICK gained, shards \in Int :
        /\ received.day.credited = today[owner].credited + shards /\ shards >= 0
        /\ today[owner].credited <= DailyShardCap => received.day.credited <= DailyShardCap
        /\ received.entries =
             Only(gained > 0, Entry(key \o <<"rep">>, owner, "REPUTATION", gained, reason, r.on))
               \cup Only(shards > 0, Entry(key \o <<"shards">>, owner, "SHARDS", shards, reason, r.on))
  BY DEF Earning
<1>. PICK d, e : /\ d = Entry(key \o <<"rep">>, owner, "REPUTATION", gained, reason, r.on)
                 /\ e = Entry(key \o <<"shards">>, owner, "SHARDS", shards, reason, r.on)
  OBVIOUS
<1>2. /\ d.currency = "REPUTATION" /\ e.currency = "SHARDS" /\ e.reason = reason /\ e.delta = shards /\ e.user = owner
      /\ reason \in Daily
  BY DEF Entry, Row, KeyOfInteraction, Daily
<1>3. Postable(received.entries)
  BY EarningRows
<1>4. today[owner].credited \in Int
  BY DEF Tables, DayOk
<1>5. received.day.credited - today[owner].credited = shards
  BY <1>1, <1>4
<1>6. ASSUME shards > 0 PROVE DayShare(received, owner)
  <2>1. e \in received.entries
    BY <1>1, <1>6 DEF Only
  <2>2. RowOk(e)
    BY <1>3, <2>1 DEF Postable
  <2>3. \A u : DayRows(received.entries, u) = DayRows({e}, u)
    BY <1>1, <1>2, <1>6 DEF Only, DayRows
  <2>4. \A u : DaySum({e}, u) = IF u = owner THEN shards ELSE 0
    BY <1>2, <2>2, DaySumOfOne
  <2>. QED  BY <1>5, <2>3, <2>4 DEF DaySum, DayShare
<1>7. ASSUME ~(shards > 0) PROVE DayShare(received, owner)
  <2>1. shards = 0
    BY <1>1, <1>7
  <2>2. \A u : DayRows(received.entries, u) = {}
    BY <1>1, <1>2, <1>7 DEF Only, DayRows
  <2>3. SumOver({}) = 0
    BY FS_EmptySet, SumUnfolds
  <2>. QED  BY <1>5, <2>1, <2>2, <2>3 DEF DaySum, DayShare
<1>. QED  BY <1>1, <1>6, <1>7 DEF Earning

\* The day's rows grow by what is posted.
DayKept(u) == /\ today'[u].credited <= DailyShardCap
              /\ today'[u].credited = DaySum(ledger', u)

LEMMA DayPosted ==
  ASSUME Tables, Book, DailyCapHolds, NEW r, NEW entries, Postable(entries), Post(r, entries), NEW u \in Users,
         today'[u].credited \in Int, today'[u].credited <= DailyShardCap,
         DaySum(entries, u) = today'[u].credited - today[u].credited
  PROVE  DayKept(u)
<1>1. today[u].credited = DaySum(ledger, u) /\ today[u].credited \in Int
  BY DEF DailyCapHolds, DaySum, DayRows, Daily, Tables, DayOk
<1>2. DaySum(ledger', u) = DaySum(ledger, u) + DaySum(entries, u)
  BY PostedDay
<1>. QED  BY <1>1, <1>2 DEF DayKept

LEMMA CapIs ==
  /\ DailyCapHolds <=> \A u \in Users : today[u].credited <= DailyShardCap /\ today[u].credited = DaySum(ledger, u)
  /\ DailyCapHolds' <=> \A u \in Users : DayKept(u)
BY DEF DailyCapHolds, DaySum, DayRows, Daily, DayKept

LEMMA TodayIs ==
  ASSUME Tables, DailyCapHolds, NEW u \in Users
  PROVE  today[u].credited \in Int /\ today[u].credited <= DailyShardCap
<1>1. DayOk(today[u])
  BY DEF Tables
<1>. QED  BY <1>1, CapIs DEF DayOk

LEMMA NoRowsNoSum ==
  ASSUME NEW rows, NEW u, \A e \in rows : e.user = u => e.currency # "SHARDS" \/ e.reason \notin Daily
  PROVE  DaySum(rows, u) = 0
<1>1. DayRows(rows, u) = {}
  BY DEF DayRows
<1>. QED  BY <1>1, FS_EmptySet, SumUnfolds DEF DaySum

LEMMA LikeDay ==
  ASSUME Tables, Book, DailyCapHolds, NEW r \in Requests, CommitLike(r), Earns(r)
  PROVE  DailyCapHolds'
<1>1. r.op = "LIKE" /\ r.on \in Contents /\ Author[r.on] \in Users
  BY RequestsAssumption, AuthorAssumption DEF ContentCalls, CommitLike, Commits
<1>. PICK owner \in Users : owner = Author[r.on]
  BY <1>1
<1>. DEFINE key == <<"like", r.on, r.who>>
            nth == 1 + Cardinality({i \in counted : i[1] = "LIKE" /\ i[2] = r.on})
            bonus == IF nth \in DOMAIN Milestones THEN Milestones[nth] ELSE 0
            received == Received(r, owner, "likes", "LIKE_RECEIVED", key)
            extra == Entry(<<"milestone", r.on, nth>>, owner, "SHARDS", bonus, "LIKE_MILESTONE", r.on)
            M == Only(bonus > 0, extra)
<1>2. Post(r, LikeRows(r)) /\ Postable(LikeRows(r))
  BY LikeCommits
<1>3. LikeRows(r) = received.entries \cup M
  BY DEF LikeRows
<1>4. Earning(r, owner, "LIKE_RECEIVED", key, received) /\ KeyOfInteraction("LIKE_RECEIVED", key)
  BY ReceivedIs DEF KeyOfInteraction
<1>5. today' = [today EXCEPT ![owner] = received.day]
  BY DEF CommitLike
<1>6. \A e \in M : e.reason = "LIKE_MILESTONE"
  BY DEF Only, Entry, Row
<1>. HIDE DEF received, M, key
<1>7. \A u : DayRows(LikeRows(r), u) = DayRows(received.entries, u)
  BY <1>3, <1>6 DEF DayRows, Daily
<1>8. ASSUME NEW u \in Users PROVE DayKept(u)
  <2>1. /\ DaySum(LikeRows(r), u) = IF u = owner THEN received.day.credited - today[owner].credited ELSE 0
        /\ DayOk(received.day) /\ (today[owner].credited <= DailyShardCap => received.day.credited <= DailyShardCap)
    <3>1. /\ DayShare(received, owner)
          /\ DayOk(received.day) /\ (today[owner].credited <= DailyShardCap => received.day.credited <= DailyShardCap)
      BY <1>1, <1>4, EarningDay
    <3>2. DaySum(LikeRows(r), u) = DaySum(received.entries, u)
      BY <1>7 DEF DaySum
    <3>. QED  BY <3>1, <3>2 DEF DayShare
  <2>2. today'[u] = IF u = owner THEN received.day ELSE today[u]
    BY <1>5 DEF Tables
  <2>3. today[u].credited \in Int /\ today[u].credited <= DailyShardCap
    BY TodayIs
  <2>4. /\ DaySum(LikeRows(r), u) = today'[u].credited - today[u].credited
        /\ today'[u].credited \in Int /\ today'[u].credited <= DailyShardCap
    BY <2>1, <2>2, <2>3 DEF DayOk
  <2>. QED  BY <1>2, <2>4, DayPosted
<1>. QED  BY <1>8, CapIs

LEMMA CommentDay ==
  ASSUME Tables, Book, DailyCapHolds, NEW r \in Requests, CommitComment(r), Author[PostOf[r.on]] # r.who
  PROVE  DailyCapHolds'
<1>. PICK owner : owner = Author[PostOf[r.on]]
  OBVIOUS
<1>. PICK received, mine : received = FromComment(r) /\ mine = OwnDay(r)
  OBVIOUS
<1>1. /\ r.op = "COMMENT" /\ r.who \in Users /\ owner \in Users /\ owner # r.who
      /\ Post(r, CommentRows(r)) /\ Postable(CommentRows(r))
      /\ today' = IF Counts(r) THEN [today EXCEPT ![r.who] = mine, ![owner] = received.day]
                  ELSE [today EXCEPT ![r.who] = mine]
  BY CommentCommits DEF CommitComment, Commits
<1>2. /\ DayOk(mine) /\ mine.credited - today[r.who].credited \in Nat
      /\ today[r.who].credited <= DailyShardCap => mine.credited <= DailyShardCap
  BY <1>1, OwnDayOk
<1>. PICK key : key = <<"comment", PostOf[r.on], r.who>>
  OBVIOUS
<1>3. Earning(r, owner, "COMMENT_RECEIVED", key, received) /\ KeyOfInteraction("COMMENT_RECEIVED", key) /\ r.on \in Contents
  BY <1>1, CommentRowsPostable, RequestsAssumption DEF KeyOfInteraction, Contents
<1>4. \A e \in received.entries : e.user = owner
  BY <1>1, <1>3, EarningRows
<1>5. CommentRows(r) = IF Counts(r) THEN WrittenRow(r) \cup received.entries ELSE WrittenRow(r)
  BY DEF CommentRows
<1>6. WrittenRow(r) \subseteq CommentRows(r) /\ \A e \in WrittenRow(r) : e.user = r.who /\ e.reason = "COMMENT_WRITTEN"
  BY <1>5 DEF WrittenRow, Only, Entry, Row
<1>7. DaySum(WrittenRow(r), r.who) = mine.credited - today[r.who].credited
  <2>. PICK paid \in Nat : paid = mine.credited - today[r.who].credited
    BY <1>2
  <2>. PICK e : e = Entry(<<"comment-written", r.on>>, r.who, "SHARDS", paid, "COMMENT_WRITTEN", r.on)
    OBVIOUS
  <2>1. WrittenRow(r) = IF paid > 0 THEN {e} ELSE {}
    BY DEF WrittenRow, Only
  <2>2. e.user = r.who /\ e.currency = "SHARDS" /\ e.reason \in Daily /\ e.delta = paid
    BY DEF Entry, Row, Daily
  <2>3. CASE paid > 0
    <3>1. RowOk(e)
      BY <1>1, <1>6, <2>1, <2>3 DEF Postable
    <3>2. DaySum({e}, r.who) = paid
      BY <2>2, <3>1, DaySumOfOne
    <3>. QED  BY <2>1, <2>3, <3>2
  <2>4. CASE paid = 0
    <3>1. WrittenRow(r) = {} /\ DaySum({}, r.who) = 0
      BY <2>1, <2>4, NoRowsNoSum
    <3>. QED  BY <2>4, <3>1
  <2>. QED  BY <2>3, <2>4
<1>8. ASSUME NEW u \in Users PROVE DayKept(u)
  <2>1. today[u].credited \in Int /\ today[u].credited <= DailyShardCap
    BY TodayIs
  <2>2. /\ DaySum(received.entries, owner) = received.day.credited - today[owner].credited
        /\ DayOk(received.day) /\ (today[owner].credited <= DailyShardCap => received.day.credited <= DailyShardCap)
    <3>1. DayShare(received, owner)
      BY <1>1, <1>3, EarningDay
    <3>2. DayOk(received.day) /\ (today[owner].credited <= DailyShardCap => received.day.credited <= DailyShardCap)
      BY <1>1, <1>3, EarningDay
    <3>. QED  BY <3>1, <3>2 DEF DayShare
  <2>3. CASE u = r.who
    <3>1. DayRows(CommentRows(r), u) = DayRows(WrittenRow(r), u)
      BY <1>1, <1>4, <1>5, <2>3 DEF DayRows
    <3>2. DaySum(CommentRows(r), u) = mine.credited - today[u].credited
      BY <1>7, <2>3, <3>1 DEF DaySum
    <3>3. today'[u] = mine
      BY <1>1, <2>3 DEF Tables
    <3>4. today'[u].credited \in Int /\ today'[u].credited <= DailyShardCap
      BY <1>2, <2>1, <2>3, <3>3 DEF DayOk
    <3>5. DaySum(CommentRows(r), u) = today'[u].credited - today[u].credited
      BY <3>2, <3>3
    <3>. QED  BY <1>1, <3>4, <3>5, DayPosted
  <2>4. CASE u = owner /\ Counts(r)
    <3>1. DayRows(CommentRows(r), u) = DayRows(received.entries, u)
      BY <1>1, <1>5, <1>6, <2>4 DEF DayRows
    <3>2. DaySum(CommentRows(r), u) = received.day.credited - today[u].credited
      BY <2>2, <2>4, <3>1 DEF DaySum
    <3>3. today'[u] = received.day
      BY <1>1, <2>4 DEF Tables
    <3>4. today'[u].credited \in Int /\ today'[u].credited <= DailyShardCap
      BY <2>1, <2>2, <2>4, <3>3 DEF DayOk
    <3>5. DaySum(CommentRows(r), u) = today'[u].credited - today[u].credited
      BY <3>2, <3>3
    <3>. QED  BY <1>1, <3>4, <3>5, DayPosted
  <2>5. CASE u # r.who /\ ~(u = owner /\ Counts(r))
    <3>1. \A e \in CommentRows(r) : e.user # u
      BY <1>4, <1>5, <1>6, <2>5
    <3>2. DaySum(CommentRows(r), u) = 0
      BY <3>1, NoRowsNoSum
    <3>3. today'[u] = today[u]
      BY <1>1, <2>5 DEF Tables
    <3>4. today'[u].credited \in Int /\ today'[u].credited <= DailyShardCap
      BY <2>1, <3>3
    <3>5. DaySum(CommentRows(r), u) = today'[u].credited - today[u].credited
      BY <2>1, <3>2, <3>3
    <3>. QED  BY <1>1, <3>4, <3>5, DayPosted
  <2>. QED  BY <2>3, <2>4, <2>5
<1>. QED  BY <1>8, CapIs

LEMMA CheckInDay ==
  ASSUME Tables, Book, DailyCapHolds, NEW r \in Requests, CommitCheckIn(r)
  PROVE  DailyCapHolds'
<1>. PICK day, row : /\ day = WithShards(today[r.who], CheckInShards)
                     /\ row = Entry(<<"checkin", r.who>>, r.who, "SHARDS", day.credited - today[r.who].credited,
                                    "DAILY_CHECKIN", Nothing)
  OBVIOUS
<1>1. /\ r.who \in Users /\ DayOk(day) /\ Post(r, {row}) /\ Postable({row}) /\ today' = [today EXCEPT ![r.who] = day]
  BY CheckInCommits
<1>2. row.user = r.who /\ row.currency = "SHARDS" /\ row.reason \in Daily /\ row.delta = day.credited - today[r.who].credited
  BY DEF Entry, Row, Daily
<1>3. today[r.who].credited <= DailyShardCap => day.credited <= DailyShardCap
  BY <1>1, WithShardsOk, AmountsAssumption DEF Tables
<1>4. ASSUME NEW u \in Users PROVE DayKept(u)
  <2>1. today[u].credited \in Int /\ today[u].credited <= DailyShardCap
    BY TodayIs
  <2>2. DaySum({row}, u) = IF u = r.who THEN day.credited - today[u].credited ELSE 0
    BY <1>1, <1>2, DaySumOfOne DEF Postable
  <2>3. today'[u] = IF u = r.who THEN day ELSE today[u]
    BY <1>1 DEF Tables
  <2>4. /\ DaySum({row}, u) = today'[u].credited - today[u].credited
        /\ today'[u].credited \in Int /\ today'[u].credited <= DailyShardCap
    BY <1>1, <1>3, <2>1, <2>2, <2>3 DEF DayOk
  <2>. QED  BY <1>1, <2>4, DayPosted
<1>. QED  BY <1>4, CapIs

LEMMA OtherDay ==
  ASSUME Tables, Book, DailyCapHolds, today' = today, NEW r, NEW entries, Postable(entries), Post(r, entries),
         \A e \in entries : e.reason \notin Daily
  PROVE  DailyCapHolds'
<1>1. ASSUME NEW u \in Users PROVE DayKept(u)
  <2>1. today[u].credited \in Int /\ today[u].credited <= DailyShardCap
    BY TodayIs
  <2>2. DaySum(entries, u) = 0
    BY NoRowsNoSum
  <2>. QED  BY <2>1, <2>2, DayPosted
<1>. QED  BY <1>1, CapIs

LEMMA ReturnDay ==
  ASSUME Tables, Book, DailyCapHolds, today' = today, NEW r, NEW entries, NEW reason \in Returns, NEW head,
         Answers(r, entries, reason, head), TakeBackOrReturn(entries)
  PROVE  DailyCapHolds'
<1>1. \A e \in entries : RowOk(e) /\ e.reason \in Returns /\ (e.reason = "REVOKED" => e.delta <= 0)
  BY DEF Answers
<1>2. \A u : DaySum(ledger', u) = DaySum(ledger, u)
  BY <1>1, ReturnedDay
<1>. QED  BY <1>2, CapIs DEF DayKept

LEMMA CapNext ==
  ASSUME Tables, Book, Calls, ItemsDecided, DailyCapHolds, Next
  PROVE  DailyCapHolds'
<1>1. ASSUME UNCHANGED <<today, ledger>> PROVE DailyCapHolds'
  BY <1>1 DEF DailyCapHolds
<1>2. ASSUME NEW r \in Requests, CommitsAny(r) PROVE DailyCapHolds'
  <2>1. CASE CommitLike(r)
    BY <1>1, <2>1, LikeDay DEF CommitLike, bookVars
  <2>2. CASE CommitComment(r)
    BY <1>1, <2>2, CommentDay DEF CommitComment, bookVars
  <2>3. CASE CommitCheckIn(r)
    BY <2>3, CheckInDay
  <2>4. CASE CommitAdjust(r)
    <3>. PICK row : row = Entry(<<"adjust", Cardinality(Corrections)>>, r.who, r.on, r.arg, "ADMIN_ADJUST", Nothing)
      OBVIOUS
    <3>1. Post(r, {row}) /\ Postable({row}) /\ today' = today
      BY <2>4, AdjustCommits DEF CommitAdjust
    <3>2. row.reason \notin Daily
      BY DEF Entry, Row, Daily
    <3>. QED  BY <3>1, <3>2, OtherDay
  <2>5. CASE CommitHide(r)
    BY <1>1, <2>5, HideCommits, ReturnDay DEF CommitHide, Returns
  <2>6. CASE CommitPublish(r)
    BY <1>1, <2>6, PublishCommits, ReturnDay DEF CommitPublish, Returns
  <2>7. CASE CommitTakedown(r)
    <3>1. request[r].found \subseteq Users
      BY <2>7, RequestsAssumption DEF CommitTakedown, Commits, ItemsDecided, ItemCalls, Tables
    <3>2. Post(r, RefundRows(r)) /\ Postable(RefundRows(r)) /\ today' = today
      BY <2>7, <3>1, TakedownCommits DEF CommitTakedown
    <3>3. \A e \in RefundRows(r) : e.reason \notin Daily
      <4>1. ASSUME NEW u \in Users PROVE Refund(r, u).reason \notin Daily
        BY DEF Refund, Entry, Row, Daily
      <4>. QED  BY <3>1, <4>1 DEF RefundRows, ToRefund
    <3>. QED  BY <3>2, <3>3, OtherDay
  <2>8. CASE CommitReactivate(r) \/ CommitGrant(r) \/ CommitEquip(r)
    BY <1>1, <2>8 DEF CommitReactivate, CommitGrant, CommitEquip, bookVars
  <2>. QED  BY <1>2, <2>1, <2>2, <2>3, <2>4, <2>5, <2>6, <2>7, <2>8 DEF CommitsAny
<1>3. ASSUME NEW r \in Requests, Waits(r) PROVE DailyCapHolds'
  BY <1>1, <1>3, WaitsOnlyWaits DEF bookVars
<1>4. ASSUME Statements PROVE DailyCapHolds'
  BY <1>1, <1>4 DEF Statements, Unlike, Unequip, bookVars
<1>. QED  BY <1>2, <1>3, <1>4, NextIs

\* Everything one day credits within the cap, from however many transactions at once, is at most the cap, and
\* the day's row counts just what the ledger shows: every statement adds to the row, which its transaction
\* holds locked, what the rows it posts add up to (economy.service.ts, creditCappedShards).
THEOREM CapSafe == Spec => []DailyCapHolds
<1>1. ASSUME Init PROVE DailyCapHolds
  <2>1. ASSUME NEW u \in Users PROVE today[u].credited <= DailyShardCap /\ today[u].credited = DaySum(ledger, u)
    <3>1. today[u].credited = 0 /\ ledger = {}
      BY <1>1 DEF Init, NewDay
    <3>2. DaySum(ledger, u) = 0
      BY <3>1, NoRowsNoSum
    <3>. QED  BY <3>1, <3>2, AmountsAssumption
  <2>. QED  BY <2>1, CapIs
<1>2. ASSUME IInv, DailyCapHolds, [Next]_vars PROVE DailyCapHolds'
  <2>1. CASE Next
    BY <1>2, <2>1, CapNext DEF IInv
  <2>2. CASE UNCHANGED vars
    BY <1>2, <2>2 DEF DailyCapHolds, vars, bookVars
  <2>. QED  BY <1>2, <2>1, <2>2
<1>. QED  BY <1>1, <1>2, LedgerInvariant, PTL DEF Spec

-----------------------------------------------------------------------------
(* What was taken back is given back.                                        *)

\* The rows that took back or returned an award.
ReturnsOf(rows, key) == {e \in rows : e.award = key}
GivesBack(a, rows, shown) ==
  /\ SumOver(ReturnsOf(rows, a.key)) = IF Revoked(a) THEN 0 - a.taken ELSE 0
  /\ Revoked(a) => shown[a.on] = "HIDDEN"

\* They are numbered by the changes of the content's visibility: none of the next change is there yet.
Numbered(e, rows, shown, changes) ==
  /\ e.reason = "REVOKED" => \E n \in Nat : n < changes[e.on] /\ e.key = <<"revoke", e.award, n>>
  /\ e.reason = "RESTORED" => \E n \in Nat : /\ n <= changes[e.on] /\ e.key = <<"restore", e.award, n>>
                                             /\ n = changes[e.on] => shown[e.on] # "HIDDEN"
  /\ e.reason \in Returns => e.on \in Contents /\ \E a \in rows : IsAward(a) /\ a.key = e.award /\ a.on = e.on

\* What a moderator is about to take back or to return are all the awards of the content, while it stays locked.
Moderating(r) == r.op \in {"HIDE", "UNHIDE", "REVERSE"}
OfContent(rows, c, revoked) == {e \in rows : e.on = c /\ IsAward(e) /\ (Revoked(e) <=> revoked)}
Showing(r, shown, scopes) ==
  r.op \in {"UNHIDE", "REVERSE"} /\ shown = "HIDDEN" /\ (r.op = "REVERSE" => scopes \subseteq {r.arg})
FoundAll(r, found, rows, shown, scopes) ==
  /\ r.op = "HIDE" /\ shown = "PUBLISHED" => found = OfContent(rows, r.on, FALSE)
  /\ Showing(r, shown, scopes) => found = OfContent(rows, r.on, TRUE)

AwardsFound ==
  \A r \in Requests : Moderating(r) /\ request[r].at = "decided" =>
    FoundAll(r, request[r].found, ledger, status[r.on], enforced[r.on])

AllNumbered == \A e \in ledger : Numbered(e, ledger, status, flips)

LEMMA GivesBackIs ==
  /\ RestoreGivesBackWhatWasTaken <=> \A a \in ledger : IsAward(a) => GivesBack(a, ledger, status)
  /\ RestoreGivesBackWhatWasTaken' <=> \A a \in ledger' : IsAward(a) => GivesBack(a, ledger', status')
BY DEF RestoreGivesBackWhatWasTaken, GivesBack, ReturnsOf, IsAward, Revoked

LEMMA NumberedIs == AllNumbered' <=> \A e \in ledger' : Numbered(e, ledger', status', flips')
BY DEF AllNumbered, Numbered, IsAward

LEMMA FoundIs ==
  AwardsFound' <=> \A r \in Requests : Moderating(r) /\ request'[r].at = "decided" =>
                     FoundAll(r, request'[r].found, ledger', status'[r.on], enforced'[r.on])
BY DEF AwardsFound, FoundAll, Showing, Moderating, OfContent, IsAward, Revoked

LEMMA ShowingIs ==
  ASSUME NEW r \in Requests, Moderating(r)
  PROVE  /\ Hides(r) <=> r.op = "HIDE" /\ status[r.on] = "PUBLISHED"
         /\ Publishes(r) <=> Showing(r, status[r.on], enforced[r.on])
         /\ FoundAll(r, Found(r), ledger, status[r.on], enforced[r.on])
BY DEF Moderating, Hides, Publishes, Showing, FoundAll, Found, AwardsOn, OfContent

\* While a moderator's call has decided, no other call has that locks its content or writes it.
LEMMA ApartFromOthers ==
  ASSUME Calls, Visibility, NEW r \in Requests, NEW q \in Requests, r # q, Moderating(q),
         request[r].at = "decided", request[q].at = "decided", r.op \in ContentCalls \cup {"COMMENT"}
  PROVE  q.on # r.on
<1>1. CASE r.op \in ContentCalls
  BY <1>1, DecidedAlone DEF FirstLock, Moderating, ContentCalls
<1>2. CASE r.op = "COMMENT"
  BY <1>2 DEF Visibility, Moderating, IsOpen
<1>. QED  BY <1>1, <1>2

\* What a transaction that earns, refunds or corrects adds to the book.
Adds(r, rows) ==
  /\ ledger' = ledger \cup rows
  /\ \A e \in rows : /\ e.key \notin Keys /\ RowOk(e) /\ e.reason \notin Returns
                     /\ IsAward(e) => e.on = r.on /\ e.taken = -1 /\ r.op \in {"LIKE", "COMMENT"}

LEMMA AddsGivesBack ==
  ASSUME Book, AllNumbered, RestoreGivesBackWhatWasTaken, NEW r, NEW rows, Adds(r, rows), flips' = flips,
         \A c \in Contents : status'[c] = "HIDDEN" <=> status[c] = "HIDDEN"
  PROVE  AllNumbered' /\ RestoreGivesBackWhatWasTaken'
<1>1. ledger' = ledger \cup rows
  BY DEF Adds
<1>2. \A e \in rows : e.award = <<>> /\ e.reason \notin Returns /\ RowOk(e)
  BY DEF Adds, RowOk
<1>3. ASSUME NEW e \in ledger' PROVE Numbered(e, ledger', status', flips')
  <2>1. CASE e \in rows
    BY <1>2, <2>1 DEF Numbered, Returns
  <2>2. CASE e \in ledger
    <3>1. Numbered(e, ledger, status, flips)
      BY <2>2 DEF AllNumbered
    <3>. QED  BY <1>1, <3>1 DEF Numbered, Returns
  <2>. QED  BY <1>1, <2>1, <2>2
<1>4. ASSUME NEW a \in ledger', IsAward(a) PROVE GivesBack(a, ledger', status')
  <2>1. a.key # <<>> /\ a.on \in Contents
    BY <1>1, <1>2, <1>4 DEF Book, RowOk
  <2>2. ReturnsOf(ledger', a.key) = ReturnsOf(ledger, a.key)
    BY <1>1, <1>2, <2>1 DEF ReturnsOf
  <2>3. CASE a \in ledger
    <3>1. GivesBack(a, ledger, status)
      BY <1>4, <2>3, GivesBackIs
    <3>. QED  BY <2>1, <2>2, <3>1 DEF GivesBack
  <2>4. CASE a \in rows
    <3>1. \A b \in ledger : b.key # a.key
      BY <2>4 DEF Adds, Keys
    <3>2. ReturnsOf(ledger, a.key) = {}
      <4>1. ASSUME NEW e \in ledger, e.award = a.key PROVE FALSE
        <5>1. e.reason \in Returns
          BY <2>1, <4>1 DEF Book, RowOk
        <5>. QED  BY <3>1, <4>1, <5>1 DEF AllNumbered, Numbered
      <4>. QED  BY <4>1 DEF ReturnsOf
    <3>3. ~Revoked(a)
      BY <1>4, <2>4 DEF Adds, Revoked
    <3>4. SumOver({}) = 0
      BY FS_EmptySet, SumUnfolds
    <3>. QED  BY <2>2, <3>2, <3>3, <3>4 DEF GivesBack
  <2>. QED  BY <1>1, <2>3, <2>4
<1>. QED  BY <1>3, <1>4, NumberedIs, GivesBackIs

\* It changes no content but its own.
KeepsOthers(r) ==
  \A c \in Contents : c # r.on \/ r.op \notin ContentCalls \cup {"COMMENT"} =>
                        status'[c] = status[c] /\ enforced'[c] = enforced[c]

LEMMA AddsFound ==
  ASSUME Calls, Visibility, AwardsFound, NEW r \in Requests, CommitsAny(r), NEW rows, Adds(r, rows),
         KeepsOthers(r)
  PROVE  AwardsFound'
<1>1. /\ request[r].at = "decided" /\ request'[r].at = "closed"
      /\ \A q \in Requests : q # r => request'[q] = request[q]
  BY Ends, EndsRequest
<1>2. ASSUME NEW q \in Requests, Moderating(q), request'[q].at = "decided"
      PROVE  FoundAll(q, request'[q].found, ledger', status'[q.on], enforced'[q.on])
  <2>1. q # r /\ request'[q] = request[q] /\ request[q].at = "decided"
    BY <1>1, <1>2
  <2>2. r.op \in ContentCalls \cup {"COMMENT"} => q.on # r.on
    BY <1>1, <1>2, <2>1, ApartFromOthers
  <2>3. status'[q.on] = status[q.on] /\ enforced'[q.on] = enforced[q.on]
    <3>1. q.on \in Contents
      BY <1>2, RequestsAssumption DEF Moderating, ContentCalls
    <3>. QED  BY <2>2, <3>1 DEF KeepsOthers
  <2>4. \A e \in rows : IsAward(e) => e.on # q.on
    BY <2>2 DEF Adds, ContentCalls
  <2>5. \A x : OfContent(ledger', q.on, x) = OfContent(ledger, q.on, x)
    BY <2>4 DEF OfContent, Adds
  <2>6. FoundAll(q, request[q].found, ledger, status[q.on], enforced[q.on])
    BY <1>2, <2>1 DEF AwardsFound
  <2>. QED  BY <2>1, <2>3, <2>5, <2>6 DEF FoundAll
<1>. QED  BY <1>2, FoundIs

\* Each award has one row that takes it back.
Once(entries) == \A e, f \in entries : e.award = f.award => e = f

LEMMA RevokeOnce ==
  ASSUME NEW r, IsFiniteSet(request[r].found), \A a, b \in request[r].found : a.key = b.key => a = b,
         NEW order \in SetToSeqs(request[r].found)
  PROVE  Once(RevokeEntries(r, order))
<1>. PICK found, k, saw : found = request[r].found /\ k = Cardinality(found) /\ saw = request[r].saw
  OBVIOUS
<1>1. /\ k \in Nat /\ order \in [1 .. k -> found] /\ \A i, j \in 1 .. k : order[i] = order[j] => i = j
  BY SeqOfSet
<1>. DEFINE Ahd(i) == {order[j] : j \in 1 .. (i - 1)}
            D(i) == 0 - Taken(order[i], Ahd(i), saw)
            E(i) == Row(<<"revoke", order[i].key, Nth(r)>>, order[i].user, order[i].currency, D(i), "REVOKED",
                        order[i].on, order[i].key)
<1>2. RevokeEntries(r, order) = {E(i) : i \in 1 .. k}
  <2>1. RevokeEntries(r, order) = {E(i) : i \in DOMAIN order}
    BY Zenon DEF RevokeEntries
  <2>2. DOMAIN order = 1 .. k
    BY <1>1
  <2>. HIDE DEF E
  <2>. QED  BY <2>1, <2>2
<1>3. \A i \in 1 .. k : E(i).award = order[i].key /\ order[i] \in found
  BY <1>1 DEF Row
<1>. HIDE DEF E
<1>4. ASSUME NEW e \in RevokeEntries(r, order), NEW f \in RevokeEntries(r, order), e.award = f.award PROVE e = f
  <2>1. PICK i \in 1 .. k, j \in 1 .. k : e = E(i) /\ f = E(j)
    BY <1>2
  <2>2. order[i] = order[j]
    BY <1>3, <1>4, <2>1
  <2>. QED  BY <1>1, <2>1, <2>2
<1>. QED  BY <1>4 DEF Once

LEMMA RestoreOnce ==
  ASSUME NEW r, \A a, b \in request[r].found : a.key = b.key => a = b
  PROVE  Once(RestoreEntries(r)) /\ \A a \in request[r].found, e \in RestoreEntries(r) : e.award = a.key => e.delta = a.taken
<1>. PICK found : found = request[r].found
  OBVIOUS
<1>. DEFINE E(a) == Row(<<"restore", a.key, Nth(r)>>, a.user, a.currency, GivenBack(a), "RESTORED", a.on, a.key)
<1>1. RestoreEntries(r) = {E(a) : a \in found}
  BY DEF RestoreEntries
<1>2. \A a \in found : E(a).award = a.key /\ E(a).delta = a.taken
  BY DEF Row, GivenBack
<1>. HIDE DEF E
<1>. QED  BY <1>1, <1>2 DEF Once

\* What a moderator's call does to the book.
Returning(r, entries, reason, head, revoked) ==
  /\ Answers(r, entries, reason, head) /\ Once(entries) /\ TakeBackOrReturn(entries)
  /\ request[r].found = OfContent(ledger, r.on, revoked)
  /\ \/ reason = "REVOKED" /\ head = "revoke"
     \/ reason = "RESTORED" /\ head = "restore" /\ status[r.on] = "HIDDEN"

\* This row alone is about the award, and marks it.
MarkedBy(e, a, entries, reason) ==
  /\ e.award = a.key /\ ReturnsOf(entries, a.key) = {e}
  /\ Mark(a, entries).taken = IF reason = "REVOKED" THEN 0 - e.delta ELSE -1

LEMMA ReturningMarks ==
  ASSUME Book, NEW r, NEW entries, NEW reason, NEW head, NEW revoked, Returning(r, entries, reason, head, revoked)
  PROVE  /\ ledger' = {Mark(a, entries) : a \in ledger} \cup entries
         /\ IsFiniteSet(entries) /\ \A e \in entries : RowOk(e) /\ e.reason \in Returns /\ e.on = r.on
         /\ \A a \in ledger : a \notin request[r].found =>
              Mark(a, entries) = a /\ (IsAward(a) => ReturnsOf(entries, a.key) = {})
         /\ \A a \in request[r].found : \E e \in entries : MarkedBy(e, a, entries, reason)
         /\ \A a \in ledger : LET m == Mark(a, entries)
                              IN RowOk(m) /\ m.key = a.key /\ m.reason = a.reason /\ m.on = a.on /\ m.award = a.award
<1>. PICK found : found = request[r].found
  OBVIOUS
<1>1. /\ IsFiniteSet(entries)
      /\ \A e \in entries : /\ RowOk(e) /\ e.reason = reason /\ e.reason \in Returns /\ (e.reason = "REVOKED" => e.delta <= 0)
                            /\ e.on = r.on /\ \E a \in found : e.award = a.key
      /\ \A a \in found : \E e \in entries : e.award = a.key
  BY DEF Returning, Answers, Returns, OfContent
<1>2. ledger' = {Mark(a, entries) : a \in ledger} \cup entries
  BY <1>1, MarkedIs DEF Returning, TakeBackOrReturn
<1>3. \A a \in found : a \in ledger /\ RowOk(a) /\ IsAward(a) /\ a.reason \notin Returns
  BY DEF Returning, OfContent, Book, IsAward, AwardReasons, Returns
<1>4. ASSUME NEW a \in ledger, NEW b \in found, a.key = b.key PROVE a = b
  <2>1. a.reason = b.reason
    BY <1>3, <1>4, RowIsWhat DEF Book
  <2>. QED  BY <1>3, <1>4, <2>1 DEF Book
<1>5. ASSUME NEW a \in ledger
      PROVE  LET m == Mark(a, entries)
             IN /\ RowOk(m) /\ m.key = a.key /\ m.reason = a.reason /\ m.on = a.on /\ m.award = a.award
                /\ (\A e \in entries : e.award # a.key) => m = a
                /\ (\E e \in entries : e.award = a.key) =>
                     \E e \in entries : e.award = a.key /\ m.taken = IF e.reason = "REVOKED" THEN 0 - e.delta ELSE -1
  <2>1. RowOk(a) /\ \A e \in entries : e.delta \in Int /\ (e.reason = "REVOKED" => e.delta <= 0)
    BY <1>1 DEF Book, RowOk
  <2>. QED  BY <2>1, MarkIs
<1>6. ASSUME NEW a \in ledger, a \notin found
      PROVE  Mark(a, entries) = a /\ (IsAward(a) => ReturnsOf(entries, a.key) = {})
  <2>1. \A e \in entries : e.award # a.key
    BY <1>1, <1>4, <1>6
  <2>. QED  BY <1>5, <2>1 DEF ReturnsOf
<1>7. ASSUME NEW a \in found
      PROVE  \E e \in entries : MarkedBy(e, a, entries, reason)
  <2>1. PICK e \in entries : e.award = a.key /\ Mark(a, entries).taken = IF e.reason = "REVOKED" THEN 0 - e.delta ELSE -1
    BY <1>1, <1>3, <1>5
  <2>2. ReturnsOf(entries, a.key) = {e}
    BY <2>1 DEF ReturnsOf, Returning, Once
  <2>. QED  BY <1>1, <2>1, <2>2 DEF MarkedBy
<1>. QED  BY <1>1, <1>2, <1>5, <1>6, <1>7

\* The keys of the new rows are new.
LEMMA ReturningIsNew ==
  ASSUME Tables, Book, AllNumbered, NEW r, r.on \in Contents, NEW entries, NEW reason, NEW head, NEW revoked,
         Returning(r, entries, reason, head, revoked)
  PROVE  entries \cap ledger = {}
<1>. SUFFICES ASSUME NEW e \in entries, e \in ledger PROVE FALSE
  OBVIOUS
<1>. PICK k : k = flips[r.on]
  OBVIOUS
<1>1. k \in Nat
  BY DEF Tables
<1>2. PICK a \in request[r].found : e.key = <<head, a.key, k>> /\ e.on = a.on /\ e.award = a.key
  BY DEF Returning, Answers, Nth
<1>3. e.on = r.on /\ e.reason = reason
  BY <1>2 DEF Returning, OfContent, Answers
<1>4. Numbered(e, ledger, status, flips)
  BY DEF AllNumbered
<1>5. CASE reason = "REVOKED"
  <2>1. PICK n \in Nat : n < k /\ e.key = <<"revoke", e.award, n>>
    BY <1>3, <1>4, <1>5 DEF Numbered
  <2>2. n = k
    BY <1>2, <2>1
  <2>. QED  BY <1>1, <2>1, <2>2
<1>6. CASE reason = "RESTORED" /\ status[r.on] = "HIDDEN"
  <2>1. PICK n \in Nat : e.key = <<"restore", e.award, n>> /\ (n = k => status[r.on] # "HIDDEN")
    BY <1>3, <1>4, <1>6 DEF Numbered
  <2>2. n = k
    BY <1>2, <2>1
  <2>. QED  BY <1>6, <2>1, <2>2
<1>. QED  BY <1>5, <1>6 DEF Returning

LEMMA ReturningSums ==
  ASSUME Tables, Book, AllNumbered, NEW r, r.on \in Contents, NEW entries, NEW reason, NEW head, NEW revoked,
         Returning(r, entries, reason, head, revoked), NEW a \in ledger, IsAward(a)
  PROVE  /\ SumOver(ReturnsOf(ledger', a.key)) = SumOver(ReturnsOf(ledger, a.key)) + SumOver(ReturnsOf(entries, a.key))
         /\ SumOver(ReturnsOf(ledger, a.key)) \in Int
<1>. DEFINE S == ReturnsOf(ledger, a.key)  T == ReturnsOf(entries, a.key)
<1>1. a.key # <<>>
  BY DEF Book, RowOk
<1>2. \A b \in request[r].found : b.reason \notin Returns
  BY DEF Returning, OfContent, IsAward, AwardReasons, Returns
<1>3. ASSUME NEW b \in ledger, b.award = a.key PROVE Mark(b, entries) = b
  <2>1. b.reason \in Returns
    BY <1>1, <1>3 DEF Book, RowOk
  <2>. QED  BY <1>2, <2>1, ReturningMarks
<1>4. ReturnsOf(ledger', a.key) = S \cup T
  <2>1. ledger' = {Mark(b, entries) : b \in ledger} \cup entries /\ \A b \in ledger : Mark(b, entries).award = b.award
    BY ReturningMarks
  <2>2. ASSUME NEW e \in ReturnsOf(ledger', a.key) PROVE e \in S \cup T
    <3>1. CASE e \in entries
      BY <2>2, <3>1 DEF ReturnsOf
    <3>2. CASE e \notin entries
      <4>1. PICK b \in ledger : e = Mark(b, entries)
        BY <2>1, <2>2, <3>2 DEF ReturnsOf
      <4>2. b.award = a.key
        BY <2>1, <2>2, <4>1 DEF ReturnsOf
      <4>. QED  BY <1>3, <4>1, <4>2 DEF ReturnsOf
    <3>. QED  BY <3>1, <3>2
  <2>3. ASSUME NEW e \in S \cup T PROVE e \in ReturnsOf(ledger', a.key)
    BY <1>3, <2>1, <2>3 DEF ReturnsOf
  <2>. QED  BY <2>2, <2>3
<1>5. IsFiniteSet(S) /\ Amounts(S) /\ IsFiniteSet(T) /\ Amounts(T)
  <2>1. IsFiniteSet(entries) /\ \A e \in entries : e.delta \in Int
    BY ReturningMarks DEF RowOk
  <2>2. IsFiniteSet(ledger) /\ \A e \in ledger : e.delta \in Int
    BY DEF Book, RowOk
  <2>. QED  BY <2>1, <2>2, FS_Subset DEF Amounts, ReturnsOf
<1>6. S \cap T = {}
  BY ReturningIsNew DEF ReturnsOf
<1>. HIDE DEF S, T
<1>7. SumOver(S \cup T) = SumOver(S) + SumOver(T) /\ SumOver(S) \in Int
  BY <1>5, <1>6, SumOfUnion, SumIsInt
<1>. QED  BY <1>4, <1>7 DEF S, T

\* What a moderator's call does to the content itself.
TurnsContent(r, reason, revoked) ==
  /\ \A c \in Contents : c # r.on => status'[c] = status[c] /\ flips'[c] = flips[c] /\ enforced'[c] = enforced[c]
  /\ \/ /\ reason = "REVOKED" /\ revoked = FALSE /\ status[r.on] = "PUBLISHED"
        /\ status'[r.on] = "HIDDEN" /\ flips'[r.on] = flips[r.on] + 1
     \/ /\ reason = "RESTORED" /\ revoked = TRUE /\ status[r.on] = "HIDDEN"
        /\ status'[r.on] = "PUBLISHED" /\ flips'[r.on] = flips[r.on]

LEMMA ReturningNumbers ==
  ASSUME Tables, Book, AllNumbered, NEW r, r.on \in Contents, NEW entries, NEW reason, NEW head, NEW revoked,
         Returning(r, entries, reason, head, revoked), TurnsContent(r, reason, revoked)
  PROVE  AllNumbered'
<1>0. flips[r.on] \in Nat /\ flips'[r.on] \in Nat
  BY DEF Tables, TurnsContent
<1>1. \A a \in ledger : LET m == Mark(a, entries)
                        IN m \in ledger' /\ RowOk(m) /\ m.key = a.key /\ m.reason = a.reason /\ m.on = a.on /\ m.award = a.award
  BY ReturningMarks
<1>2. ASSUME NEW k, NEW c, NEW a \in ledger, IsAward(a), a.key = k, a.on = c
      PROVE  \E m \in ledger' : IsAward(m) /\ m.key = k /\ m.on = c
  BY <1>1, <1>2 DEF IsAward
<1>3. ASSUME NEW e \in entries PROVE Numbered(e, ledger', status', flips')
  <2>. PICK k : k = flips[r.on]
    OBVIOUS
  <2>1. PICK a \in request[r].found : e.key = <<head, a.key, k>> /\ e.award = a.key /\ e.on = a.on
    BY DEF Returning, Answers, Nth
  <2>2. e.on = r.on /\ a \in ledger /\ IsAward(a) /\ e.reason = reason
    BY <2>1 DEF Returning, OfContent, Answers
  <2>3. \E m \in ledger' : IsAward(m) /\ m.key = e.award /\ m.on = e.on
    <3>1. PICK m \in ledger' : m.key = a.key /\ m.reason = a.reason /\ m.on = a.on
      BY <1>1, <2>2
    <3>. QED  BY <2>1, <2>2, <3>1 DEF IsAward
  <2>4. CASE reason = "REVOKED"
    <3>1. head = "revoke" /\ flips'[e.on] = k + 1 /\ k \in Nat
      BY <1>0, <2>2, <2>4 DEF Returning, TurnsContent
    <3>2. \E n \in Nat : n < flips'[e.on] /\ e.key = <<"revoke", e.award, n>>
      BY <2>1, <3>1
    <3>. QED  BY <2>2, <2>3, <2>4, <3>2 DEF Numbered
  <2>5. CASE reason = "RESTORED"
    <3>1. head = "restore" /\ flips'[e.on] = k /\ k \in Nat /\ status'[e.on] # "HIDDEN"
      BY <1>0, <2>2, <2>5 DEF Returning, TurnsContent
    <3>2. \E n \in Nat : /\ n <= flips'[e.on] /\ e.key = <<"restore", e.award, n>>
                         /\ n = flips'[e.on] => status'[e.on] # "HIDDEN"
      BY <2>1, <3>1
    <3>. QED  BY <2>2, <2>3, <2>5, <3>2 DEF Numbered
  <2>. QED  BY <2>4, <2>5 DEF Returning
<1>4. ASSUME NEW b \in ledger PROVE Numbered(Mark(b, entries), ledger', status', flips')
  <2>. PICK e : e = Mark(b, entries)
    OBVIOUS
  <2>1. e.key = b.key /\ e.reason = b.reason /\ e.on = b.on /\ e.award = b.award
    BY <1>1
  <2>2. Numbered(b, ledger, status, flips)
    BY DEF AllNumbered
  <2>. SUFFICES ASSUME e.reason \in Returns PROVE Numbered(e, ledger', status', flips')
    BY DEF Numbered, Returns
  <2>3. e.on \in Contents /\ \E m \in ledger' : IsAward(m) /\ m.key = e.award /\ m.on = e.on
    BY <1>2, <2>1, <2>2 DEF Numbered
  <2>4. CASE e.on # r.on
    <3>1. status'[e.on] = status[e.on] /\ flips'[e.on] = flips[e.on]
      BY <2>3, <2>4 DEF TurnsContent
    <3>. QED  BY <2>1, <2>2, <2>3, <3>1 DEF Numbered
  <2>5. CASE e.on = r.on
    <3>. PICK k \in Nat : k = flips[r.on]
      BY <1>0
    <3>1. flips'[e.on] = k + 1 \/ (flips'[e.on] = k /\ status'[e.on] # "HIDDEN")
      BY <2>5 DEF TurnsContent
    <3>2. ASSUME e.reason = "REVOKED" PROVE \E n \in Nat : n < flips'[e.on] /\ e.key = <<"revoke", e.award, n>>
      <4>1. PICK n \in Nat : n < k /\ e.key = <<"revoke", e.award, n>>
        BY <2>1, <2>2, <2>5, <3>2 DEF Numbered
      <4>2. n < flips'[e.on]
        BY <3>1, <4>1
      <4>. QED  BY <4>1, <4>2
    <3>3. ASSUME e.reason = "RESTORED"
          PROVE  \E n \in Nat : /\ n <= flips'[e.on] /\ e.key = <<"restore", e.award, n>>
                                /\ n = flips'[e.on] => status'[e.on] # "HIDDEN"
      <4>1. PICK n \in Nat : n <= k /\ e.key = <<"restore", e.award, n>>
        BY <2>1, <2>2, <2>5, <3>3 DEF Numbered
      <4>2. n <= flips'[e.on] /\ (n = flips'[e.on] => status'[e.on] # "HIDDEN")
        BY <3>1, <4>1
      <4>. QED  BY <4>1, <4>2
    <3>. QED  BY <2>3, <3>2, <3>3 DEF Numbered
  <2>. QED  BY <2>4, <2>5
<1>5. \A e \in ledger' : Numbered(e, ledger', status', flips')
  <2>1. ledger' = {Mark(a, entries) : a \in ledger} \cup entries
    BY ReturningMarks
  <2>. QED  BY <1>3, <1>4, <2>1
<1>. QED  BY <1>5, NumberedIs

LEMMA ReturningGivesBack ==
  ASSUME Tables, Book, AllNumbered, RestoreGivesBackWhatWasTaken, NEW r, r.on \in Contents, NEW entries, NEW reason, NEW head,
         NEW revoked, Returning(r, entries, reason, head, revoked), TurnsContent(r, reason, revoked),
         reason = "RESTORED" => \A a \in request[r].found, e \in entries : e.award = a.key => e.delta = a.taken
  PROVE  RestoreGivesBackWhatWasTaken'
<1>0. SumOver({}) = 0
  BY FS_EmptySet, SumUnfolds
<1>3. \A a \in ledger : a \notin request[r].found =>
           Mark(a, entries) = a /\ (IsAward(a) => ReturnsOf(entries, a.key) = {})
  BY ReturningMarks
<1>4. \A a \in request[r].found : \E e \in entries : MarkedBy(e, a, entries, reason)
  BY ReturningMarks
<1>1. ASSUME NEW a \in ledger, IsAward(a) PROVE GivesBack(Mark(a, entries), ledger', status')
  <2>. PICK m : m = Mark(a, entries)
    OBVIOUS
  <2>. PICK before, added, after : /\ before = SumOver(ReturnsOf(ledger, a.key))
                                   /\ added = SumOver(ReturnsOf(entries, a.key))
                                   /\ after = SumOver(ReturnsOf(ledger', a.key))
    OBVIOUS
  <2>1. after = before + added /\ before \in Int
    BY <1>1, ReturningSums
  <2>2. m.key = a.key /\ m.on = a.on /\ m.reason = a.reason /\ a.on \in Contents /\ a.taken \in Int /\ IsAward(m)
    BY <1>1, ReturningMarks DEF Book, RowOk, IsAward
  <2>3. before = (IF Revoked(a) THEN 0 - a.taken ELSE 0) /\ (Revoked(a) => status[a.on] = "HIDDEN")
    BY <1>1, GivesBackIs DEF GivesBack
  <2>4. CASE a \notin request[r].found
    <3>1. m = a /\ added = 0
      BY <1>0, <1>1, <1>3, <2>4
    <3>2. after = IF Revoked(a) THEN 0 - a.taken ELSE 0
      BY <2>1, <2>3, <3>1
    <3>3. ASSUME Revoked(a) PROVE status'[a.on] = "HIDDEN"
      <4>1. CASE a.on # r.on
        BY <2>2, <2>3, <3>3, <4>1 DEF TurnsContent
      <4>2. CASE a.on = r.on
        <5>1. ~revoked
          BY <1>1, <2>4, <3>3, <4>2 DEF Returning, OfContent
        <5>. QED  BY <4>2, <5>1 DEF TurnsContent
      <4>. QED  BY <4>1, <4>2
    <3>. QED  BY <3>1, <3>2, <3>3 DEF GivesBack
  <2>5. CASE a \in request[r].found
    <3>1. PICK e \in entries : /\ e.award = a.key /\ ReturnsOf(entries, a.key) = {e}
                               /\ m.taken = IF reason = "REVOKED" THEN 0 - e.delta ELSE -1
      BY <1>4, <2>5 DEF MarkedBy
    <3>2. e.delta \in Int /\ e.reason = reason /\ (reason = "REVOKED" => e.delta <= 0)
      BY DEF Returning, Answers, RowOk
    <3>3. added = e.delta
      BY <3>1, <3>2, SumOfOne
    <3>4. a.on = r.on /\ (Revoked(a) <=> revoked)
      BY <2>5 DEF Returning, OfContent
    <3>5. CASE reason = "REVOKED"
      <4>1. ~Revoked(a) /\ status'[m.on] = "HIDDEN"
        BY <2>2, <3>4, <3>5 DEF TurnsContent
      <4>2. after = e.delta /\ m.taken = 0 - e.delta /\ m.taken >= 0
        BY <2>1, <2>3, <3>1, <3>2, <3>3, <3>5, <4>1
      <4>3. Revoked(m) /\ after = 0 - m.taken
        BY <2>2, <3>2, <4>2 DEF Revoked
      <4>. QED  BY <2>2, <4>1, <4>3 DEF GivesBack
    <3>6. CASE reason = "RESTORED"
      <4>1. Revoked(a) /\ e.delta = a.taken
        BY <2>5, <3>1, <3>4, <3>6 DEF TurnsContent
      <4>2. after = 0 /\ m.taken = -1
        BY <2>1, <2>2, <2>3, <3>1, <3>3, <3>6, <4>1
      <4>3. ~Revoked(m)
        BY <4>2 DEF Revoked
      <4>. QED  BY <2>2, <4>2, <4>3 DEF GivesBack
    <3>. QED  BY <3>5, <3>6 DEF TurnsContent
  <2>. QED  BY <2>4, <2>5
<1>2. ASSUME NEW m \in ledger', IsAward(m) PROVE GivesBack(m, ledger', status')
  <2>1. m \notin entries
    <3>1. \A e \in entries : e.reason \in Returns
      BY ReturningMarks
    <3>. QED  BY <1>2, <3>1 DEF IsAward, AwardReasons, Returns
  <2>2. PICK a \in ledger : m = Mark(a, entries)
    BY <2>1, ReturningMarks
  <2>3. IsAward(a)
    BY <1>2, <2>2, ReturningMarks DEF IsAward
  <2>. QED  BY <1>1, <2>2, <2>3
<1>. QED  BY <1>2, GivesBackIs

LEMMA ReturningFound ==
  ASSUME Book, Calls, Visibility, AwardsFound, NEW r \in Requests, CommitsAny(r), Moderating(r), NEW entries, NEW reason, NEW head,
         NEW revoked, Returning(r, entries, reason, head, revoked), TurnsContent(r, reason, revoked)
  PROVE  AwardsFound'
<1>1. /\ request[r].at = "decided" /\ request'[r].at = "closed"
      /\ \A q \in Requests : q # r => request'[q] = request[q]
  BY Ends, EndsRequest
<1>2. ledger' = {Mark(a, entries) : a \in ledger} \cup entries /\ \A e \in entries : e.on = r.on
  BY ReturningMarks
<1>3. \A a \in ledger : a.on # r.on => Mark(a, entries) = a
  <2>1. \A a \in ledger : a \notin request[r].found => Mark(a, entries) = a
    BY ReturningMarks
  <2>. QED  BY <2>1 DEF Returning, OfContent
<1>4. \A a \in ledger : Mark(a, entries).on = a.on
  BY ReturningMarks
<1>5. ASSUME NEW c, c # r.on, NEW x PROVE OfContent(ledger', c, x) = OfContent(ledger, c, x)
  <2>1. \A e \in ledger' : e.on = c => e \in ledger
    BY <1>2, <1>3, <1>4, <1>5
  <2>2. \A e \in ledger : e.on = c => e \in ledger'
    BY <1>2, <1>3, <1>5
  <2>. QED  BY <2>1, <2>2 DEF OfContent
<1>6. ASSUME NEW q \in Requests, Moderating(q), request'[q].at = "decided"
      PROVE  FoundAll(q, request'[q].found, ledger', status'[q.on], enforced'[q.on])
  <2>1. q # r /\ request'[q] = request[q] /\ request[q].at = "decided"
    BY <1>1, <1>6
  <2>2. q.on # r.on
    BY <1>1, <1>6, <2>1, ApartFromOthers DEF Moderating, ContentCalls
  <2>3. q.on \in Contents
    BY <1>6, RequestsAssumption DEF Moderating, ContentCalls
  <2>4. status'[q.on] = status[q.on] /\ enforced'[q.on] = enforced[q.on]
    BY <2>2, <2>3 DEF TurnsContent
  <2>5. \A x : OfContent(ledger', q.on, x) = OfContent(ledger, q.on, x)
    BY <1>5, <2>2
  <2>6. FoundAll(q, request[q].found, ledger, status[q.on], enforced[q.on])
    BY <1>6, <2>1 DEF AwardsFound
  <2>. QED  BY <2>1, <2>4, <2>5, <2>6 DEF FoundAll
<1>. QED  BY <1>6, FoundIs

LEMMA AwardsDiffer ==
  ASSUME Book, NEW c, NEW x, NEW a \in OfContent(ledger, c, x), NEW b \in OfContent(ledger, c, x), a.key = b.key
  PROVE  a = b
<1>1. a \in ledger /\ b \in ledger /\ a.reason \notin Returns /\ b.reason \notin Returns
  BY DEF OfContent, IsAward, AwardReasons, Returns
<1>. QED  BY <1>1 DEF Book

LEMMA HideReturns ==
  ASSUME Tables, Book, Calls, AwardsFound, NEW r \in Requests, CommitHide(r), Hides(r)
  PROVE  /\ Moderating(r) /\ r.on \in Contents
         /\ TurnsContent(r, "REVOKED", FALSE) /\ \E entries : Returning(r, entries, "REVOKED", "revoke", FALSE)
<1>1. r.op = "HIDE" /\ r.on \in Contents /\ request[r].at = "decided" /\ Moderating(r)
  BY RequestsAssumption DEF CommitHide, Commits, ContentCalls, Moderating
<1>2. request[r].found = OfContent(ledger, r.on, FALSE)
  BY <1>1 DEF AwardsFound, FoundAll, Hides
<1>3. IsFiniteSet(request[r].found) /\ \A a \in request[r].found : RowOk(a) /\ IsAward(a)
  BY <1>1 DEF Calls, TypedFor
<1>4. \A u \in Users : WalletOk(request[r].saw[u])
  BY DEF Calls, CallOk
<1>5. \A a, b \in request[r].found : a.key = b.key => a = b
  BY <1>2, AwardsDiffer, ZenonT(40)
<1>6. PICK order \in SetToSeqs(request[r].found) : TakeBackOrReturn(RevokeEntries(r, order))
  BY DEF CommitHide
<1>. PICK entries : entries = RevokeEntries(r, order)
  OBVIOUS
<1>7. Answers(r, entries, "REVOKED", "revoke") /\ Once(entries)
  BY <1>3, <1>4, <1>5, RevokeAnswers, RevokeOnce
<1>8. TurnsContent(r, "REVOKED", FALSE)
  BY <1>1 DEF TurnsContent, CommitHide, Tables, Hides
<1>. QED  BY <1>1, <1>2, <1>6, <1>7, <1>8 DEF Returning

LEMMA PublishReturns ==
  ASSUME Tables, Book, Calls, AwardsFound, NEW r \in Requests, CommitPublish(r), Publishes(r)
  PROVE  /\ Moderating(r) /\ r.on \in Contents
         /\ TurnsContent(r, "RESTORED", TRUE) /\ Returning(r, RestoreEntries(r), "RESTORED", "restore", TRUE)
         /\ \A a \in request[r].found, e \in RestoreEntries(r) : e.award = a.key => e.delta = a.taken
<1>1. r.op \in {"UNHIDE", "REVERSE"} /\ r.on \in Contents /\ request[r].at = "decided" /\ Moderating(r)
  BY RequestsAssumption DEF CommitPublish, Commits, ContentCalls, Moderating
<1>2. request[r].found = OfContent(ledger, r.on, TRUE)
  BY <1>1, ShowingIs DEF AwardsFound, FoundAll
<1>3. IsFiniteSet(request[r].found) /\ \A a \in request[r].found : RowOk(a) /\ IsAward(a)
  BY <1>1 DEF Calls, TypedFor, Moderating
<1>5. \A a, b \in request[r].found : a.key = b.key => a = b
  BY <1>2, AwardsDiffer, ZenonT(40)
<1>7. /\ Answers(r, RestoreEntries(r), "RESTORED", "restore") /\ Once(RestoreEntries(r))
      /\ \A a \in request[r].found, e \in RestoreEntries(r) : e.award = a.key => e.delta = a.taken
  BY <1>3, <1>5, RestoreAnswers, RestoreOnce
<1>8. TurnsContent(r, "RESTORED", TRUE)
  BY <1>1 DEF TurnsContent, CommitPublish, Tables, Publishes
<1>9. TakeBackOrReturn(RestoreEntries(r))
  BY DEF CommitPublish
<1>. QED  BY <1>1, <1>2, <1>7, <1>8, <1>9 DEF Returning, Publishes

\* What a call that earns posts is about its own content.
LEMMA EarningsOn ==
  ASSUME NEW r, NEW e \in LikeRows(r) \cup CommentRows(r)
  PROVE  e.on = r.on /\ e.taken = -1
<1>1. \A key, user, currency, delta, reason : LET f == Entry(key, user, currency, delta, reason, r.on) IN f.on = r.on /\ f.taken = -1
  BY DEF Entry, Row
<1>2. \A owner, counter, reason, key : \A f \in Received(r, owner, counter, reason, key).entries : f.on = r.on /\ f.taken = -1
  BY <1>1 DEF Received, Only
<1>3. \A f \in LikeRows(r) : f.on = r.on /\ f.taken = -1
  BY <1>1, <1>2 DEF LikeRows, Only
<1>4. \A f \in WrittenRow(r) : f.on = r.on /\ f.taken = -1
  BY <1>1 DEF WrittenRow, Only
<1>5. \A f \in CommentRows(r) : f.on = r.on /\ f.taken = -1
  BY <1>2, <1>4 DEF CommentRows, FromComment
<1>. QED  BY <1>3, <1>5

LEMMA PostAdds ==
  ASSUME NEW r, NEW rows, Postable(rows), Post(r, rows),
         \A e \in rows : IsAward(e) => e.on = r.on /\ e.taken = -1 /\ r.op \in {"LIKE", "COMMENT"}
  PROVE  Adds(r, rows)
BY DEF Adds, Post, Postable

LEMMA CommitAdds ==
  ASSUME Tables, Book, Calls, Visibility, ItemsDecided, NEW r \in Requests, CommitsAny(r),
         CommitHide(r) => ~Hides(r), CommitPublish(r) => ~Publishes(r)
  PROVE  /\ \E rows : Adds(r, rows)
         /\ flips' = flips /\ \A c \in Contents : status'[c] = "HIDDEN" <=> status[c] = "HIDDEN"
         /\ KeepsOthers(r)
<1>. DEFINE Goal == /\ \E rows : Adds(r, rows)
                    /\ flips' = flips /\ \A c \in Contents : status'[c] = "HIDDEN" <=> status[c] = "HIDDEN"
                    /\ KeepsOthers(r)
<1>1. ledger' = ledger => Adds(r, {})
  BY DEF Adds
<1>2. UNCHANGED <<status, enforced>> => /\ \A c \in Contents : status'[c] = "HIDDEN" <=> status[c] = "HIDDEN"
                                        /\ KeepsOthers(r)
  BY DEF KeepsOthers
<1>3. CASE CommitLike(r)
  <2>1. r.op = "LIKE" /\ UNCHANGED <<status, enforced, flips>>
    BY <1>3 DEF CommitLike, Commits
  <2>2. CASE Earns(r)
    <3>1. Post(r, LikeRows(r)) /\ Postable(LikeRows(r))
      BY <1>3, <2>2, LikeCommits
    <3>2. Adds(r, LikeRows(r))
      BY <2>1, <3>1, PostAdds, EarningsOn
    <3>. QED  BY <1>2, <2>1, <3>2
  <2>3. CASE ~Earns(r)
    <3>1. ledger' = ledger
      BY <1>3, <2>3 DEF CommitLike, bookVars
    <3>. QED  BY <1>1, <1>2, <2>1, <3>1
  <2>. QED  BY <2>2, <2>3
<1>4. CASE CommitComment(r)
  <2>1. r.op = "COMMENT" /\ UNCHANGED <<enforced, flips>> /\ status' = [status EXCEPT ![r.on] = "PUBLISHED"] /\ IsOpen(r)
    BY <1>4 DEF CommitComment, Commits, IsOpen
  <2>2. status[r.on] = "ABSENT"
    BY <2>1 DEF Visibility
  <2>3. /\ \A c \in Contents : status'[c] = "HIDDEN" <=> status[c] = "HIDDEN"
        /\ KeepsOthers(r)
    BY <2>1, <2>2 DEF Tables, KeepsOthers
  <2>4. CASE Author[PostOf[r.on]] # r.who
    <3>1. Post(r, CommentRows(r)) /\ Postable(CommentRows(r))
      BY <1>4, <2>4, CommentCommits
    <3>2. Adds(r, CommentRows(r))
      BY <2>1, <3>1, PostAdds, EarningsOn
    <3>. QED  BY <2>1, <2>3, <3>2
  <2>5. CASE Author[PostOf[r.on]] = r.who
    <3>1. ledger' = ledger
      BY <1>4, <2>5 DEF CommitComment, bookVars
    <3>. QED  BY <1>1, <2>1, <2>3, <3>1
  <2>. QED  BY <2>4, <2>5
<1>5. CASE CommitCheckIn(r)
  <2>. PICK day, row : /\ day = WithShards(today[r.who], CheckInShards)
                       /\ row = Entry(<<"checkin", r.who>>, r.who, "SHARDS", day.credited - today[r.who].credited,
                                      "DAILY_CHECKIN", Nothing)
    OBVIOUS
  <2>1. Post(r, {row}) /\ Postable({row}) /\ UNCHANGED <<status, enforced, flips>>
    BY <1>5, CheckInCommits DEF CommitCheckIn, contentVars
  <2>2. ~IsAward(row)
    BY DEF Entry, Row, IsAward, AwardReasons
  <2>. QED  BY <1>2, <2>1, <2>2, PostAdds
<1>6. CASE CommitAdjust(r)
  <2>. PICK row : row = Entry(<<"adjust", Cardinality(Corrections)>>, r.who, r.on, r.arg, "ADMIN_ADJUST", Nothing)
    OBVIOUS
  <2>1. Post(r, {row}) /\ Postable({row}) /\ UNCHANGED <<status, enforced, flips>>
    BY <1>6, AdjustCommits DEF CommitAdjust, contentVars
  <2>2. ~IsAward(row)
    BY DEF Entry, Row, IsAward, AwardReasons
  <2>. QED  BY <1>2, <2>1, <2>2, PostAdds
<1>7. CASE CommitTakedown(r)
  <2>1. request[r].found \subseteq Users
    BY <1>7, RequestsAssumption DEF CommitTakedown, Commits, ItemsDecided, ItemCalls, Tables
  <2>2. Post(r, RefundRows(r)) /\ Postable(RefundRows(r)) /\ UNCHANGED <<status, enforced, flips>>
    BY <1>7, <2>1, TakedownCommits DEF CommitTakedown, contentVars
  <2>3. \A e \in RefundRows(r) : ~IsAward(e)
    <3>1. \A u : ~IsAward(Refund(r, u))
      BY DEF Refund, Entry, Row, IsAward, AwardReasons
    <3>. QED  BY <3>1 DEF RefundRows
  <2>4. Adds(r, RefundRows(r))
    BY <2>2, <2>3, PostAdds
  <2>. QED  BY <1>2, <2>2, <2>4
<1>8. CASE CommitHide(r) \/ CommitPublish(r)
  <2>1. r.op \in ContentCalls
    BY <1>8 DEF CommitHide, CommitPublish, Commits, ContentCalls
  <2>2. ledger' = ledger /\ status' = status /\ flips' = flips
    BY <1>8 DEF CommitHide, CommitPublish
  <2>3. \A c \in Contents : c # r.on => enforced'[c] = enforced[c]
    BY <1>8 DEF CommitHide, CommitPublish, Tables
  <2>. QED  BY <1>1, <2>1, <2>2, <2>3 DEF KeepsOthers
<1>9. CASE CommitReactivate(r) \/ CommitGrant(r) \/ CommitEquip(r)
  BY <1>1, <1>2, <1>9 DEF CommitReactivate, CommitGrant, CommitEquip, bookVars, contentVars
<1>. QED  BY <1>3, <1>4, <1>5, <1>6, <1>7, <1>8, <1>9 DEF CommitsAny

LEMMA RestoreNext ==
  ASSUME Tables, Book, Calls, Visibility, ItemsDecided, AwardsFound, AllNumbered, RestoreGivesBackWhatWasTaken, Next
  PROVE  AwardsFound' /\ AllNumbered' /\ RestoreGivesBackWhatWasTaken'
<1>0. ASSUME UNCHANGED <<ledger, status, flips>> PROVE AllNumbered' /\ RestoreGivesBackWhatWasTaken'
  BY <1>0, NumberedIs, GivesBackIs DEF AllNumbered
<1>1. ASSUME NEW r \in Requests, Waits(r) PROVE AwardsFound' /\ AllNumbered' /\ RestoreGivesBackWhatWasTaken'
  <2>1. UNCHANGED <<ledger, status, flips, enforced>>
    BY <1>1, WaitsOnlyWaits DEF contentVars, bookVars
  <2>2. ASSUME NEW q \in Requests, Moderating(q), request'[q].at = "decided"
        PROVE  FoundAll(q, request'[q].found, ledger', status'[q.on], enforced'[q.on])
    <3>1. CASE q # r
      <4>1. request'[q] = request[q]
        BY <1>1, <3>1, WaitsRequest
      <4>. QED  BY <2>1, <2>2, <4>1 DEF AwardsFound
    <3>2. CASE q = r
      <4>1. \/ request'[r].found = request[r].found /\ request[r].at = "decided"
            \/ request'[r].found = Found(r)
        BY <1>1, <2>2, <3>2, WaitsRequest
      <4>2. CASE request'[r].found = request[r].found /\ request[r].at = "decided"
        BY <2>1, <2>2, <3>2, <4>2 DEF AwardsFound
      <4>3. CASE request'[r].found = Found(r)
        BY <2>1, <2>2, <3>2, <4>3, ShowingIs
      <4>. QED  BY <4>1, <4>2, <4>3
    <3>. QED  BY <3>1, <3>2
  <2>. QED  BY <1>0, <2>1, <2>2, FoundIs
<1>2. ASSUME NEW r \in Requests, CommitsAny(r) PROVE AwardsFound' /\ AllNumbered' /\ RestoreGivesBackWhatWasTaken'
  <2>1. CASE CommitHide(r) /\ Hides(r)
    <3>1. /\ Moderating(r) /\ r.on \in Contents
          /\ TurnsContent(r, "REVOKED", FALSE) /\ \E entries : Returning(r, entries, "REVOKED", "revoke", FALSE)
      BY <2>1, HideReturns
    <3>2. PICK entries : Returning(r, entries, "REVOKED", "revoke", FALSE)
      BY <3>1
    <3>. QED  BY <1>2, <3>1, <3>2, ReturningNumbers, ReturningGivesBack, ReturningFound
  <2>2. CASE CommitPublish(r) /\ Publishes(r)
    <3>1. /\ Moderating(r) /\ r.on \in Contents
          /\ TurnsContent(r, "RESTORED", TRUE) /\ Returning(r, RestoreEntries(r), "RESTORED", "restore", TRUE)
          /\ \A a \in request[r].found, e \in RestoreEntries(r) : e.award = a.key => e.delta = a.taken
      BY <2>2, PublishReturns
    <3>. QED  BY <1>2, <3>1, ReturningNumbers, ReturningGivesBack, ReturningFound
  <2>3. CASE (CommitHide(r) => ~Hides(r)) /\ (CommitPublish(r) => ~Publishes(r))
    <3>1. /\ \E rows : Adds(r, rows)
          /\ flips' = flips /\ \A c \in Contents : status'[c] = "HIDDEN" <=> status[c] = "HIDDEN"
          /\ KeepsOthers(r)
      BY <1>2, <2>3, CommitAdds
    <3>2. PICK rows : Adds(r, rows)
      BY <3>1
    <3>. QED  BY <1>2, <3>1, <3>2, AddsGivesBack, AddsFound
  <2>. QED  BY <2>1, <2>2, <2>3
<1>3. ASSUME Statements PROVE AwardsFound' /\ AllNumbered' /\ RestoreGivesBackWhatWasTaken'
  <2>1. UNCHANGED <<ledger, status, flips, enforced, request>>
    BY <1>3 DEF Statements, Unlike, Unequip, contentVars, bookVars
  <2>. QED  BY <1>0, <2>1, FoundIs DEF AwardsFound
<1>. QED  BY <1>1, <1>2, <1>3, NextIs

\* What the REVOKED and RESTORED rows of an award moved is what is taken of it now, and nothing stays taken from
\* content that is published, however often it was hidden and restored and whatever was spent in between: the rows
\* of each change are new, about every award of the content, and the content stays locked from the reading of its
\* awards to the commit (economy.service.ts, revoke and restore).
THEOREM RestoreSafe == Spec => []RestoreGivesBackWhatWasTaken
<1>1. ASSUME Init PROVE AwardsFound /\ AllNumbered /\ RestoreGivesBackWhatWasTaken
  <2>1. \A r \in Requests : request[r].at = "closed"
    BY <1>1, ClosedOk DEF Init
  <2>. QED  BY <1>1, <2>1 DEF Init, AwardsFound, AllNumbered, RestoreGivesBackWhatWasTaken
<1>2. ASSUME IInv, AwardsFound, AllNumbered, RestoreGivesBackWhatWasTaken, [Next]_vars
      PROVE  AwardsFound' /\ AllNumbered' /\ RestoreGivesBackWhatWasTaken'
  <2>1. CASE Next
    BY <1>2, <2>1, RestoreNext DEF IInv
  <2>2. CASE UNCHANGED vars
    <3>1. UNCHANGED <<ledger, status, flips, enforced, request>>
      BY <2>2 DEF vars, contentVars, bookVars
    <3>. QED  BY <1>2, <3>1, NumberedIs, GivesBackIs, FoundIs DEF AllNumbered, AwardsFound
  <2>. QED  BY <1>2, <2>1, <2>2
<1>. QED  BY <1>1, <1>2, LedgerInvariant, PTL DEF Spec

-----------------------------------------------------------------------------
(* The rank.  A wallet is as it was seen for as long as it is locked.        *)

\* Whose wallets a call writes at its commit: a like that no longer earns writes none.
Payees(r, found, earns) ==
  CASE r.op = "LIKE" -> IF earns THEN {Author[r.on]} ELSE {}
    [] r.op = "COMMENT" -> IF Author[PostOf[r.on]] # r.who THEN {r.who, Author[PostOf[r.on]]} ELSE {}
    [] r.op \in {"CHECKIN", "ADJUST"} -> {r.who}
    [] Moderating(r) -> {a.user : a \in found}
    [] r.op = "TAKEDOWN" -> found
    [] OTHER -> {}

\* A call locks this wallet, or will.
Owed(q, u) == <<"wallet", u>> \in q.held \/ \E i \in DOMAIN q.want : q.want[i] = <<"wallet", u>>

PaysWhatItLocks == \A r \in Requests : request[r].at = "decided" =>
                     \A u \in Payees(r, request[r].found, Earns(r)) : Owed(request[r], u)
SeesWhatItLocks == \A r \in Requests : \A u \in Users :
                     <<"wallet", u>> \in request[r].held => request[r].saw[u] = wallet[u]

LEMMA PaysIs ==
  PaysWhatItLocks' <=> \A r \in Requests : request'[r].at = "decided" =>
                         \A u \in Payees(r, request'[r].found, Earns(r)') : Owed(request'[r], u)
BY DEF PaysWhatItLocks, Payees, Owed, Moderating

LEMMA SeesIs ==
  SeesWhatItLocks' <=> \A r \in Requests : \A u \in Users :
                         <<"wallet", u>> \in request'[r].held => request'[r].saw[u] = wallet'[u]
BY DEF SeesWhatItLocks

\* A lock that is taken is owed before and after.
LEMMA AcquireOwes ==
  ASSUME Calls, NEW r \in Requests, Acquire(r), NEW u, Owed(request[r], u)
  PROVE  Owed(request'[r], u)
<1>. PICK q, c, lock : q = request[r] /\ c = Locked(r) /\ lock = Head(q.want)
  OBVIOUS
<1>1. /\ Turns(r, c) /\ q.want # <<>> /\ c.want = Tail(q.want) /\ c.held = q.held \cup {lock}
  BY AcquireTurns
<1>2. q.want \in Seq(Locks)
  BY DEF Calls, CallOk
<1>3. request'[r] = c
  BY <1>1, TurnIs
<1>4. CASE <<"wallet", u>> \in q.held
  BY <1>1, <1>3, <1>4 DEF Owed
<1>5. ASSUME NEW i \in DOMAIN q.want, q.want[i] = <<"wallet", u>> PROVE Owed(c, u)
  <2>1. CASE i = 1
    BY <1>1, <1>5, <2>1 DEF Owed
  <2>2. CASE i # 1
    <3>1. i - 1 \in DOMAIN c.want /\ c.want[i - 1] = q.want[i]
      BY <1>1, <1>2, <2>2
    <3>. QED  BY <1>5, <3>1 DEF Owed
  <2>. QED  BY <2>1, <2>2
<1>. QED  BY <1>3, <1>4, <1>5 DEF Owed

\* Deciding asks for the wallets.
LEMMA DecideOwes ==
  ASSUME Tables, Book, Calls, NEW r \in Requests, Decide(r), NEW u \in Payees(r, Found(r), Earns(r))
  PROVE  Owed(Decided(r), u)
<1>. PICK c, want, found : c = Decided(r) /\ want = NextLocks(r) /\ found = Found(r)
  OBVIOUS
<1>1. c = [at |-> "decided", want |-> want, held |-> {FirstLock(r)}, found |-> found, saw |-> request[r].saw]
  BY DecideTurns
<1>2. c.want = want /\ c.held = {FirstLock(r)}
  BY <1>1
<1>3. \A v \in Paid(r) : \E i \in DOMAIN want : want[i] = <<"wallet", v>>
  BY NextLocksOrder
<1>4. CASE r.op = "ADJUST"
  <2>1. u = r.who /\ FirstLock(r) = <<"wallet", r.who>>
    BY <1>4 DEF Payees, FirstLock, ContentCalls, Moderating
  <2>. QED  BY <1>2, <2>1 DEF Owed
<1>5. CASE r.op # "ADJUST"
  <2>1. u \in Paid(r)
    <3>1. CASE Moderating(r)
      <4>1. Hides(r) \/ Publishes(r)
        BY <3>1 DEF Payees, Moderating, Found
      <4>. QED  BY <3>1, <4>1 DEF Payees, Paid, Moderating
    <3>2. CASE ~Moderating(r)
      BY <1>5, <3>2 DEF Payees, Paid, Moderating
    <3>. QED  BY <3>1, <3>2
  <2>. QED  BY <1>2, <1>3, <2>1 DEF Owed
<1>. QED  BY <1>4, <1>5

\* Nobody makes an interaction earn that did not.
LEMMA OnlyLess ==
  ASSUME Calls, NEW r \in Requests, request[r].at = "decided", r.op = "LIKE", Earns(r)', Next
  PROVE  Earns(r)
<1>1. ASSUME NEW q \in Requests, Waits(q) PROVE UNCHANGED <<likes, counted>>
  BY <1>1, WaitsOnlyWaits DEF contentVars, bookVars
<1>2. ASSUME NEW q \in Requests, CommitsAny(q) PROVE likes \subseteq likes' /\ counted \subseteq counted'
  BY <1>2 DEF CommitsAny, CommitLike, CommitComment, CommitCheckIn, CommitAdjust, CommitHide, CommitPublish,
     CommitTakedown, CommitReactivate, CommitGrant, CommitEquip, contentVars, bookVars
<1>3. ASSUME NEW u \in Users, NEW c \in Contents, Unlike(u, c)
      PROVE  counted' = counted /\ (<<r.who, r.on>> \in likes => <<r.who, r.on>> \in likes')
  <2>1. <<"content", r.on>> \in request[r].held
    BY DEF Calls, Locking, FirstLock, ContentCalls
  <2>2. c # r.on
    BY <1>3, <2>1 DEF Unlike, Free
  <2>. QED  BY <1>3, <2>2 DEF Unlike, bookVars
<1>4. ASSUME NEW u \in Users, Unequip(u) PROVE UNCHANGED <<likes, counted>>
  BY <1>4 DEF Unequip, contentVars, bookVars
<1>5. counted \subseteq counted' /\ (<<r.who, r.on>> \in likes => <<r.who, r.on>> \in likes')
  BY <1>1, <1>2, <1>3, <1>4, NextIs DEF Statements
<1>. QED  BY <1>5 DEF Earns

LEMMA PaysNext ==
  ASSUME Tables, Book, Calls, PaysWhatItLocks, Next
  PROVE  PaysWhatItLocks'
<1>1. ASSUME NEW q \in Requests, request'[q] = request[q], request[q].at = "decided",
             NEW u \in Payees(q, request'[q].found, Earns(q)')
      PROVE  Owed(request'[q], u)
  <2>2. q.op = "LIKE" /\ Earns(q)' => Earns(q)
    BY <1>1, OnlyLess
  <2>3. u \in Payees(q, request[q].found, Earns(q))
    BY <1>1, <2>2 DEF Payees
  <2>. QED  BY <1>1, <2>3 DEF PaysWhatItLocks
<1>2. ASSUME NEW q \in Requests, request'[q].at = "decided", NEW u \in Payees(q, request'[q].found, Earns(q)')
      PROVE  Owed(request'[q], u)
  <2>1. ASSUME NEW r \in Requests, Waits(r) PROVE Owed(request'[q], u)
    <3>1. CASE q # r
      <4>1. request'[q] = request[q]
        BY <2>1, <3>1, WaitsRequest
      <4>. QED  BY <1>1, <1>2, <4>1
    <3>2. CASE q = r
      <4>1. \/ request[r].at = "decided" /\ request'[r].found = request[r].found /\ Acquire(r)
            \/ request'[r] = Decided(r) /\ Decided(r).found = Found(r) /\ Decide(r)
        BY <1>2, <2>1, <3>2, WaitsRequest
      <4>2. UNCHANGED <<likes, counted>>
        BY <2>1, WaitsOnlyWaits DEF contentVars, bookVars
      <4>3. Earns(r)' <=> Earns(r)
        BY <4>2 DEF Earns
      <4>4. CASE request[r].at = "decided" /\ request'[r].found = request[r].found /\ Acquire(r)
        <5>1. u \in Payees(r, request[r].found, Earns(r))
          BY <1>2, <3>2, <4>3, <4>4 DEF Payees
        <5>2. Owed(request[r], u)
          BY <4>4, <5>1 DEF PaysWhatItLocks
        <5>. QED  BY <3>2, <4>4, <5>2, AcquireOwes
      <4>5. CASE request'[r] = Decided(r) /\ Decided(r).found = Found(r) /\ Decide(r)
        <5>1. u \in Payees(r, Found(r), Earns(r))
          BY <1>2, <3>2, <4>3, <4>5 DEF Payees
        <5>. QED  BY <3>2, <4>5, <5>1, DecideOwes
      <4>. QED  BY <4>1, <4>4, <4>5
    <3>. QED  BY <3>1, <3>2
  <2>2. ASSUME NEW r \in Requests, CommitsAny(r) PROVE Owed(request'[q], u)
    <3>1. q # r /\ request'[q] = request[q]
      BY <1>2, <2>2, EndsRequest
    <3>. QED  BY <1>1, <1>2, <3>1
  <2>3. ASSUME Statements PROVE Owed(request'[q], u)
    <3>1. request' = request
      BY <2>3 DEF Statements, Unlike, Unequip
    <3>. QED  BY <1>1, <1>2, <3>1
  <2>. QED  BY <2>1, <2>2, <2>3, NextIs
<1>. QED  BY <1>2, PaysIs

\* What a commit posts, for users whose wallets it locked; all of it are awards, or none.
PostsFor(r, rows, payees) ==
  /\ Postable(rows) /\ Post(r, rows)
  /\ \A e \in rows : e.taken = -1 /\ e.user \in payees
  /\ (\A e \in rows : IsAward(e)) \/ (\A e \in rows : ~IsAward(e))

LEMMA EarningUsers ==
  ASSUME NEW r, NEW owner, NEW counter, NEW reason \in AwardReasons, NEW key
  PROVE  \A e \in Received(r, owner, counter, reason, key).entries : e.taken = -1 /\ e.user = owner /\ IsAward(e)
<1>1. \A k, currency, delta : LET f == Entry(k, owner, currency, delta, reason, r.on)
                              IN f.taken = -1 /\ f.user = owner /\ IsAward(f)
  BY DEF Entry, Row, IsAward
<1>. QED  BY <1>1 DEF Received, Only

LEMMA LikePosts ==
  ASSUME Tables, Book, NEW r \in Requests, CommitLike(r), Earns(r)
  PROVE  PostsFor(r, LikeRows(r), {Author[r.on]})
<1>1. Post(r, LikeRows(r)) /\ Postable(LikeRows(r))
  BY LikeCommits
<1>2. \A k, delta : LET f == Entry(k, Author[r.on], "SHARDS", delta, "LIKE_MILESTONE", r.on)
                    IN f.taken = -1 /\ f.user = Author[r.on] /\ IsAward(f)
  BY DEF Entry, Row, IsAward, AwardReasons
<1>3. "LIKE_RECEIVED" \in AwardReasons
  BY DEF AwardReasons
<1>4. \A e \in LikeRows(r) : e.taken = -1 /\ e.user = Author[r.on] /\ IsAward(e)
  BY <1>2, <1>3, EarningUsers DEF LikeRows, Only
<1>. QED  BY <1>1, <1>4 DEF PostsFor

LEMMA CommentPosts ==
  ASSUME Tables, Book, NEW r \in Requests, CommitComment(r), Author[PostOf[r.on]] # r.who
  PROVE  PostsFor(r, CommentRows(r), {r.who, Author[PostOf[r.on]]})
<1>1. Post(r, CommentRows(r)) /\ Postable(CommentRows(r))
  BY CommentCommits
<1>2. \A k, delta : LET f == Entry(k, r.who, "SHARDS", delta, "COMMENT_WRITTEN", r.on)
                    IN f.taken = -1 /\ f.user = r.who /\ IsAward(f)
  BY DEF Entry, Row, IsAward, AwardReasons
<1>3. "COMMENT_RECEIVED" \in AwardReasons
  BY DEF AwardReasons
<1>4. \A e \in WrittenRow(r) : e.taken = -1 /\ e.user = r.who /\ IsAward(e)
  BY <1>2 DEF WrittenRow, Only
<1>5. \A e \in FromComment(r).entries : e.taken = -1 /\ e.user = Author[PostOf[r.on]] /\ IsAward(e)
  BY <1>3, EarningUsers DEF FromComment
<1>6. \A e \in CommentRows(r) : e.taken = -1 /\ e.user \in {r.who, Author[PostOf[r.on]]} /\ IsAward(e)
  BY <1>4, <1>5 DEF CommentRows
<1>. QED  BY <1>1, <1>6 DEF PostsFor

LEMMA OnePosts ==
  ASSUME NEW r, NEW row, Postable({row}), Post(r, {row}), NEW key, NEW currency, NEW delta, NEW reason, NEW on,
         row = Entry(key, r.who, currency, delta, reason, on)
  PROVE  PostsFor(r, {row}, {r.who})
<1>1. row.taken = -1 /\ row.user = r.who
  BY DEF Entry, Row
<1>. QED  BY <1>1 DEF PostsFor

LEMMA TakedownPosts ==
  ASSUME Tables, Book, ItemsDecided, NEW r \in Requests, CommitTakedown(r)
  PROVE  PostsFor(r, RefundRows(r), request[r].found)
<1>1. request[r].found \subseteq Users
  BY RequestsAssumption DEF CommitTakedown, Commits, ItemsDecided, ItemCalls, Tables
<1>2. Post(r, RefundRows(r)) /\ Postable(RefundRows(r))
  BY <1>1, TakedownCommits
<1>3. \A u : Refund(r, u).taken = -1 /\ Refund(r, u).user = u /\ ~IsAward(Refund(r, u))
  BY DEF Refund, Entry, Row, IsAward, AwardReasons
<1>4. \A e \in RefundRows(r) : e.taken = -1 /\ e.user \in request[r].found /\ ~IsAward(e)
  BY <1>3 DEF RefundRows, ToRefund
<1>. QED  BY <1>2, <1>4 DEF PostsFor

\* Whatever a commit does to the books.
PaysFor(r, payees) == \E rows : PostsFor(r, rows, payees)
Moderates(r) == \E entries, reason, head, revoked : Moderating(r) /\ Returning(r, entries, reason, head, revoked)

LEMMA CommitBooks ==
  ASSUME Tables, Book, Calls, ItemsDecided, AwardsFound, NEW r \in Requests, CommitsAny(r)
  PROVE  UNCHANGED <<wallet, ledger>> \/ PaysFor(r, Payees(r, request[r].found, Earns(r))) \/ Moderates(r)
<1>. DEFINE payees == Payees(r, request[r].found, Earns(r))
<1>1. CASE CommitLike(r)
  <2>1. r.op = "LIKE"
    BY <1>1 DEF CommitLike, Commits
  <2>2. CASE Earns(r)
    <3>1. payees = {Author[r.on]}
      BY <2>1, <2>2 DEF Payees, Moderating
    <3>. QED  BY <1>1, <2>2, <3>1, LikePosts DEF PaysFor
  <2>3. CASE ~Earns(r)
    BY <1>1, <2>3 DEF CommitLike, bookVars
  <2>. QED  BY <2>2, <2>3
<1>2. CASE CommitComment(r)
  <2>1. r.op = "COMMENT"
    BY <1>2 DEF CommitComment, Commits
  <2>2. CASE Author[PostOf[r.on]] # r.who
    <3>1. payees = {r.who, Author[PostOf[r.on]]}
      BY <2>1, <2>2 DEF Payees, Moderating
    <3>. QED  BY <1>2, <2>2, <3>1, CommentPosts DEF PaysFor
  <2>3. CASE Author[PostOf[r.on]] = r.who
    BY <1>2, <2>3 DEF CommitComment, bookVars
  <2>. QED  BY <2>2, <2>3
<1>3. CASE CommitCheckIn(r)
  <2>1. payees = {r.who}
    BY <1>3 DEF CommitCheckIn, Commits, Payees, Moderating
  <2>. PICK day, row : /\ day = WithShards(today[r.who], CheckInShards)
                       /\ row = Entry(<<"checkin", r.who>>, r.who, "SHARDS", day.credited - today[r.who].credited,
                                      "DAILY_CHECKIN", Nothing)
    OBVIOUS
  <2>2. Post(r, {row}) /\ Postable({row})
    BY <1>3, CheckInCommits
  <2>3. PostsFor(r, {row}, {r.who})
    BY <2>2, OnePosts
  <2>. QED  BY <2>1, <2>3 DEF PaysFor
<1>4. CASE CommitAdjust(r)
  <2>1. payees = {r.who}
    BY <1>4 DEF CommitAdjust, Commits, Payees, Moderating
  <2>. PICK row : row = Entry(<<"adjust", Cardinality(Corrections)>>, r.who, r.on, r.arg, "ADMIN_ADJUST", Nothing)
    OBVIOUS
  <2>2. Post(r, {row}) /\ Postable({row})
    BY <1>4, AdjustCommits
  <2>3. PostsFor(r, {row}, {r.who})
    BY <2>2, OnePosts
  <2>. QED  BY <2>1, <2>3 DEF PaysFor
<1>5. CASE CommitHide(r)
  <2>1. CASE Hides(r)
    BY <1>5, <2>1, HideReturns DEF Moderates
  <2>2. CASE ~Hides(r)
    BY <1>5, <2>2 DEF CommitHide
  <2>. QED  BY <2>1, <2>2
<1>6. CASE CommitPublish(r)
  <2>1. CASE Publishes(r)
    BY <1>6, <2>1, PublishReturns DEF Moderates
  <2>2. CASE ~Publishes(r)
    BY <1>6, <2>2 DEF CommitPublish
  <2>. QED  BY <2>1, <2>2
<1>7. CASE CommitTakedown(r)
  <2>1. payees = request[r].found
    BY <1>7 DEF CommitTakedown, Commits, Payees, Moderating
  <2>. QED  BY <1>7, <2>1, TakedownPosts DEF PaysFor
<1>8. CASE CommitReactivate(r) \/ CommitGrant(r) \/ CommitEquip(r)
  BY <1>8 DEF CommitReactivate, CommitGrant, CommitEquip, bookVars
<1>. QED  BY <1>1, <1>2, <1>3, <1>4, <1>5, <1>6, <1>7, <1>8 DEF CommitsAny

\* Rows of others move nothing of a user.
LEMMA NothingMoved ==
  ASSUME NEW rows, NEW u, \A e \in rows : e.user # u
  PROVE  Earned(rows, u) = 0 /\ \A currency : Moved(rows, u, currency) = 0
<1>1. \A currency : {e \in rows : e.user = u /\ e.currency = currency} = {}
  OBVIOUS
<1>2. {e \in rows : e.user = u /\ e.currency = "REPUTATION" /\ IsAward(e)} = {}
  OBVIOUS
<1>3. SumOver({}) = 0
  BY FS_EmptySet, SumUnfolds
<1>. QED  BY <1>1, <1>2, <1>3 DEF Earned, Moved

LEMMA SameWallet ==
  ASSUME NEW v, WalletOk(v), NEW w, WalletOk(w), w.REPUTATION = v.REPUTATION + 0, w.SHARDS = v.SHARDS + 0,
         w.recent = v.recent, w.rank = v.rank
  PROVE  w = v
<1>1. w.REPUTATION = v.REPUTATION /\ w.SHARDS = v.SHARDS
  BY DEF WalletOk
<1>. QED  BY <1>1 DEF WalletOk

\* A commit leaves the wallets of others alone.
LEMMA CommitKeeps ==
  ASSUME Tables, Book, Calls, ItemsDecided, AwardsFound, NEW r \in Requests, CommitsAny(r),
         NEW u \in Users, u \notin Payees(r, request[r].found, Earns(r))
  PROVE  wallet'[u] = wallet[u]
<1>. PICK payees : payees = Payees(r, request[r].found, Earns(r))
  OBVIOUS
<1>. PICK v, w : v = wallet[u] /\ w = wallet'[u]
  OBVIOUS
<1>0. WalletOk(v)
  BY DEF Tables
<1>1. CASE PaysFor(r, payees)
  <2>1. PICK rows : PostsFor(r, rows, payees)
    BY <1>1 DEF PaysFor
  <2>2. \A e \in rows : e.user # u
    BY <2>1 DEF PostsFor
  <2>3. /\ wallet' = Credited(rows, request[r].saw) /\ IsFiniteSet(rows) /\ \A e \in rows : RowOk(e)
    BY <2>1 DEF PostsFor, Postable, Post
  <2>4. Earned(rows, u) = 0 /\ Moved(rows, u, "REPUTATION") = 0 /\ Moved(rows, u, "SHARDS") = 0
    BY <2>2, NothingMoved
  <2>5. /\ WalletOk(w) /\ w.REPUTATION = v.REPUTATION + 0 /\ w.SHARDS = v.SHARDS + 0
        /\ w.recent = v.recent + 0 /\ w.rank = v.rank
    BY <2>3, <2>4, CreditedIs
  <2>6. w.recent = v.recent
    BY <1>0, <2>5 DEF WalletOk
  <2>. QED  BY <1>0, <2>5, <2>6, SameWallet
<1>2. CASE Moderates(r)
  <2>1. PICK entries, reason, head, revoked : Moderating(r) /\ Returning(r, entries, reason, head, revoked)
    BY <1>2 DEF Moderates
  <2>2. payees = {a.user : a \in request[r].found}
    BY <2>1 DEF Payees, Moderating
  <2>3. \A e \in entries : e.user # u
    BY <2>1, <2>2 DEF Returning, Answers
  <2>4. /\ IsFiniteSet(entries) /\ (\A e \in entries : RowOk(e)) /\ TakeBackOrReturn(entries)
        /\ IsFiniteSet(ledger') /\ \A e \in ledger' : e.delta \in Int
    <3>1. Book'
      BY <2>1, ReturnCommits DEF Returning, Returns
    <3>. QED  BY <2>1, <3>1 DEF Returning, Answers, Book, RowOk
  <2>5. Moved(entries, u, "REPUTATION") = 0 /\ Moved(entries, u, "SHARDS") = 0
    BY <2>3, NothingMoved
  <2>6. /\ WalletOk(w) /\ w.REPUTATION = v.REPUTATION + 0 /\ w.SHARDS = v.SHARDS + 0
        /\ w.recent = v.recent /\ w.rank = v.rank
    BY <2>3, <2>4, <2>5, ReturnWallets
  <2>. QED  BY <1>0, <2>6, SameWallet
<1>. QED  BY <1>1, <1>2, CommitBooks

LEMMA SeesNext ==
  ASSUME Tables, Book, Calls, ItemsDecided, AwardsFound, PaysWhatItLocks, SeesWhatItLocks, Next
  PROVE  SeesWhatItLocks'
<1>1. ASSUME NEW r \in Requests, Waits(r), NEW q \in Requests, NEW u \in Users, <<"wallet", u>> \in request'[q].held
      PROVE  request'[q].saw[u] = wallet'[u]
  <2>1. wallet' = wallet
    BY <1>1, WaitsOnlyWaits DEF bookVars
  <2>2. CASE q # r
    <3>1. request'[q] = request[q]
      BY <1>1, <2>2, WaitsRequest
    <3>. QED  BY <1>1, <2>1, <3>1 DEF SeesWhatItLocks
  <2>3. CASE q = r /\ Acquire(r)
    <3>. PICK p, c, lock : p = request[r] /\ c = Locked(r) /\ lock = Head(p.want)
      OBVIOUS
    <3>1. /\ Turns(r, c) /\ c.held = p.held \cup {lock}
          /\ c.saw = [v \in Users |-> IF lock = <<"wallet", v>> THEN wallet[v] ELSE p.saw[v]]
      BY <2>3, AcquireTurns
    <3>2. request'[r] = c
      BY <3>1, TurnIs
    <3>3. c.saw[u] = IF lock = <<"wallet", u>> THEN wallet[u] ELSE p.saw[u]
      BY <3>1
    <3>4. lock # <<"wallet", u>> => <<"wallet", u>> \in p.held
      BY <1>1, <2>3, <3>1, <3>2
    <3>. QED  BY <2>1, <2>3, <3>2, <3>3, <3>4 DEF SeesWhatItLocks
  <2>4. CASE q = r /\ Decide(r)
    <3>. PICK c, want, found, held : c = Decided(r) /\ want = NextLocks(r) /\ found = Found(r) /\ held = {FirstLock(r)}
      OBVIOUS
    <3>1. /\ request[r].held = held /\ (Turns(r, Closed) \/ Turns(r, c))
          /\ c = [at |-> "decided", want |-> want, held |-> held, found |-> found, saw |-> request[r].saw]
      BY <2>4, DecideTurns
    <3>2. c.held = request[r].held /\ c.saw = request[r].saw
      BY <3>1
    <3>3. request'[r] = c
      BY <1>1, <2>4, <3>1, TurnIs, ClosedOk
    <3>. QED  BY <1>1, <2>1, <2>4, <3>2, <3>3 DEF SeesWhatItLocks
  <2>5. CASE q = r /\ (Open(r) \/ RollBack(r))
    <3>1. Calls'
      BY CallsNext
    <3>2. request'[r].at = "closed" \/ request'[r].held = {}
      <4>1. RollBack(r) => Turns(r, Closed)
        BY DEF RollBack, Turns
      <4>2. Open(r) => Turns(r, [Closed EXCEPT !.at = "locking", !.want = FirstLocks(r)])
        BY DEF Open, Turns
      <4>. DEFINE c == [Closed EXCEPT !.at = "locking", !.want = FirstLocks(r)]
      <4>3. c.held = {}
        BY DEF Closed
      <4>. HIDE DEF c
      <4>4. Turns(r, Closed) \/ Turns(r, c)
        BY <2>5, <4>1, <4>2 DEF c
      <4>. QED  BY <4>3, <4>4, TurnIs, ClosedOk
    <3>3. request'[r].held = {}
      BY <3>1, <3>2 DEF Calls, Locking
    <3>. QED  BY <1>1, <2>5, <3>3
  <2>. QED  BY <1>1, <2>2, <2>3, <2>4, <2>5 DEF Waits
<1>2. ASSUME NEW r \in Requests, CommitsAny(r), NEW q \in Requests, NEW u \in Users, <<"wallet", u>> \in request'[q].held
      PROVE  request'[q].saw[u] = wallet'[u]
  <2>1. q # r /\ request'[q] = request[q]
    BY <1>2, EndsRequest, ClosedOk
  <2>2. <<"wallet", u>> \notin request[r].held
    BY <1>2, <2>1 DEF Calls, Exclusive
  <2>3. request[r].at = "decided" /\ request[r].want = <<>>
    BY <1>2, Ends
  <2>4. u \notin Payees(r, request[r].found, Earns(r))
    BY <2>2, <2>3 DEF PaysWhatItLocks, Owed
  <2>5. wallet'[u] = wallet[u]
    BY <1>2, <2>4, CommitKeeps
  <2>. QED  BY <1>2, <2>1, <2>5 DEF SeesWhatItLocks
<1>3. ASSUME Statements PROVE SeesWhatItLocks'
  <2>1. UNCHANGED <<request, wallet>>
    BY <1>3 DEF Statements, Unlike, Unequip, bookVars
  <2>. QED  BY <2>1 DEF SeesWhatItLocks
<1>. QED  BY <1>1, <1>2, <1>3, NextIs, SeesIs

\* The awards that count, and what they add up to.
Standing(rows, u) == {e \in rows : e.user = u /\ e.currency = "REPUTATION" /\ IsAward(e) /\ ~Revoked(e)}
RankOk(w, rows, u) == w.recent = Recent(rows, u) /\ w.rank = RankFor(w.REPUTATION, w.recent)

LEMMA RankIs ==
  /\ RankIsExact <=> \A u \in Users : RankOk(wallet[u], ledger, u)
  /\ RankIsExact' <=> \A u \in Users : RankOk(wallet'[u], ledger', u)
<1>1. RankIsExact <=> \A u \in Users : RankOk(wallet[u], ledger, u)
  BY DEF RankIsExact, RankOk
<1>2. RankIsExact' <=> \A u \in Users : RankOk(wallet'[u], ledger', u)
  BY DEF RankIsExact, RankOk
<1>. QED  BY <1>1, <1>2

LEMMA RecentIs ==
  ASSUME NEW rows, IsFiniteSet(rows), \A e \in rows : RowOk(e), NEW u
  PROVE  /\ Recent(rows, u) = SumOver(Standing(rows, u)) /\ Recent(rows, u) \in Int /\ Recent(rows, u) >= 0
         /\ IsFiniteSet(Standing(rows, u)) /\ Amounts(Standing(rows, u))
<1>1. IsFiniteSet(Standing(rows, u)) /\ Amounts(Standing(rows, u)) /\ \A e \in Standing(rows, u) : e.delta >= 0
  BY FS_Subset DEF Amounts, RowOk, Standing
<1>2. SumOver(Standing(rows, u)) \in Int /\ SumOver(Standing(rows, u)) >= 0
  BY <1>1, SumIsInt, SumIsNatural
<1>3. Recent(rows, u) = Larger(0, SumOver(Standing(rows, u)))
  BY DEF Recent, Standing
<1>. PICK n : n = SumOver(Standing(rows, u))
  OBVIOUS
<1>. QED  BY <1>1, <1>2, <1>3 DEF Larger

\* Rows that are all awards, or none, move Reputation as much as they earn.
LEMMA PostedRank ==
  ASSUME Tables, Book, NEW r, NEW rows, NEW payees, PostsFor(r, rows, payees), NEW u \in Users,
         u \in payees => request[r].saw[u] = wallet[u], RankOk(wallet[u], ledger, u)
  PROVE  RankOk(wallet'[u], ledger', u)
<1>1. /\ wallet' = Credited(rows, request[r].saw) /\ ledger' = ledger \cup rows /\ ledger \cap rows = {}
      /\ IsFiniteSet(rows) /\ \A e \in rows : RowOk(e)
  BY DEF PostsFor, Postable, Post, Keys
<1>. PICK v, w, rep, earned, before : /\ v = wallet[u] /\ w = wallet'[u] /\ rep = Moved(rows, u, "REPUTATION")
                                      /\ earned = Earned(rows, u) /\ before = Recent(ledger, u)
  OBVIOUS
<1>. PICK seen : seen = request[r].saw[u]
  OBVIOUS
<1>2. /\ w.REPUTATION = v.REPUTATION + rep /\ w.recent = v.recent + earned
      /\ w.rank = IF rep = 0 THEN v.rank ELSE RankFor(seen.REPUTATION + rep, Larger(0, seen.recent + earned))
  BY <1>1, CreditedIs
<1>. DEFINE S == {e \in rows : e.user = u /\ e.currency = "REPUTATION"}
            E == {e \in rows : e.user = u /\ e.currency = "REPUTATION" /\ IsAward(e)}
<1>3. rep = SumOver(S) /\ earned = SumOver(E)
  BY DEF Moved, Earned
<1>4. earned = rep \/ earned = 0
  <2>1. E = S \/ E = {}
    BY DEF PostsFor
  <2>2. SumOver({}) = 0
    BY FS_EmptySet, SumUnfolds
  <2>. HIDE DEF S, E
  <2>. QED  BY <1>3, <2>1, <2>2
<1>5. Standing(ledger', u) = Standing(ledger, u) \cup E
  BY <1>1 DEF Standing, PostsFor, Revoked
<1>6. IsFiniteSet(E) /\ Amounts(E) /\ Standing(ledger, u) \cap E = {}
  BY <1>1, FS_Subset DEF Amounts, RowOk, Standing
<1>7. /\ before = SumOver(Standing(ledger, u)) /\ before \in Int /\ before >= 0
      /\ IsFiniteSet(Standing(ledger, u)) /\ Amounts(Standing(ledger, u))
  BY RecentIs DEF Book
<1>8. Recent(ledger', u) = SumOver(Standing(ledger', u)) /\ Recent(ledger', u) >= 0
  <2>1. IsFiniteSet(ledger') /\ \A e \in ledger' : RowOk(e)
    BY <1>1, FS_Union DEF Book
  <2>. QED  BY <2>1, RecentIs
<1>. HIDE DEF S, E
<1>9. SumOver(Standing(ledger', u)) = before + earned
  BY <1>3, <1>5, <1>6, <1>7, SumOfUnion
<1>10. v.recent = before /\ v.rank = RankFor(v.REPUTATION, v.recent) /\ v.REPUTATION \in Int
  BY DEF RankOk, Tables, WalletOk
<1>11. rep \in Int /\ earned \in Int
  BY <1>1, <1>3, <1>6, MovedIsInt, SumIsInt
<1>12. w.recent = Recent(ledger', u) /\ w.recent \in Int /\ w.recent >= 0
  BY <1>2, <1>7, <1>8, <1>9, <1>10, <1>11
<1>13. CASE rep = 0
  <2>1. earned = 0 /\ w.REPUTATION = v.REPUTATION /\ w.recent = v.recent /\ w.rank = v.rank
    BY <1>2, <1>4, <1>7, <1>10, <1>13
  <2>. QED  BY <1>10, <1>12, <2>1 DEF RankOk
<1>14. CASE rep # 0
  <2>1. u \in payees
    <3>1. u \notin payees => \A e \in rows : e.user # u
      BY DEF PostsFor
    <3>2. u \notin payees => rep = 0
      BY <3>1, NothingMoved
    <3>. QED  BY <1>14, <3>2
  <2>2. seen = v
    BY <2>1
  <2>3. Larger(0, v.recent + earned) = w.recent
    BY <1>2, <1>12 DEF Larger
  <2>4. w.rank = RankFor(w.REPUTATION, w.recent)
    BY <1>2, <1>14, <2>2, <2>3
  <2>. QED  BY <1>12, <2>4 DEF RankOk
<1>. QED  BY <1>13, <1>14

\* Whose Reputation a moderator's call takes or returns is recounted; of others nothing is.
LEMMA ReturnedRank ==
  ASSUME Tables, Book, NEW r, NEW entries, NEW reason, NEW head, NEW revoked, Returning(r, entries, reason, head, revoked),
         NEW u \in Users, RankOk(wallet[u], ledger, u)
  PROVE  RankOk(wallet'[u], ledger', u)
<1>1. /\ IsFiniteSet(entries) /\ (\A e \in entries : RowOk(e) /\ e.reason \in Returns) /\ TakeBackOrReturn(entries)
  BY DEF Returning, Answers, Returns
<1>2. IsFiniteSet(ledger') /\ \A e \in ledger' : e.delta \in Int
  <2>1. Book'
    BY ReturnCommits DEF Returning, Returns
  <2>. QED  BY <2>1 DEF Book, RowOk
<1>. PICK v, w : v = wallet[u] /\ w = wallet'[u]
  OBVIOUS
<1>3. CASE \E e \in entries : e.user = u /\ e.currency = "REPUTATION"
  BY <1>1, <1>2, <1>3, ReturnWallets DEF RankOk
<1>4. CASE ~ \E e \in entries : e.user = u /\ e.currency = "REPUTATION"
  <2>1. /\ w.REPUTATION = v.REPUTATION + Moved(entries, u, "REPUTATION") /\ w.recent = v.recent /\ w.rank = v.rank
    BY <1>1, <1>2, <1>4, ReturnWallets
  <2>2. Moved(entries, u, "REPUTATION") = 0
    <3>1. {e \in entries : e.user = u /\ e.currency = "REPUTATION"} = {}
      BY <1>4
    <3>. QED  BY <3>1, FS_EmptySet, SumUnfolds DEF Moved
  <2>3. w.REPUTATION = v.REPUTATION
    BY <2>1, <2>2 DEF Tables, WalletOk
  <2>4. \A e \in entries : ~IsAward(e)
    BY <1>1 DEF IsAward, AwardReasons, Returns
  <2>5. /\ ledger' = {Mark(a, entries) : a \in ledger} \cup entries
        /\ \A a \in ledger : a \notin request[r].found => Mark(a, entries) = a
        /\ \A a \in request[r].found : \E e \in entries : e.award = a.key
    BY ReturningMarks DEF MarkedBy
  <2>6. ASSUME NEW a \in request[r].found PROVE ~(a.user = u /\ a.currency = "REPUTATION") /\ a \in ledger
    <3>1. PICK e \in entries : e.award = a.key
      BY <2>5
    <3>2. PICK b \in request[r].found : e.award = b.key /\ e.user = b.user /\ e.currency = b.currency
      BY DEF Returning, Answers
    <3>3. a = b
      <4>1. a \in OfContent(ledger, r.on, revoked) /\ b \in OfContent(ledger, r.on, revoked) /\ a.key = b.key
        BY <3>1, <3>2 DEF Returning
      <4>. QED  BY <4>1, AwardsDiffer
    <3>4. a \in ledger
      BY DEF Returning, OfContent
    <3>. QED  BY <1>4, <3>2, <3>3, <3>4
  <2>7. ASSUME NEW a \in ledger PROVE Mark(a, entries).user = a.user /\ Mark(a, entries).currency = a.currency
    <3>1. RowOk(a) /\ \A e \in entries : e.delta \in Int /\ (e.reason = "REVOKED" => e.delta <= 0)
      BY DEF Book, RowOk, Returning, Answers
    <3>. QED  BY <3>1, MarkIs
  <2>8. Standing(ledger', u) = Standing(ledger, u)
    <3>1. ASSUME NEW e \in Standing(ledger', u) PROVE e \in Standing(ledger, u)
      <4>1. PICK a \in ledger : e = Mark(a, entries)
        BY <2>4, <2>5, <3>1 DEF Standing
      <4>2. a \notin request[r].found
        BY <2>6, <2>7, <3>1, <4>1 DEF Standing
      <4>. QED  BY <2>5, <3>1, <4>1, <4>2 DEF Standing
    <3>2. ASSUME NEW e \in Standing(ledger, u) PROVE e \in Standing(ledger', u)
      <4>1. e \in ledger /\ e \notin request[r].found
        BY <2>6, <3>2 DEF Standing
      <4>2. e \in ledger'
        BY <2>5, <4>1
      <4>. QED  BY <3>2, <4>2 DEF Standing
    <3>. QED  BY <3>1, <3>2
  <2>9. Recent(ledger', u) = Recent(ledger, u)
    <3>1. \A rows : Recent(rows, u) = Larger(0, SumOver(Standing(rows, u)))
      BY DEF Recent, Standing
    <3>. QED  BY <2>8, <3>1
  <2>. QED  BY <2>1, <2>3, <2>9 DEF RankOk
<1>. QED  BY <1>3, <1>4

LEMMA RankNext ==
  ASSUME Tables, Book, Calls, ItemsDecided, AwardsFound, PaysWhatItLocks, SeesWhatItLocks, RankIsExact, Next
  PROVE  RankIsExact'
<1>0. ASSUME UNCHANGED <<wallet, ledger>> PROVE RankIsExact'
  BY <1>0, RankIs
<1>1. ASSUME NEW r \in Requests, Waits(r) PROVE RankIsExact'
  BY <1>0, <1>1, WaitsOnlyWaits DEF bookVars
<1>2. ASSUME NEW r \in Requests, CommitsAny(r) PROVE RankIsExact'
  <2>. PICK payees : payees = Payees(r, request[r].found, Earns(r))
    OBVIOUS
  <2>1. request[r].at = "decided" /\ request[r].want = <<>>
    BY <1>2, Ends
  <2>2. ASSUME NEW u \in Users, u \in payees PROVE request[r].saw[u] = wallet[u]
    <3>1. <<"wallet", u>> \in request[r].held
      BY <2>1, <2>2 DEF PaysWhatItLocks, Owed
    <3>. QED  BY <3>1 DEF SeesWhatItLocks
  <2>3. ASSUME PaysFor(r, payees), NEW u \in Users PROVE RankOk(wallet'[u], ledger', u)
    <3>1. PICK rows : PostsFor(r, rows, payees)
      BY <2>3 DEF PaysFor
    <3>2. RankOk(wallet[u], ledger, u)
      BY RankIs
    <3>. QED  BY <2>2, <3>1, <3>2, PostedRank
  <2>4. ASSUME Moderates(r), NEW u \in Users PROVE RankOk(wallet'[u], ledger', u)
    <3>1. PICK entries, reason, head, revoked : Returning(r, entries, reason, head, revoked)
      BY <2>4 DEF Moderates
    <3>2. RankOk(wallet[u], ledger, u)
      BY RankIs
    <3>. QED  BY <3>1, <3>2, ReturnedRank
  <2>5. UNCHANGED <<wallet, ledger>> \/ PaysFor(r, payees) \/ Moderates(r)
    BY <1>2, CommitBooks
  <2>. QED  BY <1>0, <2>3, <2>4, <2>5, RankIs
<1>3. ASSUME Statements PROVE RankIsExact'
  BY <1>0, <1>3 DEF Statements, Unlike, Unequip, bookVars
<1>. QED  BY <1>1, <1>2, <1>3, NextIs

LEMMA FoundNext ==
  ASSUME IInv, AwardsFound, AllNumbered, RestoreGivesBackWhatWasTaken, Next
  PROVE  AwardsFound' /\ AllNumbered' /\ RestoreGivesBackWhatWasTaken'
BY RestoreNext DEF IInv

\* The 90-day Reputation and the rank are what the ledger gives, after every award, revocation and restoration
\* and however many are under way at once: credit computes the rank from the wallet as it was when it was locked,
\* and nobody else writes a wallet that is locked (economy.service.ts, credit and recountRank).
THEOREM RankSafe == Spec => []RankIsExact
<1>. DEFINE Inv == /\ AwardsFound /\ AllNumbered /\ RestoreGivesBackWhatWasTaken
                   /\ PaysWhatItLocks /\ SeesWhatItLocks /\ RankIsExact
<1>1. ASSUME Init PROVE Inv
  <2>1. \A r \in Requests : request[r].at = "closed" /\ request[r].held = {}
    BY <1>1, ClosedOk DEF Init
  <2>2. AwardsFound /\ AllNumbered /\ RestoreGivesBackWhatWasTaken /\ PaysWhatItLocks /\ SeesWhatItLocks
    BY <1>1, <2>1 DEF Init, AwardsFound, AllNumbered, RestoreGivesBackWhatWasTaken, PaysWhatItLocks, SeesWhatItLocks
  <2>3. ASSUME NEW u \in Users PROVE RankOk(wallet[u], ledger, u)
    <3>1. ledger = {} /\ wallet[u].recent = 0 /\ wallet[u].REPUTATION = 0 /\ wallet[u].rank = RankFor(0, 0)
      BY <1>1 DEF Init, NewWallet
    <3>2. Standing({}, u) = {} /\ SumOver({}) = 0
      BY FS_EmptySet, SumUnfolds DEF Standing
    <3>3. Recent({}, u) = 0
      BY <3>2, FS_EmptySet, RecentIs
    <3>. QED  BY <3>1, <3>3 DEF RankOk
  <2>. QED  BY <2>2, <2>3, RankIs
<1>2. ASSUME IInv, Inv, [Next]_vars PROVE Inv'
  <2>1. CASE Next
    <3>1. AwardsFound' /\ AllNumbered' /\ RestoreGivesBackWhatWasTaken'
      BY <1>2, <2>1, FoundNext
    <3>2. PaysWhatItLocks' /\ SeesWhatItLocks' /\ RankIsExact'
      BY <1>2, <2>1, PaysNext, SeesNext, RankNext DEF IInv
    <3>. QED  BY <3>1, <3>2
  <2>2. CASE UNCHANGED vars
    <3>1. UNCHANGED <<ledger, status, flips, enforced, request, wallet, likes, counted>>
      BY <2>2 DEF vars, contentVars, bookVars
    <3>2. AwardsFound' /\ AllNumbered' /\ RestoreGivesBackWhatWasTaken'
      BY <1>2, <3>1, NumberedIs, GivesBackIs, FoundIs DEF AllNumbered, AwardsFound
    <3>3. \A r \in Requests : Earns(r)' <=> Earns(r)
      BY <3>1 DEF Earns
    <3>4. PaysWhatItLocks' /\ SeesWhatItLocks'
      BY <1>2, <3>1, <3>3, PaysIs DEF PaysWhatItLocks, SeesWhatItLocks, Payees
    <3>5. RankIsExact'
      BY <1>2, <3>1, RankIs
    <3>. QED  BY <3>2, <3>4, <3>5
  <2>. QED  BY <1>2, <2>1, <2>2
<1>3. Inv => RankIsExact
  OBVIOUS
<1>. HIDE DEF Inv
<1>. QED  BY <1>1, <1>2, <1>3, LedgerInvariant, PTL DEF Spec
=============================================================================
