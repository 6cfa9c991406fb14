---------------------------- MODULE ReportsProofs ----------------------------
(***************************************************************************)
(* Theorems of what others read: the administrators' reports, for any      *)
(* orders, customers, ranges, zones and number of changes between the      *)
(* queries; and the paged lists, for any rows, filters, sorts and page     *)
(* sizes and any number of readers and changes.                            *)
(*                                                                         *)
(* What comes first is about sums: the fold that takes them meets each     *)
(* member once, in whatever order, so adding up by groups adds up the      *)
(* whole. The lists begin with what sorting does: every row has a place of *)
(* its own, and the places of a list are 1 to its length.                  *)
(***************************************************************************)
EXTENDS Reports, Listings, LinesProofs, FiniteSetTheorems, SequenceTheorems, TLAPS

(* Induction over the subsets of a finite set.                             *)
LEMMA SetInduction ==
  ASSUME NEW S, IsFiniteSet(S), NEW C, {} \in C,
         \A T \in SUBSET S : \A x \in S \ T : T \in C => T \cup {x} \in C
  PROVE  S \in C
<1> DEFINE N == {n \in Nat : \A T \in SUBSET S : Cardinality(T) = n => T \in C}
<1>0. \A T \in SUBSET S : IsFiniteSet(T) /\ Cardinality(T) \in Nat
  BY FS_Subset, FS_CardinalityType
<1>1. 0 \in N
  BY <1>0, FS_EmptySet
<1>2. ASSUME NEW n \in Nat, n \in N PROVE n + 1 \in N
  <2> SUFFICES ASSUME NEW T \in SUBSET S, Cardinality(T) = n + 1 PROVE T \in C
    OBVIOUS
  <2>0. IsFiniteSet(T) /\ Cardinality(T) = n + 1
    BY <1>0
  <2>1. T # {}
    <3> HIDE DEF N
    <3>1. n + 1 # 0
      OBVIOUS
    <3> QED  BY <2>0, <3>1, FS_EmptySet
  <2>2. PICK x \in T : TRUE
    BY <2>1
  <2>3. T \ {x} \in SUBSET S /\ x \in S \ (T \ {x}) /\ (T \ {x}) \cup {x} = T
    BY <2>2
  <2>4. Cardinality(T \ {x}) = n
    <3>1. Cardinality(T \ {x}) = Cardinality(T) - 1
      BY <2>0, <2>2, FS_RemoveElement
    <3> HIDE DEF N
    <3> QED  BY <2>0, <3>1
  <2>5. T \ {x} \in C
    BY <1>2, <2>3, <2>4
  <2> QED  BY <2>3, <2>5
<1> HIDE DEF N
<1>3. Nat \subseteq N
  BY <1>1, <1>2, NatSetInduction
<1> QED  BY <1>0, <1>3 DEF N

Pick(t) == CHOOSE x \in t : TRUE

(* The sums over the parts of a set, as the fold takes them.               *)
Sums(g, D, f) ==
  g = [t \in SUBSET D |-> IF t = {} THEN 0 ELSE f[Pick(t)] + g[t \ {Pick(t)}]]

(* The member the fold takes next.                                         *)
LEMMA PickIn ==
  ASSUME NEW D, NEW t \in SUBSET D, t # {}
  PROVE  Pick(t) \in t /\ Pick(t) \in D /\ t \ {Pick(t)} \in SUBSET D
  BY DEF Pick

(* What the fold adds at each step.                                        *)
LEMMA SumsStep ==
  ASSUME NEW D, NEW f, NEW g, Sums(g, D, f), NEW t \in SUBSET D
  PROVE  g[t] = IF t = {} THEN 0 ELSE f[Pick(t)] + g[t \ {Pick(t)}]
<1> DEFINE F == [s \in SUBSET D |-> IF s = {} THEN 0 ELSE f[Pick(s)] + g[s \ {Pick(s)}]]
<1>1. g = F
  BY DEF Sums
<1>2. F[t] = IF t = {} THEN 0 ELSE f[Pick(t)] + g[t \ {Pick(t)}]
  OBVIOUS
<1> QED  BY <1>1, <1>2

(* A fact about the parts of each size holds for all parts.                *)
LEMMA SizeInduction ==
  ASSUME NEW D, IsFiniteSet(D), NEW C, {} \in C,
         \A t \in SUBSET D : t # {} /\ (\A s \in SUBSET D : Cardinality(s) < Cardinality(t) => s \in C)
                               => t \in C
  PROVE  SUBSET D \subseteq C
<1> DEFINE N == {n \in Nat : \A t \in SUBSET D : Cardinality(t) <= n => t \in C}
<1>0. \A t \in SUBSET D : IsFiniteSet(t) /\ Cardinality(t) \in Nat /\ (Cardinality(t) = 0 => t = {})
  BY FS_Subset, FS_CardinalityType, FS_EmptySet
<1>1. 0 \in N
  BY <1>0
<1>2. ASSUME NEW n \in Nat, n \in N PROVE n + 1 \in N
  <2> SUFFICES ASSUME NEW t \in SUBSET D, Cardinality(t) <= n + 1 PROVE t \in C
    OBVIOUS
  <2>1. \A s \in SUBSET D : Cardinality(s) < Cardinality(t) => s \in C
    BY <1>0, <1>2
  <2> QED  BY <2>1
<1> HIDE DEF N
<1>3. Nat \subseteq N
  BY <1>1, <1>2, NatSetInduction
<1> QED  BY <1>0, <1>3 DEF N

LEMMA Smaller ==
  ASSUME NEW D, IsFiniteSet(D), NEW t \in SUBSET D, NEW x \in t
  PROVE  t \ {x} \in SUBSET D /\ Cardinality(t \ {x}) < Cardinality(t)
<1>1. IsFiniteSet(t) /\ Cardinality(t) \in Nat
  BY FS_Subset, FS_CardinalityType
<1>2. Cardinality(t \ {x}) = Cardinality(t) - 1
  BY <1>1, FS_RemoveElement
<1> QED  BY <1>1, <1>2

(* Sums of natural numbers are natural numbers.                            *)
LEMMA SumsNat ==
  ASSUME NEW D, IsFiniteSet(D), NEW f \in [D -> Nat], NEW g, Sums(g, D, f)
  PROVE  \A t \in SUBSET D : g[t] \in Nat
<1> DEFINE C == {t \in SUBSET D : g[t] \in Nat}
<1>1. {} \in C
  BY SumsStep
<1>2. ASSUME NEW t \in SUBSET D, t # {},
             \A s \in SUBSET D : Cardinality(s) < Cardinality(t) => s \in C
      PROVE  t \in C
  <2>1. Pick(t) \in t /\ f[Pick(t)] \in Nat
    BY <1>2, PickIn
  <2>2. t \ {Pick(t)} \in C
    BY <1>2, <2>1, Smaller
  <2>3. g[t] = f[Pick(t)] + g[t \ {Pick(t)}]
    BY <1>2, SumsStep
  <2> QED  BY <2>1, <2>2, <2>3
<1> HIDE DEF C
<1>3. SUBSET D \subseteq C
  BY <1>1, <1>2, SizeInduction
<1> QED  BY <1>3 DEF C

(* The sum does not depend on the order: any member can be taken first.    *)
LEMMA SumsAny ==
  ASSUME NEW D, IsFiniteSet(D), NEW f \in [D -> Nat], NEW g, Sums(g, D, f), NEW d \in D
  PROVE  g[D] = f[d] + g[D \ {d}]
<1> DEFINE C == {t \in SUBSET D : \A x \in t : g[t] = f[x] + g[t \ {x}]}
<1>1. {} \in C
  OBVIOUS
<1>2. ASSUME NEW t \in SUBSET D, t # {},
             \A s \in SUBSET D : Cardinality(s) < Cardinality(t) => s \in C
      PROVE  t \in C
  <2> SUFFICES ASSUME NEW x \in t PROVE g[t] = f[x] + g[t \ {x}]
    OBVIOUS
  <2> DEFINE p == Pick(t)
  <2>1. p \in t /\ g[t] = f[p] + g[t \ {p}]
    BY <1>2, PickIn, SumsStep
  <2> HIDE DEF p
  <2>2. CASE x = p
    BY <2>1, <2>2
  <2>3. CASE x # p
    <3>1. t \ {p} \in C /\ t \ {x} \in C /\ x \in t \ {p} /\ p \in t \ {x}
      BY <1>2, <2>1, <2>3, Smaller
    <3>2. g[t \ {p}] = f[x] + g[(t \ {p}) \ {x}] /\ g[t \ {x}] = f[p] + g[(t \ {x}) \ {p}]
      BY <3>1
    <3>3. (t \ {p}) \ {x} = (t \ {x}) \ {p} /\ (t \ {x}) \ {p} \in SUBSET D
      OBVIOUS
    <3>4. f[x] \in Nat /\ f[p] \in Nat /\ g[(t \ {x}) \ {p}] \in Nat
      BY <2>1, <3>3, SumsNat
    <3>5. PICK a \in Nat, b \in Nat, c \in Nat : a = f[x] /\ b = f[p] /\ c = g[(t \ {x}) \ {p}]
      BY <3>4
    <3>6. g[t] = b + (a + c) /\ g[t \ {x}] = b + c
      BY <2>1, <3>2, <3>3, <3>5
    <3>7. b + (a + c) = a + (b + c)
      OBVIOUS
    <3> HIDE DEF C
    <3> QED  BY <3>5, <3>6, <3>7
  <2> QED  BY <2>2, <2>3
<1> HIDE DEF C
<1>3. SUBSET D \subseteq C
  BY <1>1, <1>2, SizeInduction
<1>4. D \in SUBSET D
  OBVIOUS
<1> QED  BY <1>3, <1>4 DEF C

(* The sums over a part do not depend on what the whole is.                *)
LEMMA SumsAgree ==
  ASSUME NEW E, IsFiniteSet(E), NEW D \in SUBSET E, NEW f \in [D -> Nat], NEW h \in [E -> Nat],
         \A x \in D : f[x] = h[x],
         NEW g, Sums(g, D, f), NEW k, Sums(k, E, h)
  PROVE  \A t \in SUBSET D : g[t] = k[t]
<1> DEFINE C == {t \in SUBSET D : g[t] = k[t]}
<1>0. IsFiniteSet(D) /\ SUBSET D \subseteq SUBSET E
  BY FS_Subset
<1>1. {} \in C
  <2>1. {} \in SUBSET D /\ {} \in SUBSET E
    OBVIOUS
  <2>2. g[{}] = 0
    BY <2>1, SumsStep
  <2>3. k[{}] = 0
    BY <2>1, SumsStep
  <2> QED  BY <2>1, <2>2, <2>3
<1>2. ASSUME NEW t \in SUBSET D, t # {},
             \A s \in SUBSET D : Cardinality(s) < Cardinality(t) => s \in C
      PROVE  t \in C
  <2>1. Pick(t) \in t /\ Pick(t) \in D
    BY <1>2, PickIn
  <2>2. t \ {Pick(t)} \in C
    BY <1>0, <1>2, <2>1, Smaller
  <2>3. g[t] = f[Pick(t)] + g[t \ {Pick(t)}]
    BY <1>2, SumsStep
  <2>4. k[t] = h[Pick(t)] + k[t \ {Pick(t)}]
    BY <1>0, <1>2, SumsStep
  <2> QED  BY <2>1, <2>2, <2>3, <2>4
<1> HIDE DEF C
<1>3. SUBSET D \subseteq C
  BY <1>0, <1>1, <1>2, SizeInduction
<1> QED  BY <1>3 DEF C

(* There are such sums: they are built up size by size.                    *)
LEMMA SumsExist ==
  ASSUME NEW D, IsFiniteSet(D), NEW f \in [D -> Nat]
  PROVE  \E g : Sums(g, D, f)
<1> DEFINE Good(g, t) == g[t] = IF t = {} THEN 0 ELSE f[Pick(t)] + g[t \ {Pick(t)}]
           Upto(g, n) == \A t \in SUBSET D : Cardinality(t) <= n => Good(g, t)
           N == {n \in Nat : \E g \in [SUBSET D -> Nat] : Upto(g, n)}
<1>0. \A t \in SUBSET D : Cardinality(t) \in Nat /\ (Cardinality(t) = 0 => t = {})
  BY FS_Subset, FS_CardinalityType, FS_EmptySet
<1>1. 0 \in N
  <2> DEFINE g == [t \in SUBSET D |-> 0]
  <2>1. g \in [SUBSET D -> Nat] /\ Upto(g, 0)
    BY <1>0
  <2> QED  BY <2>1
<1>2. ASSUME NEW n \in Nat, n \in N PROVE n + 1 \in N
  <2>1. PICK g \in [SUBSET D -> Nat] : Upto(g, n)
    BY <1>2
  <2> DEFINE h == [t \in SUBSET D |-> IF t = {} THEN 0
                                      ELSE IF Cardinality(t) = n + 1 THEN f[Pick(t)] + g[t \ {Pick(t)}]
                                      ELSE g[t]]
  <2>2. h \in [SUBSET D -> Nat]
    <3>1. ASSUME NEW t \in SUBSET D, t # {} PROVE f[Pick(t)] + g[t \ {Pick(t)}] \in Nat
      <4>1. f[Pick(t)] \in Nat /\ t \ {Pick(t)} \in SUBSET D
        BY <3>1, PickIn
      <4>2. g[t \ {Pick(t)}] \in Nat
        BY <4>1
      <4> QED  BY <4>1, <4>2
    <3> QED  BY <3>1
  <2>3. ASSUME NEW t \in SUBSET D, Cardinality(t) <= n + 1 PROVE Good(h, t)
    <3>1. CASE t = {}
      BY <3>1
    <3>2. CASE t # {}
      <4>1. Pick(t) \in t /\ t \ {Pick(t)} \in SUBSET D /\ Cardinality(t \ {Pick(t)}) < Cardinality(t)
        BY <3>2, PickIn, Smaller
      <4>2. Cardinality(t \ {Pick(t)}) # n + 1 /\ Cardinality(t \ {Pick(t)}) <= n
        BY <1>0, <2>3, <4>1
      <4>3. g[t \ {Pick(t)}] = 0 \/ t \ {Pick(t)} # {}
        BY <2>1, <4>1, <4>2
      <4>4. h[t \ {Pick(t)}] = g[t \ {Pick(t)}]
        BY <4>1, <4>2, <4>3
      <4>5. h[t] = f[Pick(t)] + g[t \ {Pick(t)}]
        <5>1. CASE Cardinality(t) = n + 1
          BY <3>2, <5>1
        <5>2. CASE Cardinality(t) # n + 1
          <6>1. Cardinality(t) <= n
            BY <1>0, <2>3, <5>2
          <6> QED  BY <2>1, <3>2, <5>2, <6>1
        <5> QED  BY <5>1, <5>2
      <4> QED  BY <3>2, <4>4, <4>5
    <3> QED  BY <3>1, <3>2
  <2> HIDE DEF h, Good
  <2> QED  BY <2>2, <2>3
<1> HIDE DEF N
<1>3. Cardinality(D) \in N
  BY <1>0, <1>1, <1>2, NatSetInduction
<1>4. PICK g \in [SUBSET D -> Nat] : Upto(g, Cardinality(D))
  BY <1>3 DEF N
<1>5. \A t \in SUBSET D : Good(g, t)
  <2>1. \A t \in SUBSET D : Cardinality(t) <= Cardinality(D)
    BY FS_Subset
  <2> QED  BY <1>4, <2>1
<1>6. Sums(g, D, f)
  BY <1>5 DEF Sums
<1> QED  BY <1>6

(* SumFunction is one of them.                                             *)
LEMMA SumIs ==
  ASSUME NEW D, IsFiniteSet(D), NEW f \in [D -> Nat]
  PROVE  \E g : Sums(g, D, f) /\ SumFunction(f) = g[D]
<1> DEFINE it == CHOOSE g : Sums(g, D, f)
<1>1. Sums(it, D, f)
  BY SumsExist
<1>2. SumFunction(f) = it[D]
  BY DEF SumFunction, SumFunctionOnSet, FoldFunctionOnSet, MapThenFoldSet, Sums, Pick
<1> QED  BY <1>1, <1>2

-----------------------------------------------------------------------------
(* What f adds up to over D.                                               *)
SumOver(f, D) == SumFunction([x \in D |-> f[x]])

LEMMA SumOverNat ==
  ASSUME NEW D, IsFiniteSet(D), NEW f, \A x \in D : f[x] \in Nat
  PROVE  SumOver(f, D) \in Nat
<1> DEFINE p == [x \in D |-> f[x]]
<1>1. p \in [D -> Nat]
  OBVIOUS
<1>2. PICK g : Sums(g, D, p) /\ SumFunction(p) = g[D]
  BY <1>1, SumIs
<1>3. g[D] \in Nat
  BY <1>1, <1>2, SumsNat
<1> QED  BY <1>2, <1>3 DEF SumOver

LEMMA SumOverNone ==
  ASSUME NEW f
  PROVE  SumOver(f, {}) = 0
<1> DEFINE p == [x \in {} |-> f[x]]
<1>1. p \in [{} -> Nat] /\ IsFiniteSet({})
  BY FS_EmptySet
<1>2. PICK g : Sums(g, {}, p) /\ SumFunction(p) = g[{}]
  BY <1>1, SumIs
<1>3. g[{}] = 0
  BY <1>2, SumsStep
<1> QED  BY <1>2, <1>3 DEF SumOver

(* A member more adds its amount.                                          *)
LEMMA SumOverMore ==
  ASSUME NEW D, IsFiniteSet(D), NEW x, x \notin D, NEW f, \A y \in D \cup {x} : f[y] \in Nat
  PROVE  SumOver(f, D \cup {x}) = f[x] + SumOver(f, D)
<1> DEFINE E == D \cup {x}
           p == [y \in D |-> f[y]]
           q == [y \in E |-> f[y]]
<1>1. p \in [D -> Nat] /\ q \in [E -> Nat] /\ (\A y \in D : p[y] = q[y]) /\ q[x] = f[x]
  OBVIOUS
<1>2. IsFiniteSet(E) /\ D \in SUBSET E /\ E \in SUBSET E /\ D \in SUBSET D /\ x \in E /\ E \ {x} = D
  BY FS_AddElement
<1>3. SumOver(f, D) = SumFunction(p) /\ SumOver(f, E) = SumFunction(q)
  BY DEF SumOver
<1> HIDE DEF p, q, E
<1>4. PICK g : Sums(g, D, p) /\ SumFunction(p) = g[D]
  BY <1>1, SumIs
<1>5. PICK k : Sums(k, E, q) /\ SumFunction(q) = k[E]
  BY <1>1, <1>2, SumIs
<1>6. g[D] = k[D]
  BY <1>1, <1>2, <1>4, <1>5, SumsAgree
<1>7. k[E] = q[x] + k[E \ {x}]
  <2>1. IsFiniteSet(E) /\ q \in [E -> Nat] /\ Sums(k, E, q) /\ x \in E
    BY <1>1, <1>2, <1>5
  <2> QED  BY <2>1, SumsAny
<1> QED  BY <1>1, <1>2, <1>3, <1>4, <1>5, <1>6, <1>7 DEF E

LEMMA SumOverSame ==
  ASSUME NEW D, NEW f, NEW h, \A x \in D : f[x] = h[x]
  PROVE  SumOver(f, D) = SumOver(h, D)
<1>1. [x \in D |-> f[x]] = [x \in D |-> h[x]]
  OBVIOUS
<1> QED  BY <1>1 DEF SumOver

LEMMA SumOverIs ==
  ASSUME NEW D, NEW f, f = [x \in D |-> f[x]]
  PROVE  SumFunction(f) = SumOver(f, D)
  BY DEF SumOver

(* Two sets that share nothing add up to their union.                      *)
LEMMA SumOverUnion ==
  ASSUME NEW D, NEW E, IsFiniteSet(D), IsFiniteSet(E), D \cap E = {},
         NEW f, \A x \in D \cup E : f[x] \in Nat
  PROVE  SumOver(f, D \cup E) = SumOver(f, D) + SumOver(f, E)
<1> DEFINE C == {T \in SUBSET E : SumOver(f, D \cup T) = SumOver(f, D) + SumOver(f, T)}
<1>0. \A T \in SUBSET E : IsFiniteSet(T) /\ IsFiniteSet(D \cup T)
                          /\ SumOver(f, T) \in Nat /\ SumOver(f, D) \in Nat /\ SumOver(f, D \cup T) \in Nat
  <2> SUFFICES ASSUME NEW T \in SUBSET E
               PROVE  IsFiniteSet(T) /\ IsFiniteSet(D \cup T)
                      /\ SumOver(f, T) \in Nat /\ SumOver(f, D) \in Nat /\ SumOver(f, D \cup T) \in Nat
    OBVIOUS
  <2>1. IsFiniteSet(T) /\ IsFiniteSet(D \cup T)
    BY FS_Subset, FS_Union
  <2>2. (\A x \in T : f[x] \in Nat) /\ (\A x \in D : f[x] \in Nat) /\ (\A x \in D \cup T : f[x] \in Nat)
    OBVIOUS
  <2> QED  BY <2>1, <2>2, SumOverNat
<1>1. {} \in C
  <2>1. D \cup {} = D /\ SumOver(f, {}) = 0 /\ SumOver(f, D) \in Nat /\ {} \in SUBSET E
    BY <1>0, SumOverNone
  <2> QED  BY <2>1
<1>2. ASSUME NEW T \in SUBSET E, NEW x \in E \ T, T \in C PROVE T \cup {x} \in C
  <2>1. x \notin D /\ x \notin D \cup T /\ D \cup (T \cup {x}) = (D \cup T) \cup {x} /\ T \cup {x} \in SUBSET E
    OBVIOUS
  <2>2. (\A y \in T \cup {x} : f[y] \in Nat) /\ (\A y \in (D \cup T) \cup {x} : f[y] \in Nat) /\ f[x] \in Nat
    OBVIOUS
  <2>3. SumOver(f, T \cup {x}) = f[x] + SumOver(f, T)
    BY <1>0, <1>2, <2>2, SumOverMore
  <2>4. SumOver(f, (D \cup T) \cup {x}) = f[x] + SumOver(f, D \cup T)
    BY <1>0, <2>1, <2>2, SumOverMore
  <2>5. SumOver(f, D \cup T) = SumOver(f, D) + SumOver(f, T)
    BY <1>2
  <2>6. PICK a \in Nat, b \in Nat, c \in Nat : a = f[x] /\ b = SumOver(f, D) /\ c = SumOver(f, T)
    BY <1>0, <2>2
  <2>7. SumOver(f, D \cup (T \cup {x})) = SumOver(f, D) + SumOver(f, T \cup {x})
    <3>1. SumOver(f, (D \cup T) \cup {x}) = a + (b + c) /\ SumOver(f, T \cup {x}) = a + c
      BY <2>3, <2>4, <2>5, <2>6
    <3>2. a + (b + c) = b + (a + c)
      OBVIOUS
    <3> HIDE DEF C
    <3> QED  BY <2>1, <2>6, <3>1, <3>2
  <2> QED  BY <2>1, <2>7
<1> HIDE DEF C
<1>3. E \in C
  BY <1>1, <1>2, SetInduction
<1> QED  BY <1>3 DEF C

(* A part adds up to no more than the whole.                               *)
LEMMA SumOverGrows ==
  ASSUME NEW E, IsFiniteSet(E), NEW D \in SUBSET E, NEW f, \A x \in E : f[x] \in Nat
  PROVE  SumOver(f, D) <= SumOver(f, E)
<1>1. IsFiniteSet(D) /\ IsFiniteSet(E \ D) /\ D \cap (E \ D) = {} /\ D \cup (E \ D) = E
  BY FS_Subset
<1>2. SumOver(f, E) = SumOver(f, D) + SumOver(f, E \ D)
  <2>1. \A x \in D \cup (E \ D) : f[x] \in Nat
    OBVIOUS
  <2>2. SumOver(f, D \cup (E \ D)) = SumOver(f, D) + SumOver(f, E \ D)
    BY <1>1, <2>1, SumOverUnion
  <2> QED  BY <1>1, <2>2
<1>3. SumOver(f, D) \in Nat /\ SumOver(f, E \ D) \in Nat
  BY <1>1, SumOverNat
<1> QED  BY <1>2, <1>3

(* An amount that changes changes the sum by as much.                      *)
LEMMA SumOverChange ==
  ASSUME NEW K, IsFiniteSet(K), NEW c \in K, NEW f, NEW h,
         \A x \in K : f[x] \in Nat /\ h[x] \in Nat /\ (x # c => f[x] = h[x])
  PROVE  SumOver(f, K) + h[c] = SumOver(h, K) + f[c]
<1> DEFINE R == K \ {c}
<1>1. IsFiniteSet(R) /\ c \notin R /\ R \cup {c} = K
  BY FS_Subset
<1>2. \A x \in R : f[x] = h[x] /\ f[x] \in Nat
  OBVIOUS
<1>3. SumOver(f, R) = SumOver(h, R) /\ SumOver(f, R) \in Nat
  <2> HIDE DEF R
  <2> QED  BY <1>1, <1>2, SumOverSame, SumOverNat
<1>4. SumOver(f, R \cup {c}) = f[c] + SumOver(f, R) /\ SumOver(h, R \cup {c}) = h[c] + SumOver(h, R)
  <2>1. (\A x \in R \cup {c} : f[x] \in Nat) /\ (\A x \in R \cup {c} : h[x] \in Nat)
    BY <1>1
  <2> HIDE DEF R
  <2> QED  BY <1>1, <2>1, SumOverMore
<1> HIDE DEF R
<1>5. f[c] \in Nat /\ h[c] \in Nat
  OBVIOUS
<1>6. PICK a \in Nat, b \in Nat, t \in Nat : a = f[c] /\ b = h[c] /\ t = SumOver(f, R)
  BY <1>3, <1>5
<1>7. SumOver(f, K) = a + t /\ SumOver(h, K) = b + t
  BY <1>1, <1>3, <1>4, <1>6
<1>8. (a + t) + b = (b + t) + a
  OBVIOUS
<1> QED  BY <1>6, <1>7, <1>8

LEMMA SumOverZero ==
  ASSUME NEW K, IsFiniteSet(K), NEW f, \A x \in K : f[x] = 0
  PROVE  SumOver(f, K) = 0
<1> DEFINE C == {T \in SUBSET K : SumOver(f, T) = 0}
<1>1. {} \in C
  BY SumOverNone
<1>2. ASSUME NEW T \in SUBSET K, NEW x \in K \ T, T \in C PROVE T \cup {x} \in C
  <2>1. IsFiniteSet(T) /\ \A y \in T \cup {x} : f[y] \in Nat
    BY FS_Subset
  <2>2. SumOver(f, T \cup {x}) = f[x] + SumOver(f, T)
    BY <2>1, <1>2, SumOverMore
  <2> QED  BY <1>2, <2>2
<1> HIDE DEF C
<1>3. K \in C
  BY <1>1, <1>2, SetInduction
<1> QED  BY <1>3 DEF C

(* Adding up group by group: every member is in the group of its key.      *)
Group(D, key, b) == {x \in D : key[x] = b}

(* The totals of the groups add up to the total of the whole.              *)
LEMMA SumOverByKey ==
  ASSUME NEW D, IsFiniteSet(D), NEW K, IsFiniteSet(K), NEW key, \A x \in D : key[x] \in K,
         NEW f, \A x \in D : f[x] \in Nat
  PROVE  SumOver([b \in K |-> SumOver(f, Group(D, key, b))], K) = SumOver(f, D)
<1> DEFINE By(T) == [b \in K |-> SumOver(f, Group(T, key, b))]
           C == {T \in SUBSET D : SumOver(By(T), K) = SumOver(f, T)}
<1>0. ASSUME NEW T \in SUBSET D
      PROVE  /\ IsFiniteSet(T) /\ SumOver(f, T) \in Nat
             /\ \A b \in K : IsFiniteSet(Group(T, key, b)) /\ SumOver(f, Group(T, key, b)) \in Nat
  <2>1. IsFiniteSet(T) /\ \A x \in T : f[x] \in Nat
    BY FS_Subset
  <2>2. ASSUME NEW b \in K PROVE IsFiniteSet(Group(T, key, b)) /\ SumOver(f, Group(T, key, b)) \in Nat
    <3>1. Group(T, key, b) \in SUBSET T /\ \A x \in Group(T, key, b) : f[x] \in Nat
      BY DEF Group
    <3> QED  BY <2>1, <3>1, FS_Subset, SumOverNat
  <2> QED  BY <2>1, <2>2, SumOverNat
<1>1. {} \in C
  <2>1. \A b \in K : By({})[b] = 0
    BY SumOverNone DEF Group
  <2> HIDE DEF By
  <2>2. SumOver(By({}), K) = 0 /\ SumOver(f, {}) = 0
    BY <2>1, SumOverZero, SumOverNone
  <2> QED  BY <2>2
<1>2. ASSUME NEW T \in SUBSET D, NEW x \in D \ T, T \in C PROVE T \cup {x} \in C
  <2> DEFINE U == T \cup {x}
             c == key[x]
  <2>1. U \in SUBSET D /\ c \in K
    OBVIOUS
  <2>2. \A b \in K : b # c => Group(U, key, b) = Group(T, key, b)
    BY DEF Group
  <2>3. Group(U, key, c) = Group(T, key, c) \cup {x} /\ x \notin Group(T, key, c)
    BY DEF Group
  <2>4. \A y \in Group(T, key, c) \cup {x} : f[y] \in Nat
    BY DEF Group
  <2> HIDE DEF U, c
  <2>5. SumOver(f, Group(U, key, c)) = f[x] + SumOver(f, Group(T, key, c))
    BY <1>0, <2>1, <2>3, <2>4, SumOverMore
  <2>6. \A b \in K : /\ By(T)[b] \in Nat /\ By(U)[b] \in Nat
                     /\ By(T)[b] = SumOver(f, Group(T, key, b)) /\ By(U)[b] = SumOver(f, Group(U, key, b))
                     /\ b # c => By(T)[b] = By(U)[b]
    BY <1>0, <2>1, <2>2
  <2>7. SumOver(By(T), K) \in Nat /\ SumOver(By(U), K) \in Nat
    <3> HIDE DEF By
    <3> QED  BY <2>6, SumOverNat
  <2>8. SumOver(By(T), K) = SumOver(f, T)
    BY <1>2
  <2> HIDE DEF By
  <2>9. SumOver(By(T), K) + By(U)[c] = SumOver(By(U), K) + By(T)[c]
    BY <2>1, <2>6, SumOverChange
  <2>10. SumOver(f, U) = f[x] + SumOver(f, T)
    <3>1. \A y \in T \cup {x} : f[y] \in Nat
      OBVIOUS
    <3> QED  BY <1>0, <3>1, SumOverMore DEF U
  <2>11. By(U)[c] = f[x] + By(T)[c] /\ By(T)[c] \in Nat /\ f[x] \in Nat
    BY <2>1, <2>5, <2>6
  <2>12. SumOver(By(U), K) = SumOver(f, U)
    <3>1. PICK a \in Nat, b \in Nat, s \in Nat, t \in Nat :
            a = f[x] /\ b = By(T)[c] /\ s = SumOver(By(T), K) /\ t = SumOver(By(U), K)
      BY <2>7, <2>11
    <3>2. s + (a + b) = t + b
      BY <2>9, <2>11, <3>1
    <3>3. t = a + s
      BY <3>2
    <3> HIDE DEF C
    <3> QED  BY <2>8, <2>10, <3>1, <3>3
  <2> QED  BY <2>1, <2>12 DEF U
<1>3. D \in C
  <2> HIDE DEF C
  <2> QED  BY <1>1, <1>2, SetInduction
<1> QED  BY <1>3

(* Counting is adding up ones.                                             *)
LEMMA SumOverOnes ==
  ASSUME NEW D, IsFiniteSet(D), NEW f, \A x \in D : f[x] = 1
  PROVE  SumOver(f, D) = Cardinality(D)
<1> DEFINE C == {T \in SUBSET D : SumOver(f, T) = Cardinality(T)}
<1>1. {} \in C
  BY SumOverNone, FS_EmptySet
<1>2. ASSUME NEW T \in SUBSET D, NEW x \in D \ T, T \in C PROVE T \cup {x} \in C
  <2>1. IsFiniteSet(T) /\ Cardinality(T) \in Nat /\ (\A y \in T \cup {x} : f[y] \in Nat) /\ f[x] = 1
    BY FS_Subset, FS_CardinalityType
  <2>2. SumOver(f, T \cup {x}) = f[x] + SumOver(f, T)
    BY <2>1, <1>2, SumOverMore
  <2>3. Cardinality(T \cup {x}) = Cardinality(T) + 1
    BY <2>1, <1>2, FS_AddElement
  <2> QED  BY <1>2, <2>1, <2>2, <2>3
<1> HIDE DEF C
<1>3. D \in C
  BY <1>1, <1>2, SetInduction
<1> QED  BY <1>3 DEF C

(* The sizes of the groups add up to the size of the whole.                *)
LEMMA CountByKey ==
  ASSUME NEW D, IsFiniteSet(D), NEW K, IsFiniteSet(K), NEW key, \A x \in D : key[x] \in K
  PROVE  SumOver([b \in K |-> Cardinality(Group(D, key, b))], K) = Cardinality(D)
<1> DEFINE one == [x \in D |-> 1]
<1>1. \A x \in D : one[x] = 1 /\ one[x] \in Nat
  OBVIOUS
<1> HIDE DEF one
<1>2. ASSUME NEW b \in K PROVE SumOver(one, Group(D, key, b)) = Cardinality(Group(D, key, b))
  <2>1. Group(D, key, b) \in SUBSET D
    BY DEF Group
  <2>2. IsFiniteSet(Group(D, key, b)) /\ \A x \in Group(D, key, b) : one[x] = 1
    BY <1>1, <2>1, FS_Subset
  <2> QED  BY <2>2, SumOverOnes
<1>3. [b \in K |-> Cardinality(Group(D, key, b))] = [b \in K |-> SumOver(one, Group(D, key, b))]
  BY <1>2
<1>4. SumOver(one, D) = Cardinality(D)
  BY <1>1, SumOverOnes
<1> QED  BY <1>1, <1>3, <1>4, SumOverByKey

-----------------------------------------------------------------------------
USE DEF ReportQueries

(* A later moment falls into the same bucket or a later one.               *)
LEMMA Later ==
  ASSUME NEW a \in Int, NEW b \in Int, NEW d \in Nat \ {0}, a <= b
  PROVE  a \div d \in Int /\ b \div d \in Int /\ a \div d <= b \div d
  OBVIOUS

(* A later moment is in the same bucket or in a later one.                 *)
LEMMA BucketLater ==
  ASSUME NEW g \in Ranges, NEW s \in Int, NEW t \in Int, s <= t
  PROVE  Bucket(s, g) \in Int /\ Bucket(t, g) \in Int /\ Bucket(s, g) <= Bucket(t, g)
<1>1. /\ g.zone \in Int /\ DayLength \in Nat \ {0} /\ MonthLength \in Nat \ {0}
  BY ReportConstants DEF SummaryQuery
<1>2. s + g.zone \in Int /\ t + g.zone \in Int /\ s + g.zone <= t + g.zone
  BY <1>1
<1> DEFINE x == (s + g.zone) \div DayLength
           y == (t + g.zone) \div DayLength
<1>3. x \in Int /\ y \in Int /\ x <= y
  BY <1>1, <1>2, Later
<1>4. x \div MonthLength \in Int /\ y \div MonthLength \in Int /\ x \div MonthLength <= y \div MonthLength
  <2> HIDE DEF x, y
  <2> QED  BY <1>1, <1>3, Later
<1>5. Bucket(s, g) = (IF g.granularity = "day" THEN x ELSE x \div MonthLength)
      /\ Bucket(t, g) = (IF g.granularity = "day" THEN y ELSE y \div MonthLength)
  BY DEF Bucket
<1> QED  BY <1>3, <1>4, <1>5

(* The keys of a range are finitely many and have every bucket of it.      *)
LEMMA KeysCover ==
  ASSUME NEW g \in Ranges
  PROVE  /\ IsFiniteSet(BucketKeys(g))
         /\ \A t \in Int : t >= g.from /\ t <= g.to => Bucket(t, g) \in BucketKeys(g)
<1> DEFINE first == Bucket(g.from, g)
           last == Bucket(g.to, g)
<1>1. g.from \in Int /\ g.to \in Int /\ g.from <= g.to
  BY ReportConstants DEF SummaryQuery
<1>2. first \in Int /\ last \in Int /\ first <= last
  BY <1>1, BucketLater
<1>3. Max({first, last}) = last
  <2> HIDE DEF first, last
  <2> QED  BY <1>2 DEF Max
<1>4. BucketKeys(g) = first .. last
  BY <1>3 DEF BucketKeys
<1>5. IsFiniteSet(first .. last)
  BY <1>2, FS_Interval
<1>6. ASSUME NEW t \in Int, t >= g.from, t <= g.to PROVE Bucket(t, g) \in first .. last
  <2>1. first <= Bucket(t, g) /\ Bucket(t, g) <= last /\ Bucket(t, g) \in Int
    BY <1>1, <1>6, BucketLater
  <2> QED  BY <1>2, <2>1
<1> QED  BY <1>4, <1>5, <1>6

-----------------------------------------------------------------------------
(* The tables of the shop, with their types.                               *)
SalesStored ==
  /\ sale \in [Sales -> SaleDocs \cup {Nothing}]
  /\ signup \in [Buyers -> {g.from : g \in Ranges} \cup {Nothing}]

LEMMA ThereTyped ==
  ASSUME SalesStored, NEW s \in There
  PROVE  /\ s \in Sales /\ SaleDoc(sale[s])
         /\ sale[s].at \in Int /\ sale[s].total \in Nat /\ sale[s].earned \in Nat
         /\ sale[s].status \in Statuses
  BY ReportConstants DEF SalesStored, There, SaleDoc

LEMMA ThereFinite ==
  ASSUME NEW S \in SUBSET There
  PROVE  IsFiniteSet(S)
  BY ReportConstants, FS_Subset DEF There

(* What the orders have in one of their fields.                            *)
Field(name) == [s \in Sales |-> sale[s][name]]

LEMMA RevenueIs ==
  ASSUME NEW S \in SUBSET Sales
  PROVE  Revenue(S) = SumOver(Field("total"), S) /\ Earned(S) = SumOver(Field("earned"), S)
<1>1. [s \in S |-> sale[s].total] = [s \in S |-> Field("total")[s]]
      /\ [s \in S |-> sale[s].earned] = [s \in S |-> Field("earned")[s]]
  BY DEF Field
<1> QED  BY <1>1 DEF Revenue, Earned, SumOver

LEMMA FieldNat ==
  ASSUME SalesStored, NEW S \in SUBSET There
  PROVE  /\ S \in SUBSET Sales /\ IsFiniteSet(S)
         /\ \A s \in S : Field("total")[s] \in Nat /\ Field("earned")[s] \in Nat
  BY ThereTyped, ThereFinite DEF Field, There

LEMMA AmountNat ==
  ASSUME SalesStored, NEW S \in SUBSET There
  PROVE  Revenue(S) \in Nat /\ Earned(S) \in Nat /\ Cardinality(S) \in Nat
  BY FieldNat, RevenueIs, SumOverNat, FS_CardinalityType

(* Fewer orders never earn more.                                           *)
LEMMA AmountGrows ==
  ASSUME SalesStored, NEW S \in SUBSET There, NEW R \in SUBSET S
  PROVE  Revenue(R) <= Revenue(S) /\ Earned(R) <= Earned(S) /\ Cardinality(R) <= Cardinality(S)
<1>1. R \in SUBSET Sales /\ S \in SUBSET Sales
  BY DEF There
<1>2. Cardinality(R) <= Cardinality(S)
  BY FieldNat, FS_Subset
<1> QED  BY <1>1, <1>2, FieldNat, RevenueIs, SumOverGrows

(* Orders of two periods that share none.                                  *)
LEMMA RevenueUnion ==
  ASSUME SalesStored, NEW R \in SUBSET There, NEW S \in SUBSET There, R \cap S = {}
  PROVE  Revenue(R \cup S) = Revenue(R) + Revenue(S)
<1>1. R \cup S \in SUBSET There /\ R \in SUBSET Sales /\ S \in SUBSET Sales /\ R \cup S \in SUBSET Sales
  BY DEF There
<1>2. IsFiniteSet(R) /\ IsFiniteSet(S) /\ \A s \in R \cup S : Field("total")[s] \in Nat
  BY <1>1, FieldNat
<1>3. SumOver(Field("total"), R \cup S) = SumOver(Field("total"), R) + SumOver(Field("total"), S)
  BY <1>2, SumOverUnion
<1> QED  BY <1>1, <1>3, RevenueIs

-----------------------------------------------------------------------------
(* What the queries answer: the sums, over all groups, are those of the    *)
(* orders.                                                                 *)
LEMMA SeriesIs ==
  ASSUME NEW g \in Ranges, NEW found, NEW amounts, DOMAIN found \subseteq BucketKeys(g),
         \A k \in BucketKeys(g) : amounts[k] = IF k \in DOMAIN found THEN found[k] ELSE 0
  PROVE  SeriesTotal(found, g) = SumOver(amounts, BucketKeys(g))
<1>1. [k \in BucketKeys(g) |-> IF k \in DOMAIN found THEN found[k] ELSE 0]
        = [k \in BucketKeys(g) |-> amounts[k]]
  OBVIOUS
<1> QED  BY <1>1 DEF SeriesTotal, SumOver

(* The series of the revenue adds up to that of the period.                *)
LEMMA SalesAnswer ==
  ASSUME SalesStored, NEW g \in Ranges
  PROVE  SeriesTotal(SalesByBucket(g), g) = Revenue(Within(Counted, g.from, g.to))
<1> DEFINE K == BucketKeys(g)
           D == Within(Counted, g.from, g.to)
           key == [s \in Sales |-> Bucket(sale[s].at, g)]
           tot == Field("total")
           amounts == [b \in K |-> SumOver(tot, Group(D, key, b))]
           found == SalesByBucket(g)
<1>1. D \in SUBSET There /\ D \in SUBSET Sales
  BY DEF Within, Counted, There
<1>2. IsFiniteSet(D) /\ \A s \in D : tot[s] \in Nat
  BY <1>1, FieldNat
<1>3. \A s \in D : key[s] \in K /\ key[s] = Bucket(sale[s].at, g)
  <2> SUFFICES ASSUME NEW s \in D PROVE key[s] \in K /\ key[s] = Bucket(sale[s].at, g)
    OBVIOUS
  <2>1. sale[s].at \in Int /\ sale[s].at >= g.from /\ sale[s].at <= g.to /\ s \in Sales
    BY <1>1, ThereTyped DEF Within
  <2> QED  BY <2>1, KeysCover
<1>4. \A b : {s \in D : Bucket(sale[s].at, g) = b} = Group(D, key, b)
  BY <1>3 DEF Group
<1>5. DOMAIN found = {key[s] : s \in D} /\ \A b \in DOMAIN found : found[b] = Revenue(Group(D, key, b))
  <2>1. found = [b \in {Bucket(sale[s].at, g) : s \in D} |-> Revenue({s \in D : Bucket(sale[s].at, g) = b})]
    BY DEF SalesByBucket
  <2>2. {Bucket(sale[s].at, g) : s \in D} = {key[s] : s \in D}
    BY <1>3
  <2> HIDE DEF found, D, key
  <2> QED  BY <1>4, <2>1, <2>2
<1>6. IsFiniteSet(K)
  BY KeysCover
<1> HIDE DEF D, K, key, tot, found
<1>7. \A b \in K : amounts[b] = IF b \in DOMAIN found THEN found[b] ELSE 0
  <2> SUFFICES ASSUME NEW b \in K PROVE amounts[b] = IF b \in DOMAIN found THEN found[b] ELSE 0
    OBVIOUS
  <2>1. Group(D, key, b) \in SUBSET Sales
    BY <1>1 DEF Group
  <2>2. amounts[b] = Revenue(Group(D, key, b))
    BY <2>1, RevenueIs DEF tot
  <2>3. CASE b \in DOMAIN found
    BY <1>5, <2>2, <2>3
  <2>4. CASE b \notin DOMAIN found
    <3>1. Group(D, key, b) = {}
      BY <1>5, <2>4 DEF Group
    <3> QED  BY <2>4, <3>1, SumOverNone
  <2> QED  BY <2>3, <2>4
<1>8. SumOver(amounts, K) = SumOver(tot, D)
  BY <1>2, <1>3, <1>6, SumOverByKey
<1>9. DOMAIN found \subseteq K
  BY <1>3, <1>5
<1> HIDE DEF amounts
<1>10. SeriesTotal(found, g) = SumOver(amounts, K)
  BY <1>7, <1>9, SeriesIs DEF K
<1> QED  BY <1>1, <1>8, <1>10, RevenueIs DEF found, D, tot

(* The series of the registrations counts those of the period.             *)
LEMMA SignupsAnswer ==
  ASSUME SalesStored, NEW g \in Ranges
  PROVE  SeriesTotal(SignupsByBucket(g), g) =
           Cardinality({u \in Buyers : signup[u] # Nothing /\ signup[u] >= g.from /\ signup[u] <= g.to})
<1> DEFINE K == BucketKeys(g)
           D == {u \in Buyers : signup[u] # Nothing /\ signup[u] >= g.from /\ signup[u] <= g.to}
           key == [u \in Buyers |-> Bucket(signup[u], g)]
           amounts == [b \in K |-> Cardinality(Group(D, key, b))]
           found == SignupsByBucket(g)
<1>1. D \in SUBSET Buyers /\ IsFiniteSet(D)
  BY ReportConstants, FS_Subset
<1>3. \A u \in D : key[u] \in K /\ key[u] = Bucket(signup[u], g)
  <2> SUFFICES ASSUME NEW u \in D PROVE key[u] \in K /\ key[u] = Bucket(signup[u], g)
    OBVIOUS
  <2>1. signup[u] \in Int /\ signup[u] >= g.from /\ signup[u] <= g.to /\ u \in Buyers
    BY ReportConstants DEF SalesStored, SummaryQuery
  <2> QED  BY <2>1, KeysCover
<1>4. \A b : {u \in D : Bucket(signup[u], g) = b} = Group(D, key, b)
  BY <1>3 DEF Group
<1>5. DOMAIN found = {key[u] : u \in D} /\ \A b \in DOMAIN found : found[b] = Cardinality(Group(D, key, b))
  <2>1. found = [b \in {Bucket(signup[u], g) : u \in D} |-> Cardinality({u \in D : Bucket(signup[u], g) = b})]
    BY DEF SignupsByBucket
  <2>2. {Bucket(signup[u], g) : u \in D} = {key[u] : u \in D}
    BY <1>3
  <2> HIDE DEF found, D, key
  <2> QED  BY <1>4, <2>1, <2>2
<1>6. IsFiniteSet(K)
  BY KeysCover
<1> HIDE DEF D, K, key, found
<1>7. \A b \in K : amounts[b] = IF b \in DOMAIN found THEN found[b] ELSE 0
  <2> SUFFICES ASSUME NEW b \in K PROVE amounts[b] = IF b \in DOMAIN found THEN found[b] ELSE 0
    OBVIOUS
  <2>1. CASE b \in DOMAIN found
    BY <1>5, <2>1
  <2>2. CASE b \notin DOMAIN found
    <3>1. Group(D, key, b) = {}
      BY <1>5, <2>2 DEF Group
    <3> QED  BY <2>2, <3>1, FS_EmptySet
  <2> QED  BY <2>1, <2>2
<1>8. SumOver(amounts, K) = Cardinality(D)
  BY <1>1, <1>3, <1>6, CountByKey
<1>9. DOMAIN found \subseteq K
  BY <1>3, <1>5
<1> HIDE DEF amounts
<1>10. SeriesTotal(found, g) = SumOver(amounts, K)
  BY <1>7, <1>9, SeriesIs DEF K
<1> QED  BY <1>8, <1>10 DEF found, D

(* The best sellers earned what the orders did.                            *)
LEMMA BestAnswer ==
  ASSUME SalesStored, NEW D \in SUBSET There
  PROVE  SumFunction(EarnedByProduct(D)) = Earned(D)
<1> DEFINE K == {sale[s].product : s \in D}
           key == [s \in Sales |-> sale[s].product]
           earned == Field("earned")
           amounts == [b \in K |-> SumOver(earned, Group(D, key, b))]
<1>1. D \in SUBSET Sales /\ IsFiniteSet(D) /\ \A s \in D : earned[s] \in Nat
  BY FieldNat
<1>2. \A s \in D : key[s] \in K /\ key[s] = sale[s].product
  BY <1>1
<1>3. IsFiniteSet(K)
  <2> DEFINE f == [s \in D |-> sale[s].product]
  <2>1. f \in Surjection(D, K)
    BY DEF Surjection
  <2> QED  BY <1>1, <2>1, FS_Surjection
<1>4. SumOver(amounts, K) = SumOver(earned, D)
  <2> HIDE DEF K, key, earned
  <2> QED  BY <1>1, <1>2, <1>3, SumOverByKey
<1>5. ASSUME NEW b \in K PROVE Earned({s \in D : sale[s].product = b}) = amounts[b]
  <2>1. {s \in D : sale[s].product = b} = Group(D, key, b) /\ Group(D, key, b) \in SUBSET Sales
    BY <1>1, <1>2 DEF Group
  <2> QED  BY <2>1, RevenueIs
<1>6. EarnedByProduct(D) = [b \in K |-> amounts[b]]
  <2>1. EarnedByProduct(D) = [b \in K |-> Earned({s \in D : sale[s].product = b})]
    BY DEF EarnedByProduct
  <2> HIDE DEF K, amounts
  <2> QED  BY <1>5, <2>1
<1>7. SumFunction(EarnedByProduct(D)) = SumOver(amounts, K)
  BY <1>6 DEF SumOver
<1> QED  BY <1>1, <1>4, <1>7, RevenueIs

(* The customers spent what their orders cost.                             *)
LEMMA SpentAnswer ==
  ASSUME SalesStored
  PROVE  SumFunction(SpentByUser) = Revenue({s \in Counted : sale[s].user \in Buyers})
<1> DEFINE D == {s \in Counted : sale[s].user \in Buyers}
           key == [s \in Sales |-> sale[s].user]
           tot == Field("total")
           amounts == [b \in Buyers |-> SumOver(tot, Group(D, key, b))]
<1>0. D \in SUBSET There
  BY DEF Counted
<1>1. D \in SUBSET Sales /\ IsFiniteSet(D) /\ \A s \in D : tot[s] \in Nat
  BY <1>0, FieldNat
<1>2. \A s \in D : key[s] \in Buyers /\ key[s] = sale[s].user
  BY <1>1
<1>4. SumOver(amounts, Buyers) = SumOver(tot, D)
  <2> HIDE DEF D, key, tot
  <2> QED  BY <1>1, <1>2, ReportConstants, SumOverByKey
<1>5. ASSUME NEW b \in Buyers PROVE Revenue({s \in Counted : sale[s].user = b}) = amounts[b]
  <2>1. {s \in Counted : sale[s].user = b} = Group(D, key, b) /\ Group(D, key, b) \in SUBSET Sales
    BY <1>1, <1>2 DEF Group
  <2> QED  BY <2>1, RevenueIs
<1>6. SpentByUser = [b \in Buyers |-> amounts[b]]
  <2>1. SpentByUser = [b \in Buyers |-> Revenue({s \in Counted : sale[s].user = b})]
    BY DEF SpentByUser
  <2> HIDE DEF amounts
  <2> QED  BY <1>5, <2>1
<1>7. SumFunction(SpentByUser) = SumOver(amounts, Buyers)
  BY <1>6 DEF SumOver
<1> QED  BY <1>1, <1>4, <1>7, RevenueIs

(* The counts by status, less the cancelled, are the orders that count.    *)
LEMMA StatusAnswer ==
  ASSUME SalesStored
  PROVE  Uncancelled(OrdersByStatus) = Cardinality(Counted)
<1> DEFINE K == Statuses \ {"cancelled"}
           key == [s \in Sales |-> sale[s].status]
           amounts == [b \in K |-> Cardinality(Group(Counted, key, b))]
<1>1. Counted \in SUBSET There /\ Counted \in SUBSET Sales /\ IsFiniteSet(Counted)
  BY ThereFinite DEF Counted, There
<1>2. \A s \in Counted : key[s] \in K /\ key[s] = sale[s].status
  BY <1>1, ThereTyped DEF Counted
<1>3. IsFiniteSet(K)
  BY ReportConstants, FS_Subset
<1>4. SumOver(amounts, K) = Cardinality(Counted)
  <2> HIDE DEF K, key
  <2> QED  BY <1>1, <1>2, <1>3, CountByKey
<1>5. ASSUME NEW b \in K PROVE OrdersByStatus[b] = amounts[b]
  <2>1. {s \in There : sale[s].status = b} = Group(Counted, key, b)
    BY <1>2 DEF Group, Counted, There
  <2>2. OrdersByStatus = [x \in Statuses |-> Cardinality({s \in There : sale[s].status = x})]
    BY DEF OrdersByStatus, CountByStatus
  <2>3. OrdersByStatus[b] = Cardinality({s \in There : sale[s].status = b})
    BY <2>2
  <2> QED  BY <2>1, <2>3
<1>6. [x \in K |-> OrdersByStatus[x]] = [b \in K |-> amounts[b]]
  <2> HIDE DEF K, amounts
  <2> QED  BY <1>5
<1>7. Uncancelled(OrdersByStatus) = SumFunction([x \in K |-> OrdersByStatus[x]])
  BY DEF Uncancelled
<1>8. Uncancelled(OrdersByStatus) = SumOver(amounts, K)
  <2> HIDE DEF K, amounts
  <2> QED  BY <1>6, <1>7 DEF SumOver
<1> QED  BY <1>4, <1>8

-----------------------------------------------------------------------------
(* What a figure may be, for the orders that counted all the time since    *)
(* the report was asked for and those that ever did.                       *)
Between(low, x, high) == x \in Nat /\ low <= x /\ x <= high

SoldSince(S, from) == {s \in S : sale[s].at >= from}
Own(S) == {s \in S : sale[s].user \in Buyers}

Sales_Between(x, g, lo, hi) ==
  Between(Revenue(Within(lo, g.from, g.to)), SeriesTotal(x, g), Revenue(Within(hi, g.from, g.to)))
Signups_Exact(x, g) ==
  SeriesTotal(x, g) =
    Cardinality({u \in Buyers : signup[u] # Nothing /\ signup[u] >= g.from /\ signup[u] <= g.to})
Previous_Between(x, g, lo, hi) ==
  Between(Revenue(Before(lo, g.from - (g.to - g.from), g.from)), x,
          Revenue(Before(hi, g.from - (g.to - g.from), g.from)))
Top_Between(x, g, lo, hi) ==
  Between(Earned(Within(lo, g.from, g.to)), SumFunction(x), Earned(Within(hi, g.from, g.to)))
Best_Between(x, lo, hi) == Between(Earned(lo), SumFunction(x), Earned(hi))
Since_Between(x, from, lo, hi) ==
  /\ Between(Revenue(SoldSince(lo, from)), x.revenue, Revenue(SoldSince(hi, from)))
  /\ Between(Cardinality(SoldSince(lo, from)), x.orders, Cardinality(SoldSince(hi, from)))
Status_Between(x, lo, hi) == Between(Cardinality(lo), Uncancelled(x), Cardinality(hi))
Orders_Between(x, lo, hi) == Between(Cardinality(lo), x, Cardinality(hi))
Spent_Between(x, lo, hi) == Between(Revenue(Own(lo)), SumFunction(x), Revenue(Own(hi)))

Bounded(results, g, lo, hi) ==
  /\ "sales" \in DOMAIN results => Sales_Between(results.sales, g, lo, hi)
  /\ "signups" \in DOMAIN results => Signups_Exact(results.signups, g)
  /\ "previous" \in DOMAIN results => Previous_Between(results.previous, g, lo, hi)
  /\ "top" \in DOMAIN results => Top_Between(results.top, g, lo, hi)
  /\ "today" \in DOMAIN results => Since_Between(results.today, g.to - DayLength, lo, hi)
  /\ "week" \in DOMAIN results => Since_Between(results.week, g.to - 7 * DayLength, lo, hi)
  /\ "month" \in DOMAIN results => Since_Between(results.month, g.to - 30 * DayLength, lo, hi)
  /\ "best" \in DOMAIN results => Best_Between(results.best, lo, hi)
  /\ "byStatus" \in DOMAIN results => Status_Between(results.byStatus, lo, hi)
  /\ "allTime" \in DOMAIN results => Orders_Between(results.allTime, lo, hi)
  /\ "spent" \in DOMAIN results => Spent_Between(results.spent, lo, hi)

(* The same of one answer.                                                 *)
BoundedAs(name, x, g, lo, hi) ==
  /\ name = "sales" => Sales_Between(x, g, lo, hi)
  /\ name = "signups" => Signups_Exact(x, g)
  /\ name = "previous" => Previous_Between(x, g, lo, hi)
  /\ name = "top" => Top_Between(x, g, lo, hi)
  /\ name = "today" => Since_Between(x, g.to - DayLength, lo, hi)
  /\ name = "week" => Since_Between(x, g.to - 7 * DayLength, lo, hi)
  /\ name = "month" => Since_Between(x, g.to - 30 * DayLength, lo, hi)
  /\ name = "best" => Best_Between(x, lo, hi)
  /\ name = "byStatus" => Status_Between(x, lo, hi)
  /\ name = "allTime" => Orders_Between(x, lo, hi)
  /\ name = "spent" => Spent_Between(x, lo, hi)

Reporting(h) ==
  /\ DOMAIN h = {"pc", "range", "results", "standing", "ever"}
  /\ h.pc \in DOMAIN ReportQueries /\ h.range \in Ranges
  /\ h.standing \subseteq Counted /\ Counted \subseteq h.ever /\ h.ever \subseteq There
  /\ Bounded(h.results, h.range, h.standing, h.ever)

ReportsInv ==
  /\ SalesStored
  /\ DOMAIN req = Slots
  /\ \A r \in Slots : req[r] = Idle \/ Reporting(req[r])

-----------------------------------------------------------------------------
(* An answer lies between, when it is given.                               *)
LEMMA Squeezed ==
  ASSUME SalesStored, NEW A \in SUBSET There, NEW B \in SUBSET A, NEW C \in SUBSET There, A \subseteq C
  PROVE  /\ Between(Revenue(B), Revenue(A), Revenue(C))
         /\ Between(Earned(B), Earned(A), Earned(C))
         /\ Between(Cardinality(B), Cardinality(A), Cardinality(C))
<1>1. Revenue(A) \in Nat /\ Earned(A) \in Nat /\ Cardinality(A) \in Nat
  BY AmountNat
<1>2. Revenue(B) <= Revenue(A) /\ Earned(B) <= Earned(A) /\ Cardinality(B) <= Cardinality(A)
  BY AmountGrows
<1>3. Revenue(A) <= Revenue(C) /\ Earned(A) <= Earned(C) /\ Cardinality(A) <= Cardinality(C)
  BY AmountGrows
<1> QED  BY <1>1, <1>2, <1>3 DEF Between

LEMMA BoundedByName ==
  ASSUME NEW results, NEW g, NEW lo, NEW hi
  PROVE  Bounded(results, g, lo, hi) <=>
           \A n \in DOMAIN results : BoundedAs(n, results[n], g, lo, hi)
<1>1. ASSUME Bounded(results, g, lo, hi), NEW n \in DOMAIN results
      PROVE  BoundedAs(n, results[n], g, lo, hi)
  BY <1>1 DEF Bounded, BoundedAs
<1>2. ASSUME \A n \in DOMAIN results : BoundedAs(n, results[n], g, lo, hi)
      PROVE  Bounded(results, g, lo, hi)
  BY <1>2 DEF Bounded, BoundedAs
<1> QED  BY <1>1, <1>2

LEMMA AnswerBetween ==
  ASSUME SalesStored, NEW g \in Ranges, NEW name,
         NEW lo \in SUBSET Counted, NEW hi \in SUBSET There, Counted \subseteq hi
  PROVE  BoundedAs(name, Result(name, g), g, lo, hi)
<1>0. Counted \in SUBSET There
  BY DEF Counted
<1> USE DEF BoundedAs
<1>1. CASE name = "sales"
  <2>1. /\ Within(Counted, g.from, g.to) \in SUBSET There
        /\ Within(lo, g.from, g.to) \in SUBSET Within(Counted, g.from, g.to)
        /\ Within(hi, g.from, g.to) \in SUBSET There
        /\ Within(Counted, g.from, g.to) \subseteq Within(hi, g.from, g.to)
    BY <1>0 DEF Within
  <2>2. Result(name, g) = SalesByBucket(g)
    BY <1>1 DEF Result
  <2> QED  BY <1>1, <2>1, <2>2, Squeezed, SalesAnswer DEF Sales_Between
<1>2. CASE name = "signups"
  <2>1. Result(name, g) = SignupsByBucket(g)
    BY <1>2 DEF Result
  <2> QED  BY <1>2, <2>1, SignupsAnswer DEF Signups_Exact
<1>3. CASE name = "previous"
  <2> DEFINE P(S) == Before(S, g.from - (g.to - g.from), g.from)
  <2>1. /\ P(Counted) \in SUBSET There /\ P(lo) \in SUBSET P(Counted)
        /\ P(hi) \in SUBSET There /\ P(Counted) \subseteq P(hi)
    BY <1>0 DEF Before
  <2>2. Result(name, g) = Revenue(P(Counted))
    BY <1>3 DEF Result, PreviousRevenue
  <2> HIDE DEF P
  <2>3. Between(Revenue(P(lo)), Revenue(P(Counted)), Revenue(P(hi)))
    BY <2>1, Squeezed
  <2> QED  BY <1>3, <2>2, <2>3 DEF Previous_Between, P
<1>4. CASE name = "top"
  <2> DEFINE P(S) == Within(S, g.from, g.to)
  <2>1. /\ P(Counted) \in SUBSET There /\ P(lo) \in SUBSET P(Counted)
        /\ P(hi) \in SUBSET There /\ P(Counted) \subseteq P(hi)
    BY <1>0 DEF Within
  <2>2. Result(name, g) = EarnedByProduct(P(Counted))
    BY <1>4 DEF Result, TopProducts
  <2> HIDE DEF P
  <2>3. Between(Earned(P(lo)), Earned(P(Counted)), Earned(P(hi)))
    BY <2>1, Squeezed
  <2>4. SumFunction(Result(name, g)) = Earned(P(Counted))
    BY <2>1, <2>2, BestAnswer
  <2> QED  BY <1>4, <2>3, <2>4 DEF Top_Between, P
<1>5. ASSUME NEW from PROVE Since_Between(RevenueSince(from), from, lo, hi)
  <2>1. /\ SoldSince(Counted, from) \in SUBSET There /\ SoldSince(lo, from) \in SUBSET SoldSince(Counted, from)
        /\ SoldSince(hi, from) \in SUBSET There /\ SoldSince(Counted, from) \subseteq SoldSince(hi, from)
    BY <1>0 DEF SoldSince
  <2>2. RevenueSince(from) = [revenue |-> Revenue(SoldSince(Counted, from)),
                              orders |-> Cardinality(SoldSince(Counted, from))]
    BY DEF RevenueSince, SoldSince
  <2>3. RevenueSince(from).revenue = Revenue(SoldSince(Counted, from))
        /\ RevenueSince(from).orders = Cardinality(SoldSince(Counted, from))
    BY <2>2
  <2> QED  BY <2>1, <2>3, Squeezed DEF Since_Between
<1>6. CASE name = "today"
  BY <1>5, <1>6 DEF Result
<1>7. CASE name = "week"
  BY <1>5, <1>7 DEF Result
<1>8. CASE name = "month"
  BY <1>5, <1>8 DEF Result
<1>9. CASE name = "best"
  <2>1. Result(name, g) = EarnedByProduct(Counted)
    BY <1>9 DEF Result, BestSellers
  <2> QED  BY <1>0, <1>9, <2>1, Squeezed, BestAnswer DEF Best_Between
<1>10. CASE name = "byStatus"
  <2>1. Result(name, g) = OrdersByStatus
    BY <1>10 DEF Result
  <2> QED  BY <1>0, <1>10, <2>1, Squeezed, StatusAnswer DEF Status_Between
<1>11. CASE name = "allTime"
  <2>1. Result(name, g) = Cardinality(Counted)
    BY <1>11 DEF Result, AllTimeOrders
  <2> QED  BY <1>0, <1>11, <2>1, Squeezed DEF Orders_Between
<1>12. CASE name = "spent"
  <2>1. Result(name, g) = SpentByUser
    BY <1>12 DEF Result
  <2>2. Own(Counted) \in SUBSET There /\ Own(lo) \in SUBSET Own(Counted)
        /\ Own(hi) \in SUBSET There /\ Own(Counted) \subseteq Own(hi)
    BY <1>0 DEF Own
  <2>3. SumFunction(SpentByUser) = Revenue(Own(Counted))
    BY SpentAnswer DEF Own
  <2> QED  BY <1>12, <2>1, <2>2, <2>3, Squeezed DEF Spent_Between
<1> QED  BY <1>1, <1>2, <1>3, <1>4, <1>6, <1>7, <1>8, <1>9, <1>10, <1>11, <1>12

-----------------------------------------------------------------------------
(* A write keeps what an order is, but for its status; the orders that     *)
(* counted all the time can only become fewer, those that ever did more.   *)
SameSale(s) ==
  /\ sale'[s].at = sale[s].at /\ sale'[s].user = sale[s].user
  /\ sale'[s].total = sale[s].total /\ sale'[s].earned = sale[s].earned

(* What orders earned does not change with the others.                     *)
LEMMA AmountKept ==
  ASSUME NEW R \in SUBSET Sales, \A s \in R : SameSale(s)
  PROVE  Revenue(R)' = Revenue(R) /\ Earned(R)' = Earned(R)
<1>1. [s \in R |-> sale'[s].total] = [s \in R |-> sale[s].total]
      /\ [s \in R |-> sale'[s].earned] = [s \in R |-> sale[s].earned]
  BY DEF SameSale
<1>2. Revenue(R)' = SumFunction([s \in R |-> sale'[s].total])
      /\ Earned(R)' = SumFunction([s \in R |-> sale'[s].earned])
  BY DEF Revenue, Earned
<1> QED  BY <1>1, <1>2 DEF Revenue, Earned

AmountsGrow ==
  \A S \in SUBSET There :
    /\ Revenue(S) \in Nat /\ Earned(S) \in Nat /\ Cardinality(S) \in Nat
    /\ \A R \in SUBSET S :
         Revenue(R) <= Revenue(S) /\ Earned(R) <= Earned(S) /\ Cardinality(R) <= Cardinality(S)

LEMMA AllGrow == SalesStored => AmountsGrow
  BY AmountGrows, AmountNat DEF AmountsGrow

LEMMA AllGrowNext == SalesStored' => AmountsGrow'
  BY AllGrow, PTL

(* What was between stays between while the bounds only widen.             *)
LEMMA Looser ==
  ASSUME SalesStored, SalesStored', NEW B, B \subseteq There, NEW A \in SUBSET B, \A s \in B : SameSale(s),
         NEW C, C \subseteq There, \A s \in C : SameSale(s), NEW D, C \subseteq D, D \subseteq There',
         NEW x
  PROVE  /\ Between(Revenue(B), x, Revenue(C)) => Between(Revenue(A)', x, Revenue(D)')
         /\ Between(Earned(B), x, Earned(C)) => Between(Earned(A)', x, Earned(D)')
         /\ Between(Cardinality(B), x, Cardinality(C)) => Between(Cardinality(A), x, Cardinality(D))
<1>1. A \in SUBSET Sales /\ C \in SUBSET Sales /\ A \in SUBSET There /\ C \in SUBSET D
  BY DEF There
<1>2. /\ Revenue(A)' = Revenue(A) /\ Earned(A)' = Earned(A)
      /\ Revenue(C)' = Revenue(C) /\ Earned(C)' = Earned(C)
  BY <1>1, AmountKept
<1>3. /\ Revenue(A) \in Nat /\ Revenue(B) \in Nat /\ Revenue(C) \in Nat
      /\ Earned(A) \in Nat /\ Earned(B) \in Nat /\ Earned(C) \in Nat
      /\ Cardinality(A) \in Nat /\ Cardinality(B) \in Nat /\ Cardinality(C) \in Nat
  BY <1>1, AmountNat
<1>4. Revenue(A) <= Revenue(B) /\ Earned(A) <= Earned(B) /\ Cardinality(A) <= Cardinality(B)
  BY AmountGrows
<1>5. /\ Revenue(D)' \in Nat /\ Earned(D)' \in Nat /\ Cardinality(D) \in Nat
      /\ Revenue(C)' <= Revenue(D)' /\ Earned(C)' <= Earned(D)' /\ Cardinality(C) <= Cardinality(D)
  <2>1. D \in SUBSET There' /\ AmountsGrow'
    BY AllGrowNext
  <2> QED  BY <1>1, <2>1 DEF AmountsGrow
<1>6. Between(Revenue(B), x, Revenue(C)) => Between(Revenue(A)', x, Revenue(D)')
  BY <1>2, <1>3, <1>4, <1>5 DEF Between
<1>7. Between(Earned(B), x, Earned(C)) => Between(Earned(A)', x, Earned(D)')
  BY <1>2, <1>3, <1>4, <1>5 DEF Between
<1>8. Between(Cardinality(B), x, Cardinality(C)) => Between(Cardinality(A), x, Cardinality(D))
  BY <1>3, <1>4, <1>5 DEF Between
<1> QED  BY <1>6, <1>7, <1>8

(* So do the results of a report.                                          *)
LEMMA BoundedKept ==
  ASSUME SalesStored, SalesStored', NEW g, NEW lo, NEW low \in SUBSET lo, NEW hi, NEW high,
         lo \subseteq hi, hi \subseteq There, hi \subseteq high, high \subseteq There',
         \A s \in hi : SameSale(s), signup' = signup,
         NEW results, Bounded(results, g, lo, hi)
  PROVE  Bounded(results, g, low, high)'
<1>1. (\A s \in lo : SameSale(s)) /\ lo \subseteq There
  OBVIOUS
<1>2. ASSUME NEW from, NEW to
      PROVE  /\ Within(low, from, to)' = Within(low, from, to)
             /\ Within(low, from, to) \in SUBSET Within(lo, from, to)
             /\ Within(lo, from, to) \subseteq There /\ Within(hi, from, to) \subseteq There
             /\ \A s \in Within(lo, from, to) : SameSale(s)
             /\ \A s \in Within(hi, from, to) : SameSale(s)
             /\ Within(hi, from, to) \subseteq Within(high, from, to)'
             /\ Within(high, from, to)' \subseteq There'
  BY <1>1 DEF Within, SameSale
<1>3. ASSUME NEW from, NEW to
      PROVE  /\ Before(low, from, to)' = Before(low, from, to)
             /\ Before(low, from, to) \in SUBSET Before(lo, from, to)
             /\ Before(lo, from, to) \subseteq There /\ Before(hi, from, to) \subseteq There
             /\ \A s \in Before(lo, from, to) : SameSale(s)
             /\ \A s \in Before(hi, from, to) : SameSale(s)
             /\ Before(hi, from, to) \subseteq Before(high, from, to)'
             /\ Before(high, from, to)' \subseteq There'
  BY <1>1 DEF Before, SameSale
<1>4. ASSUME NEW from
      PROVE  /\ SoldSince(low, from)' = SoldSince(low, from)
             /\ SoldSince(low, from) \in SUBSET SoldSince(lo, from)
             /\ SoldSince(lo, from) \subseteq There /\ SoldSince(hi, from) \subseteq There
             /\ \A s \in SoldSince(lo, from) : SameSale(s)
             /\ \A s \in SoldSince(hi, from) : SameSale(s)
             /\ SoldSince(hi, from) \subseteq SoldSince(high, from)'
             /\ SoldSince(high, from)' \subseteq There'
  BY <1>1 DEF SoldSince, SameSale
<1>5. /\ Own(low)' = Own(low) /\ Own(low) \in SUBSET Own(lo)
      /\ Own(lo) \subseteq There /\ Own(hi) \subseteq There
      /\ (\A s \in Own(lo) : SameSale(s)) /\ \A s \in Own(hi) : SameSale(s)
      /\ Own(hi) \subseteq Own(high)' /\ Own(high)' \subseteq There'
  BY <1>1 DEF Own, SameSale
<1>6. "sales" \in DOMAIN results => Sales_Between(results.sales, g, low, high)'
  <2>1. "sales" \in DOMAIN results => Sales_Between(results.sales, g, lo, hi)
    BY DEF Bounded
  <2> QED  BY <1>2, <2>1, Looser DEF Sales_Between, SeriesTotal, BucketKeys, Bucket
<1>7. "previous" \in DOMAIN results => Previous_Between(results.previous, g, low, high)'
  <2>1. "previous" \in DOMAIN results => Previous_Between(results.previous, g, lo, hi)
    BY DEF Bounded
  <2> QED  BY <1>3, <2>1, Looser DEF Previous_Between
<1>8. "top" \in DOMAIN results => Top_Between(results.top, g, low, high)'
  <2>1. "top" \in DOMAIN results => Top_Between(results.top, g, lo, hi)
    BY DEF Bounded
  <2> QED  BY <1>2, <2>1, Looser DEF Top_Between
<1>9. "today" \in DOMAIN results => Since_Between(results.today, g.to - DayLength, low, high)'
  <2>1. "today" \in DOMAIN results => Since_Between(results.today, g.to - DayLength, lo, hi)
    BY DEF Bounded
  <2> QED  BY <1>4, <2>1, Looser DEF Since_Between
<1>10. "week" \in DOMAIN results => Since_Between(results.week, g.to - 7 * DayLength, low, high)'
  <2>1. "week" \in DOMAIN results => Since_Between(results.week, g.to - 7 * DayLength, lo, hi)
    BY DEF Bounded
  <2> QED  BY <1>4, <2>1, Looser DEF Since_Between
<1>11. "month" \in DOMAIN results => Since_Between(results.month, g.to - 30 * DayLength, low, high)'
  <2>1. "month" \in DOMAIN results => Since_Between(results.month, g.to - 30 * DayLength, lo, hi)
    BY DEF Bounded
  <2> QED  BY <1>4, <2>1, Looser DEF Since_Between
<1>12. "best" \in DOMAIN results => Best_Between(results.best, low, high)'
  <2>1. "best" \in DOMAIN results => Best_Between(results.best, lo, hi)
    BY DEF Bounded
  <2> QED  BY <1>1, <2>1, Looser DEF Best_Between
<1>13. "byStatus" \in DOMAIN results => Status_Between(results.byStatus, low, high)'
  <2>1. "byStatus" \in DOMAIN results => Status_Between(results.byStatus, lo, hi)
    BY DEF Bounded
  <2> QED  BY <1>1, <2>1, Looser DEF Status_Between, Uncancelled
<1>14. "allTime" \in DOMAIN results => Orders_Between(results.allTime, low, high)'
  <2>1. "allTime" \in DOMAIN results => Orders_Between(results.allTime, lo, hi)
    BY DEF Bounded
  <2> QED  BY <1>1, <2>1, Looser DEF Orders_Between
<1>15. "spent" \in DOMAIN results => Spent_Between(results.spent, low, high)'
  <2>1. "spent" \in DOMAIN results => Spent_Between(results.spent, lo, hi)
    BY DEF Bounded
  <2> QED  BY <1>5, <2>1, Looser DEF Spent_Between
<1>16. "signups" \in DOMAIN results => Signups_Exact(results.signups, g)'
  <2>1. "signups" \in DOMAIN results => Signups_Exact(results.signups, g)
    BY DEF Bounded
  <2> QED  BY <2>1 DEF Signups_Exact, SeriesTotal, BucketKeys, Bucket
<1> QED  BY <1>6, <1>7, <1>8, <1>9, <1>10, <1>11, <1>12, <1>13, <1>14, <1>15, <1>16 DEF Bounded

-----------------------------------------------------------------------------
(* The invariant: every result of a report under way lies between.         *)
ReportsSpec ==
  HandlersInit /\ ReportsInit /\ [][ReportsNext]_<<handlerVars, reportVars>>

(* The invariant holds at first, and each action keeps it.                 *)
LEMMA InitReports == HandlersInit /\ ReportsInit => ReportsInv
  BY DEF HandlersInit, ReportsInit, ReportsInv, SalesStored

LEMMA AskStep ==
  ASSUME ReportsInv, NEW r \in Slots, NEW report \in DOMAIN ReportQueries, NEW g \in Ranges,
         AskReport(r, report, g)
  PROVE  ReportsInv'
<1> DEFINE h == [pc |-> report, range |-> g, results |-> <<>>, standing |-> Counted, ever |-> Counted]
<1>1. sale' = sale /\ signup' = signup /\ req' = [req EXCEPT ![r] = h]
  BY DEF AskReport, Begin, reportVars
<1>2. SalesStored' /\ Counted' = Counted /\ There' = There
  BY <1>1 DEF ReportsInv, SalesStored, Counted, There
<1>3. Reporting(h)
  <2>1. DOMAIN h = {"pc", "range", "results", "standing", "ever"} /\ h.pc = report /\ h.range = g
        /\ DOMAIN h.results = {} /\ h.standing = Counted /\ h.ever = Counted
    OBVIOUS
  <2> HIDE DEF h
  <2>2. Bounded(h.results, h.range, h.standing, h.ever)
    BY <2>1 DEF Bounded
  <2> QED  BY <2>1, <2>2 DEF Reporting, Counted
<1> HIDE DEF h
<1>4. \A q : Reporting(q)' <=> Reporting(q)
  <2>1. \A results, gg, lo, hi : Bounded(results, gg, lo, hi)' <=> Bounded(results, gg, lo, hi)
    BY <1>1 DEF Bounded, Sales_Between, Signups_Exact, Previous_Between, Top_Between, Best_Between,
                Since_Between, Status_Between, Orders_Between, Spent_Between, SeriesTotal, BucketKeys,
                Bucket, Uncancelled, Revenue, Earned, Within, Before, SoldSince, Own
  <2> QED  BY <1>2, <2>1 DEF Reporting
<1> QED  BY <1>1, <1>2, <1>3, <1>4 DEF ReportsInv

LEMMA AnswerStep ==
  ASSUME ReportsInv, NEW r \in Slots, NEW name, AnswerQuery(r, name)
  PROVE  ReportsInv'
<1> DEFINE old == req[r]
           new == [old EXCEPT !.results =
                    [n \in DOMAIN @ \cup {name} |-> IF n = name THEN Result(name, old.range) ELSE @[n]]]
<1>1. /\ sale' = sale /\ signup' = signup /\ old.pc \in DOMAIN ReportQueries
      /\ name \notin DOMAIN old.results /\ req' = [req EXCEPT ![r] = new]
  BY DEF AnswerQuery, reportVars, At, ReportsInv
<1>2. SalesStored' /\ Counted' = Counted /\ There' = There
  BY <1>1 DEF ReportsInv, SalesStored, Counted, There
<1>3. Reporting(old)
  BY <1>1 DEF ReportsInv, Idle
<1>4. Reporting(new)
  <2>1. /\ DOMAIN new = {"pc", "range", "results", "standing", "ever"} /\ new.pc = old.pc
        /\ new.range = old.range /\ new.standing = old.standing /\ new.ever = old.ever
        /\ new.results = [n \in DOMAIN old.results \cup {name} |->
                            IF n = name THEN Result(name, old.range) ELSE old.results[n]]
    BY <1>3 DEF Reporting
  <2>2. /\ DOMAIN new.results = DOMAIN old.results \cup {name}
        /\ new.results[name] = Result(name, old.range)
        /\ \A n \in DOMAIN old.results : new.results[n] = old.results[n]
    BY <1>1, <2>1
  <2> HIDE DEF new, old
  <2>3. Bounded(new.results, old.range, old.standing, old.ever)
    <3>1. old.range \in Ranges /\ old.standing \in SUBSET Counted /\ old.ever \in SUBSET There
          /\ Counted \subseteq old.ever /\ SalesStored
      BY <1>3 DEF Reporting, ReportsInv
    <3>2. Bounded(old.results, old.range, old.standing, old.ever)
      BY <1>3 DEF Reporting
    <3> DEFINE answer == Result(name, old.range)
    <3>3. BoundedAs(name, answer, old.range, old.standing, old.ever)
      BY <3>1, AnswerBetween
    <3> HIDE DEF answer
    <3>4. \A n \in DOMAIN old.results :
            BoundedAs(n, old.results[n], old.range, old.standing, old.ever)
      BY <3>2, BoundedByName
    <3>5. \A n \in DOMAIN new.results :
            BoundedAs(n, new.results[n], old.range, old.standing, old.ever)
      BY <2>2, <3>3, <3>4 DEF answer
    <3> QED  BY <3>5, BoundedByName
  <2> QED  BY <1>3, <2>1, <2>3 DEF Reporting
<1> HIDE DEF new, old
<1>5. \A q : Reporting(q)' <=> Reporting(q)
  <2>1. \A results, gg, lo, hi : Bounded(results, gg, lo, hi)' <=> Bounded(results, gg, lo, hi)
    BY <1>1 DEF Bounded, Sales_Between, Signups_Exact, Previous_Between, Top_Between, Best_Between,
                Since_Between, Status_Between, Orders_Between, Spent_Between, SeriesTotal, BucketKeys,
                Bucket, Uncancelled, Revenue, Earned, Within, Before, SoldSince, Own
  <2> QED  BY <1>2, <2>1 DEF Reporting
<1> QED  BY <1>1, <1>2, <1>4, <1>5 DEF ReportsInv

LEMMA WriteStep ==
  ASSUME ReportsInv, NEW s \in Sales, NEW d \in SaleDocs, WriteSale(s, d)
  PROVE  ReportsInv'
<1>1. /\ sale' = [sale EXCEPT ![s] = d] /\ signup' = signup
      /\ sale[s] # Nothing => [sale[s] EXCEPT !.status = d.status] = d
      /\ req' = [r \in Slots |->
           IF req[r] = Idle THEN Idle
           ELSE IF d.status = "cancelled" THEN [req[r] EXCEPT !.standing = @ \ {s}]
           ELSE [req[r] EXCEPT !.ever = @ \cup {s}]]
  BY DEF WriteSale
<1>2. SalesStored /\ SalesStored' /\ d # Nothing /\ SaleDoc(d)
  BY <1>1, ReportConstants DEF ReportsInv, SalesStored
<1>3. sale'[s] = d /\ \A t \in Sales : t # s => sale'[t] = sale[t]
  BY <1>1, <1>2 DEF SalesStored
<1>4. There' = There \cup {s}
      /\ Counted' = (IF d.status = "cancelled" THEN Counted \ {s} ELSE Counted \cup {s})
  BY <1>2, <1>3 DEF There, Counted
<1>5. ASSUME NEW t \in There PROVE SameSale(t)
  <2>1. CASE t = s
    <3>1. sale[s] # Nothing /\ SaleDoc(sale[s])
      BY <1>2, <1>5, <2>1, ThereTyped DEF There
    <3>2. d = [sale[s] EXCEPT !.status = d.status]
      BY <1>1, <3>1
    <3>3. d.at = sale[s].at /\ d.user = sale[s].user /\ d.total = sale[s].total /\ d.earned = sale[s].earned
      BY <3>1, <3>2 DEF SaleDoc
    <3> QED  BY <1>3, <2>1, <3>3 DEF SameSale
  <2>2. CASE t # s
    BY <1>3, <2>2 DEF SameSale, There
  <2> QED  BY <2>1, <2>2
<1>6. ASSUME NEW r \in Slots, req[r] # Idle PROVE Reporting(req[r])'
  <2>0. PICK h, k : h = req[r] /\ k = req'[r]
    OBVIOUS
  <2>1. Reporting(h) /\ Counted \subseteq There
    BY <1>6, <2>0 DEF ReportsInv, Counted
  <2>2. k = IF d.status = "cancelled" THEN [h EXCEPT !.standing = @ \ {s}]
            ELSE [h EXCEPT !.ever = @ \cup {s}]
    BY <1>1, <1>6, <2>0
  <2>3. /\ DOMAIN k = {"pc", "range", "results", "standing", "ever"}
        /\ k.pc = h.pc /\ k.range = h.range /\ k.results = h.results
        /\ k.standing = (IF d.status = "cancelled" THEN h.standing \ {s} ELSE h.standing)
        /\ k.ever = (IF d.status = "cancelled" THEN h.ever ELSE h.ever \cup {s})
    BY <2>1, <2>2 DEF Reporting
  <2>4. /\ k.standing \in SUBSET h.standing /\ h.ever \subseteq k.ever
        /\ k.standing \subseteq Counted' /\ Counted' \subseteq k.ever /\ k.ever \subseteq There'
        /\ h.standing \subseteq h.ever /\ h.ever \subseteq There
    BY <1>4, <2>1, <2>3 DEF Reporting
  <2>5. Bounded(h.results, h.range, h.standing, h.ever)
    BY <2>1 DEF Reporting
  <2>6. Bounded(h.results, h.range, k.standing, k.ever)'
    BY <1>1, <1>2, <1>5, <2>4, <2>5, BoundedKept
  <2>7. k.pc \in DOMAIN ReportQueries /\ k.range \in Ranges
    BY <2>1, <2>3 DEF Reporting
  <2>8. Reporting(k)'
    BY <2>3, <2>4, <2>6, <2>7 DEF Reporting
  <2> QED  BY <2>0, <2>8
<1>7. DOMAIN req' = Slots /\ \A r \in Slots : req[r] = Idle => req'[r] = Idle
  BY <1>1
<1> QED  BY <1>2, <1>6, <1>7 DEF ReportsInv, Idle
LEMMA NextReports == ReportsInv /\ [ReportsNext]_<<handlerVars, reportVars>> => ReportsInv'
<1> SUFFICES ASSUME ReportsInv, [ReportsNext]_<<handlerVars, reportVars>> PROVE ReportsInv'
  OBVIOUS
<1>1. CASE UNCHANGED <<handlerVars, reportVars>>
  <2>1. sale' = sale /\ signup' = signup /\ req' = req
    BY <1>1 DEF handlerVars, reportVars
  <2>2. SalesStored' /\ Counted' = Counted /\ There' = There
    BY <2>1 DEF ReportsInv, SalesStored, Counted, There
  <2>3. \A q : Reporting(q)' <=> Reporting(q)
    <3>1. \A results, gg, lo, hi : Bounded(results, gg, lo, hi)' <=> Bounded(results, gg, lo, hi)
      BY <2>1 DEF Bounded, Sales_Between, Signups_Exact, Previous_Between, Top_Between, Best_Between,
                  Since_Between, Status_Between, Orders_Between, Spent_Between, SeriesTotal, BucketKeys,
                  Bucket, Uncancelled, Revenue, Earned, Within, Before, SoldSince, Own
    <3> QED  BY <2>2, <3>1 DEF Reporting
  <2> QED  BY <2>1, <2>2, <2>3 DEF ReportsInv
<1>2. CASE ReportsNext
  BY <1>2, AskStep, AnswerStep, WriteStep DEF ReportsNext
<1> QED  BY <1>1, <1>2

(* The orders and the sign-ups keep their types, and a report holds orders *)
(* that are there.                                                         *)
THEOREM ReportsTyped == ReportsSpec => []ReportsTypeOK
<1>1. ReportsInv => ReportsTypeOK
  BY DEF ReportsInv, SalesStored, Reporting, ReportsTypeOK, At, Idle
<1> QED  BY <1>1, InitReports, NextReports, PTL DEF ReportsSpec

-----------------------------------------------------------------------------
(* The results of a report that has been answered, as the properties see   *)
(* them.                                                                   *)
LEMMA ReportedBounds ==
  ASSUME ReportsInv, NEW report \in DOMAIN ReportQueries, NEW r \in Reported(report)
  PROVE  /\ Reporting(req[r]) /\ DOMAIN req[r].results = ReportQueries[report]
         /\ req[r].range \in Ranges
         /\ req[r].standing \subseteq req[r].ever
         /\ req[r].standing \in SUBSET There /\ req[r].ever \in SUBSET There
  BY DEF ReportsInv, Reported, Reporting, At, Idle

(* From the invariant to the property, part by part.                       *)
LEMMA OncePerPeriod ==
  ASSUME ReportsInv
  PROVE  CountedOnce /\ SignupsCounted
<1> SUFFICES ASSUME NEW r \in Reported("summary")
             PROVE  /\ LET g == req[r].range
                           both(S) == Revenue(Within(S, g.from - (g.to - g.from), g.to))
                           reported == SeriesTotal(req[r].results.sales, g) + req[r].results.previous
                       IN both(req[r].standing) <= reported /\ reported <= both(req[r].ever)
                    /\ SeriesTotal(req[r].results.signups, req[r].range) =
                         Cardinality({u \in Buyers : signup[u] # Nothing /\ signup[u] >= req[r].range.from
                                                     /\ signup[u] <= req[r].range.to})
  BY DEF CountedOnce, SignupsCounted
<1>1. PICK h : h = req[r]
  OBVIOUS
<1>2. /\ SalesStored /\ h.range \in Ranges /\ h.standing \in SUBSET There /\ h.ever \in SUBSET There
      /\ Bounded(h.results, h.range, h.standing, h.ever)
      /\ {"sales", "signups", "previous"} \subseteq DOMAIN h.results
  <2>1. "summary" \in DOMAIN ReportQueries /\ ReportQueries["summary"] = {"sales", "signups", "previous", "statuses", "top"}
    OBVIOUS
  <2> QED  BY <1>1, <2>1, ReportedBounds DEF ReportsInv, Reporting
<1>3. PICK g : g = h.range
  OBVIOUS
<1> DEFINE before == g.from - (g.to - g.from)
           both(S) == Revenue(Within(S, before, g.to))
           this(S) == Revenue(Within(S, g.from, g.to))
           last(S) == Revenue(Before(S, before, g.from))
<1>4. ASSUME NEW S \in SUBSET There
      PROVE  both(S) = this(S) + last(S) /\ this(S) \in Nat /\ last(S) \in Nat
  <2>1. g.from \in Int /\ g.to \in Int /\ g.from < g.to /\ before \in Int /\ before < g.from
    BY <1>2, <1>3, ReportConstants DEF SummaryQuery
  <2>2. \A s \in S : sale[s].at \in Int
    BY <1>2, ThereTyped
  <2>3. /\ Within(S, before, g.to) = Within(S, g.from, g.to) \cup Before(S, before, g.from)
        /\ Within(S, g.from, g.to) \cap Before(S, before, g.from) = {}
        /\ Within(S, g.from, g.to) \in SUBSET There /\ Before(S, before, g.from) \in SUBSET There
    <3> HIDE DEF before
    <3> QED  BY <2>1, <2>2 DEF Within, Before
  <2> QED  BY <1>2, <2>3, RevenueUnion, AmountNat
<1>5. /\ Between(this(h.standing), SeriesTotal(h.results.sales, g), this(h.ever))
      /\ Between(last(h.standing), h.results.previous, last(h.ever))
      /\ Signups_Exact(h.results.signups, g)
  BY <1>2, <1>3 DEF Bounded, Sales_Between, Previous_Between
<1> HIDE DEF both, this, last
<1>6. /\ both(h.standing) <= SeriesTotal(h.results.sales, g) + h.results.previous
      /\ SeriesTotal(h.results.sales, g) + h.results.previous <= both(h.ever)
  <2>1. /\ both(h.standing) = this(h.standing) + last(h.standing)
        /\ both(h.ever) = this(h.ever) + last(h.ever)
        /\ this(h.standing) \in Nat /\ last(h.standing) \in Nat /\ this(h.ever) \in Nat /\ last(h.ever) \in Nat
    BY <1>2, <1>4
  <2> QED  BY <1>5, <2>1 DEF Between
<1> QED  BY <1>1, <1>3, <1>5, <1>6 DEF both, Signups_Exact

LEMMA FiguresOfOneReport ==
  ASSUME ReportsInv
  PROVE  FiguresAgree
<1>0. SalesStored
  BY DEF ReportsInv
<1>1. ASSUME NEW r \in Reported("stats"), req[r].standing = req[r].ever
      PROVE  req[r].results.allTime = Uncancelled(req[r].results.byStatus)
  <2>1. PICK h : h = req[r]
    OBVIOUS
  <2>2. /\ h.standing = h.ever /\ h.ever \in SUBSET There
        /\ Bounded(h.results, h.range, h.standing, h.ever)
        /\ {"byStatus", "allTime"} \subseteq DOMAIN h.results
    <3>1. "stats" \in DOMAIN ReportQueries /\ ReportQueries["stats"] = {"byStatus", "allTime"}
      OBVIOUS
    <3> QED  BY <1>1, <2>1, <3>1, ReportedBounds DEF Reporting
  <2>3. Cardinality(h.ever) \in Nat
    BY <1>0, <2>2, AmountNat
  <2> QED  BY <2>1, <2>2, <2>3 DEF Bounded, Status_Between, Orders_Between, Between
<1>2. ASSUME NEW r \in Reported("dashboard"), req[r].standing = req[r].ever
      PROVE  LET shown == req[r].results
             IN /\ shown.today.revenue <= shown.week.revenue /\ shown.week.revenue <= shown.month.revenue
                /\ shown.month.orders <= Uncancelled(shown.byStatus)
  <2>1. PICK h : h = req[r]
    OBVIOUS
  <2>2. /\ h.standing = h.ever /\ h.ever \in SUBSET There /\ h.range \in Ranges
        /\ Bounded(h.results, h.range, h.standing, h.ever)
        /\ {"today", "week", "month", "byStatus"} \subseteq DOMAIN h.results
    <3>1. "dashboard" \in DOMAIN ReportQueries
          /\ ReportQueries["dashboard"] = {"today", "week", "month", "byStatus", "best"}
      OBVIOUS
    <3> QED  BY <1>2, <2>1, <3>1, ReportedBounds DEF Reporting
  <2>3. PICK g : g = h.range
    OBVIOUS
  <2>4. g.to \in Int /\ DayLength \in Nat
    BY <2>2, <2>3, ReportConstants DEF SummaryQuery
  <2>5. PICK day \in Int, week \in Int, month \in Int :
          /\ day = g.to - DayLength /\ week = g.to - 7 * DayLength /\ month = g.to - 30 * DayLength
          /\ month <= week /\ week <= day
    BY <2>4
  <2>6. /\ Since_Between(h.results.today, day, h.ever, h.ever)
        /\ Since_Between(h.results.week, week, h.ever, h.ever)
        /\ Since_Between(h.results.month, month, h.ever, h.ever)
        /\ Status_Between(h.results.byStatus, h.ever, h.ever)
    BY <2>2, <2>3, <2>5 DEF Bounded
  <2>7. /\ SoldSince(h.ever, day) \in SUBSET SoldSince(h.ever, week)
        /\ SoldSince(h.ever, week) \in SUBSET SoldSince(h.ever, month)
        /\ SoldSince(h.ever, month) \in SUBSET h.ever /\ SoldSince(h.ever, week) \in SUBSET There
        /\ SoldSince(h.ever, month) \in SUBSET There /\ SoldSince(h.ever, day) \in SUBSET There
    <3>1. \A s \in h.ever : sale[s].at \in Int
      BY <1>0, <2>2, ThereTyped
    <3> QED  BY <2>2, <2>5, <3>1 DEF SoldSince
  <2>8. /\ Revenue(SoldSince(h.ever, day)) <= Revenue(SoldSince(h.ever, week))
        /\ Revenue(SoldSince(h.ever, week)) <= Revenue(SoldSince(h.ever, month))
        /\ Cardinality(SoldSince(h.ever, month)) <= Cardinality(h.ever)
        /\ Revenue(SoldSince(h.ever, day)) \in Nat /\ Revenue(SoldSince(h.ever, week)) \in Nat
        /\ Revenue(SoldSince(h.ever, month)) \in Nat
        /\ Cardinality(SoldSince(h.ever, month)) \in Nat /\ Cardinality(h.ever) \in Nat
    BY <1>0, <2>2, <2>7, AmountGrows, AmountNat
  <2>9. /\ h.results.today.revenue = Revenue(SoldSince(h.ever, day))
        /\ h.results.week.revenue = Revenue(SoldSince(h.ever, week))
        /\ h.results.month.revenue = Revenue(SoldSince(h.ever, month))
        /\ h.results.month.orders = Cardinality(SoldSince(h.ever, month))
        /\ Uncancelled(h.results.byStatus) = Cardinality(h.ever)
    BY <2>6, <2>8 DEF Since_Between, Status_Between, Between
  <2> QED  BY <2>1, <2>8, <2>9
<1> QED  BY <1>1, <1>2 DEF FiguresAgree

LEMMA SumsAddUp ==
  ASSUME ReportsInv
  PROVE  EarningsAddUp /\ SpentAddsUp
<1>1. ASSUME NEW r \in Reported("summary")
      PROVE  LET earned(S) == Earned(Within(S, req[r].range.from, req[r].range.to))
             IN /\ earned(req[r].standing) <= SumFunction(req[r].results.top)
                /\ SumFunction(req[r].results.top) <= earned(req[r].ever)
  <2>1. "summary" \in DOMAIN ReportQueries /\ "top" \in ReportQueries["summary"]
    OBVIOUS
  <2> QED  BY <2>1, ReportedBounds DEF Reporting, Bounded, Top_Between, Between
<1>2. ASSUME NEW r \in Reported("dashboard")
      PROVE  /\ Earned(req[r].standing) <= SumFunction(req[r].results.best)
             /\ SumFunction(req[r].results.best) <= Earned(req[r].ever)
  <2>1. "dashboard" \in DOMAIN ReportQueries /\ "best" \in ReportQueries["dashboard"]
    OBVIOUS
  <2> QED  BY <2>1, ReportedBounds DEF Reporting, Bounded, Best_Between, Between
<1>3. ASSUME NEW r \in Reported("customers")
      PROVE  LET own(S) == Revenue({s \in S : sale[s].user \in Buyers})
             IN /\ own(req[r].standing) <= SumFunction(req[r].results.spent)
                /\ SumFunction(req[r].results.spent) <= own(req[r].ever)
  <2>1. "customers" \in DOMAIN ReportQueries /\ "spent" \in ReportQueries["customers"]
    OBVIOUS
  <2>2. PICK h : h = req[r]
    OBVIOUS
  <2>3. Spent_Between(h.results.spent, h.standing, h.ever)
    <3>1. Bounded(h.results, h.range, h.standing, h.ever) /\ "spent" \in DOMAIN h.results
      BY <2>1, <2>2, ReportedBounds DEF Reporting
    <3> QED  BY <3>1 DEF Bounded
  <2>4. \A S : {s \in S : sale[s].user \in Buyers} = Own(S)
    BY DEF Own
  <2>5. /\ Revenue(Own(h.standing)) <= SumFunction(h.results.spent)
        /\ SumFunction(h.results.spent) <= Revenue(Own(h.ever))
    BY <2>3 DEF Spent_Between, Between
  <2> QED  BY <2>2, <2>4, <2>5
<1> QED  BY <1>1, <1>2, <1>3 DEF EarningsAddUp, SpentAddsUp

(* Whatever arrives or is cancelled between the queries of a report, each  *)
(* of its figures lies between the orders that counted all the time and    *)
(* those that ever did: every order of a period is in one bucket, in one   *)
(* of the two periods and with one product and one customer; and without   *)
(* such a change the figures of a report agree with each other.            *)
THEOREM FiguresAreSound == ReportsSpec => []FiguresSound
<1>1. ReportsInv => FiguresSound
  BY OncePerPeriod, FiguresOfOneReport, SumsAddUp DEF FiguresSound
<1> QED  BY <1>1, InitReports, NextReports, PTL DEF ReportsSpec

-----------------------------------------------------------------------------
(* The paged lists.                                                        *)

(* What the query of a list of the table is like.                          *)
SoundQuery(t, q) ==
  /\ \E k \in Nat : DOMAIN q.sort = 1 .. k
  /\ \A n \in DOMAIN q.sort : q.sort[n][1] \in Sortable[t] /\ q.sort[n][2] \in {1, 0 - 1}
  /\ t \in SoftDeleted => <<"deleted", FALSE>> \in q.equals
  /\ q.owner # Nothing => <<"userId", q.owner>> \in q.equals

LEMMA SortsSound ==
  /\ \A t \in Tables : "at" \in Sortable[t]
  /\ \A order : Direction(order) \in {1, 0 - 1}
  /\ \A sort : \E k \in Nat :
       /\ DOMAIN SortSpec(sort) = 1 .. k
       /\ \A n \in 1 .. k : /\ SortSpec(sort)[n][1] \in Sortable["products"]
                            /\ SortSpec(sort)[n][2] \in {1, 0 - 1}
<1>1. \A t \in Tables : "at" \in Sortable[t]
  BY DEF Tables, TableOf, Sortable
<1>2. \A order : Direction(order) \in {1, 0 - 1}
  BY DEF Direction
<1>3. ASSUME NEW sort
      PROVE  \E k \in Nat :
               /\ DOMAIN SortSpec(sort) = 1 .. k
               /\ \A n \in 1 .. k : /\ SortSpec(sort)[n][1] \in Sortable["products"]
                                    /\ SortSpec(sort)[n][2] \in {1, 0 - 1}
  <2>0. Sortable["products"] = {"price", "rating", "reviewCount", "isFeatured", "at"}
    BY DEF Sortable
  <2>1. ASSUME NEW f \in Sortable["products"], NEW d \in {1, 0 - 1}, SortSpec(sort) = << <<f, d>> >>
        PROVE  \E k \in Nat :
               /\ DOMAIN SortSpec(sort) = 1 .. k
               /\ \A n \in 1 .. k : /\ SortSpec(sort)[n][1] \in Sortable["products"]
                                    /\ SortSpec(sort)[n][2] \in {1, 0 - 1}
    <3>1. DOMAIN << <<f, d>> >> = 1 .. 1 /\ << <<f, d>> >>[1][1] = f /\ << <<f, d>> >>[1][2] = d
      OBVIOUS
    <3> QED  BY <2>1, <3>1
  <2>2. ASSUME NEW f \in Sortable["products"], NEW g \in Sortable["products"],
               SortSpec(sort) = << <<f, 0 - 1>>, <<g, 0 - 1>> >>
        PROVE  \E k \in Nat :
               /\ DOMAIN SortSpec(sort) = 1 .. k
               /\ \A n \in 1 .. k : /\ SortSpec(sort)[n][1] \in Sortable["products"]
                                    /\ SortSpec(sort)[n][2] \in {1, 0 - 1}
    <3> DEFINE s == << <<f, 0 - 1>>, <<g, 0 - 1>> >>
    <3>1. /\ DOMAIN s = 1 .. 2 /\ s[1][1] = f /\ s[1][2] = 0 - 1 /\ s[2][1] = g /\ s[2][2] = 0 - 1
      OBVIOUS
    <3> HIDE DEF s
    <3>2. \A n \in 1 .. 2 : s[n][1] \in Sortable["products"] /\ s[n][2] \in {1, 0 - 1}
      BY <3>1
    <3> QED  BY <2>2, <3>1, <3>2 DEF s
  <2> QED  BY <2>0, <2>1, <2>2 DEF SortSpec, NewestFirst
<1> QED  BY <1>1, <1>2, <1>3

LEMMA QueriesSound ==
  ASSUME NEW a \in Asks
  PROVE  TableOf[a.list] \in Tables /\ SoundQuery(TableOf[a.list], QueryOf(a))
<1>0. ListAsk(a) /\ a.list \in DOMAIN TableOf
  BY ListingConstants DEF ListAsk
<1>1. TableOf[a.list] \in Tables
  BY <1>0 DEF Tables
<1> DEFINE t == TableOf[a.list]
           q == QueryOf(a)
<1>2. ASSUME NEW f \in Sortable[t], NEW d \in {1, 0 - 1}, q.sort = << <<f, d>> >>
      PROVE  /\ \E k \in Nat : DOMAIN q.sort = 1 .. k
             /\ \A n \in DOMAIN q.sort : q.sort[n][1] \in Sortable[t] /\ q.sort[n][2] \in {1, 0 - 1}
  <2>1. DOMAIN << <<f, d>> >> = 1 .. 1 /\ << <<f, d>> >>[1][1] = f /\ << <<f, d>> >>[1][2] = d
    OBVIOUS
  <2> QED  BY <1>2, <2>1
<1>3. ASSUME q.sort = NewestFirst
      PROVE  /\ \E k \in Nat : DOMAIN q.sort = 1 .. k
             /\ \A n \in DOMAIN q.sort : q.sort[n][1] \in Sortable[t] /\ q.sort[n][2] \in {1, 0 - 1}
  <2>1. "at" \in Sortable[t]
    BY <1>1, SortsSound
  <2> HIDE DEF q, t
  <2> QED  BY <1>2, <1>3, <2>1 DEF NewestFirst
<1>4. ASSUME a.list = "productList" PROVE SoundQuery(t, q)
  <2>1. q = ProductList(a) /\ t = "products"
    BY <1>4 DEF QueryOf, TableOf
  <2>2. q.sort = SortSpec(a.sort) /\ q.owner = Nothing /\ Present \subseteq q.equals
    BY <2>1 DEF ProductList, Everything
  <2> HIDE DEF q, t
  <2> QED  BY <2>1, <2>2, SortsSound DEF SoundQuery, Present
<1>5. ASSUME a.list = "productSearch" PROVE SoundQuery(t, q)
  <2>1. q = ProductSearch(a.text) /\ t = "products"
    BY <1>5 DEF QueryOf, TableOf
  <2>2. q.sort = << <<"rating", 0 - 1>> >> /\ q.owner = Nothing /\ Present \subseteq q.equals
    BY <2>1 DEF ProductSearch, Everything
  <2>3. "rating" \in Sortable[t]
    BY <2>1 DEF Sortable
  <2> HIDE DEF q, t
  <2> QED  BY <1>2, <2>2, <2>3 DEF SoundQuery, Present
<1>6. ASSUME a.list = "orderHistory" PROVE SoundQuery(t, q)
  <2>1. q = OrderHistory(a.user, a.status) /\ t = "orders"
    BY <1>6 DEF QueryOf, TableOf
  <2>2. q.sort = NewestFirst /\ q.owner = a.user /\ Present \subseteq q.equals
        /\ Where("userId", a.user) \subseteq q.equals
    BY <2>1 DEF OrderHistory, Everything
  <2> HIDE DEF q, t
  <2> QED  BY <1>3, <2>2 DEF SoundQuery, Present, Where
<1>7. ASSUME a.list = "orderList" PROVE SoundQuery(t, q)
  <2>1. q = OrderList(a) /\ t = "orders" /\ a.sortBy \in Sortable[t]
    BY <1>0, <1>7 DEF QueryOf, TableOf, ListAsk
  <2>2. q.sort = << <<a.sortBy, Direction(a.sortOrder)>> >> /\ q.owner = Nothing /\ Present \subseteq q.equals
    BY <2>1 DEF OrderList, Everything
  <2> HIDE DEF q, t
  <2> QED  BY <1>2, <2>1, <2>2, SortsSound DEF SoundQuery, Present
<1>8. ASSUME a.list = "customerList" PROVE SoundQuery(t, q)
  <2>1. q = CustomerList(a) /\ t = "users" /\ a.sortBy \in Sortable[t]
    BY <1>0, <1>8 DEF QueryOf, TableOf, ListAsk
  <2>2. q.sort = << <<a.sortBy, Direction(a.sortOrder)>> >> /\ q.owner = Nothing
    BY <2>1 DEF CustomerList, Everything
  <2>3. t \notin SoftDeleted
    BY <2>1 DEF SoftDeleted
  <2> HIDE DEF q, t
  <2> QED  BY <1>2, <2>1, <2>2, <2>3, SortsSound DEF SoundQuery
<1>9. ASSUME a.list = "reviewsOf" PROVE SoundQuery(t, q)
  <2>1. q = ReviewsOf(a.product)
    BY <1>9 DEF QueryOf
  <2>2. q.sort = NewestFirst /\ q.owner = Nothing /\ Present \subseteq q.equals
    BY <2>1 DEF ReviewsOf, Everything
  <2> HIDE DEF q, t
  <2> QED  BY <1>3, <2>2 DEF SoundQuery, Present
<1>10. ASSUME a.list = "reviewList" PROVE SoundQuery(t, q)
  <2>1. q = ReviewList(a) /\ a.sortBy \in Sortable[t]
    BY <1>0, <1>10 DEF QueryOf, ListAsk
  <2>2. q.sort = << <<a.sortBy, Direction(a.sortOrder)>> >> /\ q.owner = Nothing /\ Present \subseteq q.equals
    BY <2>1 DEF ReviewList, Everything
  <2> HIDE DEF q, t
  <2> QED  BY <1>2, <2>1, <2>2, SortsSound DEF SoundQuery, Present
<1>11. ASSUME a.list = "couponList" PROVE SoundQuery(t, q)
  <2>1. q = CouponList(a.isActive) /\ t = "coupons"
    BY <1>11 DEF QueryOf, TableOf
  <2>2. q.sort = NewestFirst /\ q.owner = Nothing /\ t \notin SoftDeleted
    BY <2>1 DEF CouponList, Everything, SoftDeleted
  <2> HIDE DEF q, t
  <2> QED  BY <1>3, <2>2 DEF SoundQuery
<1>12. ASSUME a.list = "notificationsOf" PROVE SoundQuery(t, q)
  <2>1. q = NotificationsOf(a.user) /\ t = "notifications"
    BY <1>12 DEF QueryOf, TableOf
  <2>2. q.sort = NewestFirst /\ q.owner = a.user /\ t \notin SoftDeleted
        /\ Where("userId", a.user) \subseteq q.equals
    BY <2>1 DEF NotificationsOf, Everything, SoftDeleted
  <2> HIDE DEF q, t
  <2> QED  BY <1>3, <2>2 DEF SoundQuery, Where
<1>13. ASSUME a.list = "activityLog" PROVE SoundQuery(t, q)
  <2>1. q = ActivityLog(a) /\ t = "audits"
    BY <1>13 DEF QueryOf, TableOf
  <2>2. q.sort = NewestFirst /\ q.owner = Nothing /\ t \notin SoftDeleted
    BY <2>1 DEF ActivityLog, Everything, SoftDeleted
  <2> HIDE DEF q, t
  <2> QED  BY <1>3, <2>2 DEF SoundQuery
<1>14. ASSUME a.list = "broadcastHistory" PROVE SoundQuery(t, q)
  <2>1. q = BroadcastHistory /\ t = "audits"
    BY <1>14 DEF QueryOf, TableOf
  <2>2. q.sort = NewestFirst /\ q.owner = Nothing /\ t \notin SoftDeleted
    BY <2>1 DEF BroadcastHistory, Everything, SoftDeleted
  <2> HIDE DEF q, t
  <2> QED  BY <1>3, <2>2 DEF SoundQuery
<1>15. ASSUME a.list = "contactList" PROVE SoundQuery(t, q)
  <2>1. q = ContactList /\ t = "messages"
    BY <1>15 DEF QueryOf, TableOf
  <2>2. q.sort = NewestFirst /\ q.owner = Nothing /\ t \notin SoftDeleted
    BY <2>1 DEF ContactList, Everything, SoftDeleted
  <2> HIDE DEF q, t
  <2> QED  BY <1>3, <2>2 DEF SoundQuery
<1>16. a.list \in {"productList", "productSearch", "orderHistory", "orderList", "customerList", "reviewsOf",
                  "reviewList", "couponList", "notificationsOf", "activityLog", "broadcastHistory",
                  "contactList"}
  BY <1>0 DEF TableOf
<1>17. SoundQuery(t, q)
  <2> HIDE DEF t, q
  <2> QED  BY <1>4, <1>5, <1>6, <1>7, <1>8, <1>9, <1>10, <1>11, <1>12, <1>13, <1>14, <1>15, <1>16
<1> QED  BY <1>1, <1>17

-----------------------------------------------------------------------------
(* The rows that a query selects are strictly ordered.                     *)
RowsStored ==
  /\ table \in Tables /\ DOMAIN row = Rows
  /\ \A i \in Rows : row[i] \in Docs[table] \cup {Nothing}

Value(q, k, n) == q.sort[n][2] * row[k][q.sort[n][1]]

LEMMA BeforeIs ==
  ASSUME NEW q, NEW i, NEW j
  PROVE  SortedBefore(q, i, j) <=>
           \/ \E n \in DOMAIN q.sort :
                Value(q, i, n) < Value(q, j, n) /\ \A m \in 1 .. n - 1 : Value(q, i, m) = Value(q, j, m)
           \/ i > j /\ \A n \in DOMAIN q.sort : Value(q, i, n) = Value(q, j, n)
  BY DEF SortedBefore, Value

LEMMA ValueInt ==
  ASSUME RowsStored, NEW q, SoundQuery(table, q), NEW k \in Matching(q, row), NEW n \in DOMAIN q.sort
  PROVE  Value(q, k, n) \in Int
<1>1. row[k] \in Docs[table]
  BY DEF RowsStored, Matching
<1>2. row[k][q.sort[n][1]] \in Int /\ q.sort[n][2] \in {1, 0 - 1}
  BY <1>1, ListingConstants DEF RowsStored, SoundQuery, RowDoc
<1>3. PICK v \in Int, d \in {1, 0 - 1} : v = row[k][q.sort[n][1]] /\ d = q.sort[n][2]
  BY <1>2
<1>4. d * v \in Int
  BY <1>3
<1> QED  BY <1>3, <1>4 DEF Value

LEMMA RowsOrdered ==
  ASSUME RowsStored, NEW q, SoundQuery(table, q)
  PROVE  /\ \A i \in Matching(q, row) : ~ SortedBefore(q, i, i)
         /\ \A i, j, k \in Matching(q, row) :
              SortedBefore(q, i, j) /\ SortedBefore(q, j, k) => SortedBefore(q, i, k)
         /\ \A i, j \in Matching(q, row) : i # j => SortedBefore(q, i, j) \/ SortedBefore(q, j, i)
<1> DEFINE M == Matching(q, row)
<1>0. M \subseteq Nat
  BY ListingConstants DEF Matching
<1>1. PICK z \in Nat : DOMAIN q.sort = 1 .. z
  BY DEF SoundQuery
<1>2. \A i \in M : \A n \in 1 .. z : Value(q, i, n) \in Int
  BY <1>1, ValueInt
<1> HIDE DEF M
<1>3. ASSUME NEW i \in M PROVE ~ SortedBefore(q, i, i)
  BY <1>0, <1>1, <1>2, BeforeIs
<1>4. ASSUME NEW i \in M, NEW j \in M, NEW k \in M, SortedBefore(q, i, j), SortedBefore(q, j, k)
      PROVE  SortedBefore(q, i, k)
  <2> DEFINE Less(x, y, n) == Value(q, x, n) < Value(q, y, n)
                              /\ \A m \in 1 .. n - 1 : Value(q, x, m) = Value(q, y, m)
             Tied(x, y) == \A n \in 1 .. z : Value(q, x, n) = Value(q, y, n)
  <2>1. (\E n \in 1 .. z : Less(i, j, n)) \/ (i > j /\ Tied(i, j))
    BY <1>1, <1>4, BeforeIs
  <2>2. (\E n \in 1 .. z : Less(j, k, n)) \/ (j > k /\ Tied(j, k))
    BY <1>1, <1>4, BeforeIs
  <2>3. ASSUME NEW n \in 1 .. z, Less(i, k, n) PROVE SortedBefore(q, i, k)
    BY <1>1, <2>3, BeforeIs
  <2>4. ASSUME i > k, Tied(i, k) PROVE SortedBefore(q, i, k)
    BY <1>1, <2>4, BeforeIs
  <2>5. ASSUME NEW n \in 1 .. z, Less(i, j, n), NEW m \in 1 .. z, Less(j, k, m)
        PROVE  \E l \in 1 .. z : Less(i, k, l)
    <3>1. CASE n < m
      <4>1. Value(q, j, n) = Value(q, k, n) /\ \A l \in 1 .. n - 1 : l \in 1 .. m - 1
        BY <2>5, <3>1
      <4>2. Less(i, k, n)
        BY <2>5, <4>1
      <4> QED  BY <4>2
    <3>2. CASE n = m
      <4>1. Less(i, k, n)
        BY <1>2, <2>5, <3>2
      <4> QED  BY <4>1
    <3>3. CASE m < n
      <4>1. Value(q, i, m) = Value(q, j, m) /\ \A l \in 1 .. m - 1 : l \in 1 .. n - 1
        BY <2>5, <3>3
      <4>2. Less(i, k, m)
        BY <2>5, <4>1
      <4> QED  BY <4>2
    <3> QED  BY <3>1, <3>2, <3>3
  <2>6. ASSUME NEW n \in 1 .. z, Less(i, j, n), Tied(j, k) PROVE Less(i, k, n)
    BY <2>6
  <2>7. ASSUME NEW n \in 1 .. z, Less(j, k, n), Tied(i, j) PROVE Less(i, k, n)
    BY <2>7
  <2>8. ASSUME i > j, j > k, Tied(i, j), Tied(j, k) PROVE i > k /\ Tied(i, k)
    BY <1>0, <2>8
  <2> HIDE DEF Less, Tied
  <2> QED  BY <2>1, <2>2, <2>3, <2>4, <2>5, <2>6, <2>7, <2>8
<1>5. ASSUME NEW i \in M, NEW j \in M, i # j PROVE SortedBefore(q, i, j) \/ SortedBefore(q, j, i)
  <2> DEFINE D == {n \in 1 .. z : Value(q, i, n) # Value(q, j, n)}
  <2>1. CASE D = {}
    <3>1. \A n \in 1 .. z : Value(q, i, n) = Value(q, j, n)
      BY <2>1
    <3>2. i > j \/ j > i
      BY <1>0, <1>5
    <3> QED  BY <1>1, <3>1, <3>2, BeforeIs
  <2>2. CASE D # {}
    <3>1. D \in SUBSET Nat
      OBVIOUS
    <3>2. PICK n \in D : \A k \in D : n <= k
      <4> HIDE DEF D
      <4> QED  BY <2>2, <3>1, LeastOf
    <3>3. n \in 1 .. z /\ \A m \in 1 .. n - 1 : Value(q, i, m) = Value(q, j, m)
      BY <3>2
    <3>4. Value(q, i, n) < Value(q, j, n) \/ Value(q, j, n) < Value(q, i, n)
      BY <1>2, <3>2
    <3> QED  BY <1>1, <3>3, <3>4, BeforeIs
  <2> QED  BY <2>1, <2>2
<1> QED  BY <1>3, <1>4, <1>5 DEF M

Earlier(q, i) == {j \in Matching(q, row) : SortedBefore(q, j, i)}

(* Each row has a place of its own, earlier rows smaller ones, and every   *)
(* place is taken.                                                         *)
LEMMA PlaceOf ==
  ASSUME RowsStored, NEW q, SoundQuery(table, q)
  PROVE  /\ IsFiniteSet(Matching(q, row)) /\ Cardinality(Matching(q, row)) \in Nat
         /\ \A i \in Matching(q, row) : Place(q, i) \in 1 .. Cardinality(Matching(q, row))
         /\ \A i, j \in Matching(q, row) : SortedBefore(q, i, j) => Place(q, i) < Place(q, j)
<1> DEFINE M == Matching(q, row)
<1>0. IsFiniteSet(M) /\ Cardinality(M) \in Nat
  <2>1. M \in SUBSET Rows
    BY DEF Matching
  <2> QED  BY <2>1, ListingConstants, FS_Subset, FS_CardinalityType
<1>1. \A i : /\ Earlier(q, i) \in SUBSET M /\ IsFiniteSet(Earlier(q, i))
             /\ Cardinality(Earlier(q, i)) \in Nat /\ Place(q, i) = Cardinality(Earlier(q, i)) + 1
  <2>1. \A i : Earlier(q, i) \in SUBSET M /\ Place(q, i) = Cardinality(Earlier(q, i)) + 1
    BY DEF Earlier, Place
  <2> HIDE DEF M
  <2> QED  BY <1>0, <2>1, FS_Subset, FS_CardinalityType
<1>2. /\ \A i \in M : i \notin Earlier(q, i)
      /\ \A i, j \in M : SortedBefore(q, i, j) => /\ Earlier(q, i) \subseteq Earlier(q, j)
                                                  /\ i \in Earlier(q, j)
  BY RowsOrdered DEF Earlier
<1> HIDE DEF M
<1>3. ASSUME NEW i \in M PROVE Place(q, i) \in 1 .. Cardinality(M)
  <2>1. Earlier(q, i) \in SUBSET (M \ {i})
    BY <1>1, <1>2
  <2>2. IsFiniteSet(M \ {i}) /\ Cardinality(M \ {i}) = Cardinality(M) - 1
    BY <1>0, FS_RemoveElement
  <2>3. Cardinality(Earlier(q, i)) <= Cardinality(M) - 1
    BY <2>1, <2>2, FS_Subset
  <2> QED  BY <1>0, <1>1, <2>3
<1>4. ASSUME NEW i \in M, NEW j \in M, SortedBefore(q, i, j) PROVE Place(q, i) < Place(q, j)
  <2>1. Earlier(q, i) \in SUBSET (Earlier(q, j) \ {i}) /\ i \in Earlier(q, j)
    BY <1>1, <1>2, <1>4
  <2>2. IsFiniteSet(Earlier(q, j) \ {i})
        /\ Cardinality(Earlier(q, j) \ {i}) = Cardinality(Earlier(q, j)) - 1
    BY <1>1, <2>1, FS_RemoveElement
  <2>3. Cardinality(Earlier(q, i)) <= Cardinality(Earlier(q, j)) - 1
    BY <2>1, <2>2, FS_Subset
  <2> QED  BY <1>1, <2>3
<1> QED  BY <1>0, <1>3, <1>4 DEF M

LEMMA PlacesTaken ==
  ASSUME RowsStored, NEW q, SoundQuery(table, q)
  PROVE  /\ \A i, j \in Matching(q, row) : Place(q, i) = Place(q, j) => i = j
         /\ \A n \in 1 .. Cardinality(Matching(q, row)) : \E i \in Matching(q, row) : Place(q, i) = n
<1> DEFINE M == Matching(q, row)
           f == [i \in M |-> Place(q, i)]
<1>0. /\ IsFiniteSet(M) /\ Cardinality(M) \in Nat
      /\ \A i \in M : Place(q, i) \in 1 .. Cardinality(M)
      /\ \A i, j \in M : SortedBefore(q, i, j) => Place(q, i) < Place(q, j)
      /\ \A i, j \in M : i # j => SortedBefore(q, i, j) \/ SortedBefore(q, j, i)
  BY PlaceOf, RowsOrdered
<1> HIDE DEF M
<1>1. ASSUME NEW i \in M, NEW j \in M, Place(q, i) = Place(q, j) PROVE i = j
  <2>1. PICK a \in Nat, b \in Nat : a = Place(q, i) /\ b = Place(q, j)
    BY <1>0
  <2>2. ~ (a < b) /\ ~ (b < a)
    BY <1>1, <2>1
  <2> QED  BY <1>0, <2>1, <2>2
<1>2. f \in [M -> 1 .. Cardinality(M)]
  BY <1>0
<1>3. f \in Injection(M, 1 .. Cardinality(M))
  BY <1>1, <1>2 DEF Injection, IsInjective
<1>4. IsFiniteSet(1 .. Cardinality(M)) /\ Cardinality(1 .. Cardinality(M)) = Cardinality(M)
  <2>1. 1 \in Int /\ Cardinality(M) \in Int
    BY <1>0
  <2>2. Cardinality(1 .. Cardinality(M)) = IF 1 > Cardinality(M) THEN 0 ELSE Cardinality(M) - 1 + 1
    BY <2>1, FS_Interval
  <2> QED  BY <1>0, <2>1, <2>2, FS_Interval
<1>5. f \in Surjection(M, 1 .. Cardinality(M))
  BY <1>3, <1>4, FS_Injection
<1>6. \A n \in 1 .. Cardinality(M) : \E i \in M : Place(q, i) = n
  BY <1>5 DEF Surjection
<1> QED  BY <1>1, <1>6 DEF M

(* The list: the row at each place.                                        *)
LEMMA SortedIs ==
  ASSUME RowsStored, NEW q, SoundQuery(table, q)
  PROVE  /\ Sorted(q) \in Seq(Matching(q, row)) /\ Len(Sorted(q)) = Cardinality(Matching(q, row))
         /\ Cardinality(Matching(q, row)) \in Nat
         /\ \A n \in 1 .. Cardinality(Matching(q, row)) :
              Sorted(q)[n] \in Matching(q, row) /\ Place(q, Sorted(q)[n]) = n
         /\ \A i \in Matching(q, row) :
              Place(q, i) \in 1 .. Cardinality(Matching(q, row)) /\ Sorted(q)[Place(q, i)] = i
<1> DEFINE M == Matching(q, row)
           c == Cardinality(M)
           at(n) == CHOOSE i \in M : Place(q, i) = n
<1>0. c \in Nat /\ \A i \in M : Place(q, i) \in 1 .. c
  BY PlaceOf
<1>1. /\ \A i, j \in M : Place(q, i) = Place(q, j) => i = j
      /\ \A n \in 1 .. c : \E i \in M : Place(q, i) = n
  BY PlacesTaken
<1>2. Sorted(q) = [n \in 1 .. c |-> at(n)]
  BY DEF Sorted
<1> HIDE DEF M, c
<1>3. \A n \in 1 .. c : at(n) \in M /\ Place(q, at(n)) = n
  BY <1>1
<1> HIDE DEF at
<1>4. Sorted(q) \in [1 .. c -> M]
  BY <1>2, <1>3
<1>5. Sorted(q) \in Seq(M) /\ Len(Sorted(q)) = c
  BY <1>0, <1>4
<1>6. \A n \in 1 .. c : Sorted(q)[n] \in M /\ Place(q, Sorted(q)[n]) = n
  BY <1>2, <1>3
<1>7. ASSUME NEW i \in M PROVE Place(q, i) \in 1 .. c /\ Sorted(q)[Place(q, i)] = i
  <2>1. PICK p \in 1 .. c : p = Place(q, i)
    BY <1>0
  <2>2. Sorted(q)[p] \in M /\ Place(q, Sorted(q)[p]) = p
    BY <1>6
  <2> QED  BY <1>1, <2>1, <2>2
<1> QED  BY <1>0, <1>5, <1>6, <1>7 DEF M, c

(* A page: the rows at the places after "skip", at most "limit" of them.   *)
Lower(a, b) == IF a <= b THEN a ELSE b

LEMMA MinOf ==
  ASSUME NEW a \in Int, NEW b \in Int
  PROVE  Min({a, b}) = Lower(a, b)
<1>1. \E x \in {a, b} : \A y \in {a, b} : x <= y
  OBVIOUS
<1>2. Min({a, b}) \in {a, b} /\ \A y \in {a, b} : Min({a, b}) <= y
  BY <1>1 DEF Min
<1> QED  BY <1>2 DEF Lower

LEMMA MaxOf ==
  ASSUME NEW a \in Int, NEW b \in Int
  PROVE  Max({a, b}) = IF a >= b THEN a ELSE b
<1>1. \E x \in {a, b} : \A y \in {a, b} : x >= y
  OBVIOUS
<1>2. Max({a, b}) \in {a, b} /\ \A y \in {a, b} : Max({a, b}) >= y
  BY <1>1 DEF Max
<1> QED  BY <1>2

LEMMA SliceIs ==
  ASSUME NEW A, NEW s \in Seq(A), NEW skip \in Nat, NEW limit \in Nat
  PROVE  /\ Slice(s, skip, limit) \in Seq(A)
         /\ Len(Slice(s, skip, limit)) = (IF skip < Len(s) THEN Lower(limit, Len(s) - skip) ELSE 0)
         /\ Len(Slice(s, skip, limit)) \in Nat /\ Len(Slice(s, skip, limit)) <= limit
         /\ skip <= Len(s) => skip + Len(Slice(s, skip, limit)) <= Len(s)
         /\ \A k \in 1 .. Len(Slice(s, skip, limit)) :
              skip + k \in 1 .. Len(s) /\ Slice(s, skip, limit)[k] = s[skip + k]
<1>0. Len(s) \in Nat /\ \A k \in 1 .. Len(s) : s[k] \in A
  OBVIOUS
<1>1. PICK m \in Nat : m = Lower(skip + limit, Len(s))
  BY <1>0 DEF Lower
<1>2. Slice(s, skip, limit) = SubSeq(s, skip + 1, m)
  <2>1. skip + limit \in Int /\ Len(s) \in Int
    BY <1>0
  <2>2. Min({skip + limit, Len(s)}) = m
    BY <1>1, <2>1, MinOf
  <2> QED  BY <2>2 DEF Slice
<1>3. \A k \in skip + 1 .. m : s[k] \in A
  BY <1>0, <1>1 DEF Lower
<1>4. /\ SubSeq(s, skip + 1, m) \in Seq(A)
      /\ Len(SubSeq(s, skip + 1, m)) = IF skip + 1 <= m THEN m - (skip + 1) + 1 ELSE 0
      /\ \A k \in 1 .. m - (skip + 1) + 1 : SubSeq(s, skip + 1, m)[k] = s[(skip + 1) + k - 1]
  <2>1. skip + 1 \in Int /\ m \in Int
    OBVIOUS
  <2> QED  BY ONLY <1>3, <2>1, SubSeqProperties
<1>5. Len(SubSeq(s, skip + 1, m)) = IF skip < Len(s) THEN Lower(limit, Len(s) - skip) ELSE 0
  BY <1>0, <1>1, <1>4 DEF Lower
<1>6. \A k \in 1 .. Len(SubSeq(s, skip + 1, m)) :
        skip + k \in 1 .. Len(s) /\ SubSeq(s, skip + 1, m)[k] = s[skip + k]
  BY <1>0, <1>1, <1>4 DEF Lower
<1>7. /\ Len(SubSeq(s, skip + 1, m)) \in Nat /\ Len(SubSeq(s, skip + 1, m)) <= limit
      /\ skip <= Len(s) => skip + Len(SubSeq(s, skip + 1, m)) <= Len(s)
  BY <1>0, <1>5 DEF Lower
<1> QED  BY <1>2, <1>4, <1>5, <1>6, <1>7

(* The order of two rows depends on nothing else.                          *)
LEMMA OrderStays ==
  ASSUME NEW q, NEW i, NEW j, row'[i] = row[i], row'[j] = row[j]
  PROVE  SortedBefore(q, i, j)' <=> SortedBefore(q, i, j)
<1>1. \A n : Value(q, i, n)' = Value(q, i, n) /\ Value(q, j, n)' = Value(q, j, n)
  BY DEF Value
<1>2. SortedBefore(q, i, j)' <=>
        \/ \E n \in DOMAIN q.sort :
             /\ Value(q, i, n)' < Value(q, j, n)'
             /\ \A m \in 1 .. n - 1 : Value(q, i, m)' = Value(q, j, m)'
        \/ i > j /\ \A n \in DOMAIN q.sort : Value(q, i, n)' = Value(q, j, n)'
  BY DEF SortedBefore, Value
<1> QED  BY <1>1, <1>2, BeforeIs

(* A list that nobody leaves: the places of its rows can only grow.        *)
LEMMA PlaceGrows ==
  ASSUME NEW q, \A i \in Matching(q, row) : i \in Matching(q, row)' /\ row'[i] = row[i]
  PROVE  /\ Cardinality(Matching(q, row)) \in Nat /\ Cardinality(Matching(q, row))' \in Nat
         /\ Cardinality(Matching(q, row)) <= Cardinality(Matching(q, row))'
         /\ \A i \in Matching(q, row) : /\ Place(q, i) \in Nat /\ Place(q, i)' \in Nat
                                        /\ Place(q, i) <= Place(q, i)'
<1> DEFINE M == Matching(q, row)
           N == Matching(q, row')
<1>0. M \in SUBSET Rows /\ N \in SUBSET Rows /\ Matching(q, row)' = N
  BY DEF Matching
<1>1. M \in SUBSET N /\ \A i \in M : row'[i] = row[i]
  BY <1>0
<1>2. \A i, j \in M : SortedBefore(q, j, i) => SortedBefore(q, j, i)'
  BY <1>1, OrderStays
<1>3. \A i : /\ Place(q, i) = Cardinality({j \in M : SortedBefore(q, j, i)}) + 1
             /\ Place(q, i)' = Cardinality({j \in N : SortedBefore(q, j, i)'}) + 1
  BY <1>0 DEF Place
<1> HIDE DEF M, N
<1>4. IsFiniteSet(M) /\ IsFiniteSet(N) /\ Cardinality(M) \in Nat /\ Cardinality(N) \in Nat
      /\ Cardinality(M) <= Cardinality(N)
  BY <1>0, <1>1, ListingConstants, FS_Subset, FS_CardinalityType
<1>5. ASSUME NEW i \in M
      PROVE  Place(q, i) \in Nat /\ Place(q, i)' \in Nat /\ Place(q, i) <= Place(q, i)'
  <2> DEFINE A == {j \in M : SortedBefore(q, j, i)}
             B == {j \in N : SortedBefore(q, j, i)'}
  <2>1. A \in SUBSET B /\ B \in SUBSET N
    BY <1>1, <1>2
  <2>2. Place(q, i) = Cardinality(A) + 1 /\ Place(q, i)' = Cardinality(B) + 1
    BY <1>3
  <2> HIDE DEF A, B
  <2>3. IsFiniteSet(A) /\ IsFiniteSet(B) /\ Cardinality(A) <= Cardinality(B)
    BY <1>4, <2>1, FS_Subset
  <2>4. Cardinality(A) \in Nat /\ Cardinality(B) \in Nat
    BY <2>3, FS_CardinalityType
  <2> QED  BY <2>2, <2>3, <2>4
<1> QED  BY <1>0, <1>4, <1>5 DEF M

(* A list that nobody enters: they can only fall.                          *)
LEMMA PlaceFalls ==
  ASSUME NEW q, \A i \in Matching(q, row)' : i \in Matching(q, row) /\ row'[i] = row[i]
  PROVE  \A i \in Matching(q, row)' : /\ Place(q, i) \in Nat /\ Place(q, i)' \in Nat
                                      /\ Place(q, i)' <= Place(q, i)
<1> DEFINE M == Matching(q, row)
           N == Matching(q, row')
<1>0. M \in SUBSET Rows /\ N \in SUBSET Rows /\ Matching(q, row)' = N
  BY DEF Matching
<1>1. N \in SUBSET M /\ \A i \in N : row'[i] = row[i]
  BY <1>0
<1>2. \A i, j \in N : SortedBefore(q, j, i)' => SortedBefore(q, j, i)
  BY <1>1, OrderStays
<1>3. \A i : /\ Place(q, i) = Cardinality({j \in M : SortedBefore(q, j, i)}) + 1
             /\ Place(q, i)' = Cardinality({j \in N : SortedBefore(q, j, i)'}) + 1
  BY <1>0 DEF Place
<1> HIDE DEF M, N
<1>4. IsFiniteSet(M)
  BY <1>0, ListingConstants, FS_Subset
<1>5. ASSUME NEW i \in N
      PROVE  Place(q, i) \in Nat /\ Place(q, i)' \in Nat /\ Place(q, i)' <= Place(q, i)
  <2> DEFINE A == {j \in M : SortedBefore(q, j, i)}
             B == {j \in N : SortedBefore(q, j, i)'}
  <2>1. B \in SUBSET A /\ A \in SUBSET M
    BY <1>1, <1>2
  <2>2. Place(q, i) = Cardinality(A) + 1 /\ Place(q, i)' = Cardinality(B) + 1
    BY <1>3
  <2> HIDE DEF A, B
  <2>3. IsFiniteSet(A) /\ IsFiniteSet(B) /\ Cardinality(B) <= Cardinality(A)
    BY <1>4, <2>1, FS_Subset
  <2>4. Cardinality(A) \in Nat /\ Cardinality(B) \in Nat
    BY <2>3, FS_CardinalityType
  <2> QED  BY <2>2, <2>3, <2>4
<1> QED  BY <1>0, <1>5 DEF M

(* One that nobody enters, leaves or moves in stays as it is.              *)
LEMMA SortedStays ==
  ASSUME NEW q, Matching(q, row)' = Matching(q, row), \A i \in Matching(q, row) : row'[i] = row[i]
  PROVE  Sorted(q)' = Sorted(q)
<1> DEFINE M == Matching(q, row)
<1>0. Matching(q, row') = M /\ \A i \in M : row'[i] = row[i]
  BY DEF Matching
<1>1. \A i, j \in M : SortedBefore(q, j, i)' <=> SortedBefore(q, j, i)
  BY <1>0, OrderStays
<1>2. \A i : /\ Place(q, i) = Cardinality({j \in M : SortedBefore(q, j, i)}) + 1
             /\ Place(q, i)' = Cardinality({j \in M : SortedBefore(q, j, i)'}) + 1
  BY <1>0 DEF Place
<1>3. Sorted(q) = [n \in 1 .. Cardinality(M) |-> CHOOSE i \in M : Place(q, i) = n]
      /\ Sorted(q)' = [n \in 1 .. Cardinality(M) |-> CHOOSE i \in M : Place(q, i)' = n]
  BY <1>0 DEF Sorted
<1> HIDE DEF M
<1>4. \A i \in M : Place(q, i)' = Place(q, i)
  <2> SUFFICES ASSUME NEW i \in M PROVE Place(q, i)' = Place(q, i)
    OBVIOUS
  <2>1. {j \in M : SortedBefore(q, j, i)'} = {j \in M : SortedBefore(q, j, i)}
    BY <1>1
  <2> QED  BY <1>2, <2>1
<1>5. ASSUME NEW n
      PROVE  (CHOOSE i \in M : Place(q, i)' = n) = (CHOOSE i \in M : Place(q, i) = n)
  <2>1. \A i : (i \in M /\ Place(q, i)' = n) <=> (i \in M /\ Place(q, i) = n)
    BY <1>4
  <2> QED  BY <2>1
<1> QED  BY <1>3, <1>5

Skip(h) == (h.page - 1) * h.limit
Size(h) == Cardinality(Matching(h.query, row))

(* The rows seen so far, and the places they should come from.             *)
PageOf(h) == IF h.found = Nothing THEN <<>> ELSE h.found
Seen(h) == Range(h.got) \cup Range(PageOf(h))
Reached(h) == IF h.found = Nothing THEN Skip(h) ELSE Skip(h) + h.limit

(* The number the page in progress will be compared with.                  *)
Announced(h) == IF h.total = Nothing THEN Size(h) ELSE h.total

Lists(q) ==
  [pc : {"page", "listed"}, query : {q}, limit : 1 .. MaxLimit, page : Nat \ {0},
   found : Seq(Rows) \cup {Nothing}, total : Nat \cup {Nothing}, got : Seq(Rows),
   standing : SUBSET Rows, grown : BOOLEAN, shrunk : BOOLEAN, torn : BOOLEAN]

ListTyped(h) ==
  /\ h \in Lists(h.query)
  /\ SoundQuery(table, h.query)
  /\ Len(PageOf(h)) <= h.limit
  /\ h.pc = "listed" => h.found = Nothing /\ h.total = Nothing
  /\ h.standing \subseteq Matching(h.query, row)

(* While no row has left the list or moved.                                *)
OnlyMatching(h) == ~ h.shrunk => Seen(h) \subseteq Matching(h.query, row)

StandingAhead(h) ==
  ~ h.shrunk /\ h.pc = "page" => \A i \in h.standing \ Seen(h) : Place(h.query, i) > Reached(h)

MoreToCome(h) ==
  ~ h.shrunk /\ ~ h.torn =>
    /\ h.pc = "page" /\ h.found = Nothing /\ h.total # Nothing => h.total = Size(h)
    /\ h.pc = "page" /\ h.found # Nothing =>
         h.standing \subseteq Seen(h) \/ Skip(h) + Len(h.found) < Announced(h)
    /\ h.pc = "listed" => h.standing \subseteq Range(h.got)

(* While none has come to the list or moved.                               *)
SeenOnce(h) ==
  ~ h.grown => /\ IsInjective(h.got) /\ IsInjective(PageOf(h))
               /\ Range(h.got) \cap Range(PageOf(h)) = {}

SeenBehind(h) ==
  ~ h.grown /\ h.pc = "page" =>
    \A i \in Seen(h) \cap Matching(h.query, row) : Place(h.query, i) <= Reached(h)

(* While nothing has changed.                                              *)
PagesInOrder(h) ==
  ~ h.grown /\ ~ h.shrunk /\ h.pc = "page" =>
    /\ Len(h.got) = Skip(h) /\ Skip(h) <= Size(h)
    /\ h.total # Nothing => h.total = Size(h)
    /\ \A k \in 1 .. Len(h.got) : h.got[k] = Sorted(h.query)[k]
    /\ h.found # Nothing =>
         /\ Len(h.found) = Lower(h.limit, Size(h) - Skip(h))
         /\ \A k \in 1 .. Len(h.found) : h.found[k] = Sorted(h.query)[Skip(h) + k]

WholeList(h) ==
  ~ h.grown /\ ~ h.shrunk /\ h.pc = "listed" => h.got = Sorted(h.query)

Paging(h) ==
  /\ ListTyped(h) /\ OnlyMatching(h) /\ StandingAhead(h) /\ MoreToCome(h)
  /\ SeenOnce(h) /\ SeenBehind(h) /\ PagesInOrder(h) /\ WholeList(h)

ListingsInv ==
  /\ RowsStored
  /\ DOMAIN req = Slots
  /\ \A r \in Slots : req[r] # Idle => Paging(req[r])

-----------------------------------------------------------------------------
LEMMA FieldsOf ==
  ASSUME NEW q, NEW h \in Lists(q)
  PROVE  /\ h.pc \in {"page", "listed"} /\ h.query = q /\ h.limit \in 1 .. MaxLimit /\ h.page \in Nat \ {0}
         /\ h.found \in Seq(Rows) \cup {Nothing} /\ h.total \in Nat \cup {Nothing} /\ h.got \in Seq(Rows)
         /\ h.standing \in SUBSET Rows /\ h.grown \in BOOLEAN /\ h.shrunk \in BOOLEAN /\ h.torn \in BOOLEAN
  BY DEF Lists

LEMMA WithFound ==
  ASSUME NEW q, NEW h \in Lists(q), NEW x, NEW g, g = [h EXCEPT !.found = x]
  PROVE  /\ x \in Seq(Rows) => g \in Lists(q)
         /\ x = h.found => g = h
         /\ g.found = x /\ g.pc = h.pc /\ g.query = h.query /\ g.limit = h.limit /\ g.page = h.page
         /\ g.total = h.total /\ g.got = h.got /\ g.standing = h.standing
         /\ g.grown = h.grown /\ g.shrunk = h.shrunk /\ g.torn = h.torn
  BY DEF Lists

LEMMA WithTotal ==
  ASSUME NEW q, NEW h \in Lists(q), NEW x, NEW g, g = [h EXCEPT !.total = x]
  PROVE  /\ x \in Nat => g \in Lists(q)
         /\ x = h.total => g = h
         /\ g.total = x /\ g.pc = h.pc /\ g.query = h.query /\ g.limit = h.limit /\ g.page = h.page
         /\ g.found = h.found /\ g.got = h.got /\ g.standing = h.standing
         /\ g.grown = h.grown /\ g.shrunk = h.shrunk /\ g.torn = h.torn
  BY DEF Lists

LEMMA SkipIs ==
  ASSUME NEW h, h \in Lists(h.query)
  PROVE  /\ h.limit \in Nat /\ h.limit > 0 /\ h.limit <= MaxLimit /\ Skip(h) \in Nat
         /\ \A g : g.page = h.page + 1 /\ g.limit = h.limit => Skip(g) = Skip(h) + h.limit
<1>0. h.limit \in 1 .. MaxLimit /\ h.page \in Nat \ {0} /\ MaxLimit \in Nat
  BY FieldsOf, ListingConstants
<1>1. PICK l \in Nat, p \in Nat : l = h.limit /\ p = h.page - 1 /\ h.page = p + 1
  <2>1. h.page - 1 \in Nat /\ h.limit \in Nat
    BY <1>0
  <2> QED  BY <1>0, <2>1
<1>2. Skip(h) = p * l /\ p * l \in Nat
  BY <1>1 DEF Skip
<1>3. (p + 1) * l = p * l + l
  OBVIOUS
<1>4. ASSUME NEW g, g.page = h.page + 1, g.limit = h.limit PROVE Skip(g) = Skip(h) + h.limit
  <2>1. g.page - 1 = p + 1 /\ g.limit = l
    BY <1>1, <1>4
  <2> QED  BY <1>1, <1>2, <1>3, <2>1 DEF Skip
<1>5. h.limit \in Nat /\ h.limit > 0 /\ h.limit <= MaxLimit
  BY <1>0
<1>6. Skip(h) \in Nat
  BY <1>2
<1> QED  BY <1>4, <1>5, <1>6

LEMMA RangeOf ==
  ASSUME NEW A, NEW s \in Seq(A)
  PROVE  /\ Len(s) \in Nat /\ Range(s) = {s[k] : k \in 1 .. Len(s)} /\ Range(s) \subseteq A
         /\ IsInjective(s) <=> \A j, k \in 1 .. Len(s) : s[j] = s[k] => j = k
  BY DEF Range, IsInjective

(* A page of the sorted list.                                              *)
LEMMA PageIs ==
  ASSUME RowsStored, NEW h, h \in Lists(h.query), SoundQuery(table, h.query),
         NEW x, x = Slice(Sorted(h.query), Skip(h), h.limit)
  PROVE  /\ x \in Seq(Matching(h.query, row)) /\ x \in Seq(Rows)
         /\ Len(x) <= h.limit /\ IsInjective(x)
         /\ Skip(h) <= Size(h) => Len(x) = Lower(h.limit, Size(h) - Skip(h))
         /\ \A k \in 1 .. Len(x) : x[k] = Sorted(h.query)[Skip(h) + k]
         /\ Range(x) \subseteq Matching(h.query, row)
         /\ \A i \in Matching(h.query, row) :
              i \in Range(x) <=> Place(h.query, i) > Skip(h) /\ Place(h.query, i) <= Skip(h) + h.limit
         /\ \A i \in Matching(h.query, row) : Place(h.query, i) \in Nat /\ Place(h.query, i) <= Size(h)
         /\ Size(h) \in Nat
<1> DEFINE q == h.query
           M == Matching(q, row)
           S == Sorted(q)
           c == Cardinality(M)
           s == Skip(h)
           l == h.limit
<1>1. /\ S \in Seq(M) /\ Len(S) = c /\ c \in Nat
      /\ \A n \in 1 .. c : S[n] \in M /\ Place(q, S[n]) = n
      /\ \A i \in M : Place(q, i) \in 1 .. c /\ S[Place(q, i)] = i
  BY SortedIs
<1>2. s \in Nat /\ l \in Nat
  BY SkipIs
<1>3. Size(h) = c /\ M \subseteq Rows
  BY DEF Size, Matching
<1>4. x = Slice(S, s, l)
  OBVIOUS
<1> HIDE DEF q, M, S, c, s, l
<1>5. /\ x \in Seq(M) /\ Len(x) = (IF s < c THEN Lower(l, c - s) ELSE 0)
      /\ Len(x) \in Nat /\ Len(x) <= l
      /\ \A k \in 1 .. Len(x) : s + k \in 1 .. c /\ x[k] = S[s + k]
  BY <1>1, <1>2, <1>4, SliceIs
<1>6. x \in Seq(Rows)
  BY <1>3, <1>5
<1>7. \A k \in 1 .. Len(x) : x[k] \in M /\ Place(q, x[k]) = s + k
  BY <1>1, <1>5
<1>8. IsInjective(x)
  <2>1. ASSUME NEW j \in 1 .. Len(x), NEW k \in 1 .. Len(x), x[j] = x[k] PROVE j = k
    <3>1. s + j = s + k
      BY <1>7, <2>1
    <3> QED  BY <1>2, <3>1
  <2> QED  BY <1>5, <2>1, RangeOf
<1>9. s <= c => Len(x) = Lower(l, c - s)
  BY <1>1, <1>2, <1>5 DEF Lower
<1>10. Range(x) = {x[k] : k \in 1 .. Len(x)} /\ Range(x) \subseteq M
  BY <1>5, RangeOf
<1>11. ASSUME NEW i \in M PROVE i \in Range(x) <=> Place(q, i) > s /\ Place(q, i) <= s + l
  <2>1. PICK p \in 1 .. c : p = Place(q, i) /\ S[p] = i
    BY <1>1
  <2>2. ASSUME i \in Range(x) PROVE p > s /\ p <= s + l
    <3>1. PICK k \in 1 .. Len(x) : i = x[k]
      BY <1>10, <2>2
    <3>2. p = s + k
      BY <1>7, <2>1, <3>1
    <3> QED  BY <1>2, <1>5, <3>2
  <2>3. ASSUME p > s, p <= s + l PROVE i \in Range(x)
    <3>1. p - s \in 1 .. Len(x) /\ s + (p - s) = p
      BY <1>1, <1>2, <1>5, <2>3 DEF Lower
    <3>2. x[p - s] = i
      BY <1>5, <2>1, <3>1
    <3> QED  BY <1>10, <3>1, <3>2
  <2> QED  BY <2>1, <2>2, <2>3
<1>12. \A i \in M : Place(q, i) \in Nat /\ Place(q, i) <= c
  BY <1>1
<1>13. \A k \in 1 .. Len(x) : x[k] = S[s + k]
  BY <1>5
<1> QED  BY <1>1, <1>3, <1>5, <1>6, <1>8, <1>9, <1>10, <1>11, <1>12, <1>13 DEF q, M, S, c, s, l

LEMMA EmptyRange == Range(<<>>) = {} /\ IsInjective(<<>>) /\ Len(<<>>) = 0
  BY DEF Range, IsInjective

LEMMA FindKeeps ==
  ASSUME RowsStored, NEW h, Paging(h), h.pc = "page", h.found = Nothing,
         NEW g, g = [h EXCEPT !.found = Slice(Sorted(h.query), Skip(h), h.limit)]
  PROVE  Paging(g)
<1> DEFINE x == Slice(Sorted(h.query), Skip(h), h.limit)
           M == Matching(h.query, row)
           s == Skip(h)
           l == h.limit
           c == Size(h)
           S == Sorted(h.query)
           place(i) == Place(h.query, i)
<1>0. h \in Lists(h.query) /\ SoundQuery(table, h.query)
  BY DEF Paging, ListTyped
<1>1. /\ x \in Seq(M) /\ x \in Seq(Rows) /\ Len(x) <= l /\ IsInjective(x)
      /\ s <= c => Len(x) = Lower(l, c - s)
      /\ \A k \in 1 .. Len(x) : x[k] = S[s + k]
      /\ Range(x) \subseteq M
      /\ \A i \in M : i \in Range(x) <=> place(i) > s /\ place(i) <= s + l
      /\ \A i \in M : place(i) \in Nat /\ place(i) <= c
      /\ c \in Nat
  BY <1>0, PageIs
<1>2. s \in Nat /\ l \in Nat /\ l > 0
  BY <1>0, SkipIs
<1>3. g = [h EXCEPT !.found = x]
  OBVIOUS
<1> HIDE DEF x
<1>4. CASE x = Nothing
  <2>1. g = h
    BY <1>0, <1>3, <1>4, WithFound
  <2> QED  BY <2>1
<1>5. CASE x # Nothing
  <2>1. /\ g.found = x /\ g.pc = "page" /\ g.query = h.query /\ g.limit = l /\ g.page = h.page
        /\ g.total = h.total /\ g.got = h.got /\ g.standing = h.standing
        /\ g.grown = h.grown /\ g.shrunk = h.shrunk /\ g.torn = h.torn
        /\ g \in Lists(h.query)
    <3>1. x \in Seq(Rows)
      BY <1>1
    <3> QED  BY ONLY <1>0, <1>3, <3>1, h.pc = "page", WithFound DEF l
  <2>2. /\ PageOf(h) = <<>> /\ PageOf(g) = x /\ Skip(g) = s /\ Size(g) = c /\ Announced(g) = Announced(h)
        /\ Seen(h) = Range(h.got) /\ Seen(g) = Range(h.got) \cup Range(x)
        /\ Reached(h) = s /\ Reached(g) = s + l
    <3>1. PageOf(h) = <<>> /\ PageOf(g) = x
      BY <1>5, <2>1 DEF PageOf
    <3> QED  BY <1>5, <2>1, <3>1, EmptyRange DEF Skip, Size, Announced, Seen, Reached
  <2>3. ListTyped(g)
    <3>1. g.standing \subseteq Matching(g.query, row)
      BY <2>1 DEF Paging, ListTyped
    <3> QED  BY <1>0, <1>1, <2>1, <2>2, <3>1 DEF ListTyped
  <2>4. OnlyMatching(g)
    <3>1. ~ h.shrunk => Range(h.got) \subseteq M
      BY <2>2 DEF Paging, OnlyMatching
    <3> QED  BY <1>1, <2>1, <2>2, <3>1 DEF OnlyMatching
  <2>5. ASSUME ~ h.shrunk, NEW i \in h.standing, i \notin Seen(g) PROVE place(i) > s + l /\ c > s + l
    <3>1. i \in M /\ i \notin Seen(h) /\ i \notin Range(x)
      BY <2>2, <2>5 DEF Paging, ListTyped
    <3>2. place(i) > s
      BY <2>2, <2>5, <3>1 DEF Paging, StandingAhead
    <3> HIDE DEF M, s, l, c, place
    <3> QED  BY <1>1, <1>2, <3>1, <3>2
  <2>6. StandingAhead(g)
    BY <2>1, <2>2, <2>5 DEF StandingAhead
  <2>7. MoreToCome(g)
    <3>1. ASSUME ~ h.shrunk, ~ h.torn PROVE h.standing \subseteq Seen(g) \/ s + Len(x) < Announced(g)
      <4>1. Announced(g) = c
        BY <2>2, <3>1 DEF Paging, MoreToCome, Announced
      <4>2. c > s + l => s + Len(x) < c
        <5>1. Len(x) \in Nat
          BY <1>1
        <5> HIDE DEF s, l, c
        <5> QED  BY <1>1, <1>2, <5>1
      <4> QED  BY <2>5, <3>1, <4>1, <4>2
    <3> QED  BY <1>5, <2>1, <2>2, <3>1 DEF MoreToCome
  <2>8. SeenOnce(g)
    <3>1. ASSUME ~ h.grown PROVE Range(h.got) \cap Range(x) = {}
      <4>1. \A i \in Range(h.got) \cap M : place(i) <= s
        BY <2>2, <3>1 DEF Paging, SeenBehind
      <4> HIDE DEF M, s, l, place
      <4> QED  BY <1>1, <1>2, <4>1
    <3>2. ~ h.grown => IsInjective(h.got)
      BY DEF Paging, SeenOnce
    <3> QED  BY <1>1, <2>1, <2>2, <3>1, <3>2 DEF SeenOnce
  <2>9. SeenBehind(g)
    <3>1. ASSUME ~ h.grown, NEW i \in Seen(g) \cap M PROVE place(i) <= s + l
      <4>1. CASE i \in Range(x)
        BY <1>1, <4>1
      <4>2. CASE i \in Range(h.got)
        <5>1. place(i) <= s
          BY <2>2, <3>1, <4>2 DEF Paging, SeenBehind
        <5>2. place(i) \in Nat
          BY <1>1
        <5> HIDE DEF s, l, place
        <5> QED  BY <1>2, <5>1, <5>2
      <4> QED  BY <2>2, <4>1, <4>2
    <3> QED  BY <2>1, <2>2, <3>1 DEF SeenBehind
  <2>10. PagesInOrder(g)
    <3>1. ~ h.grown /\ ~ h.shrunk =>
            /\ Len(h.got) = s /\ s <= c
            /\ h.total # Nothing => h.total = c
            /\ \A k \in 1 .. Len(h.got) : h.got[k] = S[k]
      BY DEF Paging, PagesInOrder
    <3> HIDE DEF s, l, c, S
    <3> QED  BY <1>1, <1>5, <2>1, <2>2, <3>1 DEF PagesInOrder, S
  <2>11. WholeList(g)
    BY <2>1 DEF WholeList
  <2> QED  BY <2>3, <2>4, <2>6, <2>7, <2>8, <2>9, <2>10, <2>11 DEF Paging
<1> QED  BY <1>4, <1>5

LEMMA CountKeeps ==
  ASSUME RowsStored, NEW h, Paging(h), h.pc = "page", h.total = Nothing,
         NEW g, g = [h EXCEPT !.total = Size(h)]
  PROVE  Paging(g)
<1> DEFINE c == Size(h)
<1>0. h \in Lists(h.query) /\ SoundQuery(table, h.query)
  BY DEF Paging, ListTyped
<1>1. c \in Nat
  BY <1>0, PlaceOf DEF Size
<1>2. g = [h EXCEPT !.total = c]
  OBVIOUS
<1> HIDE DEF c
<1>3. CASE c = Nothing
  <2>1. g = h
    BY <1>0, <1>2, <1>3, WithTotal
  <2> QED  BY <2>1
<1>4. CASE c # Nothing
  <2>1. /\ g.total = c /\ g.pc = "page" /\ g.query = h.query /\ g.limit = h.limit /\ g.page = h.page
        /\ g.found = h.found /\ g.got = h.got /\ g.standing = h.standing
        /\ g.grown = h.grown /\ g.shrunk = h.shrunk /\ g.torn = h.torn
        /\ g \in Lists(h.query)
    BY <1>0, <1>1, <1>2, WithTotal
  <2>2. PageOf(g) = PageOf(h)
    BY <2>1 DEF PageOf
  <2>3. /\ Skip(g) = Skip(h) /\ Size(g) = c /\ Size(h) = c /\ Announced(g) = c /\ Announced(h) = c
        /\ Seen(g) = Seen(h) /\ Reached(g) = Reached(h)
    BY <1>4, <2>1, <2>2 DEF Skip, Size, Announced, Seen, Reached, c
  <2>4. ListTyped(g)
    BY <1>0, <2>1, <2>2 DEF Paging, ListTyped
  <2>5. OnlyMatching(g) /\ StandingAhead(g)
    BY <2>1, <2>3 DEF Paging, OnlyMatching, StandingAhead
  <2>6. MoreToCome(g)
    BY <2>1, <2>3 DEF Paging, MoreToCome
  <2>7. SeenOnce(g) /\ SeenBehind(g)
    BY <2>1, <2>2, <2>3 DEF Paging, SeenOnce, SeenBehind
  <2>8. PagesInOrder(g)
    BY <2>1, <2>3 DEF Paging, PagesInOrder
  <2>9. WholeList(g)
    BY <2>1 DEF WholeList
  <2> QED  BY <2>4, <2>5, <2>6, <2>7, <2>8, <2>9 DEF Paging
<1> QED  BY <1>3, <1>4

(* One page after the other.                                               *)
Joined(x, a, b) ==
  /\ Len(x) = Len(a) + Len(b) /\ Len(a) \in Nat /\ Len(b) \in Nat
  /\ \A k \in 1 .. Len(a) : x[k] = a[k]
  /\ \A k \in 1 .. Len(b) : x[Len(a) + k] = b[k]
  /\ \A k \in 1 .. Len(x) : k \in 1 .. Len(a) \/ (k - Len(a) \in 1 .. Len(b) /\ x[k] = b[k - Len(a)])
  /\ Range(x) = Range(a) \cup Range(b)

LEMMA PagesJoined ==
  ASSUME NEW A, NEW a \in Seq(A), NEW b \in Seq(A), NEW x, x = a \o b
  PROVE  x \in Seq(A) /\ Joined(x, a, b)
<1>1. /\ x \in Seq(A) /\ Len(x) = Len(a) + Len(b) /\ Len(a) \in Nat /\ Len(b) \in Nat
      /\ \A k \in 1 .. Len(a) + Len(b) : x[k] = IF k <= Len(a) THEN a[k] ELSE b[k - Len(a)]
  BY ConcatProperties
<1>2. PICK m \in Nat, n \in Nat : m = Len(a) /\ n = Len(b)
  BY <1>1
<1>3. \A k \in 1 .. m : x[k] = a[k] /\ k \in 1 .. Len(x)
  BY <1>1, <1>2
<1>4. \A k \in 1 .. n : x[m + k] = b[k] /\ m + k \in 1 .. Len(x)
  BY <1>1, <1>2
<1>5. \A k \in 1 .. m + n : k \in 1 .. m \/ (k - m \in 1 .. n /\ x[k] = b[k - m])
  BY <1>1, <1>2
<1>6. Len(x) = m + n
  BY <1>1, <1>2
<1>7. /\ Range(x) = {x[k] : k \in 1 .. m + n}
      /\ Range(a) = {a[k] : k \in 1 .. m} /\ Range(b) = {b[k] : k \in 1 .. n}
  <2>1. Range(a) = {a[k] : k \in 1 .. m} /\ Range(b) = {b[k] : k \in 1 .. n}
    BY <1>2, RangeOf
  <2>2. Range(x) = {x[k] : k \in 1 .. Len(x)}
    <3>1. x \in Seq(A)
      BY <1>1
    <3> QED  BY ONLY <3>1, RangeOf
  <2> QED  BY <1>6, <2>1, <2>2
<1>8. ASSUME NEW y \in Range(x) PROVE y \in Range(a) \cup Range(b)
  <2>1. PICK k \in 1 .. m + n : y = x[k]
    BY <1>7
  <2> QED  BY <1>3, <1>5, <1>7, <2>1
<1>9. Range(a) \cup Range(b) \subseteq Range(x)
  BY <1>3, <1>4, <1>7, <1>6
<1>10. Range(x) = Range(a) \cup Range(b)
  BY <1>8, <1>9
<1> QED  BY <1>1, <1>2, <1>3, <1>4, <1>5, <1>10 DEF Joined

LEMMA JoinedOnce ==
  ASSUME NEW A, NEW a \in Seq(A), NEW b \in Seq(A), IsInjective(a), IsInjective(b),
         Range(a) \cap Range(b) = {}
  PROVE  IsInjective(a \o b)
<1> DEFINE x == a \o b
<1>1. /\ x \in Seq(A) /\ Len(x) = Len(a) + Len(b) /\ Len(a) \in Nat /\ Len(b) \in Nat
      /\ \A k \in 1 .. Len(a) : x[k] = a[k]
      /\ \A k \in 1 .. Len(x) : k \in 1 .. Len(a) \/ (k - Len(a) \in 1 .. Len(b) /\ x[k] = b[k - Len(a)])
  BY PagesJoined DEF Joined
<1>2. /\ \A j, k \in 1 .. Len(a) : a[j] = a[k] => j = k
      /\ \A j, k \in 1 .. Len(b) : b[j] = b[k] => j = k
      /\ Range(a) = {a[k] : k \in 1 .. Len(a)} /\ Range(b) = {b[k] : k \in 1 .. Len(b)}
  BY RangeOf
<1> HIDE DEF x
<1>3. ASSUME NEW k \in 1 .. Len(x)
      PROVE  \/ k \in 1 .. Len(a) /\ x[k] = a[k] /\ x[k] \in Range(a)
             \/ k - Len(a) \in 1 .. Len(b) /\ x[k] = b[k - Len(a)] /\ x[k] \in Range(b)
  <2>1. CASE k \in 1 .. Len(a)
    BY <1>1, <1>2, <2>1
  <2>2. CASE k \notin 1 .. Len(a)
    <3>1. k - Len(a) \in 1 .. Len(b) /\ x[k] = b[k - Len(a)]
      BY <1>1, <2>2
    <3> QED  BY <1>2, <3>1
  <2> QED  BY <2>1, <2>2
<1>4. ASSUME NEW j \in 1 .. Len(x), NEW k \in 1 .. Len(x), x[j] = x[k] PROVE j = k
  <2>1. CASE x[k] \in Range(a)
    <3>1. j \in 1 .. Len(a) /\ x[j] = a[j] /\ k \in 1 .. Len(a) /\ x[k] = a[k]
      BY <1>3, <1>4, <2>1
    <3> QED  BY <1>2, <1>4, <3>1
  <2>2. CASE x[k] \notin Range(a)
    <3>1. /\ j - Len(a) \in 1 .. Len(b) /\ x[j] = b[j - Len(a)]
          /\ k - Len(a) \in 1 .. Len(b) /\ x[k] = b[k - Len(a)]
      BY <1>3, <1>4, <2>2
    <3>2. j - Len(a) = k - Len(a)
      BY <1>2, <1>4, <3>1
    <3> QED  BY <1>1, <3>2
  <2> QED  BY <2>1, <2>2
<1>5. IsInjective(x)
  BY <1>1, <1>4, RangeOf
<1> QED  BY <1>5 DEF x

Answered(h, more) ==
  [h EXCEPT !.got = @ \o h.found, !.page = @ + 1, !.found = Nothing, !.total = Nothing,
            !.pc = IF more THEN "page" ELSE "listed"]

Advanced(g, h, more) ==
  /\ g \in Lists(h.query)
  /\ g.got = h.got \o h.found /\ g.page = h.page + 1 /\ g.found = Nothing /\ g.total = Nothing
  /\ g.pc = (IF more THEN "page" ELSE "listed") /\ g.query = h.query /\ g.limit = h.limit
  /\ g.standing = h.standing /\ g.grown = h.grown /\ g.shrunk = h.shrunk /\ g.torn = h.torn

LEMMA WithAnswer ==
  ASSUME NEW h, h \in Lists(h.query), h.found \in Seq(Rows), NEW more \in BOOLEAN,
         NEW g, g = Answered(h, more)
  PROVE  Advanced(g, h, more)
<1> DEFINE q == h.query
<1>1. h.got \in Seq(Rows) /\ h.page \in Nat \ {0}
  BY FieldsOf
<1>2. h.got \o h.found \in Seq(Rows) /\ h.page + 1 \in Nat \ {0}
  BY <1>1, ConcatProperties
<1>3. PICK x, p : x = h.got \o h.found /\ p = h.page + 1
  OBVIOUS
<1>4. g = [h EXCEPT !.got = x, !.page = p, !.found = Nothing, !.total = Nothing,
                    !.pc = IF more THEN "page" ELSE "listed"]
  BY <1>3 DEF Answered, Lists
<1>5. x \in Seq(Rows) /\ p \in Nat \ {0}
  BY <1>2, <1>3
<1> HIDE DEF Answered
<1>6. /\ g \in Lists(q)
      /\ g.got = x /\ g.page = p /\ g.found = Nothing /\ g.total = Nothing
      /\ g.pc = (IF more THEN "page" ELSE "listed") /\ g.query = h.query /\ g.limit = h.limit
      /\ g.standing = h.standing /\ g.grown = h.grown /\ g.shrunk = h.shrunk /\ g.torn = h.torn
  <2>1. h \in Lists(q)
    OBVIOUS
  <2> HIDE DEF q
  <2> QED  BY ONLY <1>4, <1>5, <2>1 DEF Lists
<1> QED  BY <1>3, <1>6 DEF Advanced

LEMMA PageAnswerKeeps ==
  ASSUME RowsStored, NEW h, Paging(h), h.pc = "page", h.found # Nothing, h.total # Nothing,
         NEW more, more = (Skip(h) + Len(h.found) < h.total), NEW g, g = Answered(h, more)
  PROVE  Paging(g)
<1> DEFINE M == Matching(h.query, row)
           s == Skip(h)
           l == h.limit
           c == Size(h)
           S == Sorted(h.query)
           f == h.found
<1>0. h \in Lists(h.query) /\ SoundQuery(table, h.query)
  BY DEF Paging, ListTyped
<1>1. h.got \in Seq(Rows) /\ f \in Seq(Rows) /\ more \in BOOLEAN
  <2>1. h.got \in Seq(Rows) /\ f \in Seq(Rows) \cup {Nothing}
    BY ONLY <1>0, FieldsOf
  <2>2. more \in BOOLEAN
    OBVIOUS
  <2> QED  BY <2>1, <2>2
<1>2. /\ g \in Lists(h.query)
      /\ g.got = h.got \o f /\ g.page = h.page + 1 /\ g.found = Nothing /\ g.total = Nothing
      /\ g.pc = (IF more THEN "page" ELSE "listed") /\ g.query = h.query /\ g.limit = l
      /\ g.standing = h.standing /\ g.grown = h.grown /\ g.shrunk = h.shrunk /\ g.torn = h.torn
  <2>1. Advanced(g, h, more)
    BY ONLY <1>0, <1>1, g = Answered(h, more), WithAnswer DEF f
  <2> QED  BY <2>1 DEF Advanced
<1>3. /\ s \in Nat /\ l \in Nat /\ l > 0 /\ Skip(g) = s + l
  BY <1>0, <1>2, SkipIs
<1>4. /\ Len(g.got) = Len(h.got) + Len(f) /\ Len(h.got) \in Nat /\ Len(f) \in Nat
      /\ \A k \in 1 .. Len(h.got) : g.got[k] = h.got[k]
      /\ \A k \in 1 .. Len(f) : g.got[Len(h.got) + k] = f[k]
      /\ \A k \in 1 .. Len(g.got) :
           k \in 1 .. Len(h.got) \/ (k - Len(h.got) \in 1 .. Len(f) /\ g.got[k] = f[k - Len(h.got)])
      /\ Range(g.got) = Range(h.got) \cup Range(f)
  <2>1. h.got \in Seq(Rows) /\ f \in Seq(Rows) /\ g.got = h.got \o f
    BY <1>1, <1>2
  <2>2. Joined(g.got, h.got, f)
    <3> HIDE DEF f
    <3> QED  BY ONLY <2>1, PagesJoined
  <2> QED  BY <2>2 DEF Joined
<1>5. PageOf(h) = f /\ PageOf(g) = <<>>
  BY <1>2 DEF PageOf
<1>6. /\ Size(g) = c /\ Seen(g) = Seen(h) /\ Seen(g) = Range(g.got)
      /\ Reached(g) = s + l /\ Reached(h) = s + l
  BY <1>2, <1>3, <1>4, <1>5, EmptyRange DEF Size, Seen, Reached
<1>7. ListTyped(g)
  <2>1. g.standing \subseteq Matching(g.query, row)
    BY <1>2 DEF Paging, ListTyped
  <2>2. Len(PageOf(g)) <= g.limit
    BY <1>2, <1>3, <1>5, EmptyRange
  <2> QED  BY <1>0, <1>2, <2>1, <2>2 DEF ListTyped
<1>8. OnlyMatching(g)
  BY <1>2, <1>6 DEF Paging, OnlyMatching
<1>9. StandingAhead(g)
  <2>1. ~ h.shrunk => \A i \in h.standing \ Seen(h) : Place(h.query, i) > s + l
    BY <1>6 DEF Paging, StandingAhead
  <2> HIDE DEF s, l
  <2> QED  BY <1>2, <1>6, <2>1 DEF StandingAhead
<1>10. MoreToCome(g)
  <2>1. ASSUME ~ h.shrunk, ~ h.torn, ~ more PROVE h.standing \subseteq Range(g.got)
    <3>1. h.standing \subseteq Seen(h) \/ s + Len(f) < Announced(h)
      BY <2>1 DEF Paging, MoreToCome
    <3>2. Announced(h) = h.total
      BY DEF Announced
    <3> QED  BY <1>6, <2>1, <3>1, <3>2
  <2> QED  BY <1>2, <1>6, <2>1 DEF MoreToCome
<1>11. SeenOnce(g)
  <2>1. ASSUME ~ h.grown PROVE IsInjective(g.got)
    <3>1. IsInjective(h.got) /\ IsInjective(f) /\ Range(h.got) \cap Range(f) = {}
      BY <1>5, <2>1 DEF Paging, SeenOnce
    <3> QED  BY <1>1, <1>2, <3>1, JoinedOnce
  <2> QED  BY <1>2, <1>5, <2>1, EmptyRange DEF SeenOnce
<1>12. SeenBehind(g)
  <2>1. ~ h.grown => \A i \in Seen(h) \cap M : Place(h.query, i) <= s + l
    BY <1>6 DEF Paging, SeenBehind
  <2> HIDE DEF s, l
  <2> QED  BY <1>2, <1>6, <2>1 DEF SeenBehind
<1>13. ASSUME ~ h.grown, ~ h.shrunk
       PROVE  /\ more => Len(g.got) = s + l /\ s + l <= c
              /\ ~ more => Len(g.got) = c
              /\ \A k \in 1 .. Len(g.got) : g.got[k] = S[k]
  <2>1. /\ Len(h.got) = s /\ s <= c /\ h.total = c
        /\ \A k \in 1 .. Len(h.got) : h.got[k] = S[k]
        /\ Len(f) = Lower(l, c - s)
        /\ \A k \in 1 .. Len(f) : f[k] = S[s + k]
    BY <1>13 DEF Paging, PagesInOrder
  <2>2. c \in Nat
    BY <1>0, PlaceOf DEF Size
  <2>3. more <=> s + Len(f) < c
    BY <2>1
  <2>4. Len(g.got) = s + Len(f)
    BY <1>4, <2>1
  <2> HIDE DEF s, l, c, S, f
  <2>5. more => Len(g.got) = s + l /\ s + l <= c
    BY <1>3, <1>4, <2>1, <2>2, <2>3, <2>4 DEF Lower
  <2>6. ~ more => Len(g.got) = c
    BY <1>3, <1>4, <2>1, <2>2, <2>3, <2>4 DEF Lower
  <2>7. ASSUME NEW k \in 1 .. Len(g.got) PROVE g.got[k] = S[k]
    <3>1. CASE k \in 1 .. Len(h.got)
      BY <1>4, <2>1, <3>1
    <3>2. CASE k - Len(h.got) \in 1 .. Len(f) /\ g.got[k] = f[k - Len(h.got)]
      <4>1. f[k - s] = S[s + (k - s)] /\ s + (k - s) = k
        BY <1>3, <2>1, <3>2
      <4> QED  BY <2>1, <3>2, <4>1
    <3> QED  BY <1>4, <3>1, <3>2
  <2> QED  BY <2>5, <2>6, <2>7
<1>14. PagesInOrder(g)
  <2> HIDE DEF s, l, c, S
  <2>1. Sorted(g.query) = S
    BY <1>2 DEF S
  <2> QED  BY <1>2, <1>3, <1>6, <1>13, <2>1 DEF PagesInOrder
<1>15. WholeList(g)
  <2>1. ASSUME ~ h.grown, ~ h.shrunk, ~ more PROVE g.got = S
    <3>1. g.got \in Seq(Rows) /\ S \in Seq(M) /\ Len(S) = c
      BY <1>0, <1>2, FieldsOf, SortedIs DEF Size
    <3>2. Len(g.got) = c /\ \A k \in 1 .. Len(g.got) : g.got[k] = S[k]
      BY <1>13, <2>1
    <3> HIDE DEF S, c, M
    <3>3. g.got \in [1 .. c -> Rows] /\ S \in [1 .. c -> M]
      BY <3>1, <3>2
    <3> QED  BY <3>2, <3>3
  <2> QED  BY <1>2, <2>1 DEF WholeList
<1> QED  BY <1>7, <1>8, <1>9, <1>10, <1>11, <1>12, <1>14, <1>15 DEF Paging

-----------------------------------------------------------------------------
(* The first page has not been asked for.                                  *)
LEMMA OpenHolds ==
  ASSUME RowsStored, NEW a \in Asks, TableOf[a.list] = table, NEW limit \in Limits, NEW h,
         h = [pc |-> "page", query |-> QueryOf(a), limit |-> PageSize(limit), page |-> 1,
              found |-> Nothing, total |-> Nothing, got |-> <<>>,
              standing |-> Matching(QueryOf(a), row), grown |-> FALSE, shrunk |-> FALSE, torn |-> FALSE]
  PROVE  Paging(h)
<1> DEFINE q == QueryOf(a)
           l == PageSize(limit)
           M == Matching(q, row)
<1>1. SoundQuery(table, q)
  BY QueriesSound
<1>2. l \in 1 .. MaxLimit
  <2>1. limit \in Nat /\ MaxLimit \in Nat \ {0}
    BY ListingConstants
  <2>2. Min({limit, MaxLimit}) = Lower(limit, MaxLimit)
    BY <2>1, MinOf
  <2>3. Lower(limit, MaxLimit) \in Int
    BY <2>1 DEF Lower
  <2>4. l = IF 1 >= Lower(limit, MaxLimit) THEN 1 ELSE Lower(limit, MaxLimit)
    <3>1. l = Max({1, Lower(limit, MaxLimit)})
      BY <2>2 DEF PageSize
    <3>2. 1 \in Int
      OBVIOUS
    <3> HIDE DEF l
    <3> QED  BY <2>3, <3>1, <3>2, MaxOf
  <2> QED  BY <2>1, <2>4 DEF Lower
<1>3. M \in SUBSET Rows
  BY DEF Matching
<1>4. /\ Cardinality(M) \in Nat
      /\ \A i \in M : Place(q, i) \in 1 .. Cardinality(M)
  BY <1>1, PlaceOf
<1>5. h = [pc |-> "page", query |-> q, limit |-> l, page |-> 1,
           found |-> Nothing, total |-> Nothing, got |-> <<>>,
           standing |-> M, grown |-> FALSE, shrunk |-> FALSE, torn |-> FALSE]
  OBVIOUS
<1> HIDE DEF q, l
<1>6. /\ h.pc = "page" /\ h.query = q /\ h.limit = l /\ h.page = 1
      /\ h.found = Nothing /\ h.total = Nothing /\ h.got = <<>>
      /\ h.standing = M /\ h.grown = FALSE /\ h.shrunk = FALSE /\ h.torn = FALSE
      /\ h \in Lists(q)
  <2>1. <<>> \in Seq(Rows) /\ 1 \in Nat \ {0}
    OBVIOUS
  <2> HIDE DEF M
  <2> QED  BY ONLY <1>2, <1>3, <1>5, <2>1 DEF Lists
<1>7. PageOf(h) = <<>> /\ Seen(h) = {} /\ Skip(h) = 0 /\ Reached(h) = 0 /\ Size(h) = Cardinality(M)
  <2>1. l \in Int
    BY <1>2
  <2>2. (1 - 1) * l = 0
    BY <2>1
  <2> QED  BY <1>6, <2>2, EmptyRange DEF PageOf, Seen, Skip, Reached, Size
<1>8. ListTyped(h)
  BY <1>1, <1>2, <1>6, <1>7, EmptyRange DEF ListTyped
<1>9. OnlyMatching(h) /\ MoreToCome(h) /\ WholeList(h)
  BY <1>6, <1>7 DEF OnlyMatching, MoreToCome, WholeList
<1>10. StandingAhead(h) /\ SeenBehind(h)
  <2>1. \A i \in M : Place(q, i) > 0
    BY <1>4
  <2> HIDE DEF M
  <2> QED  BY <1>6, <1>7, <2>1 DEF StandingAhead, SeenBehind
<1>11. SeenOnce(h)
  BY <1>6, <1>7, EmptyRange DEF SeenOnce
<1>12. PagesInOrder(h)
  BY <1>4, <1>6, <1>7, EmptyRange DEF PagesInOrder
<1> QED  BY <1>8, <1>9, <1>10, <1>11, <1>12 DEF Paging

(* The rows that a query selects before and after, with the same values.   *)
Kept(q) == {i \in Matching(q, row) \cap Matching(q, row)' : row'[i] = row[i]}

LEMMA WithNote ==
  ASSUME NEW h, h \in Lists(h.query), h # Idle, NEW g, g = Noted(h, row')
  PROVE  /\ g \in Lists(h.query)
         /\ g.pc = h.pc /\ g.query = h.query /\ g.limit = h.limit /\ g.page = h.page
         /\ g.found = h.found /\ g.total = h.total /\ g.got = h.got
         /\ g.standing = h.standing \cap Kept(h.query)
         /\ g.grown = (h.grown \/ Kept(h.query) # Matching(h.query, row)')
         /\ g.shrunk = (h.shrunk \/ Kept(h.query) # Matching(h.query, row))
         /\ g.torn = (h.torn \/ (Kept(h.query) # Matching(h.query, row)' /\ h.total # Nothing
                                 /\ h.found = Nothing))
<1> DEFINE q == h.query
           M == Matching(q, row)
           N == Matching(q, row')
           K == Kept(q)
<1>0. N = Matching(q, row)' /\ K = {i \in M \cap N : row[i] = row'[i]} /\ K \in SUBSET Rows
  BY DEF Kept, Matching
<1>1. g = [h EXCEPT !.standing = @ \cap K, !.grown = @ \/ K # N, !.shrunk = @ \/ K # M,
                    !.torn = @ \/ (K # N /\ h.total # Nothing /\ h.found = Nothing)]
  BY <1>0 DEF Noted
<1>2. h \in Lists(q)
  OBVIOUS
<1> HIDE DEF q, M, N, K
<1>3. /\ h.standing \in SUBSET Rows /\ h.grown \in BOOLEAN /\ h.shrunk \in BOOLEAN /\ h.torn \in BOOLEAN
  BY <1>2, FieldsOf
<1>4. PICK a \in SUBSET Rows, b \in BOOLEAN, c \in BOOLEAN, d \in BOOLEAN :
        /\ a = h.standing \cap K /\ b = (h.grown \/ K # N) /\ c = (h.shrunk \/ K # M)
        /\ d = (h.torn \/ (K # N /\ h.total # Nothing /\ h.found = Nothing))
  <2>1. h.standing \cap K \in SUBSET Rows
    BY <1>3
  <2>2. (h.grown \/ K # N) \in BOOLEAN /\ (h.shrunk \/ K # M) \in BOOLEAN
        /\ (h.torn \/ (K # N /\ h.total # Nothing /\ h.found = Nothing)) \in BOOLEAN
    OBVIOUS
  <2> QED  BY <2>1, <2>2
<1>5. g = [h EXCEPT !.standing = a, !.grown = b, !.shrunk = c, !.torn = d]
  BY <1>1, <1>2, <1>4 DEF Lists
<1>6. /\ g \in Lists(q)
      /\ g.pc = h.pc /\ g.query = h.query /\ g.limit = h.limit /\ g.page = h.page
      /\ g.found = h.found /\ g.total = h.total /\ g.got = h.got
      /\ g.standing = a /\ g.grown = b /\ g.shrunk = c /\ g.torn = d
  BY ONLY <1>2, <1>5 DEF Lists
<1> QED  BY <1>0, <1>4, <1>6 DEF q, M, K

LEMMA RowWriteKeeps ==
  ASSUME table' = table, NEW h, Paging(h), h # Idle, NEW g, g = Noted(h, row')
  PROVE  Paging(g)'
<1> DEFINE q == h.query
           M == Matching(q, row)
           N == Matching(q, row)'
           K == Kept(q)
<1>0. h \in Lists(h.query) /\ SoundQuery(table, h.query)
  BY DEF Paging, ListTyped
<1>1. /\ g \in Lists(q)
      /\ g.pc = h.pc /\ g.query = q /\ g.limit = h.limit /\ g.page = h.page
      /\ g.found = h.found /\ g.total = h.total /\ g.got = h.got
      /\ g.standing = h.standing \cap K
      /\ g.grown = (h.grown \/ K # N)
      /\ g.shrunk = (h.shrunk \/ K # M)
      /\ g.torn = (h.torn \/ (K # N /\ h.total # Nothing /\ h.found = Nothing))
  BY <1>0, WithNote
<1>2. K \subseteq M /\ K \subseteq N /\ \A i \in K : row'[i] = row[i]
  BY DEF Kept
<1>3. h.standing \subseteq M
  BY DEF Paging, ListTyped
<1>4. /\ PageOf(g) = PageOf(h) /\ Seen(g) = Seen(h) /\ Skip(g) = Skip(h) /\ Reached(g) = Reached(h)
      /\ Size(h) = Cardinality(M) /\ Size(g)' = Cardinality(M)'
  <2>1. PageOf(g) = PageOf(h) /\ Skip(g) = Skip(h)
    BY <1>1 DEF PageOf, Skip
  <2> QED  BY <1>1, <2>1 DEF Seen, Reached, Size
<1>5. /\ PageOf(g)' = PageOf(g) /\ Seen(g)' = Seen(g) /\ Skip(g)' = Skip(g) /\ Reached(g)' = Reached(g)
  BY DEF PageOf, Seen, Skip, Reached
<1>6. K = M => /\ Cardinality(M) \in Nat /\ Cardinality(M)' \in Nat /\ Cardinality(M) <= Cardinality(M)'
               /\ \A i \in M : /\ Place(q, i) \in Nat /\ Place(q, i)' \in Nat
                               /\ Place(q, i) <= Place(q, i)'
  BY <1>2, PlaceGrows
<1>7. K = N => \A i \in N : /\ Place(q, i) \in Nat /\ Place(q, i)' \in Nat
                            /\ Place(q, i)' <= Place(q, i)
  BY <1>2, PlaceFalls
<1>8. K = M /\ K = N => Sorted(q)' = Sorted(q) /\ Cardinality(M)' = Cardinality(M)
  BY <1>2, SortedStays
<1>9. Skip(h) \in Nat /\ h.limit \in Nat /\ Reached(h) \in Nat
  <2>1. Skip(h) \in Nat /\ h.limit \in Nat
    BY <1>0, SkipIs
  <2> QED  BY <2>1 DEF Reached
<1> HIDE DEF q, M, N, K
<1>10. ListTyped(g)'
  <2>1. SoundQuery(table, q)'
    BY <1>0 DEF SoundQuery, q
  <2>2. (Len(PageOf(g)) <= g.limit)'
    <3>1. Len(PageOf(h)) <= h.limit
      BY DEF Paging, ListTyped
    <3> QED  BY <1>1, <1>4, <1>5, <3>1
  <2>3. (g.standing \subseteq Matching(g.query, row))'
    BY <1>1, <1>2 DEF N
  <2>4. h.pc = "listed" => h.found = Nothing /\ h.total = Nothing
    BY DEF Paging, ListTyped
  <2> QED  BY <1>1, <2>1, <2>2, <2>3, <2>4 DEF ListTyped
<1>11. OnlyMatching(g)'
  <2>1. ~ h.shrunk => Seen(h) \subseteq M
    BY DEF Paging, OnlyMatching, M, q
  <2>2. ~ g.shrunk => Seen(g) \subseteq N
    BY <1>1, <1>2, <1>4, <2>1
  <2> QED  BY <1>1, <1>5, <2>2 DEF OnlyMatching, N
<1>12. StandingAhead(g)'
  <2>1. ASSUME ~ g.shrunk, g.pc = "page", NEW i \in g.standing, i \notin Seen(g)
        PROVE  Place(q, i)' > Reached(g)
    <3>1. i \in h.standing /\ i \notin Seen(h) /\ i \in M /\ ~ h.shrunk /\ K = M /\ h.pc = "page"
      BY <1>1, <1>3, <1>4, <2>1
    <3>2. Place(q, i) > Reached(h)
      BY <3>1 DEF Paging, StandingAhead, q
    <3> QED  BY <1>4, <1>6, <1>9, <3>1, <3>2
  <2> QED  BY <1>1, <1>5, <2>1 DEF StandingAhead
<1>13. MoreToCome(g)'
  <2>1. ASSUME ~ g.shrunk, ~ g.torn, g.pc = "page", g.found = Nothing, g.total # Nothing
        PROVE  g.total = Size(g)'
    <3>1. ~ h.shrunk /\ ~ h.torn /\ h.pc = "page" /\ h.found = Nothing /\ h.total # Nothing /\ K = M /\ K = N
      BY <1>1, <2>1
    <3>2. h.total = Size(h)
      BY <3>1 DEF Paging, MoreToCome
    <3> QED  BY <1>1, <1>4, <1>8, <3>1, <3>2
  <2>2. ASSUME ~ g.shrunk, ~ g.torn, g.pc = "page", g.found # Nothing
        PROVE  g.standing \subseteq Seen(g) \/ Skip(g) + Len(g.found) < Announced(g)'
    <3>1. ~ h.shrunk /\ ~ h.torn /\ h.pc = "page" /\ h.found # Nothing /\ K = M
      BY <1>1, <2>2
    <3>2. h.standing \subseteq Seen(h) \/ Skip(h) + Len(h.found) < Announced(h)
      BY <3>1 DEF Paging, MoreToCome
    <3>3. CASE h.standing \subseteq Seen(h)
      BY <1>1, <1>4, <3>3
    <3>4. CASE Skip(h) + Len(h.found) < Announced(h)
      <4>1. PICK p \in Nat : p = Skip(h) + Len(h.found)
        <5>1. h.found \in Seq(Rows)
          BY <1>0, <3>1, FieldsOf
        <5>2. Len(h.found) \in Nat
          BY <5>1
        <5> QED  BY <1>9, <5>2
      <4>2. CASE h.total = Nothing
        <5>1. Announced(h) = Cardinality(M) /\ Announced(g)' = Cardinality(M)'
          BY <1>1, <1>4, <4>2 DEF Announced
        <5>2. p < Cardinality(M)'
          BY <1>6, <3>1, <3>4, <4>1, <5>1
        <5> QED  BY <1>1, <1>4, <4>1, <5>1, <5>2
      <4>3. CASE h.total # Nothing
        <5>1. Announced(h) = h.total /\ Announced(g)' = h.total
          BY <1>1, <4>3 DEF Announced
        <5> QED  BY <1>1, <1>4, <3>4, <5>1
      <4> QED  BY <4>2, <4>3
    <3> QED  BY <3>2, <3>3, <3>4
  <2>3. ASSUME ~ g.shrunk, ~ g.torn, g.pc = "listed" PROVE g.standing \subseteq Range(g.got)
    <3>1. h.standing \subseteq Range(h.got)
      BY <1>1, <2>3 DEF Paging, MoreToCome
    <3> QED  BY <1>1, <3>1
  <2>4. Range(g.got)' = Range(g.got)
    BY DEF Range
  <2> QED  BY <1>5, <2>1, <2>2, <2>3, <2>4 DEF MoreToCome
<1>14. SeenOnce(g)'
  <2>1. SeenOnce(g)
    BY <1>1, <1>4 DEF Paging, SeenOnce
  <2> QED  BY <1>5, <2>1 DEF SeenOnce, Range, IsInjective
<1>15. SeenBehind(g)'
  <2>1. ASSUME ~ g.grown, g.pc = "page", NEW i \in Seen(g) \cap N PROVE Place(q, i)' <= Reached(g)
    <3>1. i \in Seen(h) \cap M /\ ~ h.grown /\ K = N /\ h.pc = "page"
      BY <1>1, <1>2, <1>4, <2>1
    <3>2. Place(q, i) <= Reached(h)
      BY <3>1 DEF Paging, SeenBehind, q, M
    <3> QED  BY <1>4, <1>7, <1>9, <2>1, <3>1, <3>2
  <2> QED  BY <1>1, <1>5, <2>1 DEF SeenBehind, N
<1>16. PagesInOrder(g)'
  <2>1. ASSUME ~ g.grown, ~ g.shrunk, g.pc = "page"
        PROVE  /\ ~ h.grown /\ ~ h.shrunk /\ h.pc = "page"
               /\ Sorted(g.query)' = Sorted(h.query) /\ Size(g)' = Size(h)
    <3>1. ~ h.grown /\ ~ h.shrunk /\ h.pc = "page" /\ K = M /\ K = N
      BY <1>1, <2>1
    <3>2. Sorted(g.query)' = Sorted(q)'
      BY <1>1
    <3>3. Sorted(q) = Sorted(h.query)
      BY DEF q
    <3> QED  BY <1>4, <1>8, <3>1, <3>2, <3>3
  <2>2. PagesInOrder(h)
    BY DEF Paging
  <2> QED  BY <1>1, <1>4, <1>5, <2>1, <2>2 DEF PagesInOrder, Lower
<1>17. WholeList(g)'
  <2>1. ASSUME ~ g.grown, ~ g.shrunk, g.pc = "listed" PROVE g.got = Sorted(g.query)'
    <3>1. ~ h.grown /\ ~ h.shrunk /\ h.pc = "listed" /\ K = M /\ K = N
      BY <1>1, <2>1
    <3>2. h.got = Sorted(q)
      BY <3>1 DEF Paging, WholeList, q
    <3>3. Sorted(g.query)' = Sorted(q)'
      BY <1>1
    <3> QED  BY <1>1, <1>8, <3>1, <3>2, <3>3
  <2> QED  BY <2>1 DEF WholeList
<1> QED  BY <1>10, <1>11, <1>12, <1>13, <1>14, <1>15, <1>16, <1>17 DEF Paging

(* The lists on their own.                                                 *)
ListingsSpec == HandlersInit /\ ListingsInit /\ [][ListingsNext]_<<handlerVars, listingVars>>

LEMMA PagingStays ==
  ASSUME UNCHANGED listingVars, NEW h, Paging(h)
  PROVE  Paging(h)'
<1>1. table' = table /\ row' = row
  BY DEF listingVars
<1>2. /\ Matching(h.query, row)' = Matching(h.query, row)
      /\ Sorted(h.query)' = Sorted(h.query)
      /\ \A i : Place(h.query, i)' = Place(h.query, i)
  <2>1. Matching(h.query, row)' = Matching(h.query, row)
    BY <1>1 DEF Matching, Selects
  <2>2. \A i, j : SortedBefore(h.query, i, j)' <=> SortedBefore(h.query, i, j)
    BY <1>1, OrderStays
  <2>3. \A i : Place(h.query, i)' = Place(h.query, i)
    BY <2>1, <2>2 DEF Place
  <2>4. Sorted(h.query)' = Sorted(h.query)
    BY <1>1, SortedStays, <2>1
  <2> QED  BY <2>1, <2>3, <2>4
<1>3. /\ PageOf(h)' = PageOf(h) /\ Seen(h)' = Seen(h) /\ Skip(h)' = Skip(h) /\ Reached(h)' = Reached(h)
      /\ Size(h)' = Size(h) /\ Announced(h)' = Announced(h) /\ Range(h.got)' = Range(h.got)
  <2>1. Size(h)' = Size(h)
    BY <1>2 DEF Size
  <2> QED  BY <2>1 DEF PageOf, Seen, Skip, Reached, Announced, Range
<1>4. ListTyped(h)' /\ OnlyMatching(h)'
  <2>1. SoundQuery(table, h.query)' <=> SoundQuery(table, h.query)
    BY <1>1 DEF SoundQuery
  <2>2. ListTyped(h) /\ OnlyMatching(h)
    BY DEF Paging
  <2> QED  BY <1>2, <1>3, <2>1, <2>2 DEF ListTyped, OnlyMatching
<1>5. StandingAhead(h)' /\ MoreToCome(h)'
  <2>1. StandingAhead(h) /\ MoreToCome(h)
    BY DEF Paging
  <2> QED  BY <1>2, <1>3, <2>1 DEF StandingAhead, MoreToCome
<1>6. SeenOnce(h)' /\ SeenBehind(h)'
  <2>1. SeenOnce(h) /\ SeenBehind(h)
    BY DEF Paging
  <2>2. SeenOnce(h)' <=> SeenOnce(h)
    BY <1>3 DEF SeenOnce, IsInjective, Range
  <2> QED  BY <1>2, <1>3, <2>1, <2>2 DEF SeenBehind
<1>7. PagesInOrder(h)' /\ WholeList(h)'
  <2>1. PagesInOrder(h) /\ WholeList(h)
    BY DEF Paging
  <2> QED  BY <1>2, <1>3, <2>1 DEF PagesInOrder, WholeList, Lower
<1> QED  BY <1>4, <1>5, <1>6, <1>7 DEF Paging

LEMMA PageReading ==
  ASSUME ListingsInv, NEW r \in Slots, At(r, {"page"})
  PROVE  req[r] # Idle /\ Paging(req[r]) /\ req[r].pc = "page"
  BY DEF ListingsInv, At, Idle

(* One list goes on.                                                       *)
LEMMA OneGoesOn ==
  ASSUME ListingsInv, UNCHANGED listingVars, NEW r \in Slots, NEW g, Paging(g),
         req' = [req EXCEPT ![r] = g]
  PROVE  ListingsInv'
<1>1. RowsStored'
  BY DEF ListingsInv, RowsStored, listingVars
<1>2. DOMAIN req' = Slots
  BY DEF ListingsInv
<1>3. ASSUME NEW t \in Slots, req'[t] # Idle PROVE Paging(req[t])'
  <2>1. CASE t = r
    <3>1. req'[t] = g
      BY <2>1 DEF ListingsInv
    <3>2. Paging(g)'
      BY PagingStays
    <3> QED  BY <3>1, <3>2
  <2>2. CASE t # r
    <3>1. PICK h : h = req[t]
      OBVIOUS
    <3>2. req'[t] = h
      BY <2>2, <3>1 DEF ListingsInv
    <3>3. Paging(h)
      BY <1>3, <3>1, <3>2 DEF ListingsInv
    <3>4. Paging(h)'
      BY <3>3, PagingStays
    <3> QED  BY <3>2, <3>4
  <2> QED  BY <2>1, <2>2
<1> QED  BY <1>1, <1>2, <1>3 DEF ListingsInv

LEMMA InitListings == HandlersInit /\ ListingsInit => ListingsInv
<1> SUFFICES ASSUME HandlersInit, ListingsInit PROVE ListingsInv
  OBVIOUS
<1>1. table \in Tables
  BY DEF ListingsInit
<1>2. PICK n \in Rows : \E stored \in [{i \in Rows : i < n} -> Docs[table]] :
        row = [i \in Rows |-> IF i < n THEN stored[i] ELSE Nothing]
  BY DEF ListingsInit
<1>3. RowsStored
  BY <1>1, <1>2 DEF RowsStored
<1> QED  BY <1>3 DEF HandlersInit, ListingsInv

LEMMA WriteRowStep ==
  ASSUME ListingsInv, NEW i \in Rows, NEW d \in Docs[table] \cup {Nothing}, WriteRow(i, d)
  PROVE  ListingsInv'
<1>1. table' = table /\ row' = [row EXCEPT ![i] = d] /\ req' = [r \in Slots |-> Noted(req[r], row')]
  BY DEF WriteRow
<1>2. RowsStored'
  BY <1>1 DEF ListingsInv, RowsStored
<1>3. ASSUME NEW t \in Slots, req'[t] # Idle PROVE Paging(req[t])'
  <2>1. PICK h, g : h = req[t] /\ g = req'[t]
    OBVIOUS
  <2>2. g = Noted(h, row')
    BY <1>1, <2>1
  <2>3. h # Idle
    BY <1>3, <2>1, <2>2 DEF Noted
  <2>4. Paging(h)
    BY <2>1, <2>3 DEF ListingsInv
  <2>5. Paging(g)'
    BY <1>1, <2>2, <2>3, <2>4, RowWriteKeeps
  <2> QED  BY <2>1, <2>5
<1> QED  BY <1>1, <1>2, <1>3 DEF ListingsInv

LEMMA NextListings == ListingsInv /\ [ListingsNext]_<<handlerVars, listingVars>> => ListingsInv'
<1> SUFFICES ASSUME ListingsInv, [ListingsNext]_<<handlerVars, listingVars>> PROVE ListingsInv'
  OBVIOUS
<1>0. RowsStored /\ DOMAIN req = Slots
  BY DEF ListingsInv
<1>1. ASSUME NEW i \in Rows, NEW d \in Docs[table] \cup {Nothing}, WriteRow(i, d) PROVE ListingsInv'
  BY <1>1, WriteRowStep
<1>2. ASSUME NEW r \in Slots, NEW a \in Asks, NEW limit \in Limits, TableOf[a.list] = table,
             OpenList(r, QueryOf(a), limit)
      PROVE  ListingsInv'
  <2>1. PICK h : h = [pc |-> "page", query |-> QueryOf(a), limit |-> PageSize(limit), page |-> 1,
              found |-> Nothing, total |-> Nothing, got |-> <<>>,
              standing |-> Matching(QueryOf(a), row), grown |-> FALSE, shrunk |-> FALSE, torn |-> FALSE]
    OBVIOUS
  <2>2. Paging(h)
    BY <1>0, <1>2, <2>1, OpenHolds
  <2>3. req' = [req EXCEPT ![r] = h] /\ UNCHANGED listingVars
    BY <1>2, <2>1 DEF OpenList, Begin
  <2> QED  BY <2>2, <2>3, OneGoesOn
<1>3. ASSUME NEW r \in Slots, FindRows(r) PROVE ListingsInv'
  <2>1. At(r, {"page"}) /\ req[r].found = Nothing /\ UNCHANGED listingVars
        /\ req' = [req EXCEPT ![r].found = Slice(Sorted(req[r].query), Skip(req[r]), req[r].limit)]
    BY <1>3 DEF FindRows, Skip
  <2>2. PICK h, g : h = req[r] /\ g = [h EXCEPT !.found = Slice(Sorted(h.query), Skip(h), h.limit)]
    OBVIOUS
  <2>3. Paging(h) /\ h.pc = "page" /\ h.found = Nothing
    BY <2>1, <2>2, PageReading
  <2>4. Paging(g)
    BY <1>0, <2>2, <2>3, FindKeeps
  <2>5. req' = [req EXCEPT ![r] = g]
    BY <1>0, <2>1, <2>2
  <2> QED  BY <2>1, <2>4, <2>5, OneGoesOn
<1>4. ASSUME NEW r \in Slots, CountRows(r) PROVE ListingsInv'
  <2>1. At(r, {"page"}) /\ req[r].total = Nothing /\ UNCHANGED listingVars
        /\ req' = [req EXCEPT ![r].total = Size(req[r])]
    BY <1>4 DEF CountRows, Size
  <2>2. PICK h, g : h = req[r] /\ g = [h EXCEPT !.total = Size(h)]
    OBVIOUS
  <2>3. Paging(h) /\ h.pc = "page" /\ h.total = Nothing
    BY <2>1, <2>2, PageReading
  <2>4. Paging(g)
    BY <1>0, <2>2, <2>3, CountKeeps
  <2>5. req' = [req EXCEPT ![r] = g]
    BY <1>0, <2>1, <2>2
  <2> QED  BY <2>1, <2>4, <2>5, OneGoesOn
<1>5. ASSUME NEW r \in Slots, AnswerPage(r) PROVE ListingsInv'
  <2>1. PICK h, more : h = req[r] /\ more = (Skip(h) + Len(h.found) < h.total)
    OBVIOUS
  <2>2. At(r, {"page"}) /\ Nothing \notin {req[r].found, req[r].total} /\ UNCHANGED listingVars
    BY <1>5 DEF AnswerPage
  <2>3. Paging(h) /\ h.pc = "page" /\ h.found # Nothing /\ h.total # Nothing
    BY <2>1, <2>2, PageReading
  <2>4. PICK g : g = Answered(h, more)
    OBVIOUS
  <2>5. Paging(g)
    BY <1>0, <2>1, <2>3, <2>4, PageAnswerKeeps
  <2>6. req' = [req EXCEPT ![r] = g]
    BY <1>0, <1>5, <2>1, <2>4 DEF AnswerPage, Answered, Skip
  <2> QED  BY <2>2, <2>5, <2>6, OneGoesOn
<1>6. CASE UNCHANGED <<handlerVars, listingVars>>
  <2>1. UNCHANGED listingVars /\ req' = req
    BY <1>6 DEF handlerVars
  <2>2. RowsStored'
    BY <1>0, <2>1 DEF RowsStored, listingVars
  <2>3. ASSUME NEW t \in Slots, req'[t] # Idle PROVE Paging(req[t])'
    <3>1. PICK h : h = req[t]
      OBVIOUS
    <3>2. req'[t] = h /\ Paging(h)
      BY <2>1, <2>3, <3>1 DEF ListingsInv
    <3>3. Paging(h)'
      BY <2>1, <3>2, PagingStays
    <3> QED  BY <3>2, <3>3
  <2> QED  BY <1>0, <2>1, <2>2, <2>3 DEF ListingsInv
<1> QED  BY <1>1, <1>2, <1>3, <1>4, <1>5, <1>6 DEF ListingsNext

-----------------------------------------------------------------------------
LEMMA ListingsTypedNow == ListingsInv => ListingsTypeOK
<1> SUFFICES ASSUME ListingsInv PROVE ListingsTypeOK
  OBVIOUS
<1>1. ASSUME NEW r \in Slots, At(r, {"page"}), req[r].found # Nothing PROVE Len(req[r].found) <= MaxLimit
  <2>1. PICK h : h = req[r]
    OBVIOUS
  <2>2. Paging(h) /\ h \in Lists(h.query) /\ Len(PageOf(h)) <= h.limit
    BY <1>1, <2>1, PageReading DEF Paging, ListTyped
  <2>3. h.found \in Seq(Rows) /\ PageOf(h) = h.found
    BY <1>1, <2>1, <2>2, FieldsOf DEF PageOf
  <2>4. Len(h.found) \in Nat /\ h.limit \in Nat /\ h.limit <= MaxLimit /\ MaxLimit \in Nat
    BY <2>2, <2>3, SkipIs, ListingConstants
  <2> QED  BY <2>1, <2>2, <2>3, <2>4
<1> QED  BY <1>1 DEF ListingsInv, RowsStored, ListingsTypeOK

(* The rows of a collection keep their type, and no page is longer than    *)
(* MAX_LIMIT whatever limit is asked for.                                  *)
THEOREM ListingsTyped == ListingsSpec => []ListingsTypeOK
<1>1. ListingsInv /\ [ListingsNext]_<<handlerVars, listingVars>> => ListingsInv'
  BY NextListings
<1> QED  BY <1>1, InitListings, ListingsTypedNow, PTL DEF ListingsSpec

LEMMA PagesSoundNow == ListingsInv => PagesSound
<1> SUFFICES ASSUME ListingsInv PROVE PagesSound
  OBVIOUS
<1>0. ASSUME NEW r \in Listed PROVE r \in Slots /\ Paging(req[r]) /\ req[r].pc = "listed"
  BY DEF Listed, At, Idle, ListingsInv
<1>1. NothingSkipped
  BY <1>0 DEF NothingSkipped, Paging, MoreToCome
<1>2. NothingRepeated
  BY <1>0 DEF NothingRepeated, Paging, SeenOnce, WholeList
<1>3. ASSUME NEW r \in Listed, ~ req[r].shrunk, NEW i \in Range(req[r].got)
      PROVE  /\ "deleted" \in DOMAIN row[i] => ~ row[i].deleted
             /\ req[r].query.owner # Nothing => row[i].userId = req[r].query.owner
  <2>1. PICK q : q = req[r].query
    OBVIOUS
  <2>2. SoundQuery(table, q) /\ i \in Matching(q, row)
    BY <1>0, <1>3, <2>1 DEF Paging, ListTyped, OnlyMatching, Seen
  <2>3. row[i] \in Docs[table] /\ table \in Tables /\ \A e \in q.equals : row[i][e[1]] = e[2]
    BY <2>2 DEF ListingsInv, RowsStored, Matching, Selects
  <2>4. ASSUME "deleted" \in DOMAIN row[i] PROVE ~ row[i].deleted
    <3>1. table \in SoftDeleted
      BY <2>3, <2>4, ListingConstants DEF RowDoc
    <3>2. <<"deleted", FALSE>> \in q.equals
      BY <2>2, <3>1 DEF SoundQuery
    <3>3. row[i]["deleted"] = FALSE
      BY <2>3, <3>2
    <3> QED  BY <3>3
  <2>5. ASSUME q.owner # Nothing PROVE row[i].userId = q.owner
    <3>1. <<"userId", q.owner>> \in q.equals
      BY <2>2, <2>5 DEF SoundQuery
    <3>2. row[i]["userId"] = q.owner
      BY <2>3, <3>1
    <3> QED  BY <3>2
  <2> QED  BY <2>1, <2>4, <2>5
<1>4. NothingForeign
  BY <1>3 DEF NothingForeign
<1> QED  BY <1>1, <1>2, <1>4 DEF PagesSound

(* Whoever pages through a list misses no row that is in it all the time,  *)
(* sees none twice and none that is not theirs, whatever the collection,   *)
(* filter, sort and page size; with the exceptions that PagesSound makes   *)
(* for changes to the rows meanwhile.                                      *)
THEOREM PagesAreSound == ListingsSpec => []PagesSound
<1>1. ListingsInv /\ [ListingsNext]_<<handlerVars, listingVars>> => ListingsInv'
  BY NextListings
<1> QED  BY <1>1, InitListings, PagesSoundNow, PTL DEF ListingsSpec

==============================================================================
