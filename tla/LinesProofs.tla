----------------------------- MODULE LinesProofs -----------------------------
(***************************************************************************)
(* The laws of Only and Added, for lists of any length.  Both are folds,   *)
(* and what a fold computes takes an induction over the list; the theorem  *)
(* of induction has an operator for a parameter, so it is taken here for a *)
(* set of naturals, whose least stranger would have its predecessor in it. *)
(***************************************************************************)
EXTENDS Lines, WellFoundedInduction, TLAPS

(* Induction for a set of naturals, from the least-number principle.       *)
LEMMA NatSetInduction ==
  ASSUME NEW T, 0 \in T, \A n \in Nat : n \in T => n + 1 \in T
  PROVE  Nat \subseteq T
<1> DEFINE B == Nat \ T
<1>1. SUFFICES ASSUME B # {} PROVE FALSE
  OBVIOUS
<1>2. PICK x \in B : \A y \in B : <<y, x>> \notin OpToRel(<, Nat)
  BY <1>1, NatLessThanWellFounded, WFMin
<1>3. \A y \in B : ~ (y < x)
  BY <1>2 DEF OpToRel
<1>4. x \in Nat /\ x # 0
  OBVIOUS
<1>5. x - 1 \in Nat /\ x - 1 < x /\ (x - 1) + 1 = x
  BY <1>4
<1>6. x - 1 \in T
  BY <1>3, <1>5
<1> QED  BY <1>5, <1>6

Biggest(t) == CHOOSE x \in t : \A y \in t : x >= y

LEMMA BiggestIn ==
  ASSUME NEW n \in Nat, NEW t \in SUBSET (1 .. n), t # {}
  PROVE  Biggest(t) \in t
<1> DEFINE T == {m \in Nat : \A s \in SUBSET (1 .. m) : s # {} => \E x \in s : \A y \in s : x >= y}
<1>1. 0 \in T
  <2>1. 1 .. 0 = {}
    OBVIOUS
  <2> QED  BY <2>1
<1>2. ASSUME NEW m \in Nat, m \in T PROVE m + 1 \in T
  <2> SUFFICES ASSUME NEW s \in SUBSET (1 .. (m + 1)), s # {} PROVE \E x \in s : \A y \in s : x >= y
    OBVIOUS
  <2>1. CASE m + 1 \in s
    BY <2>1
  <2>2. CASE m + 1 \notin s
    <3>1. s \in SUBSET (1 .. m)
      BY <2>2
    <3> QED  BY <1>2, <3>1
  <2> QED  BY <2>1, <2>2
<1>3. n \in T
  <2> HIDE DEF T
  <2> QED  BY <1>1, <1>2, NatSetInduction
<1> QED  BY <1>3 DEF Biggest

LEMMA BiggestLast ==
  ASSUME NEW n \in Nat \ {0}
  PROVE  Biggest(1 .. n) = n /\ (1 .. n) \ {n} = 1 .. (n - 1)
  BY DEF Biggest

(* A function on the sets of the first n indices that folds.               *)
IsFold(g, n, b, st) ==
  \A t \in SUBSET (1 .. n) :
    g[t] = IF t = {} THEN b ELSE st[Biggest(t)][g[t \ {Biggest(t)}]]

HasFold(n, B, b, st) == \E g \in [SUBSET (1 .. n) -> B] : IsFold(g, n, b, st)

(* There is one: the recursion over the indices is well defined.           *)
LEMMA FoldExists ==
  ASSUME NEW n \in Nat, NEW B, NEW b \in B, NEW st \in [1 .. n -> [B -> B]]
  PROVE  HasFold(n, B, b, st)
<1> DEFINE T == {m \in Nat : m <= n => HasFold(m, B, b, st)}
<1>1. 0 \in T
  <2>1. SUBSET (1 .. 0) = {{}}
    OBVIOUS
  <2>2. [s \in {{}} |-> b] \in [SUBSET (1 .. 0) -> B]
    BY <2>1
  <2>3. IsFold([s \in {{}} |-> b], 0, b, st)
    BY <2>1 DEF IsFold
  <2> QED  BY <2>2, <2>3 DEF HasFold
<1>2. ASSUME NEW m \in Nat, m \in T PROVE m + 1 \in T
  <2>0. SUFFICES ASSUME m + 1 <= n
                 PROVE  HasFold(m + 1, B, b, st)
    BY <1>2
  <2>1. PICK g \in [SUBSET (1 .. m) -> B] : IsFold(g, m, b, st)
    <3>1. HasFold(m, B, b, st)
      BY <1>2, <2>0
    <3> QED  BY <3>1 DEF HasFold
  <2> DEFINE h == [t \in SUBSET (1 .. (m + 1)) |->
                     IF m + 1 \in t THEN st[m + 1][g[t \ {m + 1}]] ELSE g[t]]
  <2>2. ASSUME NEW t \in SUBSET (1 .. (m + 1)), m + 1 \in t
        PROVE  /\ t \ {m + 1} \in SUBSET (1 .. m) /\ Biggest(t) = m + 1
               /\ h[t] = st[m + 1][g[t \ {m + 1}]]
    <3>1. m + 1 \in t /\ (\A y \in t : m + 1 >= y) /\ \A x \in t : x >= m + 1 => x = m + 1
      BY <2>2
    <3>2. Biggest(t) = m + 1
      BY <3>1 DEF Biggest
    <3>3. t \ {m + 1} \in SUBSET (1 .. m)
      OBVIOUS
    <3> QED  BY <2>2, <3>2, <3>3
  <2>3. ASSUME NEW t \in SUBSET (1 .. (m + 1)), m + 1 \notin t
        PROVE  t \in SUBSET (1 .. m) /\ h[t] = g[t]
    BY <2>3
  <2>4. m + 1 \in 1 .. n
    BY <2>0
  <2>5. h \in [SUBSET (1 .. (m + 1)) -> B]
    <3>1. ASSUME NEW t \in SUBSET (1 .. (m + 1)) PROVE h[t] \in B
      BY <2>1, <2>2, <2>3, <2>4
    <3> QED  BY <3>1
  <2> HIDE DEF h
  <2>6. ASSUME NEW t \in SUBSET (1 .. (m + 1))
        PROVE  h[t] = IF t = {} THEN b ELSE st[Biggest(t)][h[t \ {Biggest(t)}]]
    <3>1. CASE m + 1 \in t
      <4>1. t \ {m + 1} \in SUBSET (1 .. (m + 1)) /\ m + 1 \notin t \ {m + 1}
        OBVIOUS
      <4> QED  BY <2>2, <2>3, <3>1, <4>1
    <3>2. CASE m + 1 \notin t
      <4>1. t \in SUBSET (1 .. m) /\ h[t] = g[t]
        BY <2>3, <3>2
      <4>2. ASSUME t # {} PROVE h[t \ {Biggest(t)}] = g[t \ {Biggest(t)}]
        <5>1. t \ {Biggest(t)} \in SUBSET (1 .. (m + 1)) /\ m + 1 \notin t \ {Biggest(t)}
          BY <3>2
        <5> QED  BY <2>3, <5>1
      <4> QED  BY <2>1, <4>1, <4>2 DEF IsFold
    <3> QED  BY <3>1, <3>2
  <2>7. IsFold(h, m + 1, b, st)
    BY <2>6 DEF IsFold
  <2> QED  BY <2>5, <2>7 DEF HasFold
<1>3. n \in T
  <2> HIDE DEF T
  <2> QED  BY <1>1, <1>2, NatSetInduction
<1> QED  BY <1>3

(* A sum, as the running totals of the amounts.                            *)
Running(P, f, n) ==
  /\ P \in [0 .. n -> Nat]
  /\ P[0] = 0
  /\ \A i \in 1 .. n : P[i] = P[i - 1] + f[i]

LEMMA AddedRuns ==
  ASSUME NEW n \in Nat, NEW f \in [1 .. n -> Nat]
  PROVE  \E P : Running(P, f, n) /\ Added(f) = P[n]
<1> DEFINE Sums(g) == g = [t \in SUBSET (1 .. n) |->
                            IF t = {} THEN 0 ELSE g[t \ {Biggest(t)}] + f[Biggest(t)]]
           st == [i \in 1 .. n |-> [v \in Nat |-> v + f[i]]]
           it == CHOOSE g : Sums(g)
           P == [i \in 0 .. n |-> it[1 .. i]]
<1>1. \E g : Sums(g)
  <2>1. st \in [1 .. n -> [Nat -> Nat]]
    OBVIOUS
  <2>2. \A i \in 1 .. n, v \in Nat : st[i][v] = v + f[i]
    OBVIOUS
  <2> HIDE DEF st
  <2>3. PICK g \in [SUBSET (1 .. n) -> Nat] : IsFold(g, n, 0, st)
    BY <2>1, FoldExists DEF HasFold
  <2>4. ASSUME NEW t \in SUBSET (1 .. n), t # {} PROVE g[t] = g[t \ {Biggest(t)}] + f[Biggest(t)]
    <3>1. Biggest(t) \in 1 .. n /\ t \ {Biggest(t)} \in SUBSET (1 .. n)
      BY <2>4, BiggestIn
    <3>2. g[t \ {Biggest(t)}] \in Nat
      BY <3>1
    <3> QED  BY <2>2, <2>3, <2>4, <3>1, <3>2 DEF IsFold
  <2>5. g[{}] = 0
    BY <2>3 DEF IsFold
  <2> QED  BY <2>4, <2>5
<1>2. Sums(it)
  BY <1>1
<1>3. Added(f) = it[1 .. n]
  BY DEF Added, FoldLeft, MapThenFoldSet, Max, Biggest
<1> HIDE DEF it
<1>4. it[1 .. 0] = 0
  <2>1. 1 .. 0 = {} /\ {} \in SUBSET (1 .. n)
    OBVIOUS
  <2> QED  BY <1>2, <2>1
<1>5. ASSUME NEW i \in 1 .. n PROVE it[1 .. i] = it[1 .. (i - 1)] + f[i]
  <2>1. 1 .. i \in SUBSET (1 .. n) /\ 1 .. i # {} /\ i \in Nat \ {0}
    OBVIOUS
  <2>2. Biggest(1 .. i) = i /\ (1 .. i) \ {i} = 1 .. (i - 1)
    BY <2>1, BiggestLast
  <2> QED  BY <1>2, <2>1, <2>2
<1>6. \A i \in 0 .. n : it[1 .. i] \in Nat
  <2> DEFINE T == {i \in Nat : i <= n => it[1 .. i] \in Nat}
  <2>1. 0 \in T
    BY <1>4
  <2>2. ASSUME NEW i \in Nat, i \in T PROVE i + 1 \in T
    <3>1. ASSUME i + 1 <= n PROVE it[1 .. (i + 1)] \in Nat
      <4>1. i + 1 \in 1 .. n /\ (i + 1) - 1 = i /\ it[1 .. i] \in Nat
        BY <2>2, <3>1
      <4> QED  BY <1>5, <4>1
    <3> QED  BY <3>1
  <2> HIDE DEF T
  <2>3. Nat \subseteq T
    BY <2>1, <2>2, NatSetInduction
  <2> QED  BY <2>3 DEF T
<1>7. Running(P, f, n)
  BY <1>4, <1>5, <1>6 DEF Running
<1> QED  BY <1>3, <1>7

(* A filter, as what the first lines have left.                            *)
Keeping(P, s, S, A) ==
  /\ P \in [0 .. Len(s) -> Seq(A)]
  /\ P[0] = << >>
  /\ \A i \in 1 .. Len(s) : P[i] = IF s[i] \in S THEN Append(P[i - 1], s[i]) ELSE P[i - 1]

LEMMA OnlyKeeps ==
  ASSUME NEW A, NEW s \in Seq(A), NEW S
  PROVE  \E P : Keeping(P, s, S, A) /\ Only(s, S) = P[Len(s)]
<1> DEFINE n == Len(s)
           Filters(g) == g = [t \in SUBSET (1 .. n) |->
                               IF t = {} THEN << >>
                               ELSE IF s[Biggest(t)] \in S
                                 THEN Append(g[t \ {Biggest(t)}], s[Biggest(t)])
                                 ELSE g[t \ {Biggest(t)}]]
           st == [i \in 1 .. n |-> [v \in Seq(A) |-> IF s[i] \in S THEN Append(v, s[i]) ELSE v]]
           it == CHOOSE g : Filters(g)
           P == [i \in 0 .. n |-> it[1 .. i]]
<1>0. n \in Nat /\ DOMAIN s = 1 .. n /\ \A i \in 1 .. n : s[i] \in A
  OBVIOUS
<1>1. \E g : Filters(g)
  <2>1. st \in [1 .. n -> [Seq(A) -> Seq(A)]]
    <3>1. ASSUME NEW i \in 1 .. n, NEW v \in Seq(A)
          PROVE  (IF s[i] \in S THEN Append(v, s[i]) ELSE v) \in Seq(A)
      BY <1>0
    <3> QED  BY <3>1
  <2>2. \A i \in 1 .. n, v \in Seq(A) : st[i][v] = IF s[i] \in S THEN Append(v, s[i]) ELSE v
    OBVIOUS
  <2> HIDE DEF st, n
  <2>3. << >> \in Seq(A)
    OBVIOUS
  <2>4. PICK g \in [SUBSET (1 .. n) -> Seq(A)] : IsFold(g, n, << >>, st)
    BY <1>0, <2>1, <2>3, FoldExists DEF HasFold
  <2>5. ASSUME NEW t \in SUBSET (1 .. n), t # {}
        PROVE  g[t] = IF s[Biggest(t)] \in S
                        THEN Append(g[t \ {Biggest(t)}], s[Biggest(t)])
                        ELSE g[t \ {Biggest(t)}]
    <3>1. Biggest(t) \in 1 .. n /\ t \ {Biggest(t)} \in SUBSET (1 .. n)
      BY <1>0, <2>5, BiggestIn
    <3>2. g[t \ {Biggest(t)}] \in Seq(A)
      BY <3>1
    <3>3. g[t] = st[Biggest(t)][g[t \ {Biggest(t)}]]
      BY <2>4, <2>5 DEF IsFold
    <3> QED  BY <2>2, <3>1, <3>2, <3>3
  <2>6. g[{}] = << >>
    BY <2>4 DEF IsFold
  <2>7. g = [t \in SUBSET (1 .. n) |->
                IF t = {} THEN << >>
                ELSE IF s[Biggest(t)] \in S
                  THEN Append(g[t \ {Biggest(t)}], s[Biggest(t)])
                  ELSE g[t \ {Biggest(t)}]]
    <3>1. \A t \in SUBSET (1 .. n) :
            g[t] = IF t = {} THEN << >>
                   ELSE IF s[Biggest(t)] \in S
                     THEN Append(g[t \ {Biggest(t)}], s[Biggest(t)])
                     ELSE g[t \ {Biggest(t)}]
      BY <2>5, <2>6
    <3> QED  BY <3>1, Zenon
  <2>8. Filters(g)
    BY <2>7
  <2> HIDE DEF Filters
  <2> QED  BY <2>8
<1>2. Filters(it)
  BY <1>1
<1>3. Only(s, S) = it[1 .. n]
  BY <1>0 DEF Only, FoldLeft, MapThenFoldSet, Max, Biggest
<1> HIDE DEF it, n
<1>4. it[1 .. 0] = << >>
  <2>1. 1 .. 0 = {} /\ {} \in SUBSET (1 .. n)
    OBVIOUS
  <2> QED  BY <1>2, <2>1
<1>5. ASSUME NEW i \in 1 .. n
      PROVE  it[1 .. i] = IF s[i] \in S THEN Append(it[1 .. (i - 1)], s[i]) ELSE it[1 .. (i - 1)]
  <2>1. 1 .. i \in SUBSET (1 .. n) /\ 1 .. i # {} /\ i \in Nat \ {0}
    BY <1>0
  <2>2. Biggest(1 .. i) = i /\ (1 .. i) \ {i} = 1 .. (i - 1)
    BY <2>1, BiggestLast
  <2> QED  BY <1>2, <2>1, <2>2
<1>6. \A i \in 0 .. n : it[1 .. i] \in Seq(A)
  <2> DEFINE T == {i \in Nat : i <= n => it[1 .. i] \in Seq(A)}
  <2>1. 0 \in T
    <3>1. << >> \in Seq(A)
      OBVIOUS
    <3>2. it[1 .. 0] \in Seq(A)
      BY <1>4, <3>1, Zenon
    <3> QED  BY <3>2
  <2>2. ASSUME NEW i \in Nat, i \in T PROVE i + 1 \in T
    <3>1. ASSUME i + 1 <= n PROVE it[1 .. (i + 1)] \in Seq(A)
      <4>1. i + 1 \in 1 .. n /\ (i + 1) - 1 = i /\ it[1 .. i] \in Seq(A)
        BY <1>0, <2>2, <3>1
      <4> HIDE DEF T, P, Filters
      <4>2. Append(it[1 .. i], s[i + 1]) \in Seq(A)
        BY <1>0, <4>1
      <4>3. it[1 .. (i + 1)] = IF s[i + 1] \in S THEN Append(it[1 .. i], s[i + 1]) ELSE it[1 .. i]
        BY <1>5, <4>1
      <4> QED  BY <4>1, <4>2, <4>3, Zenon
    <3> QED  BY <3>1
  <2> HIDE DEF T
  <2>3. Nat \subseteq T
    BY <2>1, <2>2, NatSetInduction
  <2> QED  BY <1>0, <2>3 DEF T
<1>7. Keeping(P, s, S, A)
  <2>1. \A i \in 1 .. n : i \in 0 .. n /\ i - 1 \in 0 .. n
    BY <1>0
  <2>2. 0 \in 0 .. n
    BY <1>0
  <2> QED  BY <1>4, <1>5, <1>6, <2>1, <2>2 DEF Keeping, n
<1>8. P[n] = it[1 .. n]
  BY <1>0
<1> QED  BY <1>3, <1>7, <1>8 DEF n

-----------------------------------------------------------------------------
(* Two runs over amounts that differ at most at k differ from there on.    *)
RunSideBySide(P, f, Q, g, n, k) ==
  /\ Running(P, f, n) /\ Running(Q, g, n)
  /\ \A i \in 1 .. n : i # k => f[i] = g[i]
RunsApart(P, f, Q, g, n, k) == P[n] + g[k] = Q[n] + f[k]

LEMMA RunsShift ==
  ASSUME NEW n \in Nat, NEW f \in [1 .. n -> Nat], NEW g \in [1 .. n -> Nat], NEW k \in 1 .. n,
         NEW P, NEW Q, RunSideBySide(P, f, Q, g, n, k)
  PROVE  RunsApart(P, f, Q, g, n, k)
<1>0. Running(P, f, n) /\ Running(Q, g, n) /\ \A i \in 1 .. n : i # k => f[i] = g[i]
  BY DEF RunSideBySide
<1> DEFINE T == {i \in Nat : i <= n => IF i < k THEN P[i] = Q[i] ELSE P[i] + g[k] = Q[i] + f[k]}
<1>1. 0 \in T
  BY <1>0 DEF Running
<1>2. ASSUME NEW i \in Nat, i \in T PROVE i + 1 \in T
  <2>1. ASSUME i + 1 <= n
        PROVE  IF i + 1 < k THEN P[i + 1] = Q[i + 1] ELSE P[i + 1] + g[k] = Q[i + 1] + f[k]
    <3>1. i + 1 \in 1 .. n /\ (i + 1) - 1 = i /\ i \in 0 .. n
      BY <2>1
    <3>2. P[i + 1] = P[i] + f[i + 1] /\ Q[i + 1] = Q[i] + g[i + 1]
      BY <1>0, <3>1 DEF Running
    <3>3. P[i] \in Nat /\ Q[i] \in Nat /\ f[i + 1] \in Nat /\ g[i + 1] \in Nat
          /\ f[k] \in Nat /\ g[k] \in Nat
      BY <1>0, <3>1 DEF Running
    <3>4. IF i < k THEN P[i] = Q[i] ELSE P[i] + g[k] = Q[i] + f[k]
      BY <1>2, <2>1
    <3>5. i + 1 # k => f[i + 1] = g[i + 1]
      BY <1>0, <3>1
    <3> HIDE DEF T
    <3>6. k \in Nat /\ (k < i + 1 => ~ i < k) /\ (i + 1 <= k => i < k)
      OBVIOUS
    <3>7. CASE i + 1 < k
      BY <3>2, <3>4, <3>5, <3>6, <3>7
    <3>8. CASE i + 1 = k
      <4>1. P[i] = Q[i] /\ ~ i + 1 < k
        BY <3>4, <3>6, <3>8
      <4>2. PICK q \in Nat, c \in Nat, d \in Nat : q = Q[i] /\ c = f[k] /\ d = g[k]
        BY <3>3
      <4>3. P[i + 1] = q + c /\ Q[i + 1] = q + d
        BY <3>2, <3>8, <4>1, <4>2
      <4>4. (q + c) + d = (q + d) + c
        OBVIOUS
      <4> QED  BY <4>1, <4>2, <4>3, <4>4
    <3>9. CASE k < i + 1
      <4>1. i + 1 # k /\ ~ i < k /\ ~ i + 1 < k
        BY <3>6, <3>9
      <4>2. P[i] + g[k] = Q[i] + f[k] /\ f[i + 1] = g[i + 1]
        BY <3>4, <3>5, <4>1
      <4>3. PICK x \in Nat, p \in Nat, q \in Nat, c \in Nat, d \in Nat :
              x = f[i + 1] /\ p = P[i] /\ q = Q[i] /\ c = f[k] /\ d = g[k]
        BY <3>3
      <4>4. p + d = q + c /\ (p + x) + d = P[i + 1] + g[k] /\ (q + x) + c = Q[i + 1] + f[k]
        BY <3>2, <4>2, <4>3
      <4>5. (p + x) + d = (q + x) + c
        BY <4>4
      <4>6. P[i + 1] + g[k] = Q[i + 1] + f[k]
        BY <4>4, <4>5
      <4> QED  BY <4>1, <4>6
    <3> QED  BY <3>6, <3>7, <3>8, <3>9
  <2> QED  BY <2>1
<1> HIDE DEF T
<1>3. Nat \subseteq T
  BY <1>1, <1>2, NatSetInduction
<1> QED  BY <1>3 DEF T, RunsApart

(* The laws of sums: a sum is a natural; an amount that changes changes it *)
(* by as much, an amount at the end adds itself; multiples add up to one.  *)
LEMMA AddedNat ==
  ASSUME NEW n \in Nat, NEW f \in [1 .. n -> Nat]
  PROVE  Added(f) \in Nat
  BY AddedRuns DEF Running

LEMMA AddedChange ==
  ASSUME NEW n \in Nat, NEW f \in [1 .. n -> Nat], NEW g \in [1 .. n -> Nat], NEW k \in 1 .. n,
         \A i \in 1 .. n : i # k => f[i] = g[i]
  PROVE  Added(f) + g[k] = Added(g) + f[k]
<1>1. PICK P : Running(P, f, n) /\ Added(f) = P[n]
  BY AddedRuns
<1>2. PICK Q : Running(Q, g, n) /\ Added(g) = Q[n]
  BY AddedRuns
<1>3. RunSideBySide(P, f, Q, g, n, k)
  BY <1>1, <1>2 DEF RunSideBySide
<1>4. RunsApart(P, f, Q, g, n, k)
  BY <1>3, RunsShift
<1> QED  BY <1>1, <1>2, <1>4 DEF RunsApart

(* Two runs over the same amounts, one of them longer, go together.        *)
LEMMA RunsAgree ==
  ASSUME NEW n \in Nat, NEW f \in [1 .. n -> Nat], NEW g \in [1 .. (n + 1) -> Nat],
         \A i \in 1 .. n : f[i] = g[i],
         NEW P, Running(P, f, n), NEW Q, Running(Q, g, n + 1)
  PROVE  P[n] = Q[n]
<1> DEFINE T == {i \in Nat : i <= n => P[i] = Q[i]}
<1>1. 0 \in T
  BY DEF Running
<1>2. ASSUME NEW i \in Nat, i \in T PROVE i + 1 \in T
  <2>1. ASSUME i + 1 <= n PROVE P[i + 1] = Q[i + 1]
    <3>1. i + 1 \in 1 .. n /\ i + 1 \in 1 .. (n + 1) /\ (i + 1) - 1 = i /\ P[i] = Q[i]
      BY <1>2, <2>1
    <3> HIDE DEF T
    <3> QED  BY <3>1 DEF Running
  <2> QED  BY <2>1
<1> HIDE DEF T
<1>3. Nat \subseteq T
  BY <1>1, <1>2, NatSetInduction
<1> QED  BY <1>3 DEF T

LEMMA AddedMore ==
  ASSUME NEW n \in Nat, NEW f \in [1 .. n -> Nat], NEW g \in [1 .. (n + 1) -> Nat],
         \A i \in 1 .. n : f[i] = g[i]
  PROVE  Added(g) = Added(f) + g[n + 1]
<1>1. PICK P : Running(P, f, n) /\ Added(f) = P[n]
  BY AddedRuns
<1>2. PICK Q : Running(Q, g, n + 1) /\ Added(g) = Q[n + 1]
  BY AddedRuns
<1>3. P[n] = Q[n]
  BY <1>1, <1>2, RunsAgree
<1>4. Q[n + 1] = Q[n] + g[n + 1]
  BY <1>2 DEF Running
<1> QED  BY <1>1, <1>2, <1>3, <1>4

LEMMA AddedZero ==
  ASSUME NEW n \in Nat, NEW f \in [1 .. n -> Nat], \A i \in 1 .. n : f[i] = 0
  PROVE  Added(f) = 0
<1>1. PICK P : Running(P, f, n) /\ Added(f) = P[n]
  BY AddedRuns
<1> DEFINE T == {i \in Nat : i <= n => P[i] = 0}
<1>2. 0 \in T
  BY <1>1 DEF Running
<1>3. ASSUME NEW i \in Nat, i \in T PROVE i + 1 \in T
  <2>1. ASSUME i + 1 <= n PROVE P[i + 1] = 0
    <3>1. i + 1 \in 1 .. n /\ (i + 1) - 1 = i /\ P[i] = 0
      BY <1>3, <2>1
    <3> HIDE DEF T
    <3> QED  BY <1>1, <3>1 DEF Running
  <2> QED  BY <2>1
<1> HIDE DEF T
<1>4. Nat \subseteq T
  BY <1>2, <1>3, NatSetInduction
<1> QED  BY <1>1, <1>4 DEF T

(* A sum stays in a set that holds zero and is closed under addition.      *)
LEMMA AddedClosed ==
  ASSUME NEW M \in SUBSET Nat, 0 \in M, \A a, b \in M : a + b \in M,
         NEW n \in Nat, NEW f \in [1 .. n -> M]
  PROVE  Added(f) \in M
<1>0. f \in [1 .. n -> Nat]
  OBVIOUS
<1>1. PICK P : Running(P, f, n) /\ Added(f) = P[n]
  BY <1>0, AddedRuns
<1> DEFINE T == {i \in Nat : i <= n => P[i] \in M}
<1>2. 0 \in T
  BY <1>1 DEF Running
<1>3. ASSUME NEW i \in Nat, i \in T PROVE i + 1 \in T
  <2>1. ASSUME i + 1 <= n PROVE P[i + 1] \in M
    <3>1. i + 1 \in 1 .. n /\ (i + 1) - 1 = i /\ P[i] \in M /\ f[i + 1] \in M
      BY <1>3, <2>1
    <3> HIDE DEF T
    <3>2. P[i + 1] = P[i] + f[i + 1]
      BY <1>1, <3>1 DEF Running
    <3> QED  BY <3>1, <3>2
  <2> QED  BY <2>1
<1> HIDE DEF T
<1>4. Nat \subseteq T
  BY <1>2, <1>3, NatSetInduction
<1> QED  BY <1>1, <1>4 DEF T

-----------------------------------------------------------------------------
(* The laws of filters: what is left is in S; lines that all are in S are  *)
(* all left; what a filter drops counts for nothing in a sum.              *)
LEMMA OnlyIn ==
  ASSUME NEW A, NEW s \in Seq(A), NEW S
  PROVE  Only(s, S) \in Seq(A \cap S)
<1>1. PICK P : Keeping(P, s, S, A) /\ Only(s, S) = P[Len(s)]
  BY OnlyKeeps
<1> DEFINE T == {i \in Nat : i <= Len(s) => P[i] \in Seq(A \cap S)}
<1>2. 0 \in T
  <2>1. << >> \in Seq(A \cap S) /\ P[0] = << >>
    BY <1>1 DEF Keeping
  <2> QED  BY <2>1
<1>3. ASSUME NEW i \in Nat, i \in T PROVE i + 1 \in T
  <2>1. ASSUME i + 1 <= Len(s) PROVE P[i + 1] \in Seq(A \cap S)
    <3>1. i + 1 \in 1 .. Len(s) /\ (i + 1) - 1 = i /\ P[i] \in Seq(A \cap S) /\ s[i + 1] \in A
      BY <1>3, <2>1
    <3> HIDE DEF T
    <3>2. P[i + 1] = IF s[i + 1] \in S THEN Append(P[i], s[i + 1]) ELSE P[i]
      BY <1>1, <3>1 DEF Keeping
    <3>3. s[i + 1] \in S => Append(P[i], s[i + 1]) \in Seq(A \cap S)
      BY <3>1
    <3> QED  BY <3>1, <3>2, <3>3
  <2> QED  BY <2>1
<1> HIDE DEF T
<1>4. Nat \subseteq T
  BY <1>2, <1>3, NatSetInduction
<1>5. Len(s) \in Nat
  OBVIOUS
<1> QED  BY <1>1, <1>4, <1>5 DEF T

LEMMA OnlyAll ==
  ASSUME NEW A, NEW s \in Seq(A), NEW S, \A i \in 1 .. Len(s) : s[i] \in S
  PROVE  Only(s, S) = s
<1>1. PICK P : Keeping(P, s, S, A) /\ Only(s, S) = P[Len(s)]
  BY OnlyKeeps
<1> DEFINE T == {i \in Nat : i <= Len(s) => Len(P[i]) = i /\ \A j \in 1 .. i : P[i][j] = s[j]}
<1>2. 0 \in T
  <2>1. P[0] = << >> /\ Len(<< >>) = 0 /\ 1 .. 0 = {}
    BY <1>1 DEF Keeping
  <2> QED  BY <2>1
<1>3. ASSUME NEW i \in Nat, i \in T PROVE i + 1 \in T
  <2>1. ASSUME i + 1 <= Len(s)
        PROVE  Len(P[i + 1]) = i + 1 /\ \A j \in 1 .. (i + 1) : P[i + 1][j] = s[j]
    <3>1. /\ i + 1 \in 1 .. Len(s) /\ (i + 1) - 1 = i
          /\ Len(P[i]) = i /\ \A j \in 1 .. i : P[i][j] = s[j]
      BY <1>3, <2>1
    <3> HIDE DEF T
    <3>2. P[i + 1] = Append(P[i], s[i + 1])
      BY <1>1, <3>1 DEF Keeping
    <3>3. P[i] \in Seq(A) /\ s[i + 1] \in A
      BY <1>1, <3>1 DEF Keeping
    <3> QED  BY <3>1, <3>2, <3>3
  <2> QED  BY <2>1
<1> HIDE DEF T
<1>4. Nat \subseteq T
  BY <1>2, <1>3, NatSetInduction
<1>5. Len(s) \in Nat
  OBVIOUS
<1>6. Len(P[Len(s)]) = Len(s) /\ \A j \in 1 .. Len(s) : P[Len(s)][j] = s[j]
  BY <1>4, <1>5 DEF T
<1>7. P[Len(s)] \in Seq(A)
  BY <1>1, <1>5 DEF Keeping
<1> QED  BY <1>1, <1>6, <1>7

(* The amounts of a list of lines, by a value of each line.                *)
Values(v, s) == [i \in 1 .. Len(s) |-> v[s[i]]]

LEMMA ValuesMore ==
  ASSUME NEW A, NEW s \in Seq(A), NEW v \in [A -> Nat], NEW x \in A
  PROVE  Added(Values(v, Append(s, x))) = Added(Values(v, s)) + v[x]
<1>1. Len(s) \in Nat /\ Len(Append(s, x)) = Len(s) + 1 /\ Append(s, x) \in Seq(A)
  OBVIOUS
<1>2. Values(v, s) \in [1 .. Len(s) -> Nat]
  BY DEF Values
<1>3. /\ Values(v, Append(s, x)) \in [1 .. (Len(s) + 1) -> Nat]
      /\ Values(v, Append(s, x))[Len(s) + 1] = v[x]
      /\ \A i \in 1 .. Len(s) : Values(v, s)[i] = Values(v, Append(s, x))[i]
  BY <1>1 DEF Values
<1> QED  BY <1>1, <1>2, <1>3, AddedMore

LEMMA OnlySum ==
  ASSUME NEW A, NEW s \in Seq(A), NEW S, NEW v \in [A -> Nat]
  PROVE  Added(Values(v, Only(s, S))) =
           Added([i \in 1 .. Len(s) |-> IF s[i] \in S THEN v[s[i]] ELSE 0])
<1>1. PICK P : Keeping(P, s, S, A) /\ Only(s, S) = P[Len(s)]
  BY OnlyKeeps
<1> DEFINE kept(k) == [i \in 1 .. k |-> IF s[i] \in S THEN v[s[i]] ELSE 0]
           T == {i \in Nat : i <= Len(s) => Added(Values(v, P[i])) = Added(kept(i))}
<1>2. 0 \in T
  <2>1. P[0] = << >> /\ Len(<< >>) = 0 /\ 1 .. 0 = {}
    BY <1>1 DEF Keeping
  <2>2. Values(v, P[0]) \in [1 .. 0 -> Nat] /\ kept(0) \in [1 .. 0 -> Nat]
    BY <2>1 DEF Values
  <2>3. Added(Values(v, P[0])) = 0 /\ Added(kept(0)) = 0
    BY <2>1, <2>2, AddedZero
  <2> QED  BY <2>3
<1>3. ASSUME NEW i \in Nat, i \in T PROVE i + 1 \in T
  <2>1. ASSUME i + 1 <= Len(s) PROVE Added(Values(v, P[i + 1])) = Added(kept(i + 1))
    <3>1. i + 1 \in 1 .. Len(s) /\ (i + 1) - 1 = i /\ Added(Values(v, P[i])) = Added(kept(i))
      BY <1>3, <2>1
    <3> HIDE DEF T
    <3>2. P[i] \in Seq(A) /\ s[i + 1] \in A /\ v[s[i + 1]] \in Nat
      <4>1. i \in 0 .. Len(s)
        BY <2>1
      <4>2. P[i] \in Seq(A)
        BY <1>1, <4>1 DEF Keeping
      <4>3. s[i + 1] \in A
        BY <3>1
      <4> QED  BY <4>2, <4>3
    <3>3. /\ kept(i) \in [1 .. i -> Nat] /\ kept(i + 1) \in [1 .. (i + 1) -> Nat]
          /\ \A j \in 1 .. i : kept(i)[j] = kept(i + 1)[j]
          /\ kept(i + 1)[i + 1] = IF s[i + 1] \in S THEN v[s[i + 1]] ELSE 0
      BY <3>1
    <3> HIDE DEF kept
    <3>4. Added(kept(i + 1)) = Added(kept(i)) + (IF s[i + 1] \in S THEN v[s[i + 1]] ELSE 0)
      BY <3>3, AddedMore
    <3>5. CASE s[i + 1] \in S
      <4>1. P[i + 1] = Append(P[i], s[i + 1])
        BY <1>1, <3>1, <3>5 DEF Keeping
      <4> DEFINE t == P[i]
                 x == s[i + 1]
      <4>2. t \in Seq(A) /\ x \in A /\ P[i + 1] = Append(t, x)
        BY <3>2, <4>1
      <4> HIDE DEF t, x
      <4>3. Added(Values(v, Append(t, x))) = Added(Values(v, t)) + v[x]
        BY <4>2, ValuesMore
      <4>4. Added(Values(v, P[i + 1])) = Added(kept(i)) + v[s[i + 1]]
        BY <3>1, <4>2, <4>3 DEF t, x
      <4>5. Added(kept(i + 1)) = Added(kept(i)) + v[s[i + 1]]
        BY <3>4, <3>5
      <4> QED  BY <4>4, <4>5
    <3>6. CASE s[i + 1] \notin S
      <4>1. P[i + 1] = P[i]
        BY <1>1, <3>1, <3>6 DEF Keeping
      <4>2. Added(kept(i)) \in Nat
        BY <3>3, AddedNat
      <4> QED  BY <3>1, <3>4, <3>6, <4>1, <4>2
    <3> QED  BY <3>5, <3>6
  <2> QED  BY <2>1
<1> HIDE DEF T
<1>4. Nat \subseteq T
  BY <1>2, <1>3, NatSetInduction
<1>5. Len(s) \in Nat
  OBVIOUS
<1> QED  BY <1>1, <1>4, <1>5 DEF T

-----------------------------------------------------------------------------
(* A set of naturals that is not empty has a least member.                 *)
LEMMA LeastOf ==
  ASSUME NEW T \in SUBSET Nat, T # {}
  PROVE  \E m \in T : \A k \in T : m <= k
<1>1. PICK m \in T : \A k \in T : <<k, m>> \notin OpToRel(<, Nat)
  BY NatLessThanWellFounded, WFMin
<1>2. \A k \in T : ~ (k < m)
  BY <1>1 DEF OpToRel
<1> QED  BY <1>2

=============================================================================
