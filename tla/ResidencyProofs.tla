---------------------------- MODULE ResidencyProofs ----------------------------
(***************************************************************************)
(* The residency ledger, for every pipeline, weights, footprints, ladder   *)
(* and host.  The first part is about sums over a finite set, by induction *)
(* over its subsets.  LedgerExact is inductive once every runner outside   *)
(* `live` is known to hold nothing: then the sum over the live runners is  *)
(* the sum over all, and each step moves one slot, one tally and the       *)
(* ledger by the same amount.  BudgetHeld needs what a budget can have     *)
(* been: never above the ceiling, and a new one only for a runner that     *)
(* holds nothing.                                                          *)
(***************************************************************************)
EXTENDS Residency, PrefixLemmas, FiniteSetTheorems, TLAPS

-----------------------------------------------------------------------------
(* Sums over a finite set: induction over its subsets, by a smallest one   *)
(* that would be an exception.                                             *)

Picked(S) == CHOOSE x \in S : TRUE
Rest(S) == S \ {Picked(S)}

\* One unfolding of the fold over the subsets of S.
Unfolded(f, S, g) == [s \in SUBSET S |-> IF s = {} THEN 0 ELSE f[Picked(s)] + g[Rest(s)]]

Folding(f, S) == CHOOSE g : g = Unfolded(f, S, g)

LEMMA SmallestSubset ==
  ASSUME NEW S, IsFiniteSet(S), NEW B, B \subseteq SUBSET S, B # {}
  PROVE  \E s \in B : \A r \in SUBSET s : r # s => r \notin B
<1> DEFINE sizes == {Cardinality(s) : s \in B}
<1>1. \A s \in B : IsFiniteSet(s)
  BY FS_Subset
<1>2. sizes \subseteq Nat /\ sizes # {}
  BY <1>1, FS_CardinalityType
<1> HIDE DEF sizes
<1>3. PICK n \in sizes : \A m \in sizes : n <= m
  BY <1>2, LeastNatural
<1>4. PICK s \in B : n = Cardinality(s)
  BY DEF sizes
<1>5. ASSUME NEW r \in SUBSET s, r # s, r \in B PROVE FALSE
  <2>1. Cardinality(s) <= Cardinality(r)
    BY <1>3, <1>4, <1>5 DEF sizes
  <2>2. Cardinality(r) <= Cardinality(s) /\ (Cardinality(s) = Cardinality(r) => s = r)
    BY <1>1, FS_Subset
  <2> QED
    BY <1>1, <1>5, <2>1, <2>2, FS_CardinalityType
<1> QED
  BY <1>5

LEMMA RestSmaller ==
  ASSUME NEW S, S # {}
  PROVE  Picked(S) \in S /\ Rest(S) \subseteq S /\ Rest(S) # S
BY DEF Picked, Rest

LEMMA SumIsFold ==
  ASSUME NEW f, NEW S
  PROVE  SumFunctionOnSet(f, S) = Folding(f, S)[S]
BY DEF SumFunctionOnSet, FoldFunctionOnSet, MapThenFoldSet, Folding, Unfolded, Picked, Rest

\* Foldings of two sets agree where both are defined.
LEMMA FoldingsAgree ==
  ASSUME NEW f, NEW S, IsFiniteSet(S), NEW R \in SUBSET S,
         NEW g, g = Unfolded(f, S, g), NEW h, h = Unfolded(f, R, h)
  PROVE  \A s \in SUBSET R : g[s] = h[s]
<1> DEFINE B == {s \in SUBSET R : g[s] # h[s]}
<1> SUFFICES ASSUME B # {} PROVE FALSE
  OBVIOUS
<1>1. PICK s \in B : \A r \in SUBSET s : r # s => r \notin B
  <2>1. IsFiniteSet(R)
    BY FS_Subset
  <2>2. B \subseteq SUBSET R
    OBVIOUS
  <2> HIDE DEF B
  <2> QED
    BY <2>1, <2>2, SmallestSubset
<1>2. /\ g[s] = IF s = {} THEN 0 ELSE f[Picked(s)] + g[Rest(s)]
      /\ h[s] = IF s = {} THEN 0 ELSE f[Picked(s)] + h[Rest(s)]
  BY DEF Unfolded
<1>3. s # {}
  BY <1>2
<1>4. g[Rest(s)] = h[Rest(s)]
  BY <1>1, <1>3, RestSmaller
<1> QED
  BY <1>2, <1>3, <1>4

LEMMA FoldingExists ==
  ASSUME NEW f, NEW S, IsFiniteSet(S)
  PROVE  Folding(f, S) = Unfolded(f, S, Folding(f, S))
<1> DEFINE B == {s \in SUBSET S : Folding(f, s) # Unfolded(f, s, Folding(f, s))}
<1> SUFFICES ASSUME B # {} PROVE FALSE
  OBVIOUS
<1>1. PICK s \in B : \A r \in SUBSET s : r # s => r \notin B
  <2>1. B \subseteq SUBSET S
    OBVIOUS
  <2> HIDE DEF B
  <2> QED
    BY <2>1, SmallestSubset
<1>2. IsFiniteSet(s)
  BY FS_Subset
<1>3. \A r \in SUBSET s : r # s => Folding(f, r) = Unfolded(f, r, Folding(f, r))
  BY <1>1
<1> DEFINE g == [r \in SUBSET s |-> IF r = {} THEN 0 ELSE f[Picked(r)] + Folding(f, Rest(r))[Rest(r)]]
<1>4. ASSUME NEW r \in SUBSET s, r # {}
      PROVE  g[Rest(r)] = Folding(f, Rest(r))[Rest(r)]
  <2> DEFINE q == Rest(r)
  <2>1. q \in SUBSET s /\ q # s
    BY <1>4, RestSmaller
  <2>2. Folding(f, q) = Unfolded(f, q, Folding(f, q))
    BY <1>3, <2>1
  <2>3. Folding(f, q)[q] = IF q = {} THEN 0 ELSE f[Picked(q)] + Folding(f, q)[Rest(q)]
    <3> HIDE DEF q
    <3> QED
      BY <2>2, Zenon DEF Unfolded
  <2>4. CASE q = {}
    BY <2>1, <2>3, <2>4
  <2>5. CASE q # {}
    <3>1. Rest(q) \in SUBSET q /\ Rest(q) # s
      BY <2>1, <2>5, RestSmaller
    <3>2. Folding(f, Rest(q)) = Unfolded(f, Rest(q), Folding(f, Rest(q)))
      BY <1>3, <2>1, <3>1
    <3>3. IsFiniteSet(q)
      BY <1>2, <2>1, FS_Subset
    <3>4. Folding(f, q)[Rest(q)] = Folding(f, Rest(q))[Rest(q)]
      <4> HIDE DEF q
      <4> QED
        BY <2>2, <3>1, <3>2, <3>3, FoldingsAgree
    <3> QED
      BY <2>1, <2>3, <2>5, <3>4
  <2> QED
    BY <2>4, <2>5
<1>5. g = Unfolded(f, s, g)
  BY <1>4 DEF Unfolded
<1>6. Folding(f, s) = Unfolded(f, s, Folding(f, s))
  <2> HIDE DEF g
  <2> QED
    BY <1>5, Zenon DEF Folding
<1> QED
  BY <1>6

LEMMA SumUnfolds ==
  ASSUME NEW f, NEW S, IsFiniteSet(S)
  PROVE  SumFunctionOnSet(f, S) = IF S = {} THEN 0 ELSE f[Picked(S)] + SumFunctionOnSet(f, Rest(S))
<1>1. Folding(f, S) = Unfolded(f, S, Folding(f, S))
  BY FoldingExists
<1>2. Folding(f, S)[S] = IF S = {} THEN 0 ELSE f[Picked(S)] + Folding(f, S)[Rest(S)]
  BY <1>1, Zenon DEF Unfolded
<1>3. CASE S # {}
  <2>1. Rest(S) \in SUBSET S
    BY <1>3, RestSmaller
  <2>2. Folding(f, Rest(S)) = Unfolded(f, Rest(S), Folding(f, Rest(S)))
    BY <2>1, FS_Subset, FoldingExists
  <2>3. Folding(f, S)[Rest(S)] = Folding(f, Rest(S))[Rest(S)]
    BY <1>1, <2>1, <2>2, FoldingsAgree
  <2> QED
    BY <1>2, <1>3, <2>3, SumIsFold
<1> QED
  BY <1>2, <1>3, SumIsFold

LEMMA SumType ==
  ASSUME NEW f, NEW S, IsFiniteSet(S), \A x \in S : f[x] \in Nat
  PROVE  SumFunctionOnSet(f, S) \in Nat
<1> DEFINE B == {s \in SUBSET S : SumFunctionOnSet(f, s) \notin Nat}
<1> SUFFICES ASSUME B # {} PROVE FALSE
  OBVIOUS
<1>1. PICK s \in B : \A r \in SUBSET s : r # s => r \notin B
  <2>1. B \subseteq SUBSET S
    OBVIOUS
  <2> HIDE DEF B
  <2> QED
    BY <2>1, SmallestSubset
<1>2. SumFunctionOnSet(f, s) = IF s = {} THEN 0 ELSE f[Picked(s)] + SumFunctionOnSet(f, Rest(s))
  BY FS_Subset, SumUnfolds
<1>3. CASE s # {}
  <2>1. Picked(s) \in s /\ Rest(s) \in SUBSET s /\ Rest(s) # s
    BY <1>3, RestSmaller
  <2>2. f[Picked(s)] \in Nat /\ SumFunctionOnSet(f, Rest(s)) \in Nat
    BY <1>1, <2>1
  <2> QED
    BY <1>2, <1>3, <2>2
<1> QED
  BY <1>2, <1>3

\* The sum depends on the values alone.
LEMMA SumEqual ==
  ASSUME NEW f, NEW g, NEW S, IsFiniteSet(S), \A x \in S : f[x] = g[x]
  PROVE  SumFunctionOnSet(f, S) = SumFunctionOnSet(g, S)
<1> DEFINE B == {s \in SUBSET S : SumFunctionOnSet(f, s) # SumFunctionOnSet(g, s)}
<1> SUFFICES ASSUME B # {} PROVE FALSE
  OBVIOUS
<1>1. PICK s \in B : \A r \in SUBSET s : r # s => r \notin B
  <2>1. B \subseteq SUBSET S
    OBVIOUS
  <2> HIDE DEF B
  <2> QED
    BY <2>1, SmallestSubset
<1>2. /\ SumFunctionOnSet(f, s) = IF s = {} THEN 0 ELSE f[Picked(s)] + SumFunctionOnSet(f, Rest(s))
      /\ SumFunctionOnSet(g, s) = IF s = {} THEN 0 ELSE g[Picked(s)] + SumFunctionOnSet(g, Rest(s))
  BY FS_Subset, SumUnfolds
<1>3. CASE s # {}
  <2>1. Picked(s) \in s /\ Rest(s) \in SUBSET s /\ Rest(s) # s
    BY <1>3, RestSmaller
  <2>2. f[Picked(s)] = g[Picked(s)] /\ SumFunctionOnSet(f, Rest(s)) = SumFunctionOnSet(g, Rest(s))
    BY <1>1, <2>1
  <2> QED
    BY <1>2, <1>3, <2>2
<1> QED
  BY <1>2, <1>3

\* Any element may be taken out first.
LEMMA SumRemove ==
  ASSUME NEW f, NEW S, IsFiniteSet(S), \A x \in S : f[x] \in Nat, NEW x \in S
  PROVE  SumFunctionOnSet(f, S) = f[x] + SumFunctionOnSet(f, S \ {x})
<1> DEFINE B == {s \in SUBSET S : \E y \in s : SumFunctionOnSet(f, s) # f[y] + SumFunctionOnSet(f, s \ {y})}
<1> SUFFICES ASSUME B # {} PROVE FALSE
  OBVIOUS
<1>1. PICK s \in B : \A r \in SUBSET s : r # s => r \notin B
  <2>1. B \subseteq SUBSET S
    OBVIOUS
  <2> HIDE DEF B
  <2> QED
    BY <2>1, SmallestSubset
<1>2. PICK y \in s : SumFunctionOnSet(f, s) # f[y] + SumFunctionOnSet(f, s \ {y})
  OBVIOUS
<1> DEFINE p == Picked(s)
<1>3. /\ p \in s /\ p # y
      /\ SumFunctionOnSet(f, s) = f[p] + SumFunctionOnSet(f, s \ {p})
  <2>1. SumFunctionOnSet(f, s) = f[p] + SumFunctionOnSet(f, Rest(s))
    BY FS_Subset, SumUnfolds
  <2>2. p \in s
    BY RestSmaller
  <2> QED
    BY <1>2, <2>1, <2>2 DEF Rest
<1> HIDE DEF p
<1>4. SumFunctionOnSet(f, s \ {p}) = f[y] + SumFunctionOnSet(f, (s \ {p}) \ {y})
  BY <1>1, <1>3
<1>5. SumFunctionOnSet(f, s \ {y}) = f[p] + SumFunctionOnSet(f, (s \ {y}) \ {p})
  BY <1>1, <1>3
<1>6. (s \ {p}) \ {y} = (s \ {y}) \ {p}
  OBVIOUS
<1>7. SumFunctionOnSet(f, (s \ {y}) \ {p}) \in Nat
  <2>1. IsFiniteSet((s \ {y}) \ {p})
    BY FS_Subset
  <2> QED
    BY <2>1, SumType
<1>8. f[p] \in Nat /\ f[y] \in Nat
  BY <1>3
<1>9. SumFunctionOnSet(f, s) = f[y] + SumFunctionOnSet(f, s \ {y})
  BY <1>3, <1>4, <1>5, <1>6, <1>7, <1>8
<1> QED
  BY <1>2, <1>9

\* The sum over a set is that over a part and that over the rest.
LEMMA SumSplit ==
  ASSUME NEW f, NEW S, IsFiniteSet(S), \A x \in S : f[x] \in Nat, NEW R \in SUBSET S
  PROVE  SumFunctionOnSet(f, S) = SumFunctionOnSet(f, R) + SumFunctionOnSet(f, S \ R)
<1> DEFINE B == {r \in SUBSET R : SumFunctionOnSet(f, S) # SumFunctionOnSet(f, r) + SumFunctionOnSet(f, S \ r)}
<1> SUFFICES ASSUME B # {} PROVE FALSE
  OBVIOUS
<1>1. PICK r \in B : \A q \in SUBSET r : q # r => q \notin B
  <2>1. B \subseteq SUBSET R /\ IsFiniteSet(R)
    BY FS_Subset
  <2> HIDE DEF B
  <2> QED
    BY <2>1, SmallestSubset
<1>2. \A q \in SUBSET S : IsFiniteSet(q) /\ SumFunctionOnSet(f, q) \in Nat
  BY FS_Subset, SumType
<1>3. r # {}
  <2>1. SumFunctionOnSet(f, {}) = 0
    BY FS_EmptySet, SumUnfolds
  <2>2. S \ {} = S
    OBVIOUS
  <2> QED
    BY <1>2, <2>1, <2>2
<1>4. PICK x \in r : TRUE
  BY <1>3
<1>5. SumFunctionOnSet(f, S) = SumFunctionOnSet(f, r \ {x}) + SumFunctionOnSet(f, S \ (r \ {x}))
  BY <1>1, <1>4
<1>6. SumFunctionOnSet(f, r) = f[x] + SumFunctionOnSet(f, r \ {x})
  BY <1>2, <1>4, SumRemove
<1>7. SumFunctionOnSet(f, S \ (r \ {x})) = f[x] + SumFunctionOnSet(f, S \ r)
  <2>1. (S \ (r \ {x})) \ {x} = S \ r /\ x \in S \ (r \ {x})
    BY <1>4
  <2> QED
    BY <1>2, <2>1, SumRemove
<1>8. /\ f[x] \in Nat /\ SumFunctionOnSet(f, r \ {x}) \in Nat /\ SumFunctionOnSet(f, S \ r) \in Nat
  BY <1>2, <1>4
<1>9. SumFunctionOnSet(f, S) = SumFunctionOnSet(f, r) + SumFunctionOnSet(f, S \ r)
  BY <1>5, <1>6, <1>7, <1>8
<1> QED
  BY <1>9

LEMMA SumZero ==
  ASSUME NEW f, NEW S, IsFiniteSet(S), \A x \in S : f[x] = 0
  PROVE  SumFunctionOnSet(f, S) = 0
<1> DEFINE B == {s \in SUBSET S : SumFunctionOnSet(f, s) # 0}
<1> SUFFICES ASSUME B # {} PROVE FALSE
  OBVIOUS
<1>1. PICK s \in B : \A r \in SUBSET s : r # s => r \notin B
  <2>1. B \subseteq SUBSET S
    OBVIOUS
  <2> HIDE DEF B
  <2> QED
    BY <2>1, SmallestSubset
<1>2. SumFunctionOnSet(f, s) = IF s = {} THEN 0 ELSE f[Picked(s)] + SumFunctionOnSet(f, Rest(s))
  BY FS_Subset, SumUnfolds
<1>3. CASE s # {}
  <2>1. Picked(s) \in s /\ Rest(s) \in SUBSET s /\ Rest(s) # s
    BY <1>3, RestSmaller
  <2>2. f[Picked(s)] = 0 /\ SumFunctionOnSet(f, Rest(s)) = 0
    BY <1>1, <2>1
  <2> QED
    BY <1>2, <1>3, <2>2
<1> QED
  BY <1>2, <1>3

\* One value changes.
LEMMA SumChanged ==
  ASSUME NEW f, NEW g, NEW S, IsFiniteSet(S), \A x \in S : f[x] \in Nat, NEW x \in S,
         g[x] \in Nat, \A y \in S \ {x} : g[y] = f[y]
  PROVE  /\ f[x] <= SumFunctionOnSet(f, S)
         /\ SumFunctionOnSet(g, S) = SumFunctionOnSet(f, S) - f[x] + g[x]
<1>1. SumFunctionOnSet(f, S) = f[x] + SumFunctionOnSet(f, S \ {x})
  BY SumRemove
<1>2. SumFunctionOnSet(g, S) = g[x] + SumFunctionOnSet(g, S \ {x})
  <2>1. \A y \in S : g[y] \in Nat
    OBVIOUS
  <2> QED
    BY <2>1, SumRemove
<1>3. IsFiniteSet(S \ {x})
  BY FS_Subset
<1>4. SumFunctionOnSet(f, S \ {x}) \in Nat
  BY <1>3, SumType
<1>5. SumFunctionOnSet(f, S \ {x}) = SumFunctionOnSet(g, S \ {x})
  BY <1>3, SumEqual
<1>6. f[x] \in Nat
  OBVIOUS
<1> QED
  BY <1>1, <1>2, <1>4, <1>5, <1>6

-----------------------------------------------------------------------------
(* The invariant.                                                          *)

\* The ledger and each runner's tally are the sums of what is held.
Accounts ==
  /\ \A r \in Runners : own[r] = SumFunctionOnSet(held[r], Stages)
  /\ ledger.footprint = SumFunctionOnSet(own, Runners)

\* Runners are wired for sessions that exist, and those not wired hold nothing.
Wired ==
  /\ \A r \in Runners \ live : held[r] = EmptyStages
  /\ \A r \in live : bucket[r[1]] # 0
  /\ \A m \in Model : bucket[m] # 0 => <<m, "step">> \in live

\* A call is one of a session that exists, its walk that of a wired runner.
Walking ==
  /\ call.op # "none" => bucket[call.model] # 0
  /\ call.stage \in 0 .. StageCount
  /\ ~Between => <<call.model, call.walking>> \in live
  /\ call.op = "step" => call.walking = "step"

\* Under an address ceiling nobody is ever handed more than it.
Handed ==
  host.bounded => /\ \A m \in Model : handed[m] <= host.ceiling
                  /\ \A r \in Runners : budget[r] <= host.ceiling

\* The packed weights of the stages a runner holds.
PackedBytes(stages) == SumFunctionOnSet([s \in Stages |-> IF stages[s] = 0 THEN 0 ELSE Weight[s]], Stages)

WithinBudget == IF host.bounded THEN ledger.footprint <= host.ceiling
                                ELSE \A r \in live : PackedBytes(held[r]) <= budget[r]

IInv == TypeOK /\ Accounts /\ Wired /\ Walking /\ Handed /\ WithinBudget

LEMMA FiniteParts ==
  /\ IsFiniteSet(Model) /\ IsFiniteSet(Stages) /\ IsFiniteSet(Runners)
  /\ Kinds = {"step", "seeder", "verify"}
<1>1. IsFiniteSet({"target", "draft"})
  <2>1. {"target", "draft"} = {"target"} \cup {"draft"}
    OBVIOUS
  <2>2. IsFiniteSet({"target"})
    BY FS_Singleton
  <2>3. IsFiniteSet({"target"} \cup {"draft"})
    BY <2>2, FS_AddElement
  <2> QED
    BY <2>1, <2>3
<1>2. IsFiniteSet(Model)
  BY <1>1, FS_Subset, ResidencyAssumption
<1>3. IsFiniteSet(Kinds)
  <2>1. Kinds = ({"step"} \cup {"seeder"}) \cup {"verify"}
    BY DEF Kinds
  <2>2. IsFiniteSet({"step"} \cup {"seeder"})
    BY FS_Singleton, FS_AddElement
  <2> QED
    BY <2>1, <2>2, FS_AddElement
<1>4. IsFiniteSet(Stages)
  BY FS_Interval, ResidencyAssumption DEF Stages
<1> QED
  BY <1>2, <1>3, <1>4, FS_Product DEF Runners, Kinds

\* The sums of the invariants, over stages and over all runners.
LEMMA InvariantSums ==
  ASSUME TypeOK
  PROVE  /\ \A r \in Runners : SumFunction(held[r]) = SumFunctionOnSet(held[r], Stages)
         /\ \A r \in Runners : ResidentBytes(r) = PackedBytes(held[r])
<1>1. \A r \in Runners : held[r] \in [Stages -> Nat]
  BY DEF TypeOK
<1> QED
  BY <1>1 DEF SumFunction, ResidentBytes, PackedBytes

LEMMA InvariantImplies ==
  ASSUME IInv
  PROVE  LedgerExact /\ BudgetHeld
<1>1. TypeOK /\ Accounts /\ Wired
  BY DEF IInv
<1>2. /\ live \in SUBSET Runners /\ \A r \in Runners : own[r] \in Nat
  BY <1>1 DEF TypeOK
<1>3. ASSUME NEW r \in Runners \ live PROVE own[r] = 0
  <2>1. \A s \in Stages : held[r][s] = 0
    BY <1>1 DEF Wired, EmptyStages
  <2> QED
    BY <1>1, <2>1, FiniteParts, SumZero DEF Accounts
<1>4. SumFunctionOnSet(own, Runners) = SumFunctionOnSet(own, live) + SumFunctionOnSet(own, Runners \ live)
  BY <1>2, FiniteParts, SumSplit
<1>5. SumFunctionOnSet(own, Runners \ live) = 0
  BY <1>3, FiniteParts, FS_Subset, SumZero
<1>6. SumFunctionOnSet(own, live) \in Nat
  BY <1>2, FiniteParts, FS_Subset, SumType
<1> QED
  BY <1>1, <1>2, <1>4, <1>5, <1>6, InvariantSums DEF Accounts, LedgerExact, BudgetHeld, IInv, WithinBudget

LEMMA NoCallType ==
  NoCall \in [op : {"none", "step", "feed", "speculate"}, model : Model, walking : Kinds, stage : Nat]
BY ResidencyAssumption DEF NoCall, Kinds

LEMMA InitInv == Init => IInv
<1> SUFFICES ASSUME Init PROVE IInv
  OBVIOUS
<1>1. TypeOK
  <2>1. host.ceiling \in Nat
    BY ResidencyAssumption DEF Init
  <2> QED
    BY <2>1, NoCallType DEF Init, TypeOK, EmptyStages
<1>2. \A r \in Runners : own[r] = 0 /\ \A s \in Stages : held[r][s] = 0
  BY DEF Init, EmptyStages
<1>3. Accounts
  <2>1. \A r \in Runners : SumFunctionOnSet(held[r], Stages) = 0
    BY <1>2, FiniteParts, SumZero
  <2>2. SumFunctionOnSet(own, Runners) = 0
    BY <1>2, FiniteParts, SumZero
  <2> QED
    BY <1>2, <2>1, <2>2 DEF Accounts, Init
<1>4. Wired
  BY DEF Wired, Init
<1>5. Walking
  BY ResidencyAssumption DEF Walking, Init, NoCall, Between
<1>6. Handed
  BY ResidencyAssumption DEF Handed, Init
<1>7. WithinBudget
  BY ResidencyAssumption DEF WithinBudget, Init
<1> QED
  BY <1>1, <1>3, <1>4, <1>5, <1>6, <1>7 DEF IInv

\* What a runner's slot of a stage comes to hold is what its tally and the
\* ledger move by.
LEMMA SlotChanges ==
  ASSUME IInv, NEW r \in Runners, NEW s \in Stages, NEW kept \in Nat,
         held' = [held EXCEPT ![r][s] = kept],
         own' = [own EXCEPT ![r] = @ - held[r][s] + kept],
         ledger'.footprint = ledger.footprint - held[r][s] + kept
  PROVE  /\ held[r][s] \in Nat /\ held[r][s] <= ledger.footprint
         /\ held' \in [Runners -> [Stages -> Nat]] /\ own' \in [Runners -> Nat]
         /\ ledger'.footprint \in Nat
         /\ Accounts'
<1>1. TypeOK /\ Accounts
  BY DEF IInv
<1>2. /\ held \in [Runners -> [Stages -> Nat]] /\ own \in [Runners -> Nat]
      /\ ledger.footprint \in Nat
      /\ held[r] \in [Stages -> Nat] /\ own[r] \in Nat /\ held[r][s] \in Nat
  BY <1>1 DEF TypeOK
<1>3. /\ held' \in [Runners -> [Stages -> Nat]]
      /\ held'[r][s] = kept /\ \A x \in Stages \ {s} : held'[r][x] = held[r][x]
      /\ \A q \in Runners \ {r} : held'[q] = held[q]
  BY <1>2
<1>4. /\ held[r][s] <= SumFunctionOnSet(held[r], Stages)
      /\ SumFunctionOnSet(held'[r], Stages) = SumFunctionOnSet(held[r], Stages) - held[r][s] + kept
  <2> DEFINE before == held[r]
             after == held'[r]
  <2>1. /\ \A x \in Stages : before[x] \in Nat
        /\ after[s] = kept /\ \A x \in Stages \ {s} : after[x] = before[x]
    BY <1>2, <1>3
  <2> HIDE DEF before, after
  <2>2. /\ before[s] <= SumFunctionOnSet(before, Stages)
        /\ SumFunctionOnSet(after, Stages) = SumFunctionOnSet(before, Stages) - before[s] + after[s]
    BY <2>1, FiniteParts, SumChanged
  <2> QED
    BY <2>1, <2>2 DEF before, after
<1>5. own[r] = SumFunctionOnSet(held[r], Stages) /\ ledger.footprint = SumFunctionOnSet(own, Runners)
  BY <1>1 DEF Accounts
<1>6. own[r] - held[r][s] + kept \in Nat
  BY <1>2, <1>4, <1>5
<1>7. /\ own' \in [Runners -> Nat] /\ own'[r] = own[r] - held[r][s] + kept
      /\ \A q \in Runners \ {r} : own'[q] = own[q]
  BY <1>2, <1>6
<1>8. /\ own[r] <= SumFunctionOnSet(own, Runners)
      /\ SumFunctionOnSet(own', Runners) = SumFunctionOnSet(own, Runners) - own[r] + own'[r]
  <2> DEFINE before == own
             after == own'
  <2>1. /\ \A q \in Runners : before[q] \in Nat
        /\ after[r] \in Nat /\ \A q \in Runners \ {r} : after[q] = before[q]
    BY <1>2, <1>7
  <2> HIDE DEF before, after
  <2>2. /\ before[r] <= SumFunctionOnSet(before, Runners)
        /\ SumFunctionOnSet(after, Runners) = SumFunctionOnSet(before, Runners) - before[r] + after[r]
    BY <2>1, FiniteParts, SumChanged
  <2> QED
    BY <2>2 DEF before, after
<1>9. Accounts'
  <2>1. \A q \in Runners : own'[q] = SumFunctionOnSet(held'[q], Stages)
    <3> SUFFICES ASSUME NEW q \in Runners PROVE own'[q] = SumFunctionOnSet(held'[q], Stages)
      OBVIOUS
    <3>1. CASE q = r
      BY <1>4, <1>5, <1>7, <3>1
    <3>2. CASE q # r
      BY <1>1, <1>3, <1>7, <3>2 DEF Accounts
    <3> QED
      BY <3>1, <3>2
  <2>2. ledger'.footprint = SumFunctionOnSet(own', Runners)
    BY <1>2, <1>5, <1>7, <1>8
  <2> QED
    BY <2>1, <2>2 DEF Accounts
<1> QED
  BY <1>2, <1>3, <1>4, <1>5, <1>6, <1>7, <1>8, <1>9

\* Runners let go return their whole share.
LEMMA FreedReturns ==
  ASSUME IInv, NEW rs \in SUBSET Runners, Freed(rs)
  PROVE  /\ held' \in [Runners -> [Stages -> Nat]] /\ own' \in [Runners -> Nat]
         /\ ledger' \in [footprint : Nat, max_walk : Nat]
         /\ ledger'.footprint <= ledger.footprint
         /\ Accounts'
         /\ \A r \in rs : held'[r] = EmptyStages
         /\ \A r \in Runners \ rs : held'[r] = held[r]
<1>1. TypeOK /\ Accounts
  BY DEF IInv
<1>2. /\ held \in [Runners -> [Stages -> Nat]] /\ own \in [Runners -> Nat]
      /\ ledger \in [footprint : Nat, max_walk : Nat]
  BY <1>1 DEF TypeOK
<1>3. /\ \A r \in rs : held'[r] = EmptyStages /\ own'[r] = 0
      /\ \A r \in Runners \ rs : held'[r] = held[r] /\ own'[r] = own[r]
      /\ held' = [r \in Runners |-> IF r \in rs THEN EmptyStages ELSE held[r]]
      /\ own' = [r \in Runners |-> IF r \in rs THEN 0 ELSE own[r]]
      /\ ledger' = [ledger EXCEPT !.footprint = @ - SumFunctionOnSet(own, rs)]
  BY DEF Freed
<1>4. held' \in [Runners -> [Stages -> Nat]] /\ own' \in [Runners -> Nat]
  BY <1>2, <1>3 DEF EmptyStages
<1>5. /\ SumFunctionOnSet(own, Runners) = SumFunctionOnSet(own, rs) + SumFunctionOnSet(own, Runners \ rs)
      /\ SumFunctionOnSet(own', Runners) = SumFunctionOnSet(own', rs) + SumFunctionOnSet(own', Runners \ rs)
  <2>1. (\A r \in Runners : own[r] \in Nat) /\ (\A r \in Runners : own'[r] \in Nat)
    BY <1>2, <1>4
  <2> QED
    BY <2>1, FiniteParts, SumSplit
<1>6. SumFunctionOnSet(own', rs) = 0 /\ SumFunctionOnSet(own', Runners \ rs) = SumFunctionOnSet(own, Runners \ rs)
  <2>1. IsFiniteSet(rs) /\ IsFiniteSet(Runners \ rs)
    BY FiniteParts, FS_Subset
  <2>2. SumFunctionOnSet(own', rs) = 0
    BY <1>3, <2>1, SumZero
  <2>3. SumFunctionOnSet(own', Runners \ rs) = SumFunctionOnSet(own, Runners \ rs)
    BY <1>3, <2>1, SumEqual
  <2> QED
    BY <2>2, <2>3
<1>7. SumFunctionOnSet(own, rs) \in Nat /\ SumFunctionOnSet(own, Runners \ rs) \in Nat
  <2>1. IsFiniteSet(rs) /\ IsFiniteSet(Runners \ rs)
    BY FiniteParts, FS_Subset
  <2>2. \A r \in Runners : own[r] \in Nat
    BY <1>2
  <2> QED
    BY <2>1, <2>2, SumType
<1>8. ledger.footprint = SumFunctionOnSet(own, Runners)
  BY <1>1 DEF Accounts
<1>9. /\ ledger' \in [footprint : Nat, max_walk : Nat] /\ ledger'.footprint <= ledger.footprint
      /\ ledger'.footprint = SumFunctionOnSet(own', Runners)
  BY <1>2, <1>3, <1>5, <1>6, <1>7, <1>8
<1>10. ASSUME NEW r \in Runners PROVE own'[r] = SumFunctionOnSet(held'[r], Stages)
  <2>1. CASE r \in rs
    <3>1. \A s \in Stages : held'[r][s] = 0
      BY <1>3, <2>1 DEF EmptyStages
    <3> QED
      BY <1>3, <2>1, <3>1, FiniteParts, SumZero
  <2>2. CASE r \notin rs
    BY <1>1, <1>3, <2>2 DEF Accounts
  <2> QED
    BY <2>1, <2>2
<1> QED
  BY <1>3, <1>4, <1>9, <1>10 DEF Accounts

\* Packed weights of a runner, when one slot changes.
LEMMA PackedChanges ==
  ASSUME NEW before \in [Stages -> Nat], NEW s \in Stages, NEW kept \in Nat
  PROVE  /\ PackedBytes(before) \in Nat
         /\ (IF before[s] = 0 THEN 0 ELSE Weight[s]) <= PackedBytes(before)
         /\ PackedBytes([before EXCEPT ![s] = kept])
              = PackedBytes(before) - (IF before[s] = 0 THEN 0 ELSE Weight[s]) + (IF kept = 0 THEN 0 ELSE Weight[s])
<1> DEFINE after == [before EXCEPT ![s] = kept]
           f == [x \in Stages |-> IF before[x] = 0 THEN 0 ELSE Weight[x]]
           g == [x \in Stages |-> IF after[x] = 0 THEN 0 ELSE Weight[x]]
<1>1. /\ \A x \in Stages : f[x] \in Nat
      /\ f[s] = IF before[s] = 0 THEN 0 ELSE Weight[s]
  BY ResidencyAssumption
<1>2. /\ \A x \in Stages \ {s} : g[x] = f[x]
      /\ g[s] = IF kept = 0 THEN 0 ELSE Weight[s]
      /\ g[s] \in Nat
  BY ResidencyAssumption
<1>3. PackedBytes(before) = SumFunctionOnSet(f, Stages) /\ PackedBytes(after) = SumFunctionOnSet(g, Stages)
  BY DEF PackedBytes
<1> HIDE DEF f, g
<1>4. /\ f[s] <= SumFunctionOnSet(f, Stages)
      /\ SumFunctionOnSet(g, Stages) = SumFunctionOnSet(f, Stages) - f[s] + g[s]
  BY <1>1, <1>2, FiniteParts, SumChanged
<1>5. SumFunctionOnSet(f, Stages) \in Nat
  BY <1>1, FiniteParts, SumType
<1> QED
  BY <1>1, <1>2, <1>3, <1>4, <1>5

LEMMA PackedNone == PackedBytes(EmptyStages) = 0
<1> DEFINE f == [s \in Stages |-> IF EmptyStages[s] = 0 THEN 0 ELSE Weight[s]]
<1>1. \A s \in Stages : f[s] = 0
  BY DEF EmptyStages
<1>2. PackedBytes(EmptyStages) = SumFunctionOnSet(f, Stages)
  BY DEF PackedBytes
<1> HIDE DEF f
<1> QED
  BY <1>1, <1>2, FiniteParts, SumZero

\* A stage of a walk: kept if it fits, or dropped with its session.
LEMMA WalkKeeps ==
  ASSUME IInv, NEW s \in Stages, NEW probe \in BOOLEAN, NEW footprint \in Footprints[s],
         s = call.stage, StageWalks(footprint, probe)
  PROVE  IInv'
<1> DEFINE r == <<call.model, call.walking>>
           foot == Larger(footprint, Weight[s])
           reserve == IF host.bounded THEN Larger(ledger.max_walk, foot) ELSE ledger.max_walk
           kept == IF Weight[s] > 0 /\ Fits(r, s, foot, reserve) /\ probe THEN foot ELSE 0
<1>1. TypeOK /\ Accounts /\ Wired /\ Walking /\ Handed /\ WithinBudget
  BY DEF IInv
<1>2. /\ Calling /\ ~Between
      /\ held' = [held EXCEPT ![r][s] = kept]
      /\ own' = [own EXCEPT ![r] = @ - held[r][s] + kept]
      /\ ledger' = [footprint |-> ledger.footprint - held[r][s] + kept, max_walk |-> reserve]
      /\ call' = IF s + 1 = StageCount /\ call.op # "feed" THEN NoCall ELSE [call EXCEPT !.stage = s + 1]
      /\ UNCHANGED <<host, live, budget, handed, bucket, charge>>
  BY DEF StageWalks, Taken
<1>3. /\ footprint \in Nat /\ Weight[s] \in Nat /\ foot \in Nat /\ kept \in Nat
      /\ ledger.max_walk \in Nat /\ reserve \in Nat
      /\ ledger.footprint \in Nat
  BY <1>1, ResidencyAssumption DEF TypeOK, Larger
<1>4. r \in Runners /\ r \in live
  BY <1>1, <1>2 DEF Walking, TypeOK
<1>5. /\ held[r][s] \in Nat /\ held[r][s] <= ledger.footprint
      /\ held' \in [Runners -> [Stages -> Nat]] /\ own' \in [Runners -> Nat]
      /\ ledger'.footprint \in Nat
      /\ Accounts'
  <2>1. ledger'.footprint = ledger.footprint - held[r][s] + kept
    BY <1>2
  <2> HIDE DEF r, kept, reserve
  <2> QED
    BY <1>2, <1>3, <1>4, <2>1, SlotChanges
<1>6. TypeOK'
  <2> HIDE DEF r, kept, reserve
  <2>1. call' \in [op : {"none", "step", "feed", "speculate"}, model : Model, walking : Kinds, stage : Nat]
    <3>1. call \in [op : {"none", "step", "feed", "speculate"}, model : Model, walking : Kinds, stage : Nat]
      BY <1>1 DEF TypeOK
    <3>2. s + 1 \in Nat
      BY ResidencyAssumption DEF Stages
    <3>3. [call EXCEPT !.stage = s + 1] \in
            [op : {"none", "step", "feed", "speculate"}, model : Model, walking : Kinds, stage : Nat]
      BY <3>1, <3>2
    <3> QED
      BY <1>2, <3>3, NoCallType
  <2>2. ledger' \in [footprint : Nat, max_walk : Nat]
    <3>1. ledger'.footprint = ledger.footprint - held[r][s] + kept
      BY <1>2
    <3>2. ledger.footprint - held[r][s] + kept \in Nat
      BY <1>5, <3>1
    <3> QED
      BY <1>2, <1>3, <3>2
  <2> QED
    BY <1>1, <1>2, <1>5, <2>1, <2>2 DEF TypeOK
<1>7. Wired'
  <2>1. \A q \in Runners \ live : held'[q] = held[q]
    <3> HIDE DEF r, kept
    <3> QED
      BY <1>1, <1>2, <1>4 DEF TypeOK
  <2> QED
    BY <1>1, <1>2, <2>1 DEF Wired
<1>8. Walking'
  <2>1. CASE call' = NoCall
    BY <2>1, ResidencyAssumption DEF Walking, NoCall, Between
  <2>2. CASE call' = [call EXCEPT !.stage = s + 1]
    <3>1. call'.op = call.op /\ call'.model = call.model /\ call'.walking = call.walking /\ call'.stage = s + 1
      BY <1>1, <2>2 DEF TypeOK
    <3>2. s + 1 \in 0 .. StageCount
      BY ResidencyAssumption DEF Stages
    <3> QED
      BY <1>1, <1>2, <1>4, <3>1, <3>2 DEF Walking
  <2> HIDE DEF r, kept, reserve
  <2> QED
    BY <1>2, <2>1, <2>2
<1>9. Handed'
  BY <1>1, <1>2 DEF Handed
<1>10. WithinBudget'
  <2>1. CASE host.bounded
    <3>1. budget[r] <= host.ceiling
      BY <1>1, <1>4, <2>1 DEF Handed
    <3>2. ledger.footprint <= host.ceiling
      BY <1>1, <2>1 DEF WithinBudget
    <3>3. budget[r] \in Nat /\ host.ceiling \in Nat
      BY <1>1, <1>4, ResidencyAssumption DEF TypeOK
    <3>4. kept = 0 \/ (kept = foot /\ ledger.footprint - held[r][s] + foot + reserve <= budget[r])
      <4>1. Fits(r, s, foot, reserve) <=> ledger.footprint - held[r][s] + foot + reserve <= budget[r]
        <5> HIDE DEF r, foot, reserve
        <5> QED
          BY <2>1 DEF Fits, Taken
      <4> HIDE DEF r, foot, reserve
      <4> QED
        BY <4>1
    <3>5. ledger.footprint - held[r][s] + kept <= host.ceiling
      <4> HIDE DEF r, foot, kept, reserve
      <4> QED
        <5>1. CASE kept = 0
          BY <1>3, <1>5, <3>2, <3>3, <5>1
        <5>2. CASE kept = foot /\ ledger.footprint - held[r][s] + foot + reserve <= budget[r]
          BY <1>3, <1>5, <3>1, <3>3, <5>2
        <5> QED
          BY <3>4, <5>1, <5>2
    <3>6. ledger'.footprint = ledger.footprint - held[r][s] + kept
      BY <1>2
    <3> HIDE DEF r, kept, reserve
    <3> QED
      BY <1>2, <2>1, <3>5, <3>6 DEF WithinBudget
  <2>2. CASE ~host.bounded
    <3>1. held[r] \in [Stages -> Nat] /\ held'[r] = [held[r] EXCEPT ![s] = kept]
          /\ \A q \in Runners \ {r} : held'[q] = held[q]
      <4> HIDE DEF r, kept
      <4> QED
        BY <1>1, <1>2, <1>4 DEF TypeOK
    <3>2. /\ PackedBytes(held[r]) \in Nat
          /\ (IF held[r][s] = 0 THEN 0 ELSE Weight[s]) <= PackedBytes(held[r])
          /\ PackedBytes(held'[r]) = PackedBytes(held[r]) - (IF held[r][s] = 0 THEN 0 ELSE Weight[s])
                                                         + (IF kept = 0 THEN 0 ELSE Weight[s])
      <4> HIDE DEF r, kept
      <4> QED
        BY <1>3, <3>1, PackedChanges
    <3>3. PackedBytes(held[r]) <= budget[r] /\ budget[r] \in Nat
      BY <1>1, <1>4, <2>2 DEF WithinBudget, TypeOK
    <3>4. kept = 0 \/ PackedBytes(held[r]) - (IF held[r][s] = 0 THEN 0 ELSE Weight[s]) + Weight[s] <= budget[r]
      BY <1>1, <1>4, <2>2, InvariantSums DEF Fits, Taken
    <3>5. PackedBytes(held'[r]) <= budget[r]
      <4> HIDE DEF r, kept
      <4> QED
        BY <1>3, <3>2, <3>3, <3>4
    <3> QED
      <4> HIDE DEF r, kept
      <4> QED
        BY <1>1, <1>2, <2>2, <3>1, <3>5 DEF WithinBudget, TypeOK
  <2> QED
    BY <2>1, <2>2
<1> QED
  BY <1>5, <1>6, <1>7, <1>8, <1>9, <1>10 DEF IInv

LEMMA FailKeeps ==
  ASSUME IInv, StageFails
  PROVE  IInv'
<1> DEFINE r == <<call.model, call.walking>>
           s == call.stage
<1>1. TypeOK /\ Accounts /\ Wired /\ Walking /\ Handed /\ WithinBudget
  BY DEF IInv
<1>2. /\ ~Between
      /\ held' = [held EXCEPT ![r][s] = 0]
      /\ own' = [own EXCEPT ![r] = @ - held[r][s]]
      /\ ledger' = [ledger EXCEPT !.footprint = @ - held[r][s]]
      /\ call' = NoCall
      /\ UNCHANGED <<host, live, budget, handed, bucket, charge>>
  BY DEF StageFails, Taken
<1>3. r \in Runners /\ r \in live /\ s \in Stages
  BY <1>1, <1>2, ResidencyAssumption DEF Walking, TypeOK, Between, Stages
<1>4. /\ ledger \in [footprint : Nat, max_walk : Nat] /\ held[r] \in [Stages -> Nat]
      /\ own[r] \in Nat /\ held[r][s] \in Nat
  BY <1>1, <1>3 DEF TypeOK
<1> HIDE DEF r, s
<1>5. ledger'.footprint = ledger.footprint - held[r][s] /\ ledger'.max_walk = ledger.max_walk
  BY <1>2, <1>4
<1>6. /\ held[r][s] <= ledger.footprint
      /\ held' \in [Runners -> [Stages -> Nat]] /\ own' \in [Runners -> Nat]
      /\ ledger'.footprint \in Nat
      /\ Accounts'
  <2>1. own[r] - held[r][s] + 0 = own[r] - held[r][s] /\ ledger.footprint - held[r][s] + 0 = ledger.footprint - held[r][s]
    BY <1>4
  <2>2. own' = [own EXCEPT ![r] = @ - held[r][s] + 0]
    BY <1>2, <2>1
  <2> QED
    BY <1>2, <1>3, <1>5, <2>1, <2>2, SlotChanges
<1>7. TypeOK'
  <2>1. ledger' \in [footprint : Nat, max_walk : Nat]
    BY <1>2, <1>4, <1>5, <1>6
  <2> QED
    BY <1>1, <1>2, <1>6, <2>1, NoCallType DEF TypeOK
<1>8. Wired'
  <2>1. \A q \in Runners \ live : held'[q] = held[q]
    BY <1>1, <1>2, <1>3 DEF TypeOK
  <2> QED
    BY <1>1, <1>2, <2>1 DEF Wired
<1>9. Walking'
  BY <1>2, ResidencyAssumption DEF Walking, NoCall, Between
<1>10. Handed'
  BY <1>1, <1>2 DEF Handed
<1>11. WithinBudget'
  <2>1. CASE host.bounded
    <3>1. ledger'.footprint <= ledger.footprint /\ host.ceiling \in Nat
      BY <1>1, <1>4, <1>5, <1>6, ResidencyAssumption DEF TypeOK
    <3> QED
      BY <1>1, <1>2, <1>4, <1>6, <2>1, <3>1 DEF WithinBudget
  <2>2. CASE ~host.bounded
    <3>1. held'[r] = [held[r] EXCEPT ![s] = 0] /\ \A q \in Runners \ {r} : held'[q] = held[q]
      BY <1>1, <1>2, <1>3 DEF TypeOK
    <3>2. /\ PackedBytes(held[r]) \in Nat
          /\ PackedBytes(held'[r]) = PackedBytes(held[r]) - (IF held[r][s] = 0 THEN 0 ELSE Weight[s]) + 0
      BY <1>3, <1>4, <3>1, PackedChanges
    <3>3. PackedBytes(held[r]) <= budget[r] /\ budget[r] \in Nat
      BY <1>1, <1>3, <2>2 DEF WithinBudget, TypeOK
    <3>4. Weight[s] \in Nat
      BY <1>3, ResidencyAssumption
    <3>5. PackedBytes(held'[r]) <= budget[r]
      BY <3>2, <3>3, <3>4
    <3> QED
      BY <1>1, <1>2, <2>2, <3>1, <3>5 DEF WithinBudget, TypeOK
  <2> QED
    BY <2>1, <2>2
<1> QED
  BY <1>6, <1>7, <1>8, <1>9, <1>10, <1>11 DEF IInv

LEMMA CallKeeps ==
  ASSUME IInv, NEW m \in Model, NEW op \in {"step", "feed", "speculate"}, Call(m, op)
  PROVE  IInv'
<1>1. TypeOK /\ Accounts /\ Wired /\ Walking /\ Handed /\ WithinBudget
  BY DEF IInv
<1>2. /\ bucket[m] # 0
      /\ op = "speculate" => <<m, "verify">> \in live
      /\ call' = [op |-> op, model |-> m,
                  walking |-> IF op = "speculate" THEN "verify" ELSE "step",
                  stage |-> IF op = "feed" THEN StageCount ELSE 0]
      /\ UNCHANGED <<host, live, held, own, budget, ledger, handed, bucket, charge>>
  BY DEF Call
<1>3. TypeOK'
  BY <1>1, <1>2, ResidencyAssumption DEF TypeOK, Kinds
<1>4. Walking'
  <2>1. call'.op = op /\ call'.model = m /\ call'.walking = IF op = "speculate" THEN "verify" ELSE "step"
    BY <1>2
  <2>2. call'.stage = IF op = "feed" THEN StageCount ELSE 0
    BY <1>2
  <2>3. <<m, "step">> \in live
    BY <1>1, <1>2 DEF Wired
  <2> QED
    BY <1>2, <2>1, <2>2, <2>3, ResidencyAssumption DEF Walking, Between
<1> QED
  BY <1>1, <1>2, <1>3, <1>4 DEF IInv, Accounts, Wired, Handed, WithinBudget

LEMMA ChunkKeeps ==
  ASSUME IInv, NEW kind \in Kinds, ChunkBegins(kind)
  PROVE  IInv'
<1>1. TypeOK /\ Accounts /\ Wired /\ Walking /\ Handed /\ WithinBudget
  BY DEF IInv
<1>2. /\ call.op = "feed" /\ <<call.model, kind>> \in live
      /\ call' = [call EXCEPT !.walking = kind, !.stage = 0]
      /\ UNCHANGED <<host, live, held, own, budget, ledger, handed, bucket, charge>>
  BY DEF ChunkBegins
<1>3. TypeOK' /\ call'.op = "feed" /\ call'.model = call.model /\ call'.walking = kind /\ call'.stage = 0
  BY <1>1, <1>2 DEF TypeOK
<1>4. Walking'
  <2>1. bucket'[call.model] # 0
    BY <1>1, <1>2 DEF Walking
  <2>2. <<call'.model, call'.walking>> \in live'
    BY <1>2, <1>3
  <2> QED
    BY <1>3, <2>1, <2>2, ResidencyAssumption DEF Walking
<1> QED
  BY <1>1, <1>2, <1>3, <1>4 DEF IInv, Accounts, Wired, Handed, WithinBudget

\* The budget is kept when runners only come, go, or let go.
LEMMA BudgetStays ==
  ASSUME IInv, host' = host, ledger'.footprint \in Nat, ledger'.footprint <= ledger.footprint,
         budget' \in [Runners -> Nat], live' \subseteq Runners,
         \A r \in live' : \/ held'[r] = EmptyStages
                          \/ r \in live /\ held'[r] = held[r] /\ budget'[r] = budget[r]
  PROVE  WithinBudget'
<1>1. TypeOK /\ WithinBudget
  BY DEF IInv
<1>2. CASE host.bounded
  <2>1. ledger.footprint <= host.ceiling /\ host.ceiling \in Nat /\ ledger.footprint \in Nat
    BY <1>1, <1>2, ResidencyAssumption DEF WithinBudget, TypeOK
  <2> QED
    BY <1>2, <2>1 DEF WithinBudget
<1>3. CASE ~host.bounded
  <2>1. ASSUME NEW r \in live' PROVE PackedBytes(held'[r]) <= budget'[r]
    <3>1. CASE held'[r] = EmptyStages
      BY <3>1, PackedNone
    <3>2. CASE r \in live /\ held'[r] = held[r] /\ budget'[r] = budget[r]
      BY <1>1, <1>3, <3>2 DEF WithinBudget
    <3> QED
      BY <3>1, <3>2
  <2> QED
    BY <1>3, <2>1 DEF WithinBudget
<1> QED
  BY <1>2, <1>3

\* The carried K/V is charged, and what is left handed to later runners.
LEMMA ChargeHands ==
  ASSUME IInv, NEW m \in Model, NEW rows \in Buckets, Charged(m, rows)
  PROVE  /\ charge' \in [Model -> Nat] /\ handed' \in [Model -> Nat]
         /\ host.bounded => \A n \in Model : handed'[n] <= host.ceiling
<1>1. /\ charge \in [Model -> Nat] /\ handed \in [Model -> Nat] /\ host.ceiling \in Nat
  BY ResidencyAssumption DEF IInv, TypeOK
<1>2. charge' \in [Model -> Nat]
  <2>1. rows * KvRow \in Nat
    BY ResidencyAssumption
  <2> QED
    BY <1>1, <2>1 DEF Charged
<1>3. kv_total(charge') \in Nat
  <2>1. kv_total(charge') = SumFunctionOnSet(charge', Model)
    BY <1>2 DEF kv_total, SumFunction
  <2>2. \A n \in Model : charge'[n] \in Nat
    BY <1>2
  <2> QED
    BY <2>1, <2>2, FiniteParts, SumType
<1>4. decode_residency_budget(kv_total(charge')) \in Nat /\ decode_residency_budget(kv_total(charge')) <= host.ceiling
  BY <1>1, <1>3 DEF decode_residency_budget
<1>5. handed' = IF host.bounded THEN [n \in Model |-> decode_residency_budget(kv_total(charge'))] ELSE handed
  BY DEF Charged
<1> QED
  BY <1>1, <1>2, <1>4, <1>5

LEMMA FeedKeeps ==
  ASSUME IInv, FeedReturns
  PROVE  IInv'
<1>1. TypeOK /\ Accounts /\ Wired /\ Walking /\ Handed /\ WithinBudget
  BY DEF IInv
<1>2. PICK rs \in SUBSET Runners : Freed(rs)
  <2>1. {<<call.model, "seeder">>} \subseteq Runners
    BY <1>1 DEF TypeOK, Runners, Kinds
  <2> QED
    BY <2>1 DEF FeedReturns
<1>3. call' = NoCall /\ UNCHANGED <<host, live, budget, handed, bucket, charge>>
  BY DEF FeedReturns
<1>4. /\ held' \in [Runners -> [Stages -> Nat]] /\ own' \in [Runners -> Nat]
      /\ ledger' \in [footprint : Nat, max_walk : Nat]
      /\ ledger'.footprint <= ledger.footprint
      /\ Accounts'
      /\ \A r \in rs : held'[r] = EmptyStages
      /\ \A r \in Runners \ rs : held'[r] = held[r]
  BY <1>2, FreedReturns
<1>5. TypeOK'
  BY <1>1, <1>3, <1>4, NoCallType DEF TypeOK
<1>6. Wired'
  BY <1>1, <1>3, <1>4 DEF Wired
<1>7. Walking'
  BY <1>3, ResidencyAssumption DEF Walking, NoCall, Between
<1>8. Handed'
  BY <1>1, <1>3 DEF Handed
<1>9. WithinBudget'
  <2>1. live' \subseteq Runners /\ budget' \in [Runners -> Nat] /\ ledger'.footprint \in Nat
    BY <1>4, <1>5 DEF TypeOK
  <2>2. \A r \in live' : held'[r] = EmptyStages \/ (r \in live /\ held'[r] = held[r] /\ budget'[r] = budget[r])
    BY <1>3, <1>4, <2>1
  <2> QED
    BY <1>3, <1>4, <2>1, <2>2, BudgetStays
<1> QED
  BY <1>4, <1>5, <1>6, <1>7, <1>8, <1>9 DEF IInv

LEMMA RetireKeeps ==
  ASSUME IInv, NEW m \in Model, RetireVerify(m)
  PROVE  IInv'
<1> DEFINE verify == <<m, "verify">>
<1>1. TypeOK /\ Accounts /\ Wired /\ Walking /\ Handed /\ WithinBudget
  BY DEF IInv
<1>2. /\ ~Calling /\ Freed({verify}) /\ live' \in {live, live \ {verify}}
      /\ UNCHANGED <<host, budget, handed, bucket, charge, call>>
  BY DEF RetireVerify
<1>3. {verify} \in SUBSET Runners
  BY DEF Runners, Kinds
<1>4. /\ held' \in [Runners -> [Stages -> Nat]] /\ own' \in [Runners -> Nat]
      /\ ledger' \in [footprint : Nat, max_walk : Nat]
      /\ ledger'.footprint <= ledger.footprint
      /\ Accounts'
      /\ \A r \in {verify} : held'[r] = EmptyStages
      /\ \A r \in Runners \ {verify} : held'[r] = held[r]
  <2> HIDE DEF verify
  <2> QED
    BY <1>2, <1>3, FreedReturns
<1>5. TypeOK'
  BY <1>1, <1>2, <1>4 DEF TypeOK
<1>6. Wired'
  <2>1. \A r \in Runners \ live' : held'[r] = EmptyStages
    BY <1>1, <1>2, <1>4 DEF Wired
  <2>2. \A r \in live' : bucket'[r[1]] # 0
    BY <1>1, <1>2 DEF Wired
  <2>3. \A n \in Model : bucket'[n] # 0 => <<n, "step">> \in live'
    BY <1>1, <1>2 DEF Wired
  <2> QED
    BY <2>1, <2>2, <2>3 DEF Wired
<1>7. Walking'
  BY <1>2, ResidencyAssumption DEF Walking, NoCall, Between, Calling
<1>8. Handed'
  BY <1>1, <1>2 DEF Handed
<1>9. WithinBudget'
  <2>1. live' \subseteq Runners /\ budget' \in [Runners -> Nat] /\ ledger'.footprint \in Nat
    BY <1>4, <1>5 DEF TypeOK
  <2>2. \A r \in live' : held'[r] = EmptyStages \/ (r \in live /\ held'[r] = held[r] /\ budget'[r] = budget[r])
    BY <1>2, <1>4, <2>1
  <2> QED
    BY <1>2, <1>4, <2>1, <2>2, BudgetStays
<1> QED
  BY <1>4, <1>5, <1>6, <1>7, <1>8, <1>9 DEF IInv

\* A runner that is wired was not live, and holds nothing yet.
LEMMA FirstKeeps ==
  ASSUME IInv, NEW m \in Model, NEW rows \in Buckets, FirstTurn(m, rows)
  PROVE  IInv'
<1> DEFINE stepper == <<m, "step">>
<1>1. TypeOK /\ Accounts /\ Wired /\ Walking /\ Handed /\ WithinBudget
  BY DEF IInv
<1>2. /\ ~Calling /\ bucket[m] = 0 /\ Charged(m, rows)
      /\ bucket' = [bucket EXCEPT ![m] = rows]
      /\ live' = live \cup {stepper}
      /\ budget' = [budget EXCEPT ![stepper] = handed[m]]
      /\ UNCHANGED <<host, held, own, ledger, call>>
  BY DEF FirstTurn
<1>3. stepper \in Runners /\ stepper[1] = m
  BY DEF Runners, Kinds
<1>4. /\ charge' \in [Model -> Nat] /\ handed' \in [Model -> Nat]
      /\ host.bounded => \A n \in Model : handed'[n] <= host.ceiling
  BY <1>2, ChargeHands
<1>5. stepper \notin live /\ held[stepper] = EmptyStages
  BY <1>1, <1>2, <1>3 DEF Wired
<1> HIDE DEF stepper
<1>6. TypeOK'
  <2>1. handed[m] \in Nat
    BY <1>1 DEF TypeOK
  <2> QED
    BY <1>1, <1>2, <1>3, <1>4, <2>1 DEF TypeOK
<1>7. Wired'
  <2>1. \A r \in Runners \ live' : held'[r] = EmptyStages
    BY <1>1, <1>2 DEF Wired
  <2>2. ASSUME NEW r \in live' PROVE bucket'[r[1]] # 0
    <3>1. rows # 0
      BY ResidencyAssumption
    <3>2. bucket[r[1]] # 0 \/ r[1] = m
      BY <1>1, <1>2, <1>3 DEF Wired
    <3>3. r[1] \in Model
      BY <1>6 DEF TypeOK, Runners
    <3> QED
      BY <1>1, <1>2, <3>1, <3>2, <3>3 DEF TypeOK
  <2>3. \A n \in Model : bucket'[n] # 0 => <<n, "step">> \in live'
    BY <1>1, <1>2 DEF Wired, TypeOK, stepper
  <2> QED
    BY <2>1, <2>2, <2>3 DEF Wired
<1>8. Walking'
  BY <1>2, ResidencyAssumption DEF Walking, NoCall, Between, Calling
<1>9. Handed'
  <2>1. host.bounded => handed[m] <= host.ceiling
    BY <1>1 DEF Handed
  <2> QED
    BY <1>1, <1>2, <1>3, <1>4, <2>1 DEF Handed, TypeOK
<1>10. WithinBudget'
  <2>1. /\ live' \subseteq Runners /\ budget' \in [Runners -> Nat]
        /\ ledger'.footprint \in Nat /\ ledger'.footprint <= ledger.footprint
    BY <1>1, <1>2, <1>6 DEF TypeOK
  <2>2. \A r \in live' : held'[r] = EmptyStages \/ (r \in live /\ held'[r] = held[r] /\ budget'[r] = budget[r])
    BY <1>1, <1>2, <1>5, <2>1 DEF TypeOK
  <2> QED
    BY <1>2, <2>1, <2>2, BudgetStays
<1>11. Accounts'
  BY <1>1, <1>2 DEF Accounts
<1> QED
  BY <1>6, <1>7, <1>8, <1>9, <1>10, <1>11 DEF IInv

LEMMA WireKeeps ==
  ASSUME IInv, NEW m \in Model, NEW kind \in Kinds \ {"step"}, WireAuxiliary(m, kind)
  PROVE  IInv'
<1> DEFINE wired == <<m, kind>>
<1>1. TypeOK /\ Accounts /\ Wired /\ Walking /\ Handed /\ WithinBudget
  BY DEF IInv
<1>2. /\ ~Calling /\ bucket[m] # 0 /\ wired \notin live
      /\ live' = live \cup {wired}
      /\ budget' = [budget EXCEPT ![wired] = handed[m]]
      /\ UNCHANGED <<host, held, own, ledger, handed, bucket, charge, call>>
  BY DEF WireAuxiliary
<1>3. wired \in Runners /\ wired[1] = m
  BY DEF Runners
<1> HIDE DEF wired
<1>4. held[wired] = EmptyStages
  BY <1>1, <1>2, <1>3 DEF Wired
<1>5. TypeOK'
  <2>1. handed[m] \in Nat
    BY <1>1 DEF TypeOK
  <2> QED
    BY <1>1, <1>2, <1>3, <2>1 DEF TypeOK
<1>6. Wired'
  BY <1>1, <1>2, <1>3 DEF Wired
<1>7. Walking'
  BY <1>2, ResidencyAssumption DEF Walking, NoCall, Between, Calling
<1>8. Handed'
  <2>1. host.bounded => handed[m] <= host.ceiling
    BY <1>1 DEF Handed
  <2> QED
    BY <1>1, <1>2, <1>3, <2>1 DEF Handed, TypeOK
<1>9. WithinBudget'
  <2>1. /\ live' \subseteq Runners /\ budget' \in [Runners -> Nat]
        /\ ledger'.footprint \in Nat /\ ledger'.footprint <= ledger.footprint
    BY <1>1, <1>2, <1>5 DEF TypeOK
  <2>2. \A r \in live' : held'[r] = EmptyStages \/ (r \in live /\ held'[r] = held[r] /\ budget'[r] = budget[r])
    BY <1>1, <1>2, <1>4, <2>1 DEF TypeOK
  <2> QED
    BY <1>2, <2>1, <2>2, BudgetStays
<1>10. Accounts'
  BY <1>1, <1>2 DEF Accounts
<1> QED
  BY <1>5, <1>6, <1>7, <1>8, <1>9, <1>10 DEF IInv

\* A regrow, whether or not the wider bucket compiles: the step runner and the
\* seeder have let go, and the seeder is gone.
LEMMA GrowingReturns ==
  ASSUME IInv, NEW m \in Model, NEW rows \in Buckets, Growing(m, rows)
  PROVE  /\ held' \in [Runners -> [Stages -> Nat]] /\ own' \in [Runners -> Nat]
         /\ ledger' \in [footprint : Nat, max_walk : Nat]
         /\ ledger'.footprint <= ledger.footprint
         /\ Accounts'
         /\ live' = live \ {<<m, "seeder">>} /\ live' \subseteq Runners
         /\ <<m, "step">> \in Runners /\ held'[<<m, "step">>] = EmptyStages
         /\ \A r \in Runners \ live' : held'[r] = EmptyStages
         /\ \A r \in live' \ {<<m, "step">>} : held'[r] = held[r]
<1> DEFINE rs == {<<m, "step">>, <<m, "seeder">>}
<1>1. TypeOK /\ Wired
  BY DEF IInv
<1>2. Freed(rs) /\ live' = live \ {<<m, "seeder">>}
  BY DEF Growing
<1>3. rs \in SUBSET Runners
  BY DEF Runners, Kinds
<1>4. /\ held' \in [Runners -> [Stages -> Nat]] /\ own' \in [Runners -> Nat]
      /\ ledger' \in [footprint : Nat, max_walk : Nat]
      /\ ledger'.footprint <= ledger.footprint
      /\ Accounts'
      /\ \A r \in rs : held'[r] = EmptyStages
      /\ \A r \in Runners \ rs : held'[r] = held[r]
  <2> HIDE DEF rs
  <2> QED
    BY <1>2, <1>3, FreedReturns
<1>5. live' \subseteq Runners
  BY <1>1, <1>2 DEF TypeOK
<1>6. \A r \in Runners \ live' : held'[r] = EmptyStages
  BY <1>1, <1>2, <1>4 DEF Wired
<1>7. \A r \in live' \ {<<m, "step">>} : held'[r] = held[r]
  BY <1>2, <1>4, <1>5
<1> QED
  BY <1>2, <1>3, <1>4, <1>5, <1>6, <1>7

LEMMA RegrowKeeps ==
  ASSUME IInv, NEW m \in Model, NEW rows \in Buckets, Regrow(m, rows)
  PROVE  IInv'
<1> DEFINE stepper == <<m, "step">>
<1>1. TypeOK /\ Accounts /\ Wired /\ Walking /\ Handed /\ WithinBudget
  BY DEF IInv
<1>2. /\ Growing(m, rows) /\ Charged(m, rows) /\ rows > bucket[m]
      /\ call.model = m /\ ((call.op = "step" /\ call.stage = 0) \/ (call.op = "feed" /\ Between))
      /\ bucket' = [bucket EXCEPT ![m] = rows]
      /\ budget' = [budget EXCEPT ![stepper] = handed'[m]]
      /\ UNCHANGED <<host, call>>
  BY DEF Regrow, Growing
<1>3. /\ held' \in [Runners -> [Stages -> Nat]] /\ own' \in [Runners -> Nat]
      /\ ledger' \in [footprint : Nat, max_walk : Nat]
      /\ ledger'.footprint <= ledger.footprint
      /\ Accounts'
      /\ live' = live \ {<<m, "seeder">>} /\ live' \subseteq Runners
      /\ stepper \in Runners /\ held'[stepper] = EmptyStages
      /\ \A r \in Runners \ live' : held'[r] = EmptyStages
      /\ \A r \in live' \ {stepper} : held'[r] = held[r]
  BY <1>2, GrowingReturns
<1>4. /\ charge' \in [Model -> Nat] /\ handed' \in [Model -> Nat]
      /\ host.bounded => \A n \in Model : handed'[n] <= host.ceiling
  BY <1>2, ChargeHands
<1>5. TypeOK'
  <2> HIDE DEF stepper
  <2>1. handed'[m] \in Nat
    BY <1>4
  <2> QED
    BY <1>1, <1>2, <1>3, <1>4, <2>1 DEF TypeOK
<1>6. \A n \in Model : bucket'[n] = 0 <=> bucket[n] = 0
  <2>1. bucket \in [Model -> Buckets \cup {0}] /\ rows # 0
    BY <1>1, ResidencyAssumption DEF TypeOK
  <2>2. bucket[m] # 0
    BY <1>1, <1>2 DEF Walking
  <2> QED
    BY <1>2, <2>1, <2>2
<1>7. Wired'
  <2>1. \A r \in live' : bucket'[r[1]] # 0
    BY <1>1, <1>3, <1>6 DEF Wired, Runners
  <2>2. \A n \in Model : bucket'[n] # 0 => <<n, "step">> \in live'
    BY <1>1, <1>3, <1>6 DEF Wired
  <2> QED
    BY <1>3, <2>1, <2>2 DEF Wired
<1>8. Walking'
  <2>1. call.op = "step" => <<call.model, call.walking>> \in live'
    BY <1>1, <1>2, <1>3, ResidencyAssumption DEF Walking, Between
  <2>2. call.model \in Model
    BY <1>2
  <2> QED
    BY <1>1, <1>2, <1>6, <2>1, <2>2 DEF Walking, Between
<1>9. Handed'
  <2> HIDE DEF stepper
  <2> QED
    BY <1>1, <1>2, <1>3, <1>4 DEF Handed, TypeOK
<1>10. WithinBudget'
  <2> HIDE DEF stepper
  <2>1. budget' \in [Runners -> Nat] /\ ledger'.footprint \in Nat
    BY <1>3, <1>5 DEF TypeOK
  <2>2. \A r \in live' : held'[r] = EmptyStages \/ (r \in live /\ held'[r] = held[r] /\ budget'[r] = budget[r])
    BY <1>1, <1>2, <1>3 DEF TypeOK
  <2> QED
    BY <1>2, <1>3, <2>1, <2>2, BudgetStays
<1> QED
  BY <1>3, <1>5, <1>7, <1>8, <1>9, <1>10 DEF IInv

LEMMA RegrowFailKeeps ==
  ASSUME IInv, NEW m \in Model, NEW rows \in Buckets, RegrowFails(m, rows)
  PROVE  IInv'
<1>1. TypeOK /\ Accounts /\ Wired /\ Walking /\ Handed /\ WithinBudget
  BY DEF IInv
<1>2. /\ Growing(m, rows) /\ Charged(m, rows)
      /\ call' = NoCall /\ UNCHANGED <<host, bucket, budget>>
  BY DEF RegrowFails, Growing
<1>3. /\ held' \in [Runners -> [Stages -> Nat]] /\ own' \in [Runners -> Nat]
      /\ ledger' \in [footprint : Nat, max_walk : Nat]
      /\ ledger'.footprint <= ledger.footprint
      /\ Accounts'
      /\ live' = live \ {<<m, "seeder">>} /\ live' \subseteq Runners
      /\ <<m, "step">> \in Runners /\ held'[<<m, "step">>] = EmptyStages
      /\ \A r \in Runners \ live' : held'[r] = EmptyStages
      /\ \A r \in live' \ {<<m, "step">>} : held'[r] = held[r]
  BY <1>2, GrowingReturns
<1>4. /\ charge' \in [Model -> Nat] /\ handed' \in [Model -> Nat]
      /\ host.bounded => \A n \in Model : handed'[n] <= host.ceiling
  BY <1>2, ChargeHands
<1>5. TypeOK'
  BY <1>1, <1>2, <1>3, <1>4, NoCallType DEF TypeOK
<1>6. Wired'
  BY <1>1, <1>2, <1>3 DEF Wired
<1>7. Walking'
  BY <1>2, ResidencyAssumption DEF Walking, NoCall, Between
<1>8. Handed'
  BY <1>1, <1>2, <1>4 DEF Handed
<1>9. WithinBudget'
  <2>1. budget' \in [Runners -> Nat] /\ ledger'.footprint \in Nat
    BY <1>3, <1>5 DEF TypeOK
  <2>2. \A r \in live' : held'[r] = EmptyStages \/ (r \in live /\ held'[r] = held[r] /\ budget'[r] = budget[r])
    BY <1>2, <1>3
  <2> QED
    BY <1>2, <1>3, <2>1, <2>2, BudgetStays
<1> QED
  BY <1>3, <1>5, <1>6, <1>7, <1>8, <1>9 DEF IInv

-----------------------------------------------------------------------------
(* The theorems.                                                           *)

\* The residency ledger's inductive invariant (staged.rs, wasm lib.rs): tallies
\* are sums of what is held, only wired runners hold anything, budgets never
\* pass the ceiling.
THEOREM ResidencyInvariant == Spec => []IInv
<1>1. Init => IInv
  BY InitInv
<1>2. IInv /\ [Next]_vars => IInv'
  <2> SUFFICES ASSUME IInv, [Next]_vars PROVE IInv'
    OBVIOUS
  <2>1. CASE Next
    <3>1. CASE \E s \in Stages, probe \in BOOLEAN :
                 \E footprint \in Footprints[s] : s = call.stage /\ StageWalks(footprint, probe)
      BY <3>1, WalkKeeps
    <3>2. CASE StageFails
      BY <3>2, FailKeeps
    <3>3. CASE \E m \in Model, op \in {"step", "feed", "speculate"} : Call(m, op)
      BY <3>3, CallKeeps
    <3>4. CASE \E kind \in Kinds : ChunkBegins(kind)
      BY <3>4, ChunkKeeps
    <3>5. CASE FeedReturns
      BY <3>5, FeedKeeps
    <3>6. CASE \E m \in Model, rows \in Buckets : FirstTurn(m, rows) \/ Regrow(m, rows) \/ RegrowFails(m, rows)
      BY <3>6, FirstKeeps, RegrowKeeps, RegrowFailKeeps
    <3>7. CASE \E m \in Model : RetireVerify(m) \/ \E kind \in Kinds \ {"step"} : WireAuxiliary(m, kind)
      BY <3>7, RetireKeeps, WireKeeps
    <3> QED
      BY <2>1, <3>1, <3>2, <3>3, <3>4, <3>5, <3>6, <3>7 DEF Next
  <2>2. CASE UNCHANGED vars
    BY <2>2 DEF vars, IInv, TypeOK, Accounts, Wired, Walking, Between, Handed, WithinBudget
  <2> QED
    BY <2>1, <2>2
<1> QED
  BY <1>1, <1>2, PTL DEF Spec

\* Ledger, tallies, budgets and calls keep their types: no tally ever goes
\* below zero, whatever is evicted, dropped or fails (staged.rs).
THEOREM ResidencyTypeCorrect == Spec => []TypeOK
<1>1. IInv => TypeOK
  BY DEF IInv
<1> QED
  BY <1>1, ResidencyInvariant, PTL

\* The shared ledger holds exactly what the live runners' resident stages hold
\* (staged.rs share_residency_with, evict_resident, Drop).
THEOREM ResidencyLedgerExact == Spec => []LedgerExact
<1>1. IInv => LedgerExact
  BY InvariantImplies
<1> QED
  BY <1>1, ResidencyInvariant, PTL

\* The pair never holds more than the address ceiling; off the browser no
\* runner holds more packed weights than its budget (staged.rs admission).
THEOREM ResidencyBudgetHeld == Spec => []BudgetHeld
<1>1. IInv => BudgetHeld
  BY InvariantImplies
<1> QED
  BY <1>1, ResidencyInvariant, PTL
===============================================================================
