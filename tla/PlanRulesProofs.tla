-------------------------- MODULE PlanRulesProofs --------------------------
(***************************************************************************)
(* Proofs about whole plans, for every set of loaded instances: what the   *)
(* solver's model admits is what the validator passes, up to redundant     *)
(* nights; so whatever is found breaks exactly what was lifted, whatever   *)
(* is called infeasible is, and a repair called optimal is.                *)
(***************************************************************************)
EXTENDS Planning, PossessionSlotsProofs, SequenceTheorems, FiniteSetTheorems

-----------------------------------------------------------------------------
(* Numbers and finite sets of them *)

LEMMA MinIsSmallest ==
  ASSUME NEW N \in SUBSET Nat, N # {}
  PROVE  /\ Min(N) \in N
         /\ \A m \in N : Min(N) <= m
  BY SmallestExists DEF Min

(* A non-empty set of naturals with an upper bound has a largest element.  *)
LEMMA LargestExists ==
  ASSUME NEW N \in SUBSET Nat, N # {}, NEW b \in Nat, \A n \in N : n <= b
  PROVE  \E n \in N : \A m \in N : m <= n
  <1> DEFINE Slack == {b - n : n \in N}
  <1>1. Slack \subseteq Nat /\ Slack # {}
    <2>1. \A n \in N : n \in Nat /\ b - n \in Nat
      OBVIOUS
    <2>2. \E n \in N : b - n \in Slack
      OBVIOUS
    <2>. QED
      BY <2>1, <2>2
  <1>2. PICK s \in Slack : \A t \in Slack : s <= t
    BY <1>1, SmallestExists
  <1>3. PICK n \in N : s = b - n
    BY <1>2
  <1>4. ASSUME NEW m \in N PROVE m <= n
    <2>1. b - m \in Slack
      OBVIOUS
    <2>2. s <= b - m
      BY <1>2, <2>1
    <2>. QED
      BY <1>3, <2>2
  <1>. QED
    BY <1>4

LEMMA MaxIsLargest ==
  ASSUME NEW N \in SUBSET Nat, N # {}, NEW b \in Nat, \A n \in N : n <= b
  PROVE  /\ Max(N) \in N
         /\ \A m \in N : m <= Max(N)
  BY LargestExists DEF Max

(* The larger of zero and a number. *)
LEMMA MaxZero ==
  ASSUME NEW n \in Int
  PROVE  Max({0, n}) = IF n > 0 THEN n ELSE 0
  <1>1. CASE n > 0
    <2>1. Max({0, n}) \in {0, n} /\ \A m \in {0, n} : m <= Max({0, n})
      <3>. \E k \in {0, n} : \A m \in {0, n} : m <= k
        BY <1>1
      <3>. QED
        BY DEF Max
    <2>. QED
      BY <1>1, <2>1
  <1>2. CASE ~(n > 0)
    <2>1. Max({0, n}) \in {0, n} /\ \A m \in {0, n} : m <= Max({0, n})
      <3>. \E k \in {0, n} : \A m \in {0, n} : m <= k
        BY <1>2
      <3>. QED
        BY DEF Max
    <2>. QED
      BY <1>2, <2>1
  <1>. QED
    BY <1>1, <1>2

LEMMA IntervalSize ==
  ASSUME NEW n \in Nat
  PROVE  IsFiniteSet(1..n) /\ Cardinality(1..n) = n
  <1>1. /\ IsFiniteSet(1..n)
        /\ Cardinality(1..n) = IF 1 > n THEN 0 ELSE n - 1 + 1
    BY FS_Interval
  <1>. QED
    BY <1>1

(* A part of a finite set is finite and no larger. *)
LEMMA PartSize ==
  ASSUME NEW T, IsFiniteSet(T), NEW S \in SUBSET T
  PROVE  /\ IsFiniteSet(S)
         /\ Cardinality(S) \in Nat
         /\ Cardinality(S) <= Cardinality(T)
  BY FS_Subset, FS_CardinalityType

(* The part of B before one of its elements: what that element's number is *)
(* when B is dealt out in order.                                           *)
Ahead(B, a) == {b \in B : b < a}

LEMMA Rank ==
  ASSUME NEW B \in SUBSET Nat, IsFiniteSet(B), NEW a \in B
  PROVE  /\ Cardinality(Ahead(B, a)) \in Nat
         /\ Cardinality(Ahead(B, a)) < Cardinality(B)
         /\ \A b \in B : a < b => Cardinality(Ahead(B, a)) < Cardinality(Ahead(B, b))
  <1>1. Ahead(B, a) \subseteq B \ {a}
    BY DEF Ahead
  <1>2. /\ IsFiniteSet(B \ {a})
        /\ Cardinality(B \ {a}) = Cardinality(B) - 1
        /\ Cardinality(B) \in Nat
    BY FS_RemoveElement, FS_CardinalityType
  <1>3. /\ Cardinality(Ahead(B, a)) \in Nat
        /\ Cardinality(Ahead(B, a)) <= Cardinality(B \ {a})
    BY <1>1, <1>2, PartSize
  <1>4. ASSUME NEW b \in B, a < b
        PROVE  Cardinality(Ahead(B, a)) < Cardinality(Ahead(B, b))
    <2> DEFINE L == Ahead(B, b)
    <2>1. a \in L /\ L \subseteq B
      BY <1>4 DEF Ahead
    <2>2. Ahead(B, a) \subseteq L \ {a}
      <3>1. a \in Nat /\ b \in Nat /\ \A n \in B : n \in Nat
        OBVIOUS
      <3>2. \A n \in B : n < a => n < b /\ n # a
        BY <1>4, <3>1
      <3>. QED
        BY <3>2 DEF Ahead
    <2>. HIDE DEF L
    <2>3. IsFiniteSet(L) /\ Cardinality(L) \in Nat
      BY <2>1, PartSize
    <2>4. IsFiniteSet(L \ {a}) /\ Cardinality(L \ {a}) = Cardinality(L) - 1
      BY <2>1, <2>3, FS_RemoveElement
    <2>5. Cardinality(Ahead(B, a)) <= Cardinality(L) - 1
      BY <2>2, <2>4, PartSize
    <2>6. Cardinality(Ahead(B, a)) < Cardinality(L)
      BY <1>3, <2>3, <2>5
    <2>7. QED
      BY <2>6 DEF L
  <1>. QED
    BY <1>2, <1>3, <1>4

(* The last to be dealt out has everyone else ahead of it. *)
LEMMA LastRank ==
  ASSUME NEW B \in SUBSET Nat, IsFiniteSet(B), NEW a \in B, \A b \in B : b <= a
  PROVE  Cardinality(Ahead(B, a)) = Cardinality(B) - 1
  <1>1. Ahead(B, a) = B \ {a}
    <2>1. a \in Nat /\ \A n \in B : n \in Nat
      OBVIOUS
    <2>2. \A n \in B : n < a <=> n # a
      BY <2>1
    <2>. QED
      BY <2>2 DEF Ahead
  <1>. QED
    BY <1>1, FS_RemoveElement

(* No more elements than numbers to give them. *)
LEMMA RanksWithin ==
  ASSUME NEW B \in SUBSET Nat, IsFiniteSet(B), NEW S \in SUBSET B,
         NEW first \in Nat, NEW n \in Nat,
         \A a \in S : first <= Cardinality(Ahead(B, a)) /\ Cardinality(Ahead(B, a)) < first + n
  PROVE  IsFiniteSet(S) /\ Cardinality(S) <= n
  <1> DEFINE f == [a \in S |-> Cardinality(Ahead(B, a)) - first + 1]
  <1>1. \A a \in S : Cardinality(Ahead(B, a)) \in Nat
    BY Rank
  <1>2. f \in [S -> 1..n]
    BY <1>1
  <1>3. ASSUME NEW a \in S, NEW b \in S, f[a] = f[b] PROVE a = b
    <2>1. Cardinality(Ahead(B, a)) = Cardinality(Ahead(B, b))
      BY <1>1, <1>3
    <2>2. ~(a < b) /\ ~(b < a)
      BY <2>1, <1>1, Rank
    <2>. QED
      BY <2>2
  <1>4. f \in Injection(S, 1..n)
    <2>. HIDE DEF f
    <2>. QED
      BY <1>2, <1>3 DEF Injection, IsInjective
  <1>. QED
    BY <1>4, IntervalSize, FS_Injection

(* Dividing deals ranks to nights of a given size. *)
LEMMA Dealt ==
  ASSUME NEW k \in Nat, NEW f \in Nat \ {0}
  PROVE  /\ k \div f \in Nat
         /\ f * (k \div f) <= k
         /\ k < f * (k \div f) + f
  OBVIOUS

LEMMA DealtWithin ==
  ASSUME NEW k \in Nat, NEW f \in Nat \ {0}, NEW n \in Nat
  PROVE  k < n * f <=> k \div f < n
  <1>1. PICK q \in Nat : q = k \div f /\ f * q <= k /\ k < f * q + f
    BY Dealt
  <1>2. ASSUME q < n PROVE k < n * f
    <2>1. q + 1 <= n
      BY <1>2
    <2>2. (q + 1) * f <= n * f
      BY <2>1
    <2>. QED
      BY <1>1, <2>2
  <1>3. ASSUME ~(q < n) PROVE ~(k < n * f)
    <2>1. n * f <= q * f
      BY <1>3
    <2>. QED
      BY <1>1, <2>1
  <1>. QED
    BY <1>1, <1>2, <1>3

-----------------------------------------------------------------------------
(* Loaded instances, and plans of them *)

PlanSpace == [Acts -> [Weeks -> Nights]]
Groups == {"none", "buffers", "capacity", "weekly", "precedence", "start"}
Overrides == Seq([cell : (DOMAIN inst.supply) \X Weeks, supply : Nat])
Options == [scenario : {"A", "B", "C"}, soft : BOOLEAN, relax : Groups,
            require : SUBSET (Acts \X Weeks), overrides : Overrides,
            reading : {"adopted", "strict"}]

(* An instance that was loaded, and what BuildTopology derived from it. *)
Derived == /\ inst \in Instances
           /\ zones = [a \in Acts |-> Zone(a)]

LEMMA Contracts ==
  ASSUME inst \in Instances, NEW c \in DOMAIN inst.contract
  PROVE  /\ inst.contract[c].type \in {"PM", "PC", "C"}
         /\ inst.contract[c].allowance \in Nat
         /\ inst.contract[c].fronts \in Nat \ {0}
         /\ inst.contract[c].due \in Int
         /\ inst.contract[c].priority \in 1..3
         /\ Load(c) \in Nat
  <1>1. Loaded(inst)
    BY InstancesAssumption
  <1> DEFINE K == [nature : DOMAIN inst.buffer, type : {"PM", "PC", "C"}, allowance : Nat,
                   fronts : Nat \ {0}, due : Int, priority : 1..3]
  <1>2. inst.contract \in Seq(K)
    BY <1>1 DEF Loaded
  <1>3. inst.contract[c] \in K
    <2>. HIDE DEF K
    <2>. QED
      BY <1>2, ElementOfSeq, LenProperties
  <1>. QED
    BY <1>3 DEF Load

LEMMA Activities ==
  ASSUME inst \in Instances
  PROVE  /\ inst.weeks \in Nat \ {0}
         /\ Len(inst.activity) \in Nat
         /\ Acts = 1..Len(inst.activity)
         /\ IsFiniteSet(Acts) /\ IsFiniteSet(Weeks)
         /\ \A a \in Acts : /\ inst.activity[a].contract \in DOMAIN inst.contract
                            /\ inst.activity[a].from \in Nat /\ inst.activity[a].to \in Nat
                            /\ Need(a) \in Nat /\ inst.activity[a].need \in Nat
                            /\ inst.activity[a].earliest \in Weeks
                            /\ inst.activity[a].pred = 0 \/ inst.activity[a].pred \in Acts
                            /\ inst.activity[a].priority \in 1..3
  <1>1. Loaded(inst)
    BY InstancesAssumption
  <1> DEFINE R == [contract : DOMAIN inst.contract, line : inst.lines,
                   bound : {"EB", "WB"}, from : Nat, to : Nat, need : Nat,
                   earliest : 1..inst.weeks, pred : 0..Len(inst.activity), priority : 1..3]
  <1>2. inst.activity \in Seq(R) /\ inst.weeks \in Nat \ {0}
    BY <1>1 DEF Loaded
  <1>3. Len(inst.activity) \in Nat /\ Acts = 1..Len(inst.activity)
    <2>. HIDE DEF R
    <2>. QED
      BY <1>2, LenProperties DEF Acts
  <1>4. \A a \in Acts : inst.activity[a] \in R
    <2>. HIDE DEF R
    <2>. QED
      BY <1>2, <1>3, ElementOfSeq
  <1>5. IsFiniteSet(Acts) /\ IsFiniteSet(Weeks)
    BY <1>2, <1>3, IntervalSize DEF Weeks
  <1>6. ASSUME NEW a \in Acts
        PROVE  /\ inst.activity[a].contract \in DOMAIN inst.contract
               /\ inst.activity[a].from \in Nat /\ inst.activity[a].to \in Nat
               /\ Need(a) \in Nat /\ inst.activity[a].need \in Nat
               /\ inst.activity[a].earliest \in Weeks
               /\ inst.activity[a].pred = 0 \/ inst.activity[a].pred \in Acts
               /\ inst.activity[a].priority \in 1..3
    <2>1. inst.activity[a] \in R
      BY <1>4
    <2>2. /\ inst.activity[a].contract \in DOMAIN inst.contract
          /\ inst.activity[a].from \in Nat /\ inst.activity[a].to \in Nat
          /\ inst.activity[a].need \in Nat
          /\ inst.activity[a].earliest \in 1..inst.weeks
          /\ inst.activity[a].pred \in 0..Len(inst.activity)
          /\ inst.activity[a].priority \in 1..3
      BY <2>1
    <2>. QED
      BY <2>2, <1>3 DEF Need, Weeks
  <1>. QED
    BY <1>2, <1>3, <1>5, <1>6

(* The nights an activity takes, its first week and its last. *)
LEMMA TakenWeeks ==
  ASSUME inst \in Instances, NEW p \in PlanSpace, NEW a \in Acts
  PROVE  /\ Taken(p, a) \subseteq Weeks
         /\ Eclo(p, a) \subseteq Taken(p, a)
         /\ Last(p, a) \in Nat
         /\ Last(p, a) <= inst.weeks
         /\ \A w \in Taken(p, a) : w <= Last(p, a)
         /\ Taken(p, a) = {} <=> Last(p, a) = 0
         /\ Taken(p, a) # {} => Last(p, a) \in Taken(p, a)
  <1>1. inst.weeks \in Nat \ {0} /\ Weeks = 1..inst.weeks
    BY Activities DEF Weeks
  <1>2. Taken(p, a) \subseteq Weeks /\ Eclo(p, a) \subseteq Taken(p, a)
    BY DEF Taken, Eclo, PlanSpace, Nights
  <1> DEFINE T == Taken(p, a) \cup {0}
  <1>3. T \in SUBSET Nat /\ T # {} /\ \A w \in T : w <= inst.weeks
    BY <1>1, <1>2
  <1>4. Last(p, a) \in T /\ \A w \in T : w <= Last(p, a)
    <2>. HIDE DEF T
    <2>1. Max(T) \in T /\ \A w \in T : w <= Max(T)
      BY <1>1, <1>3, MaxIsLargest
    <2>. QED
      BY <2>1 DEF Last, T
  <1>5. \A w \in Taken(p, a) : w > 0
    BY <1>1, <1>2
  <1>. QED
    BY <1>1, <1>2, <1>3, <1>4, <1>5

LEMMA FirstWeek ==
  ASSUME inst \in Instances, NEW p \in PlanSpace, NEW a \in Acts
  PROVE  /\ Taken(p, a) = {} => First(p, a) = inst.weeks + 1
         /\ Taken(p, a) # {} => /\ First(p, a) \in Taken(p, a)
                                /\ First(p, a) = Min(Taken(p, a))
         /\ \A w \in Taken(p, a) : First(p, a) <= w
         /\ First(p, a) \in Nat
         /\ First(p, a) >= 1
  <1>1. inst.weeks \in Nat \ {0} /\ Weeks = 1..inst.weeks
    BY Activities DEF Weeks
  <1>2. Taken(p, a) \subseteq Weeks
    BY TakenWeeks
  <1>3. Taken(p, a) \in SUBSET Nat /\ \A w \in Taken(p, a) : w < inst.weeks + 1 /\ w >= 1
    BY <1>1, <1>2
  <1> DEFINE T == Taken(p, a) \cup {inst.weeks + 1}
  <1>4. T \in SUBSET Nat /\ T # {}
    BY <1>1, <1>3
  <1>5. First(p, a) \in T /\ \A w \in T : First(p, a) <= w
    <2>. HIDE DEF T
    <2>1. Min(T) \in T /\ \A w \in T : Min(T) <= w
      BY <1>4, MinIsSmallest
    <2>. QED
      BY <2>1 DEF First, T
  <1>6. ASSUME Taken(p, a) # {} PROVE First(p, a) \in Taken(p, a)
    <2>1. PICK w \in Taken(p, a) : w \in Nat /\ w < inst.weeks + 1
      BY <1>3, <1>6
    <2>2. First(p, a) <= w
      BY <1>5, <2>1
    <2>3. First(p, a) # inst.weeks + 1
      BY <2>1, <2>2, <1>1
    <2>. QED
      BY <2>3, <1>5
  <1>7. ASSUME Taken(p, a) # {} PROVE First(p, a) = Min(Taken(p, a))
    <2>1. Min(Taken(p, a)) \in Taken(p, a) /\ \A w \in Taken(p, a) : Min(Taken(p, a)) <= w
      BY <1>3, <1>7, MinIsSmallest
    <2>2. First(p, a) <= Min(Taken(p, a)) /\ Min(Taken(p, a)) <= First(p, a)
      BY <1>5, <1>6, <1>7, <2>1
    <2>3. First(p, a) \in Nat /\ Min(Taken(p, a)) \in Nat
      BY <1>3, <1>6, <1>7, <2>1
    <2>. QED
      BY <2>2, <2>3
  <1>. QED
    BY <1>1, <1>3, <1>4, <1>5, <1>6, <1>7

(* An activity's yield: ten for every night, five more for some. *)
LEMMA YieldOf ==
  ASSUME inst \in Instances, NEW row \in [Weeks -> Nights]
  PROVE  \E n \in Nat, e \in Nat :
            /\ n = Cardinality({w \in Weeks : row[w] > 0})
            /\ e = Cardinality({w \in Weeks : row[w] = 15})
            /\ e <= n
            /\ Yield(row) = 10 * n + 5 * e
            /\ IsFiniteSet({w \in Weeks : row[w] > 0})
            /\ IsFiniteSet({w \in Weeks : row[w] = 15})
  <1> DEFINE T == {w \in Weeks : row[w] > 0}
             E == {w \in Weeks : row[w] = 15}
  <1>1. IsFiniteSet(Weeks) /\ T \subseteq Weeks /\ E \subseteq T
    BY Activities
  <1>2. Yield(row) = 10 * Cardinality(T) + 5 * Cardinality(E)
    BY DEF Yield
  <1>. HIDE DEF T, E
  <1>3. IsFiniteSet(T) /\ Cardinality(T) \in Nat
    BY <1>1, PartSize
  <1>4. IsFiniteSet(E) /\ Cardinality(E) \in Nat /\ Cardinality(E) <= Cardinality(T)
    BY <1>1, <1>3, PartSize
  <1>. QED
    BY <1>2, <1>3, <1>4 DEF T, E

-----------------------------------------------------------------------------
(* Capacity: the two inequalities against the number of packed slots *)

LEMMA SlotsFit ==
  ASSUME NEW mix \in Mix, NEW n \in Nat
  PROVE  /\ SlotsUsed(mix) \in Nat
         /\ Fits(mix, n) <=> SlotsUsed(mix) <= n
  <1>1. mix.pm \in Nat /\ mix.pc \in Nat /\ mix.co \in Nat
    BY DEF Mix
  <1>2. SlotsUsed(mix) =
          mix.pm + mix.pc + ((IF mix.co - 3 * mix.pc > 0 THEN mix.co - 3 * mix.pc ELSE 0) + 3) \div 4
    BY <1>1, MaxZero DEF SlotsUsed
  <1>. QED
    BY <1>1, <1>2 DEF Fits

LEMMA FitsMore ==
  ASSUME NEW mix \in Mix, NEW other \in Mix, NEW n \in Nat, NEW m \in Nat,
         other.pm <= mix.pm, other.pc <= mix.pc, other.co <= mix.co, n <= m,
         Fits(mix, n)
  PROVE  Fits(other, m)
  BY DEF Fits, Mix

(* As many slots as there are activities always suffice. *)
LEMMA AllFit ==
  ASSUME NEW mix \in Mix, NEW n \in Nat, Total(mix) <= n
  PROVE  Fits(mix, n)
  BY DEF Fits, Total, Mix

LEMMA MixOfPart ==
  ASSUME inst \in Instances, NEW A \in SUBSET Acts
  PROVE  /\ MixOf(A) \in Mix
         /\ IsFiniteSet(A)
         /\ Total(MixOf(A)) <= Cardinality(A)
  <1> DEFINE M == {a \in A : Contract(a).type = "PM"}
             P == {a \in A : Contract(a).type = "PC"}
             C == {a \in A : Contract(a).type = "C"}
  <1>1. IsFiniteSet(A) /\ Cardinality(A) \in Nat
    BY Activities, PartSize
  <1>2. /\ M \subseteq A /\ P \subseteq A /\ C \subseteq A
        /\ M \cap P = {} /\ (M \cup P) \cap C = {}
        /\ M \cup P \cup C \subseteq A
    OBVIOUS
  <1>3. MixOf(A) = [pm |-> Cardinality(M), pc |-> Cardinality(P), co |-> Cardinality(C)]
    BY DEF MixOf
  <1>. HIDE DEF M, P, C
  <1>4. /\ IsFiniteSet(M) /\ Cardinality(M) \in Nat
        /\ IsFiniteSet(P) /\ Cardinality(P) \in Nat
        /\ IsFiniteSet(C) /\ Cardinality(C) \in Nat
    BY <1>1, <1>2, PartSize
  <1>5. Cardinality(M \cap P) = 0 /\ Cardinality((M \cup P) \cap C) = 0
    BY <1>2, FS_EmptySet, Zenon
  <1>6. IsFiniteSet(M \cup P) /\ Cardinality(M \cup P) = Cardinality(M) + Cardinality(P)
    <2>1. /\ IsFiniteSet(M \cup P)
          /\ Cardinality(M \cup P) = Cardinality(M) + Cardinality(P) - Cardinality(M \cap P)
      BY <1>4, FS_Union
    <2>. QED
      BY <2>1, <1>4, <1>5
  <1>7. Cardinality((M \cup P) \cup C) = Cardinality(M) + Cardinality(P) + Cardinality(C)
    <2>1. Cardinality((M \cup P) \cup C)
            = Cardinality(M \cup P) + Cardinality(C) - Cardinality((M \cup P) \cap C)
      BY <1>4, <1>6, FS_Union
    <2>. QED
      BY <2>1, <1>4, <1>5, <1>6
  <1>8. Cardinality((M \cup P) \cup C) <= Cardinality(A)
    BY <1>1, <1>2, FS_Subset
  <1>. QED
    BY <1>1, <1>3, <1>4, <1>7, <1>8 DEF Mix, Total

LEMMA MixGrows ==
  ASSUME inst \in Instances, NEW A \in SUBSET Acts, NEW B \in SUBSET A
  PROVE  /\ MixOf(B).pm <= MixOf(A).pm
         /\ MixOf(B).pc <= MixOf(A).pc
         /\ MixOf(B).co <= MixOf(A).co
  <1>1. IsFiniteSet(A)
    BY Activities, PartSize
  <1>2. ASSUME NEW type
        PROVE  Cardinality({a \in B : Contract(a).type = type})
                 <= Cardinality({a \in A : Contract(a).type = type})
    <2> DEFINE Of == {a \in A : Contract(a).type = type}
               Part == {a \in B : Contract(a).type = type}
    <2>1. Of \subseteq A /\ Part \subseteq Of
      OBVIOUS
    <2>. HIDE DEF Of, Part
    <2>2. Cardinality(Part) <= Cardinality(Of)
      BY <1>1, <2>1, PartSize
    <2>. QED
      BY <2>2 DEF Of, Part
  <1>. QED
    BY <1>2 DEF MixOf

(* The locations at issue have a supply, and both sides read the same one. *)
LEMMA SameSupply ==
  ASSUME Derived, opts \in Options, Unambiguous, NEW l \in Locations, NEW w \in Weeks
  PROVE  /\ l \in DOMAIN inst.supply
         /\ SolverSupply(l, w) \in Nat
         /\ EffectiveSupply(l, w) = SolverSupply(l, w)
  <1>1. Loaded(inst)
    BY InstancesAssumption DEF Derived
  <1>2. PICK a \in Acts : l \in zones[a].occupied
    BY DEF Locations
  <1>3. zones[a].occupied = Span(a)
    BY <1>2 DEF Derived, Zone
  <1>4. l \in DOMAIN inst.supply
    BY <1>2, <1>3 DEF Span, ChainOf
  <1>5. inst.supply[l] \in Nat
    BY <1>1, <1>4 DEF Loaded
  <1>6. CASE Disruptions(l, w) = {}
    BY <1>4, <1>5, <1>6 DEF SolverSupply, EffectiveSupply
  <1>7. CASE Disruptions(l, w) # {}
    <2> DEFINE O == [cell : (DOMAIN inst.supply) \X Weeks, supply : Nat]
    <2>1. opts.overrides \in Seq(O)
      BY DEF Options, Overrides
    <2>2. /\ DOMAIN opts.overrides \subseteq Nat
          /\ \A n \in DOMAIN opts.overrides : opts.overrides[n] \in O
      <3>. HIDE DEF O
      <3>1. /\ Len(opts.overrides) \in Nat
            /\ DOMAIN opts.overrides = 1..Len(opts.overrides)
        BY <2>1, LenProperties
      <3>2. \A n \in 1..Len(opts.overrides) : opts.overrides[n] \in O
        BY <2>1, ElementOfSeq
      <3>. QED
        BY <3>1, <3>2
    <2>3. PICK n \in DOMAIN opts.overrides : n \in Disruptions(l, w)
      BY <1>7 DEF Disruptions
    <2>4. Disruptions(l, w) = {n}
      BY <2>3 DEF Disruptions, Unambiguous
    <2>5. n \in Nat /\ opts.overrides[n].supply \in Nat
      BY <2>2
    <2>6. Min({n}) = n /\ Max({n}) = n
      <3>1. Min({n}) \in {n}
        BY <2>5, MinIsSmallest
      <3>2. Max({n}) \in {n}
        BY <2>5, MaxIsLargest
      <3>. QED
        BY <3>1, <3>2
    <2>7. SolverSupply(l, w) = opts.overrides[n].supply
      BY <2>4, <2>6 DEF SolverSupply
    <2>8. EffectiveSupply(l, w) = opts.overrides[n].supply
      BY <2>4, <2>6 DEF EffectiveSupply
    <2>. QED
      BY <1>4, <2>5, <2>7, <2>8
  <1>. QED
    BY <1>6, <1>7

(* The excess that is allowed, all of it used. *)
LEMMA WithinSupplyCells ==
  ASSUME Derived, opts \in Options, Unambiguous, NEW p \in PlanSpace
  PROVE  /\ \A l \in Locations, w \in Weeks :
              /\ MixOf(At(l, w, p)) \in Mix
              /\ ExcessAllowed(l) \in Nat
              /\ opts.soft \/ opts.scenario = "B" =>
                   Fits(MixOf(At(l, w, p)), SolverSupply(l, w) + ExcessAllowed(l))
         /\ WithinSupply(p) <=>
              \A l \in Locations, w \in Weeks :
                Fits(MixOf(At(l, w, p)), SolverSupply(l, w) + ExcessAllowed(l))
  <1>1. ASSUME NEW l \in Locations, NEW w \in Weeks
        PROVE  /\ MixOf(At(l, w, p)) \in Mix
               /\ ExcessAllowed(l) \in Nat
               /\ opts.soft \/ opts.scenario = "B" =>
                    Fits(MixOf(At(l, w, p)), SolverSupply(l, w) + ExcessAllowed(l))
               /\ (\E ex \in 0..ExcessAllowed(l) :
                      Fits(MixOf(At(l, w, p)), SolverSupply(l, w) + ex))
                    <=> Fits(MixOf(At(l, w, p)), SolverSupply(l, w) + ExcessAllowed(l))
    <2> DEFINE mix == MixOf(At(l, w, p))
               Here == {a \in Acts : l \in zones[a].occupied}
    <2>1. SolverSupply(l, w) \in Nat
      BY SameSupply
    <2>2. Here \subseteq Acts /\ At(l, w, p) \subseteq Here
      BY DEF At
    <2>3. IsFiniteSet(Here) /\ Cardinality(Here) \in Nat
      <3>. HIDE DEF Here
      <3>. QED
        BY <2>2, Activities, PartSize DEF Derived
    <2>4. mix \in Mix /\ Total(mix) <= Cardinality(Here)
      <3>. HIDE DEF Here
      <3>1. mix \in Mix /\ Total(mix) <= Cardinality(At(l, w, p))
        BY <2>2, MixOfPart DEF Derived
      <3>2. Cardinality(At(l, w, p)) <= Cardinality(Here) /\ Cardinality(At(l, w, p)) \in Nat
        BY <2>2, <2>3, PartSize
      <3>. QED
        BY <2>3, <3>1, <3>2 DEF Total, Mix
    <2>5. ExcessAllowed(l) = IF opts.soft \/ opts.scenario = "B" THEN Cardinality(Here)
                             ELSE IF opts.scenario = "C" THEN 1 ELSE 0
      BY DEF ExcessAllowed
    <2>6. ExcessAllowed(l) \in Nat
      BY <2>3, <2>5
    <2>. HIDE DEF mix, Here
    <2>7. ASSUME opts.soft \/ opts.scenario = "B"
          PROVE  Fits(mix, SolverSupply(l, w) + ExcessAllowed(l))
      <3>1. Total(mix) <= SolverSupply(l, w) + ExcessAllowed(l)
        BY <2>1, <2>3, <2>4, <2>5, <2>7 DEF Total, Mix
      <3>. QED
        BY <3>1, <2>1, <2>4, <2>6, AllFit
    <2>8. ASSUME NEW ex \in 0..ExcessAllowed(l), Fits(mix, SolverSupply(l, w) + ex)
          PROVE  Fits(mix, SolverSupply(l, w) + ExcessAllowed(l))
      <3>1. mix.pm \in Nat /\ mix.pc \in Nat /\ mix.co \in Nat
        BY <2>4 DEF Mix
      <3>. QED
        BY <2>1, <2>6, <2>8, <3>1 DEF Fits
    <2>9. ExcessAllowed(l) \in 0..ExcessAllowed(l)
      BY <2>6
    <2>. QED
      BY <2>4, <2>6, <2>7, <2>8, <2>9 DEF mix
  <1>. QED
    BY <1>1 DEF WithinSupply

(* The model's capacity is the validator's, and priced it is none at all. *)
LEMMA CapacityRule ==
  ASSUME Derived, opts \in Options, Unambiguous, NEW p \in PlanSpace
  PROVE  /\ opts.soft => WithinSupply(p)
         /\ ~opts.soft => (WithinSupply(p) <=> ~Breaks(p, "capacity"))
  <1>1. opts.soft => WithinSupply(p)
    BY WithinSupplyCells
  <1>2. ASSUME ~opts.soft
        PROVE  WithinSupply(p) <=> ~Breaks(p, "capacity")
    <2>1. ASSUME NEW l \in Locations, NEW w \in Weeks
          PROVE  Fits(MixOf(At(l, w, p)), SolverSupply(l, w) + ExcessAllowed(l))
                   <=> Tolerated(SlotsUsed(MixOf(At(l, w, p))) - EffectiveSupply(l, w))
      <3> DEFINE mix == MixOf(At(l, w, p))
                 all == ExcessAllowed(l)
                 s == SolverSupply(l, w)
      <3>1. s \in Nat /\ EffectiveSupply(l, w) = s
        BY SameSupply
      <3>2. /\ mix \in Mix
            /\ all \in Nat
            /\ opts.scenario = "B" => Fits(mix, s + all)
        BY WithinSupplyCells
      <3>3. /\ opts.scenario = "A" => all = 0
            /\ opts.scenario = "C" => all = 1
        BY <1>2 DEF ExcessAllowed
      <3>. HIDE DEF mix, all, s
      <3>4. s + all \in Nat
        BY <3>1, <3>2
      <3>5. SlotsUsed(mix) \in Nat /\ (Fits(mix, s + all) <=> SlotsUsed(mix) <= s + all)
        BY <3>2, <3>4, SlotsFit
      <3>6. opts.scenario \in {"A", "B", "C"}
        BY DEF Options
      <3>7. Fits(mix, s + all) <=> Tolerated(SlotsUsed(mix) - s)
        <4>1. CASE opts.scenario = "A"
          BY <4>1, <3>1, <3>3, <3>5 DEF Tolerated
        <4>2. CASE opts.scenario = "B"
          BY <4>2, <3>2 DEF Tolerated
        <4>3. CASE opts.scenario = "C"
          BY <4>3, <3>1, <3>3, <3>5 DEF Tolerated
        <4>. QED
          BY <3>6, <4>1, <4>2, <4>3
      <3>. QED
        BY <3>1, <3>7 DEF mix, all, s
    <2>2. Breaks(p, "capacity") <=>
            \E l \in Locations, w \in Weeks :
              ~Tolerated(SlotsUsed(MixOf(At(l, w, p))) - EffectiveSupply(l, w))
      BY DEF Breaks
    <2>. QED
      BY <2>1, <2>2, WithinSupplyCells
  <1>. QED
    BY <1>1, <1>2

-----------------------------------------------------------------------------
(* Nights: a week's load against the nights that are dealt *)

LEMMA Buckets ==
  ASSUME inst \in Instances, NEW p, NEW c, NEW w
  PROVE  /\ Bucket(p, c, w) \in SUBSET Nat
         /\ IsFiniteSet(Bucket(p, c, w))
         /\ Cardinality(Bucket(p, c, w)) \in Nat
         /\ \A a \in Bucket(p, c, w) : a \in Acts /\ inst.activity[a].contract = c
  <1>1. /\ Bucket(p, c, w) \subseteq Acts
        /\ \A a \in Bucket(p, c, w) : inst.activity[a].contract = c
    BY DEF Bucket
  <1>2. IsFiniteSet(Acts) /\ Acts \subseteq Nat
    BY Activities
  <1>. QED
    BY <1>1, <1>2, PartSize

LEMMA NightOf ==
  ASSUME inst \in Instances, NEW p, NEW c, NEW w, NEW a \in Bucket(p, c, w)
  PROVE  Night(p, a, w) = Cardinality(Ahead(Bucket(p, c, w), a)) \div inst.contract[c].fronts + 1
  <1>1. inst.activity[a].contract = c
    BY Buckets
  <1>2. Night(p, a, w) =
          Cardinality({b \in Bucket(p, inst.activity[a].contract, w) : b < a})
            \div inst.contract[inst.activity[a].contract].fronts + 1
    BY DEF Night
  <1>. QED
    BY <1>1, <1>2 DEF Ahead

(* A load that the week can carry is dealt within its nights.              *)
LEMMA LoadIsDealt ==
  ASSUME inst \in Instances, NEW p, NEW c \in DOMAIN inst.contract, NEW w
  PROVE  Cardinality(Bucket(p, c, w)) <= Load(c)
           <=> NightsOf(p, c, w) \subseteq 1..inst.contract[c].allowance
  <1> DEFINE B == Bucket(p, c, w)
             f == inst.contract[c].fronts
             n == inst.contract[c].allowance
  <1>1. f \in Nat \ {0} /\ n \in Nat /\ Load(c) = n * f
    BY Contracts DEF Load
  <1>2. B \in SUBSET Nat /\ IsFiniteSet(B) /\ Cardinality(B) \in Nat
    BY Buckets
  <1>3. NightsOf(p, c, w) = {Cardinality(Ahead(B, a)) \div f + 1 : a \in B}
    BY NightOf DEF NightsOf
  <1>. HIDE DEF B, f, n
  <1>4. ASSUME NEW a \in B
        PROVE  /\ Cardinality(Ahead(B, a)) \in Nat
               /\ Cardinality(Ahead(B, a)) < Cardinality(B)
               /\ Cardinality(Ahead(B, a)) < n * f
                    <=> Cardinality(Ahead(B, a)) \div f + 1 \in 1..n
    <2>1. Cardinality(Ahead(B, a)) \in Nat /\ Cardinality(Ahead(B, a)) < Cardinality(B)
      BY <1>2, Rank
    <2>2. Cardinality(Ahead(B, a)) < n * f <=> Cardinality(Ahead(B, a)) \div f < n
      BY <1>1, <2>1, DealtWithin
    <2>3. Cardinality(Ahead(B, a)) \div f \in Nat
      BY <1>1, <2>1, Dealt
    <2>. QED
      BY <1>1, <2>1, <2>2, <2>3
  <1>5. ASSUME Cardinality(B) <= n * f, NEW a \in B
        PROVE  Cardinality(Ahead(B, a)) \div f + 1 \in 1..n
    <2>1. n * f \in Nat
      BY <1>1
    <2>2. Cardinality(Ahead(B, a)) < n * f
      BY <1>2, <1>4, <1>5, <2>1
    <2>. QED
      BY <1>4, <2>2
  <1>6. ASSUME ~(Cardinality(B) <= n * f)
        PROVE  \E a \in B : Cardinality(Ahead(B, a)) \div f + 1 \notin 1..n
    <2>1. n * f \in Nat
      BY <1>1
    <2>2. Cardinality(B) > n * f /\ Cardinality(B) # 0
      BY <1>2, <1>6, <2>1
    <2>3. B # {}
      BY <2>2, FS_EmptySet
    <2>4. \A b \in B : b \in Acts /\ b <= Len(inst.activity)
      BY Buckets, Activities DEF B
    <2>5. PICK a \in B : \A b \in B : b <= a
      BY <1>2, <2>3, <2>4, Activities, LargestExists
    <2>6. Cardinality(Ahead(B, a)) = Cardinality(B) - 1
      BY <1>2, <2>5, LastRank
    <2>7. ~(Cardinality(Ahead(B, a)) < n * f)
      BY <1>2, <2>1, <2>2, <2>6
    <2>. QED
      BY <1>4, <2>7
  <1>7. Cardinality(B) <= n * f
          <=> {Cardinality(Ahead(B, a)) \div f + 1 : a \in B} \subseteq 1..n
    BY <1>5, <1>6
  <1>. QED
    BY <1>1, <1>3, <1>7 DEF B, f, n

(* However many there are, no night has more than the workfronts.          *)
LEMMA FrontsSuffice ==
  ASSUME inst \in Instances, NEW p, NEW c \in DOMAIN inst.contract, NEW w, NEW night
  PROVE  night \in NightsOf(p, c, w) =>
           Cardinality(OnNight(p, c, w, night)) <= inst.contract[c].fronts
  <1>. SUFFICES ASSUME night \in NightsOf(p, c, w)
                PROVE  Cardinality(OnNight(p, c, w, night)) <= inst.contract[c].fronts
    OBVIOUS
  <1> DEFINE B == Bucket(p, c, w)
             f == inst.contract[c].fronts
             S == OnNight(p, c, w, night)
  <1>1. f \in Nat \ {0}
    BY Contracts
  <1>2. B \in SUBSET Nat /\ IsFiniteSet(B)
    BY Buckets
  <1>3. S \subseteq B /\ \A a \in S : night = Cardinality(Ahead(B, a)) \div f + 1
    BY NightOf DEF OnNight
  <1>4. PICK b \in B : night = Cardinality(Ahead(B, b)) \div f + 1
    BY NightOf DEF NightsOf
  <1>. HIDE DEF B, f, S
  <1>5. PICK q \in Nat : night = q + 1
    BY <1>1, <1>2, <1>4, Rank, Dealt
  <1>6. ASSUME NEW a \in S
        PROVE  /\ f * q <= Cardinality(Ahead(B, a))
               /\ Cardinality(Ahead(B, a)) < f * q + f
    <2>1. Cardinality(Ahead(B, a)) \in Nat
      BY <1>2, <1>3, Rank
    <2>2. Cardinality(Ahead(B, a)) \div f = q
      BY <1>1, <1>3, <1>5, <2>1, Dealt
    <2>. QED
      BY <1>1, <2>1, <2>2, Dealt
  <1>7. f * q \in Nat
    BY <1>1, <1>5
  <1>8. Cardinality(S) <= f
    BY <1>1, <1>2, <1>3, <1>6, <1>7, RanksWithin
  <1>. QED
    BY <1>8 DEF S, f

LEMMA WeeklyRule ==
  ASSUME inst \in Instances, NEW p
  PROVE  /\ WithinLoad(p) <=> ~Breaks(p, "allocation")
         /\ ~Breaks(p, "workfront")
  <1>1. Breaks(p, "allocation") <=>
          \E c \in DOMAIN inst.contract, w \in Weeks :
            ~(NightsOf(p, c, w) \subseteq 1..inst.contract[c].allowance)
    BY DEF Breaks
  <1>2. Breaks(p, "workfront") <=>
          \E c \in DOMAIN inst.contract, w \in Weeks : \E night \in NightsOf(p, c, w) :
            Cardinality(OnNight(p, c, w, night)) > inst.contract[c].fronts
    BY DEF Breaks
  <1>3. WithinLoad(p) <=> ~Breaks(p, "allocation")
    BY <1>1, LoadIsDealt DEF WithinLoad
  <1>4. ASSUME NEW c \in DOMAIN inst.contract, NEW w \in Weeks, NEW night \in NightsOf(p, c, w)
        PROVE  ~(Cardinality(OnNight(p, c, w, night)) > inst.contract[c].fronts)
    <2>1. Cardinality(OnNight(p, c, w, night)) <= inst.contract[c].fronts
      BY FrontsSuffice
    <2>2. Cardinality(OnNight(p, c, w, night)) \in Nat
      <3>1. OnNight(p, c, w, night) \subseteq Bucket(p, c, w)
        BY DEF OnNight
      <3>. QED
        BY <3>1, Buckets, PartSize
    <2>3. inst.contract[c].fronts \in Nat
      BY Contracts
    <2>. QED
      BY <2>1, <2>2, <2>3
  <1>. QED
    BY <1>2, <1>3, <1>4

-----------------------------------------------------------------------------
(* The other rules, one by one *)

(* Weeks before the start. *)
LEMMA StartRule ==
  ASSUME inst \in Instances, NEW p \in PlanSpace
  PROVE  ~Breaks(p, "planned_start") <=>
           \A a \in Acts, w \in Weeks : p[a][w] > 0 => w >= inst.activity[a].earliest
  <1>1. Breaks(p, "planned_start") <=>
          \E a \in Acts : \E w \in Taken(p, a) : w < inst.activity[a].earliest
    BY DEF Breaks
  <1>2. \A a \in Acts, w \in Weeks :
          w \in Int /\ inst.activity[a].earliest \in Int
    BY Activities DEF Weeks
  <1>. QED
    BY <1>1, <1>2 DEF Taken

LEMMA WorkloadRule ==
  ASSUME inst \in Instances, NEW p \in PlanSpace
  PROVE  ~Breaks(p, "workload") <=> \A a \in Acts : Yield(p[a]) >= Need(a)
  <1>1. Breaks(p, "workload") <=> \E a \in Acts : Yield(p[a]) < Need(a)
    BY DEF Breaks
  <1>2. ASSUME NEW a \in Acts PROVE Yield(p[a]) \in Int /\ Need(a) \in Int
    <2>1. p[a] \in [Weeks -> Nights]
      BY DEF PlanSpace
    <2>. QED
      <3>1. PICK n \in Nat, e \in Nat : Yield(p[a]) = 10 * n + 5 * e
        BY <2>1, YieldOf
      <3>. QED
        BY <3>1, Activities
  <1>. QED
    BY <1>1, <1>2

(* First after last, said with sentinels and without. *)
LEMMA PrecedenceRule ==
  ASSUME inst \in Instances, NEW p \in PlanSpace
  PROVE  ~Breaks(p, "precedence") <=> \A a \in Acts : Follows(p, a)
  <1>1. Breaks(p, "precedence") <=>
          \E a \in Acts :
            /\ inst.activity[a].pred # 0 /\ Taken(p, a) # {}
            /\ Taken(p, inst.activity[a].pred) # {}
            /\ Min(Taken(p, a)) <= Last(p, inst.activity[a].pred)
    BY DEF Breaks
  <1>2. ASSUME NEW a \in Acts
        PROVE  Follows(p, a) <=>
                 ~(/\ inst.activity[a].pred # 0 /\ Taken(p, a) # {}
                   /\ Taken(p, inst.activity[a].pred) # {}
                   /\ Min(Taken(p, a)) <= Last(p, inst.activity[a].pred))
    <2>1. CASE inst.activity[a].pred = 0
      BY <2>1 DEF Follows
    <2>2. CASE inst.activity[a].pred # 0
      <3>1. PICK b \in Acts : b = inst.activity[a].pred
        BY <2>2, Activities
      <3>2. Follows(p, a) <=> First(p, a) >= Last(p, b) + 1
        BY <2>2, <3>1 DEF Follows
      <3>3. First(p, a) \in Nat /\ First(p, a) >= 1 /\ inst.weeks \in Nat
        BY FirstWeek, Activities
      <3>4. Last(p, b) \in Nat /\ Last(p, b) <= inst.weeks
        BY TakenWeeks
      <3>5. CASE Taken(p, a) = {}
        <4>1. First(p, a) = inst.weeks + 1
          BY <3>5, FirstWeek
        <4>. QED
          BY <3>2, <3>3, <3>4, <3>5, <4>1
      <3>6. CASE Taken(p, a) # {} /\ Taken(p, b) = {}
        <4>1. Last(p, b) = 0
          BY <3>6, TakenWeeks
        <4>. QED
          BY <3>1, <3>2, <3>3, <3>6, <4>1
      <3>7. CASE Taken(p, a) # {} /\ Taken(p, b) # {}
        <4>1. First(p, a) = Min(Taken(p, a))
          BY <3>7, FirstWeek
        <4>. QED
          BY <2>2, <3>1, <3>2, <3>3, <3>4, <3>7, <4>1
      <3>. QED
        BY <3>5, <3>6, <3>7
    <2>. QED
      BY <2>1, <2>2
  <1>. QED
    BY <1>1, <1>2

(* Between activities that share no location, a zone that reaches the      *)
(* other's worksite reaches it outside the owner's.                        *)
LEMMA ClashIntrudes ==
  ASSUME NEW a \in Acts, NEW b \in Acts, ~ShareLocation(a, b)
  PROVE  Clash(a, b) <=> Intrudes(a, b)
  <1>1. zones[a].occupied \cap zones[b].occupied = {}
    BY DEF ShareLocation, Meet
  <1>2. ASSUME NEW zone
        PROVE  /\ Meet(zone, zones[b].occupied) <=> Beyond(zone, a, b)
               /\ Meet(zone, zones[a].occupied) <=> Beyond(zone, b, a)
    BY <1>1 DEF Meet, Beyond
  <1>. QED
    BY <1>2 DEF Clash, Intrudes

LEMMA ClosureRule ==
  ASSUME opts \in Options, NEW p \in PlanSpace
  PROVE  /\ KeptApart(p) => ~Breaks(p, "closure")
         /\ opts.reading = "adopted" => (KeptApart(p) <=> ~Breaks(p, "closure"))
  <1>1. Breaks(p, "closure") <=>
          \E a, b \in Acts :
            /\ a < b /\ Taken(p, a) \cap Taken(p, b) # {}
            /\ ~ShareLocation(a, b)
            /\ Intrudes(a, b)
    BY DEF Breaks
  <1>2. KeptApart(p) <=>
          \A a, b \in Acts : a < b /\ Excluded(a, b) => Taken(p, a) \cap Taken(p, b) = {}
    BY DEF KeptApart
  <1>3. ASSUME NEW a \in Acts, NEW b \in Acts, ~ShareLocation(a, b), Intrudes(a, b)
        PROVE  Excluded(a, b)
    BY <1>3, ClashIntrudes DEF Excluded
  <1>4. ASSUME NEW a \in Acts, NEW b \in Acts, opts.reading = "adopted", Excluded(a, b)
        PROVE  ~ShareLocation(a, b) /\ Intrudes(a, b)
    <2>1. ~ShareLocation(a, b) /\ Clash(a, b)
      BY <1>4 DEF Excluded
    <2>. QED
      BY <2>1, ClashIntrudes
  <1>. QED
    BY <1>1, <1>2, <1>3, <1>4

(* Two weeks that hold a line's early closures, if any two do. *)
LEMMA WindowRule ==
  ASSUME inst \in Instances, NEW p \in PlanSpace, NEW line
  PROVE  (\E start \in Weeks :
            \A a \in Acts : line \in LinesOf(a) => Eclo(p, a) \subseteq {start, start + 1})
           <=> ~(Spread(p, line) # {} /\
                   Max(Spread(p, line)) - Min(Spread(p, line)) + 1 > 2)
  <1> DEFINE S == Spread(p, line)
  <1>1. inst.weeks \in Nat \ {0} /\ Weeks = 1..inst.weeks
    BY Activities DEF Weeks
  <1>2. S \subseteq Weeks
    BY DEF Spread, Eclo
  <1>3. S \in SUBSET Nat /\ \A w \in S : w \in Weeks /\ w <= inst.weeks
    BY <1>1, <1>2
  <1>4. \A start : (\A a \in Acts : line \in LinesOf(a) => Eclo(p, a) \subseteq {start, start + 1})
                     <=> S \subseteq {start, start + 1}
    BY DEF Spread
  <1>. HIDE DEF S
  <1>5. CASE S = {}
    <2>1. 1 \in Weeks
      BY <1>1
    <2>. QED
      BY <1>4, <1>5, <2>1 DEF S
  <1>6. CASE S # {}
    <2>1. Min(S) \in S /\ \A w \in S : Min(S) <= w
      BY <1>3, <1>6, MinIsSmallest
    <2>2. Max(S) \in S /\ \A w \in S : w <= Max(S)
      BY <1>1, <1>3, <1>6, MaxIsLargest
    <2>3. Min(S) \in Nat /\ Max(S) \in Nat /\ Min(S) \in Weeks
      BY <1>3, <2>1, <2>2
    <2>4. ASSUME NEW start \in Weeks, S \subseteq {start, start + 1}
          PROVE  ~(Max(S) - Min(S) + 1 > 2)
      <3>1. Min(S) \in {start, start + 1} /\ Max(S) \in {start, start + 1}
        BY <2>1, <2>2, <2>4
      <3>2. start \in Nat
        BY <1>1
      <3>. QED
        BY <3>1, <3>2
    <2>5. ASSUME ~(Max(S) - Min(S) + 1 > 2)
          PROVE  S \subseteq {Min(S), Min(S) + 1}
      <3>1. ASSUME NEW w \in S PROVE w \in {Min(S), Min(S) + 1}
        <4>1. w \in Nat /\ Min(S) <= w /\ w <= Max(S)
          BY <1>3, <2>1, <2>2
        <4>. QED
          BY <2>3, <2>5, <4>1
      <3>. QED
        BY <3>1
    <2>6. (\E start \in Weeks : S \subseteq {start, start + 1}) <=> ~(Max(S) - Min(S) + 1 > 2)
      BY <2>3, <2>4, <2>5
    <2>. QED
      BY <1>4, <1>6, <2>6 DEF S
  <1>. QED
    BY <1>5, <1>6

LEMMA EcloRule ==
  ASSUME inst \in Instances, opts \in Options, NEW p \in PlanSpace
  PROVE  ~Breaks(p, "eclo") <=>
           /\ opts.scenario = "A" => \A a \in Acts, w \in Weeks : p[a][w] # 15
           /\ opts.scenario = "C" => Windows(p)
  <1>1. Breaks(p, "eclo") <=>
          \/ opts.scenario = "A" /\ \E a \in Acts : Eclo(p, a) # {}
          \/ /\ opts.scenario = "C"
             /\ \E line \in inst.lines : Spread(p, line) # {} /\
                  Max(Spread(p, line)) - Min(Spread(p, line)) + 1 > 2
    BY DEF Breaks
  <1>2. Windows(p) <=>
          ~\E line \in inst.lines : Spread(p, line) # {} /\
             Max(Spread(p, line)) - Min(Spread(p, line)) + 1 > 2
    BY WindowRule DEF Windows
  <1>3. (\E a \in Acts : Eclo(p, a) # {}) <=> \E a \in Acts, w \in Weeks : p[a][w] = 15
    BY DEF Eclo
  <1>. QED
    BY <1>1, <1>2, <1>3

(* A planned date, by activity and by contract: the same where every       *)
(* activity has work, or a date within the horizon.                        *)
LEMMA DateRule ==
  ASSUME inst \in Instances, NEW p \in PlanSpace, opts.scenario = "B", ~Unworked,
         ~Breaks(p, "workload")
  PROVE  ~Breaks(p, "planned_date") <=> \A a \in Acts : InTime(p, a)
  <1>1. Breaks(p, "planned_date") <=> \E c \in DOMAIN inst.contract : TooLate(p, c)
    BY DEF Breaks
  <1>2. ASSUME NEW a \in Acts, Last(p, a) = 0
        PROVE  InTime(p, a)
    <2>1. Taken(p, a) = {}
      BY <1>2, TakenWeeks
    <2>2. Need(a) = 0
      <3>1. p[a] \in [Weeks -> Nights]
        BY DEF PlanSpace
      <3>2. {w \in Weeks : p[a][w] > 0} = {}
        BY <2>1 DEF Taken
      <3>3. PICK n \in Nat, e \in Nat : /\ n = Cardinality({w \in Weeks : p[a][w] > 0})
                                        /\ e <= n
                                        /\ Yield(p[a]) = 10 * n + 5 * e
        BY <3>1, YieldOf
      <3>4. n = 0
        BY <3>2, <3>3, FS_EmptySet
      <3>5. Yield(p[a]) = 0 /\ Yield(p[a]) >= Need(a)
        BY <3>3, <3>4, WorkloadRule
      <3>. QED
        BY <3>5, Activities
    <2>3. ~(Contract(a).due < 0)
      BY <2>2 DEF Unworked
    <2>4. Contract(a).due \in Int
      BY Activities, Contracts DEF Contract
    <2>. QED
      BY <1>2, <2>3, <2>4 DEF InTime
  <1>3. ASSUME NEW c \in DOMAIN inst.contract
        PROVE  ~TooLate(p, c) <=> \A a \in Acts : inst.activity[a].contract = c => InTime(p, a)
    <2> DEFINE ends == {Last(p, a) : a \in {b \in Acts : inst.activity[b].contract = c}} \ {0}
    <2>1. inst.weeks \in Nat /\ inst.contract[c].due \in Int
      BY Activities, Contracts
    <2>2. ends \in SUBSET Nat /\ \A n \in ends : n <= inst.weeks
      BY TakenWeeks
    <2>3. TooLate(p, c) <=> ends # {} /\ inst.contract[c].due < 7 * Max(ends)
      BY DEF TooLate
    <2>4. \A a \in Acts : inst.activity[a].contract = c =>
            (InTime(p, a) <=> 7 * Last(p, a) <= inst.contract[c].due)
      BY DEF InTime, Contract
    <2>5. \A a \in Acts : inst.activity[a].contract = c /\ Last(p, a) # 0 => Last(p, a) \in ends
      OBVIOUS
    <2>6. \A n \in ends : \E a \in Acts : inst.activity[a].contract = c /\ n = Last(p, a)
      OBVIOUS
    <2>. HIDE DEF ends
    <2>7. CASE ends = {}
      BY <1>2, <2>3, <2>5, <2>7
    <2>8. CASE ends # {}
      <3>1. Max(ends) \in ends /\ \A n \in ends : n <= Max(ends)
        BY <2>1, <2>2, <2>8, MaxIsLargest
      <3>2. ASSUME ~TooLate(p, c), NEW a \in Acts, inst.activity[a].contract = c
            PROVE  InTime(p, a)
        <4>1. CASE Last(p, a) = 0
          BY <1>2, <4>1
        <4>2. CASE Last(p, a) # 0
          <5>1. Last(p, a) \in Nat /\ Max(ends) \in Nat /\ Last(p, a) <= Max(ends)
            BY <2>2, <2>5, <3>1, <3>2, <4>2
          <5>2. ~(inst.contract[c].due < 7 * Max(ends))
            BY <2>3, <2>8, <3>2
          <5>. QED
            BY <2>1, <2>4, <3>2, <5>1, <5>2
        <4>. QED
          BY <4>1, <4>2
      <3>3. ASSUME \A a \in Acts : inst.activity[a].contract = c => InTime(p, a)
            PROVE  ~TooLate(p, c)
        <4>1. PICK a \in Acts : inst.activity[a].contract = c /\ Max(ends) = Last(p, a)
          BY <2>6, <3>1
        <4>2. 7 * Max(ends) <= inst.contract[c].due
          BY <2>4, <3>3, <4>1
        <4>3. Max(ends) \in Nat
          BY <2>2, <3>1
        <4>. QED
          BY <2>1, <2>3, <4>2, <4>3
      <3>. QED
        BY <3>2, <3>3
    <2>. QED
      BY <2>7, <2>8
  <1>4. \A a \in Acts : inst.activity[a].contract \in DOMAIN inst.contract
    BY Activities
  <1>. QED
    BY <1>1, <1>3, <1>4

-----------------------------------------------------------------------------
(* The model as a whole against the validator as a whole *)

(* The model without the night that was asked for and without what it says *)
(* of an activity's yield.                                                 *)
Conforms(p) ==
  /\ Enforced("start") => \A a \in Acts, w \in Weeks : p[a][w] > 0 => w >= inst.activity[a].earliest
  /\ opts.scenario = "A" => \A a \in Acts, w \in Weeks : p[a][w] # 15
  /\ Enforced("precedence") => \A a \in Acts : Follows(p, a)
  /\ Enforced("weekly") => WithinLoad(p)
  /\ Enforced("capacity") => WithinSupply(p)
  /\ Enforced("buffers") => KeptApart(p)
  /\ opts.scenario = "C" => Windows(p)
  /\ opts.scenario = "B" /\ ~opts.soft => \A a \in Acts : InTime(p, a)

Asked(p) == \A r \in opts.require : p[r[1]][r[2]] > 0
Worked(p) == \A a \in Acts : Yield(p[a]) >= Need(a)
Frugal(p) == \A a \in Acts : Yield(p[a]) <= Need(a) + 9

LEMMA SolutionsAre ==
  ASSUME NEW p
  PROVE  p \in Solutions <=> p \in PlanSpace /\ Conforms(p) /\ Asked(p) /\ Worked(p) /\ Frugal(p)
  <1> DEFINE each == [a \in Acts |-> Rows(a)]
  <1>1. p \in Solutions <=> /\ p \in [Acts -> UNION {each[a] : a \in Acts}]
                            /\ \A a \in Acts : p[a] \in each[a]
                            /\ Admitted(p)
    BY DEF Solutions
  <1>2. \A a \in Acts : each[a] = Rows(a)
    OBVIOUS
  <1>. HIDE DEF each
  <1>3. p \in [Acts -> UNION {each[a] : a \in Acts}] /\ (\A a \in Acts : p[a] \in each[a])
          <=> (\E f : p = [a \in Acts |-> f[a]]) /\ \A a \in Acts : p[a] \in Rows(a)
    <2>1. ASSUME p \in [Acts -> UNION {each[a] : a \in Acts}]
          PROVE  \E f : p = [a \in Acts |-> f[a]]
      <3>1. p = [a \in Acts |-> p[a]]
        BY <2>1
      <3>. QED
        BY <3>1
    <2>2. ASSUME NEW f, p = [a \in Acts |-> f[a]], \A a \in Acts : p[a] \in Rows(a)
          PROVE  p \in [Acts -> UNION {each[a] : a \in Acts}]
      <3>1. ASSUME NEW a \in Acts PROVE f[a] \in UNION {each[b] : b \in Acts}
        <4>1. f[a] \in each[a]
          BY <1>2, <2>2
        <4>. QED
          BY <4>1
      <3>. QED
        BY <2>2, <3>1
    <2>. QED
      BY <1>2, <2>1, <2>2
  <1>4. p \in PlanSpace <=>
          (\E f : p = [a \in Acts |-> f[a]]) /\ \A a \in Acts : p[a] \in [Weeks -> Nights]
    <2>1. ASSUME p \in PlanSpace
          PROVE  (\E f : p = [a \in Acts |-> f[a]]) /\ \A a \in Acts : p[a] \in [Weeks -> Nights]
      <3>1. p = [a \in Acts |-> p[a]]
        BY <2>1 DEF PlanSpace
      <3>. QED
        BY <2>1, <3>1 DEF PlanSpace
    <2>2. ASSUME NEW f, p = [a \in Acts |-> f[a]], \A a \in Acts : p[a] \in [Weeks -> Nights]
          PROVE  p \in PlanSpace
      BY <2>2 DEF PlanSpace
    <2>. QED
      BY <2>1, <2>2
  <1>5. (\A a \in Acts : p[a] \in Rows(a)) <=>
          /\ \A a \in Acts : p[a] \in [Weeks -> Nights]
          /\ Worked(p) /\ Frugal(p)
          /\ Enforced("start") =>
               \A a \in Acts, w \in Weeks : p[a][w] > 0 => w >= inst.activity[a].earliest
          /\ opts.scenario = "A" => \A a \in Acts, w \in Weeks : p[a][w] # 15
    BY DEF Rows, Worked, Frugal
  <1>. QED
    BY <1>1, <1>3, <1>4, <1>5 DEF Admitted, Conforms, Asked

(* Every group of rules that is enforced is a rule that is not lifted, and *)
(* the other way round.                                                    *)
LEMMA LiftedAre ==
  ASSUME opts \in Options, opts.soft => opts.relax = "none"
  PROVE  /\ "workload" \notin Lifted /\ "eclo" \notin Lifted
         /\ Enforced("buffers") <=> "closure" \notin Lifted
         /\ Enforced("capacity") /\ ~opts.soft <=> "capacity" \notin Lifted
         /\ Enforced("weekly") <=> "allocation" \notin Lifted
         /\ Enforced("precedence") <=> "precedence" \notin Lifted
         /\ Enforced("start") <=> "planned_start" \notin Lifted
         /\ opts.soft <=> "planned_date" \in Lifted
         /\ Lifted = {} <=> opts.relax = "none" /\ ~opts.soft
  <1>1. opts.relax \in Groups
    BY DEF Options
  <1>2. CASE opts.soft
    <2>1. opts.relax = "none" /\ Lifted = {"capacity", "planned_date"}
      BY <1>2 DEF Lifted
    <2>. QED
      BY <1>2, <2>1 DEF Enforced
  <1>3. CASE ~opts.soft
    <2>1. CASE opts.relax = "none"
      <3>1. Lifted = {}
        BY <1>3, <2>1 DEF Lifted
      <3>. QED
        BY <1>3, <2>1, <3>1 DEF Enforced
    <2>2. CASE opts.relax = "buffers"
      <3>1. Lifted = {"closure"}
        BY <1>3, <2>2 DEF Lifted
      <3>. QED
        BY <1>3, <2>2, <3>1 DEF Enforced
    <2>3. CASE opts.relax = "capacity"
      <3>1. Lifted = {"capacity"}
        BY <1>3, <2>3 DEF Lifted
      <3>. QED
        BY <1>3, <2>3, <3>1 DEF Enforced
    <2>4. CASE opts.relax = "weekly"
      <3>1. Lifted = {"allocation", "workfront"}
        BY <1>3, <2>4 DEF Lifted
      <3>. QED
        BY <1>3, <2>4, <3>1 DEF Enforced
    <2>5. CASE opts.relax = "precedence"
      <3>1. Lifted = {"precedence"}
        BY <1>3, <2>5 DEF Lifted
      <3>. QED
        BY <1>3, <2>5, <3>1 DEF Enforced
    <2>6. CASE opts.relax = "start"
      <3>1. Lifted = {"planned_start"}
        BY <1>3, <2>6 DEF Lifted
      <3>. QED
        BY <1>3, <2>6, <3>1 DEF Enforced
    <2>. QED
      BY <1>1, <2>1, <2>2, <2>3, <2>4, <2>5, <2>6 DEF Groups
  <1>. QED
    BY <1>2, <1>3

(* A plan of the model whose nights can be dealt passes but for what was   *)
(* lifted.                                                                 *)
LEMMA ModelPasses ==
  ASSUME Derived, opts \in Options, opts.soft => opts.relax = "none", Comparable,
         NEW p \in Solutions, WithinLoad(p)
  PROVE  PassesBut(p, Lifted)
  <1>1. p \in PlanSpace /\ Conforms(p) /\ Worked(p) /\ inst \in Instances
    BY SolutionsAre DEF Derived
  <1>2. ~Breaks(p, "workload")
    BY <1>1, WorkloadRule DEF Worked
  <1>3. "planned_start" \notin Lifted => ~Breaks(p, "planned_start")
    BY <1>1, StartRule, LiftedAre DEF Conforms
  <1>4. "precedence" \notin Lifted => ~Breaks(p, "precedence")
    BY <1>1, PrecedenceRule, LiftedAre DEF Conforms
  <1>5. "capacity" \notin Lifted => ~Breaks(p, "capacity")
    BY <1>1, CapacityRule, LiftedAre DEF Conforms, Comparable
  <1>6. ~Breaks(p, "allocation") /\ ~Breaks(p, "workfront")
    BY <1>1, WeeklyRule
  <1>7. "closure" \notin Lifted => ~Breaks(p, "closure")
    BY <1>1, ClosureRule, LiftedAre DEF Conforms
  <1>8. ~Breaks(p, "eclo")
    BY <1>1, EcloRule DEF Conforms
  <1>9. "planned_date" \notin Lifted => ~Breaks(p, "planned_date")
    <2>1. CASE opts.scenario = "B"
      BY <2>1, <1>1, <1>2, DateRule, LiftedAre DEF Conforms, Comparable
    <2>2. CASE opts.scenario # "B"
      BY <2>2 DEF Breaks
    <2>. QED
      BY <2>1, <2>2
  <1>. QED
    BY <1>2, <1>3, <1>4, <1>5, <1>6, <1>7, <1>8, <1>9 DEF PassesBut, Rules

(* A plan that passes but for what was lifted conforms to the model. *)
LEMMA PassingConforms ==
  ASSUME Derived, opts \in Options, opts.soft => opts.relax = "none", Comparable,
         NEW p \in PlanSpace, PassesBut(p, Lifted), opts.reading = "strict" => KeptApart(p)
  PROVE  Conforms(p) /\ Worked(p)
  <1>1. inst \in Instances /\ opts.reading \in {"adopted", "strict"}
    BY DEF Derived, Options
  <1>2. ~Breaks(p, "workload") /\ ~Breaks(p, "eclo")
    BY LiftedAre DEF PassesBut, Rules
  <1>3. Worked(p)
    BY <1>1, <1>2, WorkloadRule DEF Worked
  <1>4. Enforced("start") =>
          \A a \in Acts, w \in Weeks : p[a][w] > 0 => w >= inst.activity[a].earliest
    <2>1. Enforced("start") => ~Breaks(p, "planned_start")
      BY LiftedAre DEF PassesBut, Rules
    <2>. QED
      BY <1>1, <2>1, StartRule
  <1>5. Enforced("precedence") => \A a \in Acts : Follows(p, a)
    <2>1. Enforced("precedence") => ~Breaks(p, "precedence")
      BY LiftedAre DEF PassesBut, Rules
    <2>. QED
      BY <1>1, <2>1, PrecedenceRule
  <1>6. Enforced("weekly") => WithinLoad(p)
    <2>1. Enforced("weekly") => ~Breaks(p, "allocation")
      BY LiftedAre DEF PassesBut, Rules
    <2>. QED
      BY <1>1, <2>1, WeeklyRule
  <1>7. Enforced("capacity") => WithinSupply(p)
    <2>1. Enforced("capacity") /\ ~opts.soft => ~Breaks(p, "capacity")
      BY LiftedAre DEF PassesBut, Rules
    <2>. QED
      BY <2>1, CapacityRule DEF Comparable
  <1>8. Enforced("buffers") => KeptApart(p)
    <2>1. Enforced("buffers") => ~Breaks(p, "closure")
      BY LiftedAre DEF PassesBut, Rules
    <2>. QED
      BY <1>1, <2>1, ClosureRule
  <1>9. /\ opts.scenario = "A" => \A a \in Acts, w \in Weeks : p[a][w] # 15
        /\ opts.scenario = "C" => Windows(p)
    BY <1>1, <1>2, EcloRule
  <1>10. opts.scenario = "B" /\ ~opts.soft => \A a \in Acts : InTime(p, a)
    <2>1. ~opts.soft => ~Breaks(p, "planned_date")
      BY LiftedAre DEF PassesBut, Rules
    <2>. QED
      BY <1>1, <1>2, <2>1, DateRule DEF Comparable
  <1>. QED
    BY <1>3, <1>4, <1>5, <1>6, <1>7, <1>8, <1>9, <1>10 DEF Conforms

-----------------------------------------------------------------------------
(* Redundant nights: a plan may be thinned out without breaking a rule *)

Below(q, p) == \A a \in Acts, w \in Weeks : q[a][w] <= p[a][w]

LEMMA BelowTakes ==
  ASSUME inst \in Instances, NEW p \in PlanSpace, NEW q \in PlanSpace, Below(q, p), NEW a \in Acts
  PROVE  /\ Taken(q, a) \subseteq Taken(p, a)
         /\ Eclo(q, a) \subseteq Eclo(p, a)
         /\ Last(q, a) <= Last(p, a)
         /\ First(q, a) >= First(p, a)
  <1>1. \A w \in Weeks : /\ p[a][w] \in Nights /\ q[a][w] \in Nights
                         /\ q[a][w] <= p[a][w]
    BY DEF PlanSpace, Below
  <1>2. Taken(q, a) \subseteq Taken(p, a) /\ Eclo(q, a) \subseteq Eclo(p, a)
    BY <1>1 DEF Taken, Eclo, Nights
  <1>3. Last(q, a) <= Last(p, a)
    <2>1. CASE Taken(q, a) = {}
      BY <2>1, TakenWeeks
    <2>2. CASE Taken(q, a) # {}
      BY <2>2, <1>2, TakenWeeks
    <2>. QED
      BY <2>1, <2>2
  <1>4. First(q, a) >= First(p, a)
    <2>1. CASE Taken(q, a) = {}
      <3>1. First(q, a) = inst.weeks + 1 /\ inst.weeks \in Nat
        BY <2>1, FirstWeek, Activities
      <3>2. CASE Taken(p, a) = {}
        BY <3>1, <3>2, FirstWeek
      <3>3. CASE Taken(p, a) # {}
        <4>1. First(p, a) \in 1..inst.weeks
          BY <3>3, FirstWeek, TakenWeeks DEF Weeks
        <4>. QED
          BY <3>1, <4>1
      <3>. QED
        BY <3>2, <3>3
    <2>2. CASE Taken(q, a) # {}
      <3>1. First(q, a) \in Taken(p, a) /\ First(q, a) \in Nat /\ First(p, a) \in Nat
        BY <2>2, <1>2, FirstWeek
      <3>2. First(p, a) <= First(q, a)
        BY <3>1, FirstWeek
      <3>. QED
        BY <3>1, <3>2
    <2>. QED
      BY <2>1, <2>2
  <1>. QED
    BY <1>2, <1>3, <1>4

LEMMA ThinnedConforms ==
  ASSUME Derived, opts \in Options, Unambiguous,
         NEW p \in PlanSpace, NEW q \in PlanSpace, Below(q, p), Conforms(p)
  PROVE  Conforms(q)
  <1>. inst \in Instances
    BY DEF Derived
  <1>1. \A a \in Acts, w \in Weeks : /\ p[a][w] \in Nights /\ q[a][w] \in Nights
                                     /\ q[a][w] <= p[a][w]
    BY DEF PlanSpace, Below
  <1>2. \A a \in Acts, w \in Weeks : /\ q[a][w] > 0 => p[a][w] > 0
                                     /\ q[a][w] = 15 => p[a][w] = 15
    BY <1>1 DEF Nights
  <1>3. Enforced("start") => \A a \in Acts, w \in Weeks : q[a][w] > 0 => w >= inst.activity[a].earliest
    BY <1>2 DEF Conforms
  <1>4. opts.scenario = "A" => \A a \in Acts, w \in Weeks : q[a][w] # 15
    BY <1>2 DEF Conforms
  <1>5. ASSUME NEW a \in Acts, Follows(p, a) PROVE Follows(q, a)
    <2>1. CASE inst.activity[a].pred = 0
      BY <2>1 DEF Follows
    <2>2. CASE inst.activity[a].pred # 0
      <3>1. PICK b \in Acts : b = inst.activity[a].pred
        BY <2>2, Activities
      <3>2. First(p, a) >= Last(p, b) + 1
        BY <1>5, <2>2, <3>1 DEF Follows
      <3>3. First(q, a) >= First(p, a) /\ Last(q, b) <= Last(p, b)
        BY BelowTakes
      <3>4. /\ First(q, a) \in Nat /\ First(p, a) \in Nat
            /\ Last(q, b) \in Nat /\ Last(p, b) \in Nat
        BY FirstWeek, TakenWeeks
      <3>5. First(q, a) >= Last(q, b) + 1
        BY <3>2, <3>3, <3>4
      <3>. QED
        BY <3>1, <3>5 DEF Follows
    <2>. QED
      BY <2>1, <2>2
  <1>6. ASSUME WithinLoad(p) PROVE WithinLoad(q)
    <2>1. ASSUME NEW c \in DOMAIN inst.contract, NEW w \in Weeks
          PROVE  Cardinality(Bucket(q, c, w)) <= Load(c)
      <3>1. Bucket(q, c, w) \subseteq Bucket(p, c, w)
        BY <1>2 DEF Bucket
      <3>2. /\ Cardinality(Bucket(q, c, w)) \in Nat
            /\ Cardinality(Bucket(q, c, w)) <= Cardinality(Bucket(p, c, w))
        BY <3>1, Buckets, PartSize
      <3>3. Cardinality(Bucket(p, c, w)) <= Load(c)
        BY <1>6 DEF WithinLoad
      <3>. QED
        BY <3>2, <3>3, Buckets, Contracts
    <2>. QED
      BY <2>1 DEF WithinLoad
  <1>7. ASSUME WithinSupply(p) PROVE WithinSupply(q)
    <2>1. ASSUME NEW l \in Locations, NEW w \in Weeks
          PROVE  Fits(MixOf(At(l, w, q)), SolverSupply(l, w) + ExcessAllowed(l))
      <3>1. At(l, w, q) \subseteq At(l, w, p) /\ At(l, w, p) \subseteq Acts
        BY <1>2 DEF At
      <3>2. Fits(MixOf(At(l, w, p)), SolverSupply(l, w) + ExcessAllowed(l))
        BY <1>7, WithinSupplyCells
      <3>3. /\ MixOf(At(l, w, q)) \in Mix /\ MixOf(At(l, w, p)) \in Mix
            /\ ExcessAllowed(l) \in Nat /\ SolverSupply(l, w) \in Nat
        BY WithinSupplyCells, SameSupply
      <3>4. /\ MixOf(At(l, w, q)).pm <= MixOf(At(l, w, p)).pm
            /\ MixOf(At(l, w, q)).pc <= MixOf(At(l, w, p)).pc
            /\ MixOf(At(l, w, q)).co <= MixOf(At(l, w, p)).co
        BY <3>1, MixGrows
      <3>5. SolverSupply(l, w) + ExcessAllowed(l) \in Nat
        BY <3>3
      <3>. QED
        BY <3>2, <3>3, <3>4, <3>5, FitsMore
    <2>. QED
      BY <2>1, WithinSupplyCells
  <1>8. ASSUME KeptApart(p) PROVE KeptApart(q)
    BY <1>8, BelowTakes DEF KeptApart
  <1>9. ASSUME Windows(p) PROVE Windows(q)
    <2>1. ASSUME NEW line \in inst.lines
          PROVE  \E start \in Weeks :
                   \A a \in Acts : line \in LinesOf(a) => Eclo(q, a) \subseteq {start, start + 1}
      <3>1. PICK start \in Weeks :
              \A a \in Acts : line \in LinesOf(a) => Eclo(p, a) \subseteq {start, start + 1}
        BY <1>9 DEF Windows
      <3>2. \A a \in Acts : Eclo(q, a) \subseteq Eclo(p, a)
        BY BelowTakes
      <3>. QED
        BY <3>1, <3>2
    <2>. QED
      BY <2>1 DEF Windows
  <1>10. ASSUME NEW a \in Acts, InTime(p, a) PROVE InTime(q, a)
    <2>1. /\ Last(q, a) \in Nat /\ Last(p, a) \in Nat /\ Last(q, a) <= Last(p, a)
          /\ Contract(a).due \in Int
      BY TakenWeeks, BelowTakes, Activities, Contracts DEF Contract
    <2>. QED
      BY <2>1, <1>10 DEF InTime
  <1>. QED
    BY <1>3, <1>4, <1>5, <1>6, <1>7, <1>8, <1>9, <1>10 DEF Conforms

(* What an early closure and a night are worth. *)
LEMMA Downgraded ==
  ASSUME inst \in Instances, NEW row \in [Weeks -> Nights], NEW w \in Weeks, row[w] = 15
  PROVE  LET s == [row EXCEPT ![w] = 10]
         IN  s \in [Weeks -> Nights] /\ Yield(s) = Yield(row) - 5
  <1> DEFINE s == [row EXCEPT ![w] = 10]
             T(r) == {v \in Weeks : r[v] > 0}
             E(r) == {v \in Weeks : r[v] = 15}
  <1>1. s \in [Weeks -> Nights]
    BY DEF Nights
  <1>2. T(s) = T(row) /\ E(s) = E(row) \ {w} /\ w \in E(row)
    OBVIOUS
  <1>3. PICK n \in Nat, e \in Nat : /\ n = Cardinality(T(row)) /\ e = Cardinality(E(row))
                                    /\ Yield(row) = 10 * n + 5 * e
                                    /\ IsFiniteSet(E(row))
    BY YieldOf
  <1>4. Yield(s) = 10 * Cardinality(T(s)) + 5 * Cardinality(E(s))
    BY DEF Yield
  <1>. HIDE DEF s, T, E
  <1>5. Cardinality(E(s)) = e - 1
    BY <1>2, <1>3, FS_RemoveElement
  <1>6. Yield(s) = 10 * n + 5 * (e - 1)
    BY <1>2, <1>3, <1>4, <1>5
  <1>. QED
    BY <1>1, <1>3, <1>6 DEF s

LEMMA Dropped ==
  ASSUME inst \in Instances, NEW row \in [Weeks -> Nights], NEW w \in Weeks, row[w] = 10
  PROVE  LET s == [row EXCEPT ![w] = 0]
         IN  s \in [Weeks -> Nights] /\ Yield(s) = Yield(row) - 10
  <1> DEFINE s == [row EXCEPT ![w] = 0]
             T(r) == {v \in Weeks : r[v] > 0}
             E(r) == {v \in Weeks : r[v] = 15}
  <1>1. s \in [Weeks -> Nights]
    BY DEF Nights
  <1>2. T(s) = T(row) \ {w} /\ E(s) = E(row) /\ w \in T(row)
    OBVIOUS
  <1>3. PICK n \in Nat, e \in Nat : /\ n = Cardinality(T(row)) /\ e = Cardinality(E(row))
                                    /\ Yield(row) = 10 * n + 5 * e
                                    /\ IsFiniteSet(T(row))
    BY YieldOf
  <1>4. Yield(s) = 10 * Cardinality(T(s)) + 5 * Cardinality(E(s))
    BY DEF Yield
  <1>. HIDE DEF s, T, E
  <1>5. Cardinality(T(s)) = n - 1
    BY <1>2, <1>3, FS_RemoveElement
  <1>6. Yield(s) = 10 * (n - 1) + 5 * e
    BY <1>2, <1>3, <1>4, <1>5
  <1>. QED
    BY <1>1, <1>3, <1>6 DEF s

(* A row can be thinned out to its need, keeping a night that was asked    *)
(* for: early closures become standard nights, then nights are dropped.    *)
LEMMA ThinRow ==
  ASSUME inst \in Instances, NEW row \in [Weeks -> Nights], NEW n \in Nat, Yield(row) >= 10 * n,
         NEW K \in SUBSET Weeks, \A k, m \in K : k = m,
         \A k \in K : row[k] > 0 /\ n > 0
  PROVE  \E r \in [Weeks -> Nights] : /\ \A w \in Weeks : r[w] <= row[w]
                                      /\ Yield(r) >= 10 * n /\ Yield(r) <= 10 * n + 9
                                      /\ \A k \in K : r[k] > 0
  <1> DEFINE Fine(r) == /\ \A w \in Weeks : r[w] <= row[w]
                        /\ Yield(r) >= 10 * n
                        /\ \A k \in K : r[k] > 0
             Fines == {r \in [Weeks -> Nights] : Fine(r)}
             Yields == {Yield(r) : r \in Fines}
  <1>0. \A r \in [Weeks -> Nights] : /\ \A w \in Weeks : r[w] \in {0, 10, 15}
                                     /\ Yield(r) \in Nat
    <2>. SUFFICES ASSUME NEW r \in [Weeks -> Nights]
                  PROVE  (\A w \in Weeks : r[w] \in {0, 10, 15}) /\ Yield(r) \in Nat
      OBVIOUS
    <2>1. PICK m \in Nat, e \in Nat : Yield(r) = 10 * m + 5 * e
      BY YieldOf
    <2>. QED
      BY <2>1 DEF Nights
  <1>1. row \in Fines
    BY <1>0
  <1>2. Yields \in SUBSET Nat /\ Yields # {}
    BY <1>0, <1>1
  <1>3. PICK y \in Yields : \A z \in Yields : y <= z
    <2>. HIDE DEF Yields
    <2>. QED
      BY <1>2, SmallestExists
  <1>4. PICK r \in Fines : y = Yield(r)
    BY <1>3
  <1>5. r \in [Weeks -> Nights] /\ Fine(r) /\ y \in Nat
    BY <1>0, <1>4
  <1>6. ASSUME NEW s \in [Weeks -> Nights], Fine(s) PROVE y <= Yield(s)
    BY <1>3, <1>6
  <1>. SUFFICES y <= 10 * n + 9
    BY <1>4, <1>5
  <1>. SUFFICES ASSUME y >= 10 * n + 10 PROVE FALSE
    BY <1>5
  <1>. HIDE DEF Yields, Fines
  <1>7. CASE \E w \in Weeks : r[w] = 15
    <2>1. PICK w \in Weeks : r[w] = 15
      BY <1>7
    <2>2. PICK s \in [Weeks -> Nights] : s = [r EXCEPT ![w] = 10] /\ Yield(s) = y - 5
      BY <1>4, <1>5, <2>1, Downgraded
    <2>3. Fine(s)
      <3>1. \A v \in Weeks : s[v] <= row[v]
        <4>1. s[w] <= row[w]
          BY <1>0, <1>5, <2>1, <2>2
        <4>2. \A v \in Weeks \ {w} : s[v] = r[v]
          BY <1>5, <2>2
        <4>. QED
          BY <1>5, <4>1, <4>2
      <3>2. \A k \in K : s[k] > 0
        BY <1>5, <2>2
      <3>3. Yield(s) >= 10 * n
        BY <1>5, <2>2
      <3>. QED
        BY <3>1, <3>2, <3>3
    <2>4. y <= Yield(s)
      <3>. HIDE DEF Fine
      <3>. QED
        BY <1>6, <2>2, <2>3
    <2>. QED
      BY <1>5, <2>2, <2>4
  <1>8. CASE ~\E w \in Weeks : r[w] = 15
    <2> DEFINE T == {w \in Weeks : r[w] > 0}
               E == {w \in Weeks : r[w] = 15}
    <2>1. PICK m \in Nat, e \in Nat : /\ m = Cardinality(T)
                                      /\ e = Cardinality(E)
                                      /\ y = 10 * m + 5 * e
                                      /\ IsFiniteSet(T)
      BY <1>4, <1>5, YieldOf
    <2>2. E = {}
      BY <1>8
    <2>. HIDE DEF T, E
    <2>3. e = 0 /\ m >= n + 1
      BY <2>1, <2>2, FS_EmptySet
    <2>4. PICK w \in T : w \notin K
      <3>1. CASE K = {}
        <4>1. T # {}
          BY <2>1, <2>3, FS_EmptySet
        <4>. QED
          BY <3>1, <4>1
      <3>2. CASE K # {}
        <4>1. PICK k \in K : K = {k}
          BY <3>2
        <4>2. n > 0
          BY <4>1
        <4>3. Cardinality(T \ {k}) >= 1
          <5>1. Cardinality(T \ {k}) = IF k \in T THEN m - 1 ELSE m
            BY <2>1, FS_RemoveElement
          <5>. QED
            BY <2>1, <2>3, <4>2, <5>1
        <4>4. T \ {k} # {}
          BY <4>3, FS_EmptySet
        <4>. QED
          BY <4>1, <4>4
      <3>. QED
        BY <3>1, <3>2
    <2>5. w \in Weeks /\ r[w] = 10
      BY <1>0, <1>5, <1>8, <2>4 DEF T
    <2>6. PICK s \in [Weeks -> Nights] : s = [r EXCEPT ![w] = 0] /\ Yield(s) = y - 10
      BY <1>4, <1>5, <2>5, Dropped
    <2>7. Fine(s)
      <3>1. \A v \in Weeks : s[v] <= row[v]
        <4>1. s[w] <= row[w]
          BY <1>0, <1>5, <2>5, <2>6
        <4>2. \A v \in Weeks \ {w} : s[v] = r[v]
          BY <1>5, <2>6
        <4>. QED
          BY <1>5, <4>1, <4>2
      <3>2. \A k \in K : s[k] > 0
        BY <1>5, <2>4, <2>6
      <3>3. Yield(s) >= 10 * n
        BY <1>5, <2>6
      <3>. QED
        BY <3>1, <3>2, <3>3
    <2>8. y <= Yield(s)
      <3>. HIDE DEF Fine
      <3>. QED
        BY <1>6, <2>6, <2>7
    <2>. QED
      BY <1>5, <2>6, <2>8
  <1>. QED
    BY <1>7, <1>8

(* A plan that the validator passes but for what was lifted, and that has  *)
(* the night that was asked for, has a solution of the model below it.     *)
LEMMA PassingIsSolved ==
  ASSUME Derived, opts \in Options, opts.soft => opts.relax = "none", Comparable,
         opts.reading = "adopted", \A r, s \in opts.require : r = s,
         \A r \in opts.require : Need(r[1]) > 0,
         NEW p \in PlanSpace, Asked(p), PassesBut(p, Lifted)
  PROVE  Solutions # {}
  <1>. inst \in Instances
    BY DEF Derived
  <1>1. Conforms(p) /\ Worked(p)
    BY PassingConforms
  <1> DEFINE Kept(a) == {w \in Weeks : <<a, w>> \in opts.require}
             Thin(a, r) == /\ \A w \in Weeks : r[w] <= p[a][w]
                           /\ Yield(r) >= Need(a) /\ Yield(r) <= Need(a) + 9
                           /\ \A k \in Kept(a) : r[k] > 0
  <1>2. ASSUME NEW a \in Acts PROVE \E r \in [Weeks -> Nights] : Thin(a, r)
    <2>1. PICK n \in Nat : Need(a) = 10 * n
      BY Activities DEF Need
    <2>2. p[a] \in [Weeks -> Nights] /\ Yield(p[a]) >= 10 * n
      BY <1>1, <2>1 DEF PlanSpace, Worked
    <2>3. Kept(a) \in SUBSET Weeks
      OBVIOUS
    <2>4. \A k, m \in Kept(a) : k = m
      <3>1. ASSUME NEW k \in Kept(a), NEW m \in Kept(a) PROVE k = m
        <4>1. <<a, k>> = <<a, m>>
          OBVIOUS
        <4>. QED
          BY <4>1
      <3>. QED
        BY <3>1
    <2>5. ASSUME NEW k \in Kept(a) PROVE p[a][k] > 0 /\ n > 0
      <3>1. <<a, k>> \in opts.require
        OBVIOUS
      <3>2. p[<<a, k>>[1]][<<a, k>>[2]] > 0 /\ Need(<<a, k>>[1]) > 0
        BY <3>1 DEF Asked
      <3>. QED
        BY <2>1, <3>2
    <2>. HIDE DEF Kept
    <2>6. \E r \in [Weeks -> Nights] : /\ \A w \in Weeks : r[w] <= p[a][w]
                                       /\ Yield(r) >= 10 * n /\ Yield(r) <= 10 * n + 9
                                       /\ \A k \in Kept(a) : r[k] > 0
      BY <2>2, <2>3, <2>4, <2>5, ThinRow
    <2>. QED
      BY <2>1, <2>6
  <1> DEFINE q == [a \in Acts |-> CHOOSE r \in [Weeks -> Nights] : Thin(a, r)]
  <1>3. \A a \in Acts : q[a] \in [Weeks -> Nights] /\ Thin(a, q[a])
    <2>. HIDE DEF Thin
    <2>. QED
      BY <1>2
  <1>4. q \in PlanSpace
    BY <1>3 DEF PlanSpace
  <1>. HIDE DEF q
  <1>5. Below(q, p) /\ Worked(q) /\ Frugal(q)
    BY <1>3 DEF Below, Worked, Frugal
  <1>6. Asked(q)
    <2>1. ASSUME NEW r \in opts.require PROVE q[r[1]][r[2]] > 0
      <3>1. r \in Acts \X Weeks
        BY DEF Options
      <3>2. r[1] \in Acts /\ r[2] \in Kept(r[1])
        BY <3>1
      <3>. QED
        BY <1>3, <3>2
    <2>. QED
      BY <2>1 DEF Asked
  <1>7. Conforms(q)
    BY <1>1, <1>4, <1>5, ThinnedConforms DEF Comparable
  <1>8. q \in Solutions
    BY <1>4, <1>5, <1>6, <1>7, SolutionsAre
  <1>. QED
    BY <1>8

-----------------------------------------------------------------------------
(* What a step leaves alone *)

(* The rules of an instance do not change with the options. *)
LEMMA SameRules ==
  ASSUME inst' = inst, zones' = zones
  PROVE  /\ Acts' = Acts /\ Weeks' = Weeks /\ PlanSpace' = PlanSpace
         /\ Locations' = Locations
         /\ \A a : Contract(a)' = Contract(a) /\ Need(a)' = Need(a) /\ LinesOf(a)' = LinesOf(a)
         /\ \A row : Yield(row)' = Yield(row)
         /\ \A p, a : Taken(p, a)' = Taken(p, a) /\ Eclo(p, a)' = Eclo(p, a)
         /\ \A p, a : Last(p, a)' = Last(p, a) /\ First(p, a)' = First(p, a)
         /\ \A l, w, p : At(l, w, p)' = At(l, w, p)
         /\ \A A : MixOf(A)' = MixOf(A)
         /\ \A p, c, w : Bucket(p, c, w)' = Bucket(p, c, w)
         /\ \A a, b : /\ ShareLocation(a, b)' = ShareLocation(a, b)
                      /\ Clash(a, b)' = Clash(a, b)
                      /\ Intrudes(a, b)' = Intrudes(a, b)
  <1>1. Acts' = Acts /\ Weeks' = Weeks
    BY DEF Acts, Weeks
  <1>2. PlanSpace' = PlanSpace
    BY <1>1 DEF PlanSpace
  <1>3. Locations' = Locations
    BY <1>1 DEF Locations
  <1>4. \A a : Contract(a)' = Contract(a) /\ Need(a)' = Need(a) /\ LinesOf(a)' = LinesOf(a)
    BY DEF Contract, Need, LinesOf
  <1>5. \A row : Yield(row)' = Yield(row)
    BY <1>1 DEF Yield
  <1>6. \A p, a : Taken(p, a)' = Taken(p, a) /\ Eclo(p, a)' = Eclo(p, a)
    BY <1>1 DEF Taken, Eclo
  <1>7. \A p, a : Last(p, a)' = Last(p, a) /\ First(p, a)' = First(p, a)
    BY <1>6 DEF Last, First
  <1>8. \A l, w, p : At(l, w, p)' = At(l, w, p)
    BY <1>1 DEF At
  <1>9. \A A : MixOf(A)' = MixOf(A)
    BY <1>4 DEF MixOf
  <1>10. \A p, c, w : Bucket(p, c, w)' = Bucket(p, c, w)
    BY <1>1 DEF Bucket
  <1>11. \A a, b : /\ ShareLocation(a, b)' = ShareLocation(a, b)
                   /\ BothBuffered(a, b)' = BothBuffered(a, b)
                   /\ \A zone : Beyond(zone, a, b)' = Beyond(zone, a, b)
    BY DEF ShareLocation, BothBuffered, Beyond, Meet
  <1>12. \A a, b : Clash(a, b)' = Clash(a, b) /\ Intrudes(a, b)' = Intrudes(a, b)
    BY <1>11 DEF Clash, Intrudes, Meet
  <1>. QED
    BY <1>1, <1>2, <1>3, <1>4, <1>5, <1>6, <1>7, <1>8, <1>9, <1>10, <1>11, <1>12

(* What loading derives does not change with the instance that it is       *)
(* derived from.                                                           *)
LEMMA SameDerived ==
  ASSUME inst' = inst, zones' = zones, Derived
  PROVE  Derived'
  <1>1. \A a : Span(a)' = Span(a)
    BY DEF Span, ChainOf, Between
  <1>2. \A L, n : Grown(L, n)' = Grown(L, n)
    BY DEF Grown, ChainOf, Between
  <1>3. \A L : Mirrored(L)' = Mirrored(L)
    BY DEF Mirrored, Opposite
  <1>4. \A l : Peers(l)' = Peers(l)
    BY DEF Peers
  <1>5. ASSUME NEW a PROVE Zone(a)' = Zone(a)
    <2> DEFINE rule == inst.buffer[Contract(a).nature]
               ground == IF rule.opposite THEN Mirrored(Span(a)) ELSE Span(a)
               cross == IF Contract(a).nature = "Live" THEN UNION {Peers(l) : l \in ground} ELSE {}
    <2>1. rule' = rule
      BY SameRules
    <2>2. ground' = ground
      BY <1>1, <1>3, <2>1
    <2>3. cross' = cross
      <3>1. ASSUME NEW L PROVE {Peers(l)' : l \in L} = {Peers(l) : l \in L}
        BY <1>4
      <3>2. {Peers(l)' : l \in ground} = {Peers(l) : l \in ground}
        BY <3>1
      <3>. HIDE DEF ground
      <3>3. {Peers(l)' : l \in ground'} = {Peers(l) : l \in ground}
        BY <2>2, <3>2
      <3>4. Contract(a)' = Contract(a)
        BY SameRules
      <3>. QED
        BY <3>3, <3>4
    <2>4. Grown(ground, rule.sectors)' = Grown(ground, rule.sectors)
      <3>1. Grown(ground, rule.sectors)' = Grown(ground', rule'.sectors)
        BY <1>2, <2>1, <2>2
      <3>. QED
        BY <2>1, <2>2, <3>1
    <2>5. Zone(a) = [occupied |-> Span(a), closure |-> ground \cup cross,
                     buffer |-> Grown(ground, rule.sectors) \cup cross,
                     carries |-> rule.sectors > 0]
      BY DEF Zone
    <2>6. Zone(a)' = [occupied |-> Span(a)', closure |-> ground' \cup cross',
                      buffer |-> Grown(ground, rule.sectors)' \cup cross',
                      carries |-> rule'.sectors > 0]
      BY DEF Zone
    <2>. HIDE DEF rule, ground, cross
    <2>. QED
      BY <1>1, <2>1, <2>2, <2>3, <2>4, <2>5, <2>6
  <1>. QED
    BY SameRules, <1>5 DEF Derived

LEMMA SameNights ==
  ASSUME inst' = inst, zones' = zones
  PROVE  \A p : WithinLoad(p)' = WithinLoad(p)
  BY SameRules DEF WithinLoad, Load

(* The validator sees a scenario and the overrides, and nothing else of    *)
(* the options.                                                            *)
LEMMA SameJudgement ==
  ASSUME inst' = inst, zones' = zones,
         opts'.scenario = opts.scenario, opts'.overrides = opts.overrides
  PROVE  /\ \A p : PassesBut(p, {})' = PassesBut(p, {})
         /\ Comparable' = Comparable
         /\ \A l, w : SolverSupply(l, w)' = SolverSupply(l, w)
  <1>1. \A l, w : Disruptions(l, w)' = Disruptions(l, w)
    BY DEF Disruptions
  <1>2. \A l, w : /\ EffectiveSupply(l, w)' = EffectiveSupply(l, w)
                  /\ SolverSupply(l, w)' = SolverSupply(l, w)
    BY <1>1 DEF EffectiveSupply, SolverSupply
  <1>3. \A p, a, w : Night(p, a, w)' = Night(p, a, w)
    BY SameRules DEF Night
  <1>4. \A p, c, w : NightsOf(p, c, w)' = NightsOf(p, c, w)
    BY SameRules, <1>3 DEF NightsOf
  <1>5. \A p, c, w, night : OnNight(p, c, w, night)' = OnNight(p, c, w, night)
    BY SameRules, <1>3 DEF OnNight
  <1>6. \A p, c : TooLate(p, c)' = TooLate(p, c)
    BY SameRules DEF TooLate
  <1>7. \A p, line : Spread(p, line)' = Spread(p, line)
    BY SameRules DEF Spread
  <1>8. \A n : Tolerated(n)' = Tolerated(n)
    BY DEF Tolerated
  <1>9. ASSUME NEW p, NEW rule \in Rules PROVE Breaks(p, rule)' <=> Breaks(p, rule)
    <2>1. CASE rule = "workload"
      BY <2>1, SameRules DEF Breaks
    <2>2. CASE rule = "planned_start"
      BY <2>2, SameRules DEF Breaks
    <2>3. CASE rule = "precedence"
      BY <2>3, SameRules DEF Breaks
    <2>4. CASE rule = "capacity"
      BY <2>4, SameRules, <1>2, <1>8 DEF Breaks
    <2>5. CASE rule = "allocation"
      BY <2>5, SameRules, <1>4 DEF Breaks
    <2>6. CASE rule = "workfront"
      BY <2>6, SameRules, <1>4, <1>5 DEF Breaks
    <2>7. CASE rule = "closure"
      BY <2>7, SameRules DEF Breaks
    <2>8. CASE rule = "eclo"
      BY <2>8, SameRules, <1>7 DEF Breaks
    <2>9. CASE rule = "planned_date"
      BY <2>9, <1>6 DEF Breaks
    <2>. QED
      BY <2>1, <2>2, <2>3, <2>4, <2>5, <2>6, <2>7, <2>8, <2>9 DEF Rules
  <1>10. Comparable' = Comparable
    BY SameRules DEF Comparable, Unambiguous, Unworked
  <1>. QED
    BY <1>2, <1>9, <1>10 DEF PassesBut

LEMMA SameModel ==
  ASSUME inst' = inst, zones' = zones, opts' = opts
  PROVE  /\ Solutions' = Solutions
         /\ Lifted' = Lifted
         /\ \A p : KeptApart(p)' = KeptApart(p)
  <1>1. \A group : Enforced(group)' = Enforced(group)
    BY DEF Enforced
  <1>2. \A a : Rows(a)' = Rows(a)
    BY SameRules, <1>1 DEF Rows
  <1>3. \A p, a : Follows(p, a)' = Follows(p, a) /\ InTime(p, a)' = InTime(p, a)
    BY SameRules DEF Follows, InTime
  <1>4. \A l : ExcessAllowed(l)' = ExcessAllowed(l)
    BY SameRules DEF ExcessAllowed
  <1>5. \A p : WithinSupply(p)' = WithinSupply(p)
    BY SameRules, SameJudgement, <1>4 DEF WithinSupply
  <1>6. \A a, b : Excluded(a, b)' = Excluded(a, b)
    BY SameRules DEF Excluded
  <1>7. \A p : KeptApart(p)' = KeptApart(p)
    BY SameRules, <1>6 DEF KeptApart
  <1>8. \A p : Windows(p)' = Windows(p)
    BY SameRules DEF Windows
  <1>9. \A p : Admitted(p)' = Admitted(p)
    BY SameRules, SameNights, <1>1, <1>3, <1>5, <1>7, <1>8 DEF Admitted
  <1>10. Solutions' = Solutions
    BY SameRules, <1>2, <1>9 DEF Solutions
  <1>11. Lifted' = Lifted
    BY DEF Lifted
  <1>. QED
    BY <1>7, <1>10, <1>11

(* Nor does what the validator passes of what was asked for, thriftily.    *)
Worthy(p) == /\ Asked(p) /\ Frugal(p)
             /\ opts.reading = "strict" => KeptApart(p)
             /\ PassesBut(p, {})

LEMMA SameWorth ==
  ASSUME inst' = inst, zones' = zones,
         opts'.scenario = opts.scenario, opts'.overrides = opts.overrides,
         opts'.require = opts.require, opts'.reading = opts.reading
  PROVE  \A p : Worthy(p)' <=> Worthy(p)
  <1>1. \A p : Asked(p)' = Asked(p)
    BY DEF Asked
  <1>2. \A p : Frugal(p)' = Frugal(p)
    BY SameRules DEF Frugal
  <1>3. \A a, b : Excluded(a, b)' = Excluded(a, b)
    BY SameRules DEF Excluded
  <1>4. \A p : KeptApart(p)' = KeptApart(p)
    BY SameRules, <1>3 DEF KeptApart
  <1>. QED
    BY <1>1, <1>2, <1>4, SameJudgement DEF Worthy

(* With nothing lifted, whatever is worthy is a solution. *)
LEMMA WorthyIsSolved ==
  ASSUME Derived, opts \in Options, Lifted = {}, Comparable, NEW p \in PlanSpace, Worthy(p)
  PROVE  p \in Solutions
  <1>1. opts.soft => opts.relax = "none"
    BY DEF Lifted, Options
  <1>2. PassesBut(p, Lifted) /\ Asked(p) /\ Frugal(p) /\ (opts.reading = "strict" => KeptApart(p))
    BY DEF Worthy
  <1>3. Conforms(p) /\ Worked(p)
    BY <1>1, <1>2, PassingConforms
  <1>. QED
    BY <1>2, <1>3, SolutionsAre

-----------------------------------------------------------------------------
(* The inductive invariant of the commands *)

PlanTyped == Derived /\ opts \in Options

(* One command lifts one thing, and asks for one night at most. *)
OneAtATime ==
  /\ \A r, s \in opts.require : r = s
  /\ opts.soft => opts.relax = "none"
  /\ opts.soft \/ opts.reading = "strict" => command = "solve"
  /\ opts.relax # "none" =>
       command = "diagnose" \/ (command = "explain" /\ opts.require # {})

AnswerIsRight ==
  /\ answer = "found" => plan \in Solutions /\ WithinLoad(plan)
  /\ answer = "infeasible" => Solutions = {}

(* Nothing is lifted but after the proof that there was no plan without. *)
LiftedForCause == Lifted # {} /\ Comparable => \A p \in PlanSpace : ~Worthy(p)

CommandInv == PlanTyped /\ OneAtATime /\ AnswerIsRight /\ LiftedForCause

LEMMA RulesInitInv ==
  ASSUME RulesInit
  PROVE  CommandInv /\ command # "repair"
  <1>1. PlanTyped
    <2>1. <<>> \in Overrides
      BY EmptySeq DEF Overrides
    <2>2. opts \in Options
      BY <2>1 DEF RulesInit, Options, Groups
    <2>. QED
      BY <2>2 DEF RulesInit, PlanTyped, Derived
  <1>2. opts.require = {} /\ opts.relax = "none" /\ ~opts.soft /\ answer = "none"
        /\ (opts.reading = "strict" => command = "solve")
    BY DEF RulesInit
  <1>3. Lifted = {}
    BY <1>2 DEF Lifted
  <1>4. command # "repair"
    BY DEF RulesInit
  <1>. QED
    BY <1>1, <1>2, <1>3, <1>4 DEF CommandInv, OneAtATime, AnswerIsRight, LiftedForCause

(* What leaves the question alone keeps all but what depends on the answer. *)
LEMMA SameQuestion ==
  ASSUME CommandInv, UNCHANGED <<loaded, opts>>
  PROVE  /\ PlanTyped' /\ OneAtATime' /\ LiftedForCause'
         /\ Solutions' = Solutions
         /\ \A p : WithinLoad(p)' = WithinLoad(p)
  <1>1. inst' = inst /\ zones' = zones /\ command' = command /\ opts' = opts
    BY DEF loaded
  <1>2. PlanTyped'
    <2>1. Derived'
      BY <1>1, SameDerived DEF CommandInv, PlanTyped
    <2>2. Options' = Options
      BY <1>1, SameRules DEF Options, Overrides
    <2>. QED
      BY <1>1, <2>1, <2>2 DEF CommandInv, PlanTyped
  <1>3. OneAtATime'
    BY <1>1 DEF CommandInv, OneAtATime
  <1>4. LiftedForCause'
    <2>1. Lifted' = Lifted /\ Comparable' = Comparable /\ PlanSpace' = PlanSpace
      BY <1>1, SameRules, SameJudgement, SameModel
    <2>2. \A p : Worthy(p)' <=> Worthy(p)
      BY <1>1, SameWorth
    <2>. QED
      BY <2>1, <2>2 DEF CommandInv, LiftedForCause
  <1>. QED
    BY <1>1, <1>2, <1>3, <1>4, SameModel, SameNights

LEMMA SearchInv ==
  ASSUME CommandInv, Search
  PROVE  CommandInv'
  <1>1. UNCHANGED <<loaded, opts>>
    BY DEF Search, Answered
  <1>2. AnswerIsRight'
    <2>1. CASE \E p \in Solutions : WithinLoad(p) /\ Answered("found", p)
      <3>1. PICK p \in Solutions : WithinLoad(p) /\ Answered("found", p)
        BY <2>1
      <3>2. plan' = p /\ answer' = "found"
        BY <3>1 DEF Answered
      <3>3. plan' \in Solutions' /\ WithinLoad(p)'
        BY <1>1, <3>1, <3>2, SameQuestion
      <3>4. WithinLoad(plan)'
        BY <3>2, <3>3 DEF WithinLoad, Bucket
      <3>. QED
        BY <3>2, <3>3, <3>4 DEF AnswerIsRight
    <2>2. CASE Solutions = {} /\ Answered("infeasible", NoPlan)
      BY <1>1, <2>2, SameQuestion DEF AnswerIsRight, Answered
    <2>3. CASE Answered("internal_error", NoPlan) \/ Answered("timeout", NoPlan)
      BY <2>3 DEF AnswerIsRight, Answered
    <2>. QED
      BY <2>1, <2>2, <2>3 DEF Search
  <1>. QED
    BY <1>1, <1>2, SameQuestion DEF CommandInv

(* Another question of the same instance, not yet answered. *)
LEMMA AskInv ==
  ASSUME CommandInv, NEW changed, Ask(changed), changed \in Options,
         OneAtATime',
         Lifted' # {} /\ Comparable' => \A p \in PlanSpace : ~Worthy(p)'
  PROVE  CommandInv'
  <1>1. inst' = inst /\ zones' = zones /\ opts' = changed /\ answer' = "none"
    BY DEF Ask, loaded
  <1>2. PlanTyped'
    <2>1. Derived'
      BY <1>1, SameDerived DEF CommandInv, PlanTyped
    <2>2. Options' = Options
      BY <1>1, SameRules DEF Options, Overrides
    <2>. QED
      BY <1>1, <2>1, <2>2 DEF PlanTyped
  <1>3. LiftedForCause'
    BY <1>1, SameRules DEF LiftedForCause
  <1>. QED
    BY <1>1, <1>2, <1>3 DEF CommandInv, AnswerIsRight

LEMMA FallbackInv ==
  ASSUME CommandInv, Fallback
  PROVE  CommandInv'
  <1> DEFINE changed == [opts EXCEPT !.soft = TRUE]
  <1>1. /\ Ask(changed) /\ command = "solve" /\ answer = "infeasible" /\ ~opts.soft
        /\ inst' = inst /\ zones' = zones /\ command' = command /\ opts' = changed
    BY DEF Fallback, Ask, loaded
  <1>2. opts \in Options /\ Derived
    BY DEF CommandInv, PlanTyped
  <1>3. /\ changed \in Options
        /\ changed.scenario = opts.scenario /\ changed.overrides = opts.overrides
        /\ changed.require = opts.require /\ changed.reading = opts.reading
        /\ changed.relax = opts.relax /\ changed.soft
    BY <1>2 DEF Options
  <1>4. opts.relax = "none"
    BY <1>1 DEF CommandInv, OneAtATime
  <1>. HIDE DEF changed
  <1>5. OneAtATime'
    BY <1>1, <1>3, <1>4 DEF CommandInv, OneAtATime
  <1>6. ASSUME Comparable', NEW p \in PlanSpace PROVE ~Worthy(p)'
    <2>1. Lifted = {} /\ Solutions = {}
      BY <1>1, <1>4 DEF CommandInv, AnswerIsRight, Lifted
    <2>2. Comparable
      BY <1>1, <1>3, <1>6, SameJudgement
    <2>3. Worthy(p)' <=> Worthy(p)
      BY <1>1, <1>3, SameWorth
    <2>. QED
      BY <1>2, <2>1, <2>2, <2>3, WorthyIsSolved
  <1>. QED
    BY <1>1, <1>3, <1>5, <1>6, AskInv

LEMMA RequireInv ==
  ASSUME CommandInv, NEW a \in Acts, NEW w \in Weeks, Require(a, w)
  PROVE  CommandInv'
  <1> DEFINE changed == [opts EXCEPT !.require = {<<a, w>>}]
  <1>1. /\ Ask(changed) /\ command = "explain" /\ opts.require = {}
        /\ command' = command /\ opts' = changed
    BY DEF Require, Ask, loaded
  <1>2. opts \in Options
    BY DEF CommandInv, PlanTyped
  <1>3. {<<a, w>>} \in SUBSET (Acts \X Weeks)
    OBVIOUS
  <1>4. /\ changed \in Options
        /\ changed.require = {<<a, w>>}
        /\ changed.relax = opts.relax /\ changed.soft = opts.soft /\ changed.reading = opts.reading
    BY <1>2, <1>3 DEF Options
  <1>5. opts.relax = "none" /\ ~opts.soft /\ opts.reading # "strict"
    BY <1>1 DEF CommandInv, OneAtATime
  <1>. HIDE DEF changed
  <1>6. OneAtATime'
    BY <1>1, <1>4, <1>5 DEF OneAtATime
  <1>7. Lifted' = {}
    BY <1>1, <1>4, <1>5 DEF Lifted
  <1>. QED
    BY <1>1, <1>4, <1>6, <1>7, AskInv

LEMMA LiftInv ==
  ASSUME CommandInv, Lift
  PROVE  CommandInv'
  <1> DEFINE changed == [opts EXCEPT !.relax = After[opts.relax]]
  <1>1. /\ Ask(changed)
        /\ command = "diagnose" \/ (command = "explain" /\ opts.require # {})
        /\ opts.relax = "none" => answer = "infeasible"
        /\ inst' = inst /\ zones' = zones /\ command' = command /\ opts' = changed
    BY DEF Lift, Ask, loaded
  <1>2. opts \in Options /\ Derived
    BY DEF CommandInv, PlanTyped
  <1>3. After[opts.relax] \in Groups
    BY <1>2 DEF Lift, After, Groups, Options
  <1>4. /\ changed \in Options
        /\ changed.scenario = opts.scenario /\ changed.overrides = opts.overrides
        /\ changed.require = opts.require /\ changed.reading = opts.reading
        /\ changed.soft = opts.soft
    BY <1>2, <1>3 DEF Options
  <1>5. ~opts.soft /\ opts.reading # "strict"
    BY <1>1 DEF CommandInv, OneAtATime
  <1>. HIDE DEF changed
  <1>6. OneAtATime'
    BY <1>1, <1>4, <1>5 DEF CommandInv, OneAtATime
  <1>7. ASSUME Comparable', NEW p \in PlanSpace PROVE ~Worthy(p)'
    <2>1. Comparable
      BY <1>1, <1>4, <1>7, SameJudgement
    <2>2. Worthy(p)' <=> Worthy(p)
      BY <1>1, <1>4, SameWorth
    <2>3. CASE opts.relax = "none"
      <3>1. Lifted = {} /\ Solutions = {}
        BY <1>1, <1>5, <2>3 DEF CommandInv, AnswerIsRight, Lifted
      <3>. QED
        BY <1>2, <2>1, <2>2, <3>1, WorthyIsSolved
    <2>4. CASE opts.relax # "none"
      <3>1. Lifted # {}
        BY <1>2, <1>5, <2>4 DEF Lifted, Options, Groups
      <3>. QED
        BY <2>1, <2>2, <3>1 DEF CommandInv, LiftedForCause
    <2>. QED
      BY <2>3, <2>4
  <1>. QED
    BY <1>1, <1>4, <1>6, <1>7, AskInv

LEMMA StandstillInv ==
  ASSUME CommandInv, UNCHANGED rulesVars
  PROVE  CommandInv'
  <1>1. UNCHANGED <<loaded, opts>> /\ answer' = answer /\ plan' = plan
    BY DEF rulesVars, loaded
  <1>2. AnswerIsRight'
    <2>1. Solutions' = Solutions
      BY <1>1, SameQuestion
    <2>2. WithinLoad(plan)' <=> WithinLoad(plan)
      BY <1>1, SameRules DEF WithinLoad, Bucket, Load, loaded
    <2>. QED
      BY <1>1, <2>1, <2>2 DEF CommandInv, AnswerIsRight
  <1>. QED
    BY <1>1, <1>2, SameQuestion DEF CommandInv

LEMMA RulesNextInv ==
  ASSUME CommandInv, RulesNext
  PROVE  CommandInv' /\ command # "repair" /\ command' = command
  <1>1. CASE command # "repair" /\ Search
    BY <1>1, SearchInv DEF Search, Answered, loaded
  <1>2. CASE Fallback
    BY <1>2, FallbackInv DEF Fallback, Ask, loaded
  <1>3. CASE \E a \in Acts, w \in Weeks : Require(a, w)
    <2>1. PICK a \in Acts, w \in Weeks : Require(a, w)
      BY <1>3
    <2>. QED
      BY <2>1, RequireInv DEF Require, Ask, loaded
  <1>4. CASE Lift
    BY <1>4, LiftInv DEF Lift, Ask, loaded
  <1>. QED
    BY <1>1, <1>2, <1>3, <1>4 DEF RulesNext

-----------------------------------------------------------------------------
(* What a repair pays *)

(* The image of a finite set is finite, and so is a union of finite sets   *)
(* that are indexed by one.                                                *)
LEMMA FiniteImage ==
  ASSUME NEW S, IsFiniteSet(S), NEW f
  PROVE  IsFiniteSet({f[s] : s \in S})
  <1> DEFINE T == {f[s] : s \in S}
             g == [s \in S |-> f[s]]
  <1>1. g \in Surjection(S, T)
    BY DEF Surjection
  <1>. HIDE DEF T, g
  <1>2. IsFiniteSet(T)
    BY <1>1, FS_Surjection
  <1>. QED
    BY <1>2 DEF T

LEMMA FiniteUnion ==
  ASSUME NEW S, IsFiniteSet(S), NEW f, \A s \in S : IsFiniteSet(f[s])
  PROVE  IsFiniteSet(UNION {f[s] : s \in S})
  <1> DEFINE T == {f[s] : s \in S}
  <1>1. IsFiniteSet(T)
    BY FiniteImage
  <1>2. \A t \in T : IsFiniteSet(t)
    OBVIOUS
  <1>. HIDE DEF T
  <1>3. IsFiniteSet(UNION T)
    BY <1>1, <1>2, FS_UNION
  <1>. QED
    BY <1>3 DEF T

(* Units of what each member of a set costs: as many of them as it says,   *)
(* finitely many, and more for more members or a higher cost.              *)
Units(S, f) == UNION {{s} \X (1..f[s]) : s \in S}

LEMMA UnitsAreFinite ==
  ASSUME NEW S, IsFiniteSet(S), NEW f, \A s \in S : f[s] \in Nat
  PROVE  IsFiniteSet(Units(S, f)) /\ Cardinality(Units(S, f)) \in Nat
  <1> DEFINE g == [s \in S |-> {s} \X (1..f[s])]
  <1>1. ASSUME NEW s \in S PROVE IsFiniteSet(g[s])
    <2>1. IsFiniteSet({s}) /\ IsFiniteSet(1..f[s])
      BY FS_Singleton, IntervalSize
    <2>2. IsFiniteSet({s} \X (1..f[s]))
      BY <2>1, FS_Product
    <2>. QED
      BY <2>2
  <1>2. Units(S, f) = UNION {g[s] : s \in S}
    BY DEF Units
  <1>. HIDE DEF g
  <1>3. IsFiniteSet(Units(S, f))
    BY <1>1, <1>2, FiniteUnion
  <1>. QED
    BY <1>3, FS_CardinalityType

LEMMA FewerUnits ==
  ASSUME NEW S, IsFiniteSet(S), NEW f, \A s \in S : f[s] \in Nat,
         NEW T \in SUBSET S, NEW g, \A t \in T : g[t] \in Nat /\ g[t] <= f[t]
  PROVE  /\ Cardinality(Units(T, g)) \in Nat
         /\ Cardinality(Units(T, g)) <= Cardinality(Units(S, f))
  <1>1. Units(T, g) \subseteq Units(S, f)
    <2>1. ASSUME NEW t \in T PROVE {t} \X (1..g[t]) \subseteq {t} \X (1..f[t])
      BY \A n \in 1..g[t] : n \in 1..f[t]
    <2>. QED
      BY <2>1 DEF Units
  <1>. QED
    BY <1>1, UnitsAreFinite, PartSize

LEMMA LocationsAreFinite ==
  ASSUME Derived
  PROVE  IsFiniteSet(Locations)
  <1> DEFINE f == [a \in Acts |-> zones[a].occupied]
  <1>1. ASSUME NEW a \in Acts PROVE IsFiniteSet(f[a])
    <2>1. Loaded(inst)
      BY InstancesAssumption DEF Derived
    <2>2. IsFiniteSet(DOMAIN inst.supply)
      BY <2>1 DEF Loaded
    <2>3. f[a] = Span(a)
      BY DEF Derived, Zone
    <2>4. Span(a) \subseteq DOMAIN inst.supply
      BY DEF Span, ChainOf
    <2>. HIDE DEF f
    <2>. QED
      BY <2>2, <2>3, <2>4, FS_Subset
  <1>2. Locations = UNION {f[a] : a \in Acts}
    BY DEF Locations
  <1>3. IsFiniteSet(Acts)
    BY Activities DEF Derived
  <1>. HIDE DEF f
  <1>. QED
    BY <1>1, <1>2, <1>3, FiniteUnion

(* The excess that the search pays suffices for the supply that it sees;   *)
(* what the score counts, against the nominal supply, is no more if that   *)
(* supply was only lowered.                                                *)
LEMMA ExcessOfCell ==
  ASSUME Derived, opts \in Options, Unambiguous,
         NEW p \in PlanSpace, NEW l \in Locations, NEW w \in Weeks
  PROVE  /\ LeastExcess(p, l, w) \in Nat
         /\ NominalExcess(p, l, w) \in Nat
         /\ Lowered => NominalExcess(p, l, w) <= LeastExcess(p, l, w)
  <1> DEFINE mix == MixOf(At(l, w, p))
             s == SolverSupply(l, w)
             all == Cardinality(Acts)
             N == {n \in 0..all : Fits(mix, s + n)}
             x == LeastExcess(p, l, w)
  <1>1. l \in DOMAIN inst.supply /\ s \in Nat
    BY SameSupply
  <1>2. inst.supply[l] \in Nat
    <2>1. Loaded(inst)
      BY InstancesAssumption DEF Derived
    <2>. QED
      BY <1>1, <2>1 DEF Loaded
  <1>3. all \in Nat
    BY Activities, FS_CardinalityType DEF Derived
  <1>4. mix \in Mix /\ Total(mix) <= all
    <2>1. At(l, w, p) \in SUBSET Acts
      BY DEF At
    <2>2. Cardinality(At(l, w, p)) \in Nat /\ Cardinality(At(l, w, p)) <= all
      BY <2>1, Activities, PartSize DEF Derived
    <2>3. mix \in Mix /\ Total(mix) <= Cardinality(At(l, w, p))
      BY <2>1, MixOfPart DEF Derived
    <2>. QED
      BY <1>3, <2>2, <2>3 DEF Total, Mix
  <1>5. x = Min(N)
    BY DEF LeastExcess
  <1>. HIDE DEF mix, s, all, x
  <1>6. Fits(mix, s + all)
    <2>1. Total(mix) <= s + all
      BY <1>1, <1>3, <1>4 DEF Total, Mix
    <2>. QED
      BY <1>1, <1>3, <1>4, <2>1, AllFit
  <1>7. x \in N
    <2>1. N \in SUBSET Nat /\ all \in N
      BY <1>3, <1>6
    <2>. QED
      BY <1>5, <2>1, MinIsSmallest
  <1>8. x \in Nat /\ Fits(mix, s + x)
    BY <1>3, <1>7
  <1>9. SlotsUsed(mix) \in Nat /\ SlotsUsed(mix) <= s + x
    BY <1>1, <1>4, <1>8, SlotsFit
  <1> DEFINE over == SlotsUsed(mix) - inst.supply[l]
  <1>10. NominalExcess(p, l, w) = IF over > 0 THEN over ELSE 0
    <2>1. NominalExcess(p, l, w) = Max({0, over})
      BY DEF NominalExcess, mix
    <2>2. over \in Int
      BY <1>2, <1>9
    <2>. HIDE DEF over
    <2>. QED
      BY <2>1, <2>2, MaxZero
  <1>11. ASSUME Lowered PROVE s <= inst.supply[l]
    <2>1. CASE Disruptions(l, w) = {}
      BY <1>2, <2>1 DEF SolverSupply, s
    <2>2. CASE Disruptions(l, w) # {}
      <3>1. PICK n \in DOMAIN opts.overrides : n \in Disruptions(l, w)
        BY <2>2 DEF Disruptions
      <3>2. opts.overrides[n].cell = <<l, w>>
        BY <3>1 DEF Disruptions
      <3>3. Disruptions(l, w) = {n}
        BY <3>1 DEF Disruptions, Unambiguous
      <3>4. Max({n}) = n
        <4>1. opts.overrides \in Seq([cell : (DOMAIN inst.supply) \X Weeks, supply : Nat])
          BY DEF Options, Overrides
        <4>2. n \in Nat
          BY <4>1, LenProperties
        <4>3. Max({n}) \in {n}
          BY <4>2, MaxIsLargest
        <4>. QED
          BY <4>3
      <3>5. s = opts.overrides[n].supply
        BY <3>3, <3>4 DEF SolverSupply, s
      <3>6. opts.overrides[n].supply <= inst.supply[opts.overrides[n].cell[1]]
        BY <1>11 DEF Lowered
      <3>. QED
        BY <3>2, <3>5, <3>6
    <2>. QED
      BY <2>1, <2>2
  <1>. HIDE DEF N
  <1>12. x \in Nat /\ NominalExcess(p, l, w) \in Nat
    BY <1>2, <1>8, <1>9, <1>10
  <1>13. Lowered => NominalExcess(p, l, w) <= x
    BY <1>1, <1>2, <1>8, <1>9, <1>10, <1>11
  <1>. QED
    BY <1>12, <1>13 DEF x

LEMMA DaysOfOne ==
  ASSUME inst \in Instances, NEW p \in PlanSpace, NEW a \in Acts
  PROVE  Weight(a) * DaysOver(p, a) \in Nat
  <1>1. Weight(a) \in Nat
    <2>1. inst.activity[a].contract \in DOMAIN inst.contract /\ inst.activity[a].priority \in 1..3
      BY Activities
    <2>2. Contract(a).priority \in 1..3
      BY <2>1, Contracts DEF Contract
    <2>. QED
      BY <2>1, <2>2 DEF Weight
  <1>2. DaysOver(p, a) \in Nat
    <2>1. Last(p, a) \in Nat
      BY TakenWeeks
    <2>2. Contract(a).due \in Int
      BY Activities, Contracts DEF Contract
    <2>3. 7 * Last(p, a) - Contract(a).due \in Int
      BY <2>1, <2>2
    <2>. QED
      BY <2>3, MaxZero DEF DaysOver
  <1>. QED
    BY <1>1, <1>2

-----------------------------------------------------------------------------
(* Objective and score *)

Days(p, A) == Cardinality(Units(A, [a \in A |-> Weight(a) * DaysOver(p, a)]))
Paid(p) == Cardinality(Units(Locations \X Weeks,
                             [c \in Locations \X Weeks |-> LeastExcess(p, c[1], c[2])]))
Counted(p) == Cardinality(Units(Locations \X Weeks,
                                [c \in Locations \X Weeks |-> NominalExcess(p, c[1], c[2])]))
Closures(p) == Cardinality({c \in Acts \X Weeks : p[c[1]][c[2]] = 15})

(* Objective and score, each as a count of units. *)
CostsAgree ==
  \A p :
    /\ Objective(p) = (IF opts.scenario = "B" THEN 0 ELSE Days(p, Acts))
                        + (IF opts.scenario = "A" THEN 0 ELSE 70 * Paid(p) + 50 * Closures(p))
    /\ Score(p) = (IF opts.scenario = "B" THEN 0 ELSE Days(p, {a \in Acts : Taken(p, a) # {}}))
                    + (IF opts.scenario = "A" THEN 0 ELSE 70 * Counted(p) + 50 * Closures(p))

LEMMA CostsAre == CostsAgree
  <1>. SUFFICES ASSUME NEW p
                PROVE  /\ Objective(p) = (IF opts.scenario = "B" THEN 0 ELSE Days(p, Acts))
                            + (IF opts.scenario = "A" THEN 0 ELSE 70 * Paid(p) + 50 * Closures(p))
                       /\ Score(p) =
                            (IF opts.scenario = "B" THEN 0 ELSE Days(p, {a \in Acts : Taken(p, a) # {}}))
                              + (IF opts.scenario = "A" THEN 0 ELSE 70 * Counted(p) + 50 * Closures(p))
    BY DEF CostsAgree
  <1>1. \A A : Weighed(p, A) = IF opts.scenario = "B" THEN 0 ELSE Days(p, A)
    BY DEF Weighed, Days, Units
  <1>2. /\ UNION {{c} \X (1..LeastExcess(p, c[1], c[2])) : c \in Locations \X Weeks}
             = Units(Locations \X Weeks,
                     [c \in Locations \X Weeks |-> LeastExcess(p, c[1], c[2])])
        /\ UNION {{c} \X (1..NominalExcess(p, c[1], c[2])) : c \in Locations \X Weeks}
             = Units(Locations \X Weeks,
                     [c \in Locations \X Weeks |-> NominalExcess(p, c[1], c[2])])
    BY DEF Units
  <1>3. Charged(p, LAMBDA c : LeastExcess(p, c[1], c[2]))
          = IF opts.scenario = "A" THEN 0 ELSE 70 * Paid(p) + 50 * Closures(p)
    BY <1>2 DEF Charged, Paid, Closures
  <1>4. Charged(p, LAMBDA c : NominalExcess(p, c[1], c[2]))
          = IF opts.scenario = "A" THEN 0 ELSE 70 * Counted(p) + 50 * Closures(p)
    BY <1>2 DEF Charged, Counted, Closures
  <1>. QED
    BY <1>1, <1>3, <1>4 DEF Objective, Score

(* After a supply was lowered the score never exceeds the objective. *)
LEMMA ScoreWithinObjective ==
  ASSUME Derived, opts \in Options, Unambiguous, NEW p \in PlanSpace
  PROVE  /\ Objective(p) \in Nat
         /\ Score(p) \in Nat
         /\ Lowered => Score(p) <= Objective(p)
  <1> DEFINE active == {a \in Acts : Taken(p, a) # {}}
             cells == Locations \X Weeks
             ow == [a \in Acts |-> Weight(a) * DaysOver(p, a)]
             own == [a \in active |-> Weight(a) * DaysOver(p, a)]
             least == [c \in cells |-> LeastExcess(p, c[1], c[2])]
             nominal == [c \in cells |-> NominalExcess(p, c[1], c[2])]
  <1>1. inst \in Instances /\ IsFiniteSet(Acts) /\ IsFiniteSet(Weeks)
    BY Activities DEF Derived
  <1>2. Days(p, Acts) \in Nat /\ Days(p, active) \in Nat /\ Days(p, active) <= Days(p, Acts)
    <2>1. \A a \in Acts : ow[a] \in Nat
      BY <1>1, DaysOfOne
    <2>2. active \in SUBSET Acts /\ \A a \in active : own[a] = ow[a]
      OBVIOUS
    <2>3. /\ Days(p, Acts) = Cardinality(Units(Acts, ow))
          /\ Days(p, active) = Cardinality(Units(active, own))
      BY DEF Days
    <2>. HIDE DEF active, ow, own
    <2>4. \A a \in active : own[a] \in Nat /\ own[a] <= ow[a]
      BY <2>1, <2>2
    <2>. QED
      BY <1>1, <2>1, <2>2, <2>3, <2>4, UnitsAreFinite, FewerUnits
  <1>3. IsFiniteSet(cells)
    BY <1>1, LocationsAreFinite, FS_Product
  <1>4. \A c \in cells : /\ least[c] \in Nat /\ nominal[c] \in Nat
                         /\ Lowered => nominal[c] <= least[c]
    <2>1. ASSUME NEW c \in cells
          PROVE  /\ least[c] \in Nat /\ nominal[c] \in Nat
                 /\ Lowered => nominal[c] <= least[c]
      <3>1. c[1] \in Locations /\ c[2] \in Weeks
        OBVIOUS
      <3>. QED
        BY <3>1, ExcessOfCell
    <2>. QED
      BY <2>1
  <1>5. Paid(p) = Cardinality(Units(cells, least)) /\ Counted(p) = Cardinality(Units(cells, nominal))
    BY DEF Paid, Counted
  <1>6. Paid(p) \in Nat /\ Counted(p) \in Nat /\ (Lowered => Counted(p) <= Paid(p))
    <2>. HIDE DEF cells, least, nominal
    <2>1. Paid(p) \in Nat /\ Counted(p) \in Nat
      BY <1>3, <1>4, <1>5, UnitsAreFinite
    <2>2. ASSUME Lowered PROVE Counted(p) <= Paid(p)
      BY <1>3, <1>4, <1>5, <2>2, FewerUnits
    <2>. QED
      BY <2>1, <2>2
  <1>7. Closures(p) \in Nat
    <2>1. IsFiniteSet(Acts \X Weeks)
      BY <1>1, FS_Product
    <2>. QED
      BY <2>1, PartSize DEF Closures
  <1>. HIDE DEF active
  <1>8. /\ Objective(p) = (IF opts.scenario = "B" THEN 0 ELSE Days(p, Acts))
                             + (IF opts.scenario = "A" THEN 0 ELSE 70 * Paid(p) + 50 * Closures(p))
        /\ Score(p) = (IF opts.scenario = "B" THEN 0 ELSE Days(p, active))
                         + (IF opts.scenario = "A" THEN 0 ELSE 70 * Counted(p) + 50 * Closures(p))
    BY CostsAre DEF CostsAgree, active
  <1>. QED
    BY <1>2, <1>6, <1>7, <1>8

-----------------------------------------------------------------------------
(* The cheapest of a set of plans *)

LEMMA LeastCost ==
  ASSUME NEW P, NEW costs, \A p \in P : costs[p] \in Nat
  PROVE  {p \in P : costs[p] = Min({costs[q] : q \in P})}
           = {p \in P : \A q \in P : costs[p] <= costs[q]}
  <1> DEFINE C == {costs[q] : q \in P}
  <1>1. ASSUME NEW p \in P
        PROVE  costs[p] = Min(C) <=> \A q \in P : costs[p] <= costs[q]
    <2>1. C \in SUBSET Nat /\ costs[p] \in C
      OBVIOUS
    <2>2. Min(C) \in C /\ \A n \in C : Min(C) <= n
      <3>. HIDE DEF C
      <3>. QED
        BY <2>1, MinIsSmallest
    <2>3. PICK r \in P : Min(C) = costs[r]
      BY <2>2
    <2>4. \A q \in P : costs[r] <= costs[q]
      BY <2>2, <2>3
    <2>. HIDE DEF C
    <2>. QED
      BY <2>3, <2>4
  <1>. QED
    BY <1>1

Optimal == {p \in Solutions : \A q \in Solutions : Objective(p) <= Objective(q)}
Nearest(P) == {p \in P : \A q \in P : Churn(p) <= Churn(q)}

LEMMA CheapestIsOptimal ==
  ASSUME Derived, opts \in Options, Unambiguous
  PROVE  Cheapest(Solutions, Objective) = Optimal
  <1> DEFINE costs == [p \in Solutions |-> Objective(p)]
  <1>1. \A p \in Solutions : costs[p] \in Nat
    <2>1. \A p \in Solutions : p \in PlanSpace
      BY SolutionsAre
    <2>. QED
      BY <2>1, ScoreWithinObjective
  <1>2. Cheapest(Solutions, Objective) = {p \in Solutions : costs[p] = Min({costs[q] : q \in Solutions})}
    BY DEF Cheapest
  <1>3. Optimal = {p \in Solutions : \A q \in Solutions : costs[p] <= costs[q]}
    BY DEF Optimal
  <1>. HIDE DEF costs
  <1>. QED
    BY <1>1, <1>2, <1>3, LeastCost

LEMMA CheapestIsNearest ==
  ASSUME Derived, NEW P
  PROVE  Cheapest(P, Churn) = Nearest(P)
  <1> DEFINE costs == [p \in P |-> Churn(p)]
  <1>1. \A p \in P : costs[p] \in Nat
    <2>1. IsFiniteSet(Acts \X Weeks)
      BY Activities, FS_Product DEF Derived
    <2>. QED
      BY <2>1, PartSize DEF Churn
  <1>2. Cheapest(P, Churn) = {p \in P : costs[p] = Min({costs[q] : q \in P})}
    BY DEF Cheapest
  <1>3. Nearest(P) = {p \in P : \A q \in P : costs[p] <= costs[q]}
    BY DEF Nearest
  <1>. HIDE DEF costs
  <1>. QED
    BY <1>1, <1>2, <1>3, LeastCost

-----------------------------------------------------------------------------
(* The inductive invariant of a repair *)

Plain == \A p \in Optimal : Score(p) = Objective(p)

(* What is settled once the second pass was proved, or found nothing. *)
Settled == /\ plan \in Optimal
           /\ Plain /\ refined \in {"least", "infeasible"} => plan \in Nearest(Optimal)

RepairInv ==
  command = "repair" =>
    /\ inst \in Repaired /\ disruption \in Given
    /\ pass \in {"before", "first", "second", "done"}
    /\ pass \in {"before", "first"} => ~proven
    /\ pass # "done" => answer = "none" /\ refined = "no"
    /\ pass = "second" => /\ plan \in Solutions
                          /\ Comparable => plan \in Optimal
    /\ answer = "found" /\ proven /\ Lowered /\ Comparable => Settled

LEMMA GivenIsOverrides ==
  ASSUME inst \in Repaired, NEW overs \in Given
  PROVE  overs \in Overrides
  <1> DEFINE O == [cell : (DOMAIN inst.supply) \X Weeks, supply : Nat]
             Of(c) == {[cell |-> c, supply |-> s] : s \in NewSupplies}
             Once == UNION {{<<o>> : o \in Of(c)} : c \in Cells}
             Twice == {pair \in UNION {Of(c) \X Of(c) : c \in Cells} : pair[1] # pair[2]}
  <1>1. ASSUME NEW c \in Cells PROVE Of(c) \subseteq O
    <2>1. c \in (DOMAIN inst.supply) \X Weeks
      BY RepairAssumption DEF Weeks
    <2>2. \A s \in NewSupplies : s \in Nat
      BY RepairAssumption
    <2>. QED
      BY <2>1, <2>2
  <1>2. CASE overs \in Once
    <2>1. PICK c \in Cells : \E o \in Of(c) : overs = <<o>>
      BY <1>2
    <2>2. PICK o \in O : overs = <<o>>
      BY <1>1, <2>1
    <2>. HIDE DEF O, Of
    <2>. QED
      BY <2>2 DEF Overrides, O
  <1>3. CASE overs \in Twice
    <2>1. PICK c \in Cells : overs \in Of(c) \X Of(c)
      BY <1>3
    <2>. HIDE DEF Of
    <2>2. PICK o \in Of(c), q \in Of(c) : overs = <<o, q>>
      BY <2>1
    <2>3. o \in O /\ q \in O
      BY <1>1, <2>2
    <2>. HIDE DEF O
    <2>. QED
      BY <2>2, <2>3 DEF Overrides, O
  <1>4. Given = Once \cup Twice
    BY DEF Given
  <1>. HIDE DEF Once, Twice
  <1>. QED
    BY <1>2, <1>3, <1>4

LEMMA RepairInitInv ==
  ASSUME RepairInit
  PROVE  CommandInv /\ RepairInv
  <1>1. inst \in Instances
    BY RepairAssumption DEF RepairInit
  <1>2. PlanTyped
    <2>1. <<>> \in Overrides
      BY EmptySeq DEF Overrides
    <2>2. opts \in Options
      BY <2>1 DEF RepairInit, Options, Groups
    <2>. QED
      BY <1>1, <2>2 DEF RepairInit, PlanTyped, Derived
  <1>3. opts.require = {} /\ opts.relax = "none" /\ ~opts.soft /\ answer = "none"
        /\ opts.reading # "strict"
    BY DEF RepairInit
  <1>4. Lifted = {}
    BY <1>3 DEF Lifted
  <1>5. CommandInv
    BY <1>2, <1>3, <1>4 DEF CommandInv, OneAtATime, AnswerIsRight, LiftedForCause
  <1>6. RepairInv
    BY DEF RepairInit, RepairInv
  <1>. QED
    BY <1>5, <1>6

-----------------------------------------------------------------------------
(* What a step of a repair leaves alone *)

LEMMA SameCosts ==
  ASSUME inst' = inst, zones' = zones, opts' = opts
  PROVE  /\ \A p : Objective(p)' = Objective(p) /\ Score(p)' = Score(p)
         /\ Optimal' = Optimal
         /\ Plain' <=> Plain
         /\ Lowered' <=> Lowered
  <1>1. \A a : Weight(a)' = Weight(a)
    BY SameRules DEF Weight
  <1>2. \A p, a : DaysOver(p, a)' = DaysOver(p, a)
    BY SameRules DEF DaysOver
  <1>3. \A p, A : Days(p, A)' = Days(p, A)
    BY <1>1, <1>2 DEF Days
  <1>4. \A p, l, w : MixOf(At(l, w, p))' = MixOf(At(l, w, p))
    <2>1. ASSUME NEW p, NEW l, NEW w PROVE MixOf(At(l, w, p))' = MixOf(At(l, w, p))
      <3>1. MixOf(At(l, w, p))' = MixOf(At(l, w, p)')
        BY SameRules DEF MixOf
      <3>. QED
        BY <3>1, SameRules
    <2>. QED
      BY <2>1
  <1>5. \A p, l, w : /\ LeastExcess(p, l, w)' = LeastExcess(p, l, w)
                     /\ NominalExcess(p, l, w)' = NominalExcess(p, l, w)
    <2>1. \A l, w : SolverSupply(l, w)' = SolverSupply(l, w)
      BY SameJudgement
    <2>. QED
      BY SameRules, <1>4, <2>1 DEF LeastExcess, NominalExcess
  <1>6. \A p : Paid(p)' = Paid(p) /\ Counted(p)' = Counted(p) /\ Closures(p)' = Closures(p)
    BY SameRules, <1>5 DEF Paid, Counted, Closures
  <1>7. CostsAgree'
    BY CostsAre, PTL
  <1>8. ASSUME NEW p PROVE Objective(p)' = Objective(p) /\ Score(p)' = Score(p)
    <2> DEFINE active == {a \in Acts : Taken(p, a) # {}}
    <2>1. active' = active
      BY SameRules
    <2>2. Days(p, Acts)' = Days(p, Acts) /\ Days(p, active)' = Days(p, active)
      <3>1. Days(p, Acts)' = Days(p, Acts')
        BY <1>3, SameRules DEF Days
      <3>2. Days(p, active)' = Days(p, active')
        BY <1>3, <2>1 DEF Days
      <3>. QED
        BY <1>3, <2>1, <3>1, <3>2, SameRules
    <2>. QED
      BY <1>6, <1>7, <2>2, CostsAre DEF CostsAgree
  <1>9. Optimal' = Optimal
    BY <1>8, SameModel DEF Optimal
  <1>10. Plain' <=> Plain
    BY <1>8, <1>9 DEF Plain
  <1>11. Lowered' <=> Lowered
    BY DEF Lowered
  <1>. QED
    BY <1>8, <1>9, <1>10, <1>11

-----------------------------------------------------------------------------
(* The steps of a repair *)

LEMMA SameDistance ==
  ASSUME inst' = inst, zones' = zones, opts' = opts, base' = base
  PROVE  Nearest(Optimal)' = Nearest(Optimal)
  <1>1. \A p : Churn(p)' = Churn(p)
    BY SameRules DEF Churn
  <1>2. Optimal' = Optimal
    BY SameCosts
  <1>. QED
    BY <1>1, <1>2 DEF Nearest

(* While nothing is lifted every solution keeps within its nights. *)
LEMMA SolvedWithinLoad ==
  ASSUME opts.relax = "none", NEW p \in Solutions
  PROVE  WithinLoad(p)
  BY SolutionsAre DEF Conforms, Enforced

(* In a repair nothing is lifted and nothing is asked for. *)
LEMMA RepairLiftsNothing ==
  ASSUME CommandInv, command = "repair"
  PROVE  /\ opts.relax = "none" /\ ~opts.soft /\ opts.reading # "strict"
         /\ Lifted = {}
  <1>1. opts.relax = "none" /\ ~opts.soft /\ opts.reading # "strict"
    BY DEF CommandInv, OneAtATime
  <1>. QED
    BY <1>1 DEF Lifted

(* A step that gives up, or the answer of a pass that leaves the question. *)
LEMMA NoAnswerInv ==
  ASSUME CommandInv, RepairInv, command = "repair", pass \in {"before", "first"},
         NoAnswer, UNCHANGED <<loaded, disruption, refined>>
  PROVE  CommandInv' /\ RepairInv'
  <1>1. UNCHANGED <<loaded, opts>>
    BY DEF NoAnswer
  <1>2. /\ answer' \in {"infeasible", "timeout"}
        /\ answer' = "infeasible" => Solutions = {}
        /\ pass' = "done" /\ proven' = proven /\ disruption' = disruption
        /\ inst' = inst /\ command' = command
    BY DEF NoAnswer, Stops, loaded
  <1>3. AnswerIsRight'
    BY <1>1, <1>2, SameQuestion DEF AnswerIsRight
  <1>4. CommandInv'
    BY <1>1, <1>3, SameQuestion DEF CommandInv
  <1>5. Given' = Given
    BY DEF Given
  <1>6. RepairInv'
    BY <1>2, <1>5 DEF RepairInv
  <1>. QED
    BY <1>4, <1>6

LEMMA BeforeInv ==
  ASSUME CommandInv, RepairInv, command = "repair", Before
  PROVE  CommandInv' /\ RepairInv'
  <1>1. /\ pass = "before" /\ answer = "none" /\ refined = "no" /\ ~proven
        /\ inst \in Repaired /\ disruption \in Given
    BY DEF Before, RepairInv
  <1>2. CASE NoAnswer
    BY <1>1, <1>2, NoAnswerInv DEF Before
  <1>3. CASE /\ opts' = [opts EXCEPT !.overrides = disruption]
             /\ pass' = "first"
             /\ UNCHANGED <<phase, answer, plan, proven>>
             /\ UNCHANGED <<loaded, disruption, refined>>
    <2>1. /\ inst' = inst /\ zones' = zones /\ command' = command
          /\ answer' = "none" /\ disruption' = disruption /\ proven' = proven /\ refined' = "no"
      BY <1>1, <1>3 DEF loaded
    <2>2. opts \in Options /\ disruption \in Overrides
      BY <1>1, GivenIsOverrides DEF CommandInv, PlanTyped
    <2>3. /\ opts' \in Options
          /\ opts'.require = opts.require /\ opts'.soft = opts.soft
          /\ opts'.relax = opts.relax /\ opts'.reading = opts.reading
      BY <1>3, <2>2 DEF Options
    <2>4. PlanTyped'
      <3>1. Options' = Options
        BY <2>1, SameRules DEF Options, Overrides
      <3>. QED
        BY <2>1, <2>3, <3>1, SameDerived DEF CommandInv, PlanTyped
    <2>5. OneAtATime'
      BY <2>1, <2>3 DEF CommandInv, OneAtATime
    <2>6. Lifted' = {}
      BY <2>3, RepairLiftsNothing DEF Lifted
    <2>7. CommandInv'
      BY <2>1, <2>4, <2>5, <2>6 DEF CommandInv, AnswerIsRight, LiftedForCause
    <2>8. Given' = Given
      BY DEF Given
    <2>9. RepairInv'
      BY <1>1, <1>3, <2>1, <2>8 DEF RepairInv
    <2>. QED
      BY <2>7, <2>9
  <1>. QED
    BY <1>2, <1>3 DEF Before

LEMMA FirstPassInv ==
  ASSUME CommandInv, RepairInv, command = "repair", FirstPass
  PROVE  CommandInv' /\ RepairInv'
  <1>1. /\ pass = "first" /\ answer = "none" /\ refined = "no" /\ ~proven
        /\ inst \in Repaired /\ disruption \in Given
    BY DEF FirstPass, RepairInv
  <1>2. Given' = Given
    BY DEF Given
  <1>3. CASE NoAnswer
    BY <1>1, <1>3, NoAnswerInv DEF FirstPass
  <1>4. CASE /\ plan' \in Cheapest(Solutions, Objective)
             /\ pass' = "second"
             /\ UNCHANGED <<phase, answer, opts, base>>
             /\ UNCHANGED <<loaded, disruption, refined>>
    <2>1. UNCHANGED <<loaded, opts>> /\ inst' = inst /\ zones' = zones /\ opts' = opts
          /\ answer' = "none" /\ command' = command /\ disruption' = disruption /\ refined' = "no"
      BY <1>1, <1>4 DEF loaded
    <2>2. CommandInv'
      BY <2>1, SameQuestion DEF CommandInv, AnswerIsRight
    <2>3. plan' \in Solutions'
      <3>1. plan' \in Solutions
        BY <1>4 DEF Cheapest
      <3>. QED
        BY <2>1, <3>1, SameModel
    <2>4. Comparable' => plan' \in Optimal'
      <3>1. ASSUME Comparable PROVE plan' \in Optimal
        BY <1>4, <3>1, CheapestIsOptimal DEF CommandInv, PlanTyped, Comparable
      <3>. QED
        BY <2>1, <3>1, SameCosts, SameJudgement
    <2>5. RepairInv'
      BY <1>1, <1>2, <1>4, <2>1, <2>3, <2>4 DEF RepairInv
    <2>. QED
      BY <2>2, <2>5
  <1>5. CASE /\ plan' \in Solutions
             /\ answer' = "found"
             /\ Stops
             /\ UNCHANGED <<opts, base, proven>>
             /\ UNCHANGED <<loaded, disruption, refined>>
    <2>1. UNCHANGED <<loaded, opts>> /\ inst' = inst /\ zones' = zones /\ opts' = opts
          /\ command' = command /\ disruption' = disruption /\ ~proven' /\ pass' = "done"
      BY <1>1, <1>5 DEF loaded, Stops
    <2>2. AnswerIsRight'
      <3>1. plan' \in Solutions' /\ Solutions' = Solutions
        BY <1>5, <2>1, SameQuestion
      <3>2. WithinLoad(plan')
        BY <1>5, RepairLiftsNothing, SolvedWithinLoad
      <3>3. WithinLoad(plan)'
        BY <2>1, <3>2, SameRules DEF WithinLoad, Bucket, Load
      <3>. QED
        BY <1>5, <3>1, <3>3 DEF AnswerIsRight
    <2>3. CommandInv'
      BY <2>1, <2>2, SameQuestion DEF CommandInv
    <2>4. RepairInv'
      BY <1>1, <1>2, <2>1 DEF RepairInv
    <2>. QED
      BY <2>3, <2>4
  <1>. QED
    BY <1>3, <1>4, <1>5 DEF FirstPass

(* A proven optimum stays one: what the lock leaves costs no more than its *)
(* score, so no more than itself; and if score and objective agree on the  *)
(* optimal plans, the lock leaves exactly those.                           *)
LEMMA LockIsOptimal ==
  ASSUME Derived, opts \in Options, Comparable, Lowered, plan \in Optimal
  PROVE  /\ Locked \subseteq Optimal
         /\ Plain => /\ Locked = Optimal
                     /\ \A p \in Locked : Score(p) = Score(plan)
  <1>1. Unambiguous
    BY DEF Comparable
  <1>2. \A p \in Solutions : /\ Objective(p) \in Nat /\ Score(p) \in Nat
                             /\ Score(p) <= Objective(p)
    <2>1. \A p \in Solutions : p \in PlanSpace
      BY SolutionsAre
    <2>. QED
      BY <1>1, <2>1, ScoreWithinObjective
  <1>3. plan \in Solutions /\ \A q \in Solutions : Objective(plan) <= Objective(q)
    BY DEF Optimal
  <1>4. ASSUME NEW p \in Locked PROVE p \in Optimal
    <2>1. p \in Solutions /\ Objective(p) <= Score(plan)
      BY DEF Locked
    <2>2. Objective(p) <= Objective(plan)
      BY <1>2, <1>3, <2>1
    <2>3. \A q \in Solutions : Objective(p) <= Objective(q)
      BY <1>2, <1>3, <2>1, <2>2
    <2>. QED
      BY <2>1, <2>3 DEF Optimal
  <1>5. ASSUME Plain, NEW p \in Optimal
        PROVE  p \in Locked /\ Score(p) = Score(plan)
    <2>1. p \in Solutions /\ Objective(p) <= Objective(plan) /\ Objective(plan) <= Objective(p)
      BY <1>3 DEF Optimal
    <2>2. Score(p) = Objective(p) /\ Score(plan) = Objective(plan)
      BY <1>5 DEF Plain
    <2>. QED
      BY <1>2, <1>3, <2>1, <2>2 DEF Locked
  <1>. QED
    BY <1>4, <1>5

LEMMA SecondPassInv ==
  ASSUME CommandInv, RepairInv, command = "repair", SecondPass
  PROVE  CommandInv' /\ RepairInv'
  <1>1. /\ pass = "second" /\ refined = "no" /\ plan \in Solutions
        /\ Comparable => plan \in Optimal
        /\ inst \in Repaired /\ disruption \in Given
    BY DEF SecondPass, RepairInv
  <1>2. /\ UNCHANGED <<loaded, opts>> /\ inst' = inst /\ zones' = zones /\ opts' = opts
        /\ command' = command /\ disruption' = disruption /\ base' = base
        /\ answer' = "found" /\ pass' = "done"
    BY DEF SecondPass, loaded, Stops
  <1>3. \/ \E p \in Locked :
             /\ plan' = IF Score(p) = Score(plan) THEN p ELSE plan
             /\ refined' = "found" \/ (refined' = "least" /\ p \in Cheapest(Locked, Churn))
        \/ Locked = {} /\ refined' = "infeasible" /\ plan' = plan
        \/ plan' = plan /\ refined' = "no"
    BY <1>1 DEF SecondPass
  <1>4. plan' \in Solutions
    BY <1>1, <1>3 DEF Locked
  <1>5. AnswerIsRight'
    <2>1. plan' \in Solutions'
      BY <1>2, <1>4, SameQuestion
    <2>2. WithinLoad(plan')
      BY <1>4, RepairLiftsNothing, SolvedWithinLoad
    <2>3. WithinLoad(plan)'
      BY <1>2, <2>2, SameRules DEF WithinLoad, Bucket, Load
    <2>. QED
      BY <1>2, <2>1, <2>3 DEF AnswerIsRight
  <1>6. CommandInv'
    BY <1>2, <1>5, SameQuestion DEF CommandInv
  <1>7. ASSUME Lowered, Comparable
        PROVE  /\ plan' \in Optimal
               /\ Plain /\ refined' \in {"least", "infeasible"} => plan' \in Nearest(Optimal)
    <2>1. /\ Locked \subseteq Optimal
          /\ Plain => Locked = Optimal /\ \A p \in Locked : Score(p) = Score(plan)
      BY <1>1, <1>7, LockIsOptimal DEF CommandInv, PlanTyped
    <2>2. plan \in Optimal
      BY <1>1, <1>7
    <2>3. Cheapest(Locked, Churn) = Nearest(Locked)
      BY CheapestIsNearest DEF CommandInv, PlanTyped
    <2>4. plan' \in Optimal
      BY <1>3, <2>1, <2>2
    <2>5. ASSUME Plain, refined' \in {"least", "infeasible"}
          PROVE  plan' \in Nearest(Optimal)
      <3>1. PICK p \in Locked :
              /\ plan' = IF Score(p) = Score(plan) THEN p ELSE plan
              /\ p \in Cheapest(Locked, Churn)
        BY <1>3, <2>1, <2>2, <2>5
      <3>. QED
        BY <2>1, <2>3, <2>5, <3>1
    <2>. QED
      BY <2>4, <2>5
  <1>8. Lowered' /\ Comparable' => Settled'
    BY <1>2, <1>7, SameCosts, SameJudgement, SameDistance DEF Settled
  <1>9. Given' = Given
    BY DEF Given
  <1>10. RepairInv'
    BY <1>1, <1>2, <1>8, <1>9 DEF RepairInv
  <1>. QED
    BY <1>6, <1>10

-----------------------------------------------------------------------------
(* The theorems *)

PlanInv == CommandInv /\ RepairInv

LEMMA PlanInvInit == PlanningInit => PlanInv
  <1>1. CASE RulesInit
    BY <1>1, RulesInitInv DEF PlanInv, RepairInv
  <1>2. CASE RepairInit
    BY <1>2, RepairInitInv DEF PlanInv
  <1>. QED
    BY <1>1, <1>2 DEF PlanningInit, RulesIdle

LEMMA PlanInvStands ==
  ASSUME PlanInv, UNCHANGED plans
  PROVE  PlanInv'
  <1>1. UNCHANGED rulesVars /\ UNCHANGED repairs
    BY DEF plans, rulesVars
  <1>2. CommandInv'
    BY <1>1, StandstillInv DEF PlanInv
  <1>3. /\ inst' = inst /\ zones' = zones /\ opts' = opts /\ command' = command /\ plan' = plan
        /\ answer' = answer /\ base' = base /\ disruption' = disruption /\ pass' = pass
        /\ proven' = proven /\ refined' = refined
    BY DEF plans, repairs
  <1>4. /\ Solutions' = Solutions /\ (Comparable' <=> Comparable) /\ (Lowered' <=> Lowered)
        /\ Optimal' = Optimal
    BY <1>3, SameModel, SameJudgement, SameCosts
  <1>5. Settled' <=> Settled
    BY <1>3, SameCosts, SameDistance DEF Settled
  <1>6. Given' = Given
    BY DEF Given
  <1>7. RepairInv'
    BY <1>3, <1>4, <1>5, <1>6 DEF PlanInv, RepairInv
  <1>. QED
    BY <1>2, <1>7 DEF PlanInv

LEMMA PlanInvNext == PlanInv /\ [PlanningNext]_planning => PlanInv'
  <1>. SUFFICES ASSUME PlanInv, [PlanningNext]_planning PROVE PlanInv'
    OBVIOUS
  <1>1. CASE UNCHANGED plans
    BY <1>1, PlanInvStands
  <1>2. CASE RulesNext
    BY <1>2, RulesNextInv DEF PlanInv, RepairInv
  <1>3. CASE RepairNext
    BY <1>3, BeforeInv, FirstPassInv, SecondPassInv DEF PlanInv, RepairNext
  <1>4. CASE UNCHANGED planning
    BY <1>1, <1>4 DEF planning
  <1>. QED
    BY <1>1, <1>2, <1>3, <1>4 DEF PlanningNext

THEOREM Planned == PlanningSpec => []PlanInv
  BY PlanInvInit, PlanInvNext, PTL DEF PlanningSpec

(* A plan that is found passes the independent check; after something was  *)
(* lifted it fails for that and for nothing else, and does fail.           *)
THEOREM LiftedAreBroken == PlanningSpec => []OnlyLiftedBroken
  <1>1. PlanInv => OnlyLiftedBroken
    <2>. SUFFICES ASSUME PlanInv, answer = "found", Comparable
                  PROVE  /\ PassesBut(plan, Lifted)
                         /\ Lifted # {} => ~PassesBut(plan, {})
      BY DEF OnlyLiftedBroken
    <2>1. Derived /\ opts \in Options /\ (opts.soft => opts.relax = "none")
      BY DEF PlanInv, CommandInv, PlanTyped, OneAtATime
    <2>2. plan \in Solutions /\ WithinLoad(plan)
      BY DEF PlanInv, CommandInv, AnswerIsRight
    <2>3. PassesBut(plan, Lifted)
      BY <2>1, <2>2, ModelPasses
    <2>4. ASSUME Lifted # {} PROVE ~PassesBut(plan, {})
      <3>1. plan \in PlanSpace /\ Conforms(plan) /\ Asked(plan) /\ Frugal(plan)
        BY <2>2, SolutionsAre
      <3>2. ~Worthy(plan)
        BY <2>4, <3>1 DEF PlanInv, CommandInv, LiftedForCause
      <3>3. opts.reading = "strict" => KeptApart(plan)
        <4>1. opts.reading = "strict" => opts.relax = "none"
          BY DEF PlanInv, CommandInv, OneAtATime
        <4>. QED
          BY <3>1, <4>1 DEF Conforms, Enforced
      <3>. QED
        BY <3>1, <3>2, <3>3 DEF Worthy
    <2>. QED
      BY <2>3, <2>4
  <1>. QED
    BY <1>1, Planned, PTL

(* What is called infeasible is, by the validator's rules. *)
THEOREM InfeasibleIsRight == PlanningSpec => []ProofsAreRight
  <1>1. PlanInv => ProofsAreRight
    <2>. SUFFICES ASSUME PlanInv, answer = "infeasible", opts.reading = "adopted", Comparable,
                         \A r \in opts.require : Need(r[1]) > 0,
                         NEW p \in [Acts -> [Weeks -> Nights]],
                         \A r \in opts.require : p[r[1]][r[2]] > 0,
                         PassesBut(p, Lifted)
                  PROVE  FALSE
      BY DEF ProofsAreRight
    <2>1. Derived /\ opts \in Options /\ (opts.soft => opts.relax = "none")
          /\ \A r, s \in opts.require : r = s
      BY DEF PlanInv, CommandInv, PlanTyped, OneAtATime
    <2>2. p \in PlanSpace /\ Asked(p)
      BY DEF PlanSpace, Asked
    <2>3. Solutions # {}
      BY <2>1, <2>2, PassingIsSolved
    <2>. QED
      BY <2>3 DEF PlanInv, CommandInv, AnswerIsRight
  <1>. QED
    BY <1>1, Planned, PTL

(* A repair whose first pass proved its optimum ends with an optimal plan; *)
(* and with one nearest to the plan before, unless the second pass was cut *)
(* short or the nominal supply would have carried what an optimum pays for.*)
THEOREM RepairedBest == PlanningSpec => []RepairIsBest
  <1>1. PlanInv => RepairIsBest
    <2>. SUFFICES ASSUME PlanInv, command = "repair", answer = "found", proven, Lowered, Comparable
                  PROVE  /\ plan \in Cheapest(Solutions, Objective)
                         /\ /\ \A p \in Cheapest(Solutions, Objective) : Score(p) = Objective(p)
                            /\ refined \in {"least", "infeasible"}
                            => plan \in Cheapest(Cheapest(Solutions, Objective), Churn)
      BY DEF RepairIsBest
    <2>1. Derived /\ opts \in Options /\ Unambiguous
      BY DEF PlanInv, CommandInv, PlanTyped, Comparable
    <2>2. Cheapest(Solutions, Objective) = Optimal
      BY <2>1, CheapestIsOptimal
    <2>3. Cheapest(Optimal, Churn) = Nearest(Optimal)
      BY <2>1, CheapestIsNearest
    <2>4. Settled
      BY DEF PlanInv, RepairInv
    <2>5. Cheapest(Cheapest(Solutions, Objective), Churn) = Nearest(Optimal)
      BY <2>2, <2>3 DEF Cheapest
    <2>. QED
      BY <2>2, <2>4, <2>5 DEF Settled, Plain
  <1>. QED
    BY <1>1, Planned, PTL

(* What is proved of the slots of one location-week holds beside the plans *)
(* too: each behaviour of Planning is one of PossessionSlots.              *)
THEOREM SlotsWithin == PlanningSpec => Spec /\ [](AdmittedPasses /\ ExcessIsPriced /\ FewestSlots)
  <1>1. PlanningInit => Init
    BY DEF PlanningInit, SlotsIdle
  <1>2. [PlanningNext]_planning => [Next]_vars
    <2>1. UNCHANGED planning => UNCHANGED vars
      BY DEF planning
    <2>. QED
      BY <2>1 DEF PlanningNext
  <1>3. PlanningSpec => Spec
    BY <1>1, <1>2, PTL DEF PlanningSpec, Spec
  <1>. QED
    BY <1>3, Accepted, Priced, Fewest, PTL
=============================================================================
