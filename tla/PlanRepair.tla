------------------------------ MODULE PlanRepair ------------------------------
(***************************************************************************)
(* RunRepair (main.cpp:425-526) and the second pass of Solve               *)
(* (solver.cpp:389-409): plan, replace the supply of a location-week, plan *)
(* again for the best objective, hold that objective and change as little  *)
(* of the first plan as it allows.  The search pays excess against the     *)
(* replaced supply; the score that becomes the lock counts it against the  *)
(* nominal one, because the overrides enter the plan only afterwards.      *)
(***************************************************************************)
EXTENDS PlanRules

CONSTANTS Repaired,    \* the instances that are repaired
          Cells,       \* location-weeks whose supply may be replaced
          NewSupplies  \* by what

(* ParseOverride takes a loaded location, a week of the horizon, a supply. *)
ASSUME RepairAssumption ==
  /\ Repaired \subseteq Instances
  /\ NewSupplies \subseteq Nat
  /\ \A i \in Repaired : Cells \subseteq (DOMAIN i.supply) \X (1..i.weeks)

VARIABLES disruption,  \* the overrides given, in order
          base,        \* the plan before
          pass,        \* the search that is out, or "done"
          proven,      \* whether the first pass proved its optimum
          refined      \* what the second pass found: "no" answer, "infeasible",
                       \* "found", or the "least" change

repairVars == <<disruption, base, pass, proven, refined>>

-----------------------------------------------------------------------------
(* What the search pays, and what ComputeScore counts: overrun weighted by *)
(* priorities in A and C, excess and ECLO in B and C, in tenths.           *)

Weight(a) == <<100, 10, 1>>[Contract(a).priority] * <<13, 12, 10>>[inst.activity[a].priority]
DaysOver(p, a) == Max({0, 7 * Last(p, a) - Contract(a).due})

(* Sums are counts: of the weighted days, of the excess slots.             *)
Weighed(p, A) ==
  IF opts.scenario = "B" THEN 0
  ELSE Cardinality(UNION {{a} \X (1..(Weight(a) * DaysOver(p, a))) : a \in A})
Charged(p, Excess(_)) ==
  IF opts.scenario = "A" THEN 0
  ELSE 70 * Cardinality(UNION {{c} \X (1..Excess(c)) : c \in Locations \X Weeks})
         + 50 * Cardinality({c \in Acts \X Weeks : p[c[1]][c[2]] = 15})

LeastExcess(p, l, w) ==
  Min({n \in 0..Cardinality(Acts) : Fits(MixOf(At(l, w, p)), SolverSupply(l, w) + n)})

Objective(p) ==
  Weighed(p, Acts)
    + Charged(p, LAMBDA c : LeastExcess(p, c[1], c[2]))

NominalExcess(p, l, w) == Max({0, SlotsUsed(MixOf(At(l, w, p))) - inst.supply[l]})

Score(p) ==
  Weighed(p, {a \in Acts : Taken(p, a) # {}})
    + Charged(p, LAMBDA c : NominalExcess(p, c[1], c[2]))

Churn(p) == Cardinality({c \in Acts \X Weeks : (p[c[1]][c[2]] > 0) # (base[c[1]][c[2]] > 0)})

Cheapest(P, cost(_)) == LET costs == [p \in P |-> cost(p)]
                            least == Min({costs[p] : p \in P})
                        IN {p \in P : costs[p] = least}

-----------------------------------------------------------------------------

RepairIdle == /\ disruption = <<>>
              /\ base = NoPlan
              /\ pass = "done"
              /\ proven = FALSE
              /\ refined = "no"

(* One override, or two for the same location-week. *)
Given == LET Of(c) == {[cell |-> c, supply |-> s] : s \in NewSupplies}
         IN (UNION {{<<o>> : o \in Of(c)} : c \in Cells})
              \cup {pair \in UNION {Of(c) \X Of(c) : c \in Cells} : pair[1] # pair[2]}

RepairInit ==
  /\ inst \in Repaired
  /\ zones = [a \in Acts |-> Zone(a)]
  /\ command = "repair"
  /\ opts \in [scenario : {"A", "B", "C"}, soft : {FALSE}, relax : {"none"}, require : {{}},
               overrides : {<<>>}, reading : {"adopted"}]
  /\ phase = "search"
  /\ answer = "none"
  /\ plan = NoPlan
  /\ disruption \in Given
  /\ base = NoPlan
  /\ pass = "before"
  /\ proven = FALSE
  /\ refined = "no"

Stops == /\ phase' = "answered"
         /\ pass' = "done"

NoAnswer == /\ Stops
            /\ answer' \in (IF Solutions = {} THEN {"infeasible", "timeout"} ELSE {"timeout"})
            /\ UNCHANGED <<plan, opts, base, proven>>

Before ==
  /\ pass = "before"
  /\ \/ /\ \E p \in Solutions : base' = p
        /\ opts' = [opts EXCEPT !.overrides = disruption]
        /\ pass' = "first"
        /\ UNCHANGED <<phase, answer, plan, proven>>
     \/ NoAnswer
  /\ UNCHANGED <<loaded, disruption, refined>>

(* Only a proven optimum is refined. *)
FirstPass ==
  /\ pass = "first"
  /\ LET found == Solutions
     IN \/ /\ found # {}
           /\ plan' \in Cheapest(found, Objective)
           /\ proven' = TRUE
           /\ pass' = "second"
           /\ UNCHANGED <<phase, answer, opts, base>>
        \/ /\ plan' \in found
           /\ answer' = "found"
           /\ Stops
           /\ UNCHANGED <<opts, base, proven>>
        \/ NoAnswer
  /\ UNCHANGED <<loaded, disruption, refined>>

(* What the lock leaves.  Mutated form: better plans only. *)
LockedBelow == {p \in Solutions : Objective(p) < Score(plan)}
Locked == {p \in Solutions : Objective(p) <= Score(plan)}

(* The second pass's plan is taken if it scores the same. *)
SecondPass ==
  /\ pass = "second"
  /\ LET held == Locked
     IN \/ \E p \in held :
             /\ plan' = IF Score(p) = Score(plan) THEN p ELSE plan
             /\ refined' \in {"found"} \cup (IF p \in Cheapest(held, Churn) THEN {"least"} ELSE {})
        \/ held = {} /\ refined' = "infeasible" /\ UNCHANGED plan
        \/ UNCHANGED <<plan, refined>>
  /\ answer' = "found"
  /\ Stops
  /\ UNCHANGED <<loaded, opts, disruption, base, proven>>

RepairNext == command = "repair" /\ (Before \/ FirstPass \/ SecondPass)

-----------------------------------------------------------------------------

Lowered == \A n \in DOMAIN opts.overrides :
             opts.overrides[n].supply <= inst.supply[opts.overrides[n].cell[1]]

(* "It cannot change which plans are optimal" (main.cpp:471-473): after a   *)
(* supply was lowered, what a repair calls optimal is so against that       *)
(* supply; and unless the second pass was cut short, no optimal plan is     *)
(* nearer to the plan before.  The latter only if no optimal plan pays for  *)
(* excess that the nominal supply would have carried.                       *)
RepairIsBest ==
  command = "repair" /\ answer = "found" /\ proven /\ Lowered /\ Comparable =>
    LET best == Cheapest(Solutions, Objective)
        counted == \A p \in best : Score(p) = Objective(p)
    IN /\ plan \in best
       /\ counted /\ refined \in {"least", "infeasible"} => plan \in Cheapest(best, Churn)
=============================================================================
