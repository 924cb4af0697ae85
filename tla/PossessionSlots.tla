-------------------------- MODULE PossessionSlots --------------------------
(***************************************************************************)
(* One location in one week of a plan, through the three programs that     *)
(* each have their own idea of how many possession slots it takes: the     *)
(* solver, whose two inequalities stand for the slots (solver.cpp), the    *)
(* exporter, which packs the activities into slots (ComputeOccupancy), and *)
(* the validator, which knows neither and judges the packed slots.         *)
(***************************************************************************)
EXTENDS Integers, Sequences, PossessionMix

CONSTANTS Capable,    \* activities whose span covers the location
          Supplies    \* its supply: nominal, or what a disruption leaves

(* The validator's "no limit" of Scenario B. *)
Unlimited == 1073741824

(* The solver skips a location that no span covers. *)
ASSUME SlotsAssumption == /\ Capable \in 1..Unlimited
                          /\ Supplies \subseteq Nat

VARIABLES scenario, soft,   \* the run's scenario, and whether it is priced
          supply,
          present,          \* the activities of this location-week, by type
          left,             \* those not packed yet
          slots,            \* the slots packed so far, each a mix of types
          stage

vars == <<scenario, soft, supply, present, left, slots, stage>>
given == <<scenario, soft, supply, present>>

TypeOK == /\ scenario \in {"A", "B", "C"}
          /\ soft \in BOOLEAN
          /\ supply \in Supplies
          /\ present \in Mix
          /\ left \in Mix
          /\ slots \in Seq(Mix)
          /\ stage \in {"solve", "pack", "accepted", "refused"}

Init == /\ scenario \in {"A", "B", "C"}
        /\ soft \in BOOLEAN
        /\ supply \in Supplies
        /\ present = Nobody
        /\ left = Nobody
        /\ slots = <<>>
        /\ stage = "solve"

-----------------------------------------------------------------------------
(* The solver's model *)

(* Excess slots it may use: policy in A and C, and in B, or when policy is *)
(* priced, a bound that is meant never to bind.                            *)
MaxExcess == IF scenario = "B" \/ soft THEN Capable
             ELSE IF scenario = "C" THEN 1 ELSE 0

Admits(p) == \E excess \in 0..MaxExcess : Fits(p, supply + excess)

(* The search settles on some activities the model admits. *)
Solve(p) ==
  /\ stage = "solve"
  /\ Total(p) <= Capable
  /\ Admits(p)
  /\ present' = p
  /\ left' = p
  /\ stage' = "pack"
  /\ UNCHANGED <<scenario, soft, supply, slots>>

-----------------------------------------------------------------------------
(* ComputeOccupancy: masters, then hosts with their guests, then the rest *)

Least(m, n) == IF m <= n THEN m ELSE n

Pack(mix) ==
  /\ slots' = Append(slots, mix)
  /\ left' = [pm |-> left.pm - mix.pm, pc |-> left.pc - mix.pc, co |-> left.co - mix.co]
  /\ UNCHANGED <<given, stage>>

PlaceMaster ==
  /\ stage = "pack"
  /\ left.pm > 0
  /\ Pack([pm |-> 1, pc |-> 0, co |-> 0])

(* Mutated form: four guests. *)
PlaceHostCrowded ==
  /\ stage = "pack"
  /\ left.pm = 0
  /\ left.pc > 0
  /\ Pack([pm |-> 0, pc |-> 1, co |-> Least(4, left.co)])

PlaceHost ==
  /\ stage = "pack"
  /\ left.pm = 0
  /\ left.pc > 0
  /\ Pack([pm |-> 0, pc |-> 1, co |-> Least(3, left.co)])

(* Mutated form: three to a slot. *)
PlaceSharedThree ==
  /\ stage = "pack"
  /\ left.pm = 0 /\ left.pc = 0
  /\ left.co > 0
  /\ Pack([pm |-> 0, pc |-> 0, co |-> Least(3, left.co)])

PlaceShared ==
  /\ stage = "pack"
  /\ left.pm = 0 /\ left.pc = 0
  /\ left.co > 0
  /\ Pack([pm |-> 0, pc |-> 0, co |-> Least(4, left.co)])

-----------------------------------------------------------------------------
(* Validate: the capacity rule and the mix rule *)

Excess == IF Len(slots) > supply THEN Len(slots) - supply ELSE 0

Tolerance == IF scenario = "A" THEN 0 ELSE IF scenario = "C" THEN 1 ELSE Unlimited

Passes == /\ Excess <= Tolerance
          /\ \A n \in DOMAIN slots : LegalMix(slots[n])

Judge ==
  /\ stage = "pack"
  /\ left = Nobody
  /\ stage' = IF Passes THEN "accepted" ELSE "refused"
  /\ UNCHANGED <<given, left, slots>>

Counts == {p \in [pm : 0..Capable, pc : 0..Capable, co : 0..Capable] : Total(p) <= Capable}

Next == \/ \E p \in Counts : Solve(p)
        \/ PlaceMaster
        \/ PlaceHost
        \/ PlaceShared
        \/ Judge

Spec == Init /\ [][Next]_vars

-----------------------------------------------------------------------------
(* Properties *)

Judged == stage \in {"accepted", "refused"}

(* What the solver admits passes the independent check, unless its own     *)
(* policy was priced instead of enforced (solver.cpp:143-187 against       *)
(* validator.cpp:179-222).                                                 *)
AdmittedPasses == stage = "refused" => soft

(* The search pays for exactly the excess that the score counts            *)
(* (schedule.cpp:120-122): no smaller excess would have been admitted.     *)
ExcessIsPriced ==
  Judged => /\ Excess <= MaxExcess
            /\ Fits(present, supply + Excess)
            /\ \A n \in 0..Excess : n < Excess => ~Fits(present, supply + n)

(* "B scores excess rather than capping it, so its bound must never bind"  *)
(* (solver.cpp:149-151), and neither does a priced policy's: in either     *)
(* case the search may still choose any activities.                        *)
BoundNeverBinds ==
  stage = "solve" /\ (scenario = "B" \/ soft) => \A p \in Counts : Admits(p)

(* What n slots can hold, by the validator's rule alone. *)
LegalMixes == {mix \in [pm : 0..1, pc : 0..1, co : 0..4] : LegalMix(mix)}
Holding[n \in 0..Capable] ==
  IF n = 0 THEN {Nobody}
  ELSE {p \in Counts : \E mix \in LegalMixes :
          /\ mix.pm <= p.pm /\ mix.pc <= p.pc /\ mix.co <= p.co
          /\ [pm |-> p.pm - mix.pm, pc |-> p.pc - mix.pc, co |-> p.co - mix.co]
               \in Holding[n - 1]}

(* The packing is whole, and no legal packing of the same activities takes *)
(* fewer slots -- so no plan the validator would pass is lost to either    *)
(* the inequalities or the packing.                                        *)
FewestSlots ==
  Judged => /\ present \in Holding[Len(slots)]
            /\ \A n \in 0..Capable : n + 1 = Len(slots) => present \notin Holding[n]
=============================================================================
