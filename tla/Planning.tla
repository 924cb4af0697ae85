------------------------------- MODULE Planning -------------------------------
(***************************************************************************)
(* Planning at the two scales it is modelled at: the slots of one location *)
(* in one week, step by step (PossessionSlots), and whole plans, their     *)
(* search, their judgement and their repair (PlanRules, PlanRepair), where *)
(* a location-week is the number of slots that the other scale justifies.  *)
(***************************************************************************)
EXTENDS PossessionSlots, PlanRepair

ASSUME PlanningAssumption == Instances # {}

VARIABLE scale

repairs == <<disruption, base, pass, proven, refined>>
plans == <<inst, zones, command, opts, phase, answer, plan, repairs>>
planning == <<vars, plans, scale>>

SlotsIdle == Init /\ scenario = "A" /\ ~soft /\ supply = CHOOSE n \in Supplies : TRUE
RulesIdle == /\ RulesInit
             /\ inst = CHOOSE i \in Instances : TRUE
             /\ command = "solve"
             /\ opts.scenario = "A" /\ opts.reading = "adopted"

PlanningInit ==
  \/ scale = "slots" /\ Init /\ RulesIdle /\ RepairIdle
  \/ scale = "plan" /\ SlotsIdle /\ RulesInit /\ RepairIdle
  \/ scale = "repair" /\ SlotsIdle /\ RepairInit

PlanningNext ==
  \/ scale = "slots" /\ Next /\ UNCHANGED <<scale, plans>>
  \/ scale = "plan" /\ RulesNext /\ UNCHANGED <<scale, vars, repairs>>
  \/ scale = "repair" /\ RepairNext /\ UNCHANGED <<scale, vars>>

PlanningSpec == PlanningInit /\ [][PlanningNext]_planning
=============================================================================
