---------------------------- MODULE ScheduleData ----------------------------
(***************************************************************************)
(* One project's block on the schedules page of the React client           *)
(* (client/src/lib/useProjectSchedule.js, ProjectBlock in                  *)
(* routes/Schedules.jsx): five resources, some of which depend on what     *)
(* others answered, are joined into the rows of the chosen plan.  Answers  *)
(* come in any order, while the planner chooses another plan, retries, or  *)
(* saves a coordinator in the drawer.                                      *)
(*                                                                         *)
(* A resource is useResource as ClientSession models it: only the newest   *)
(* run is heard, and what was answered before stays until it is.  A change *)
(* of its deps and the effect it causes are one step.                      *)
(***************************************************************************)
EXTENDS Naturals

CONSTANTS MaxPlans,  \* bound: plan versions, numbered from 1
          MaxSaves   \* bound: coordinators saved

ASSUME ScheduleAssumption == MaxPlans \in Nat \ {0} /\ MaxSaves \in Nat

VARIABLES open,      \* the block is expanded
          prefer,    \* the plan picked in its list, 0 if none
          resource,  \* versions, access, occupancy, detail, assigns
          revision,  \* saves acknowledged to this page
          plans,     \* server: plan versions so far
          saves      \* server: saves so far

scheduleVars == <<open, prefer, resource, revision, plans, saves>>

-----------------------------------------------------------------------------

(* The input each plan was made from; the second plan has one of its own.   *)
InstanceOf(v) == IF v = 2 THEN 2 ELSE 1

(* dep: what it is to show.  data: what it shows: the number of versions    *)
(* listed, the version of a file, the instance of a detail, and for the     *)
(* assignments their instance and how many saves they reflect.              *)
Null == <<0, 0>>
Off == [dep |-> Null, data |-> Null, loading |-> FALSE, error |-> FALSE]

ScheduleInit ==
  /\ open \in BOOLEAN /\ prefer = 0 /\ revision = 0 /\ saves = 0
  /\ plans \in 0..MaxPlans
  /\ resource = [n \in {"versions", "access", "occupancy", "detail", "assigns"} |->
                   IF n = "versions" /\ open THEN [Off EXCEPT !.dep = <<1, 0>>, !.loading = TRUE] ELSE Off]

(* choosePlan, see PlanChoice, on versions none of which is published.      *)
Chosen(listed, p) == IF p \in 1..listed THEN p ELSE listed

(* The deps of the five hooks.  The mutated form forgets the revision.      *)
DepsUnrevised(o, r, v) ==
  [versions |-> <<1, 0>>, access |-> <<v, 0>>, occupancy |-> <<v, 0>>,
   detail |-> <<InstanceOf(v), 0>>, assigns |-> <<InstanceOf(v), 0>>]
Deps(o, r, v) ==
  [versions |-> <<1, 0>>, access |-> <<v, 0>>, occupancy |-> <<v, 0>>,
   detail |-> <<InstanceOf(v), 0>>, assigns |-> <<InstanceOf(v), r>>]

Enabled(n, o, v) == o /\ (n = "versions" \/ v # 0)

(* The effects that follow a change: what is disabled is cleared, what has  *)
(* new deps asks again.                                                     *)
AfterEffects(res, o, p, r) ==
  LET v == Chosen(res.versions.data[1], p) IN
  [n \in DOMAIN res |->
     IF ~Enabled(n, o, v) THEN Off
     ELSE IF res[n].dep = Deps(o, r, v)[n] THEN res[n]
     ELSE [res[n] EXCEPT !.dep = Deps(o, r, v)[n], !.loading = TRUE, !.error = FALSE]]

(* The versions may have been listed before the newest of them was made.    *)
Answers(n) ==
  CASE n = "versions" -> {<<k, 0>> : k \in 0..plans}
    [] n = "assigns" -> {<<resource[n].dep[1], saves>>}
    [] OTHER -> {resource[n].dep}

Arrives(n) ==
  /\ resource[n].loading
  /\ \E d \in Answers(n) :
       resource' = AfterEffects([resource EXCEPT ![n].data = d, ![n].loading = FALSE],
                                open, prefer, revision)
  /\ UNCHANGED <<open, prefer, revision, plans, saves>>

DoesNotArrive(n) ==
  /\ resource[n].loading
  /\ resource' = AfterEffects([resource EXCEPT ![n].data = Null, ![n].loading = FALSE,
                                               ![n].error = TRUE], open, prefer, revision)
  /\ UNCHANGED <<open, prefer, revision, plans, saves>>

Disclose == /\ open' = ~open /\ resource' = AfterEffects(resource, ~open, prefer, revision)
            /\ UNCHANGED <<prefer, revision, plans, saves>>

(* What the block is told of its resources.                                 *)
Loading == \E n \in DOMAIN resource : resource[n].loading
Failed == \E n \in DOMAIN resource : resource[n].error
Plan == Chosen(resource.versions.data[1], prefer)

(* The plan list is there as soon as a plan is chosen, loading or not.      *)
ChoosePlan(v) ==
  /\ Plan # 0 /\ v \in 1..resource.versions.data[1] /\ v # Plan /\ prefer' = v
  /\ resource' = AfterEffects(resource, open, v, revision)
  /\ UNCHANGED <<open, revision, plans, saves>>

(* The retry asks all five again. *)
RetryAll ==
  /\ open /\ ~Loading /\ Failed
  /\ resource' = [n \in DOMAIN resource |->
                    IF Enabled(n, open, Plan) THEN [resource[n] EXCEPT !.loading = TRUE, !.error = FALSE]
                    ELSE Off]
  /\ UNCHANGED <<open, prefer, revision, plans, saves>>

(* The drawer's save and, later, its onSaved; others save too.              *)
SaveCoordinator == /\ saves < MaxSaves /\ saves' = saves + 1
                   /\ UNCHANGED <<open, prefer, resource, revision, plans>>

Saved == /\ revision < saves /\ revision' = saves
         /\ resource' = AfterEffects(resource, open, prefer, saves)
         /\ UNCHANGED <<open, prefer, plans, saves>>

AnotherPlan == /\ plans < MaxPlans /\ plans' = plans + 1
               /\ UNCHANGED <<open, prefer, resource, revision, saves>>

ScheduleNext ==
  \/ \E n \in DOMAIN resource : Arrives(n) \/ DoesNotArrive(n)
  \/ \E v \in 1..MaxPlans : ChoosePlan(v)
  \/ Disclose \/ RetryAll \/ SaveCoordinator \/ Saved \/ AnotherPlan

ScheduleSpec == ScheduleInit /\ [][ScheduleNext]_scheduleVars

-----------------------------------------------------------------------------
(* Properties *)

(* The rows that are shown join the files of one plan, the one named above  *)
(* them, with the contracts and the coordinators of its own input, and the  *)
(* coordinators include every save this page was told of                    *)
(* (useProjectSchedule.js:25-106, Schedules.jsx:108-129).                   *)
OnePlanShown ==
  open /\ ~Loading /\ ~Failed /\ Plan # 0 =>
    /\ resource.access.data[1] = Plan /\ resource.occupancy.data[1] = Plan
    /\ resource.detail.data[1] = InstanceOf(Plan)
    /\ resource.assigns.data[1] = InstanceOf(Plan)
    /\ resource.assigns.data[2] >= revision
=============================================================================
