---------------------------- MODULE MCPlanStore ----------------------------
(* The model-checking instance of PlanStore and of what the client chooses  *)
(* from it: two projects and two scenarios so that grouping and scoping     *)
(* matter, two inputs so that one replaces the other, two uploads in flight. *)
EXTENDS PlanChoice, TLC

(* A clean plan, an infeasible one and a fallback one. *)
MCVerdicts == {[feasible |-> TRUE, violated |-> FALSE, is_fallback |-> FALSE],
               [feasible |-> FALSE, violated |-> TRUE, is_fallback |-> FALSE],
               [feasible |-> TRUE, violated |-> FALSE, is_fallback |-> TRUE]}

(* Projects, scenarios, inputs, approvers and handlers are interchangeable. *)
Symmetry == Permutations(Projects) \cup Permutations(Scenarios)
              \cup Permutations(Hashes) \cup Permutations(Users)
              \cup Permutations(Handlers)
=============================================================================
