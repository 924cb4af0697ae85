-------------------------- MODULE ApprovalRegister --------------------------
(***************************************************************************)
(* What the plan store promises its callers about approvals, without       *)
(* tables, transactions or hashes: for every project and scenario there is *)
(* a register that holds at most one standing plan version.  A version     *)
(* that was replaced, or whose input was replaced, is retired and never    *)
(* stands again.  PlanStore is shown to implement this module.             *)
(***************************************************************************)
EXTENDS Naturals

CONSTANTS Projects, Scenarios, Plans

VARIABLES standing,   \* [Projects \X Scenarios -> SUBSET Plans]
          retired     \* the plan versions that can never stand again

rvars == <<standing, retired>>

Registers == Projects \X Scenarios

RInit == /\ standing = [g \in Registers |-> {}]
         /\ retired = {}

(* An approver signs version v off: whatever stood in the register is      *)
(* replaced and retired in the same step.                                  *)
Publish(g, v) == /\ v \notin retired
                 /\ v \notin standing[g]
                 /\ retired' = retired \cup standing[g]
                 /\ standing' = [standing EXCEPT ![g] = {v}]

(* An approver takes a standing approval back; the version may stand again. *)
Withdraw(g, v) == /\ standing[g] = {v}
                  /\ UNCHANGED retired
                  /\ standing' = [standing EXCEPT ![g] = {}]

(* The input of project p is replaced: the plans in S lose whatever they   *)
(* had, in that project's registers and in no other.                       *)
Expire(p, S) == /\ S # {}
                /\ S \cap retired = {}
                /\ retired' = retired \cup S
                /\ \A g \in Registers : g[1] # p => standing[g] \cap S = {}
                /\ standing' = [g \in Registers |-> standing[g] \ S]

RNext == \/ \E g \in Registers, v \in Plans : Publish(g, v) \/ Withdraw(g, v)
         \/ \E p \in Projects, S \in SUBSET Plans : Expire(p, S)

RSpec == RInit /\ [][RNext]_rvars
=============================================================================
