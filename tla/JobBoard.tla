------------------------------ MODULE JobBoard ------------------------------
(***************************************************************************)
(* What the solve service promises those who use it, without threads,      *)
(* wakeups, solver processes or a mutex.  Accepted jobs wait in a line of  *)
(* limited length and are taken in the order they came in; those that are  *)
(* taken and the analyses under way share the slots; a job that was taken  *)
(* runs once and is over when it gives its slot back, as cancelled if it   *)
(* was stopped before.  A job stopped while it waits is told cancelled at  *)
(* once, keeps its place and runs all the same.  SolveJobs is shown to     *)
(* implement this module.                                                  *)
(***************************************************************************)
EXTENDS Naturals, Sequences, FiniteSets

CONSTANTS Jobs, Analyses, Slots, MaxQueue

VARIABLES waiting,   \* the jobs that wait, the oldest first
          taken,     \* the jobs that hold a slot
          lent,      \* the analyses that hold one
          told,      \* [Jobs -> what a client is told of the job]
          stopped    \* [Jobs -> whether somebody cancelled it]

bvars == <<waiting, taken, lent, told, stopped>>

SlotLeft == Cardinality(taken) + Cardinality(lent) < Slots

BInit == /\ waiting = <<>> /\ taken = {} /\ lent = {}
         /\ told = [j \in Jobs |-> "none"]
         /\ stopped = [j \in Jobs |-> FALSE]

(* A job is accepted once, while there is room in the line. *)
Accept(j) == /\ told[j] = "none"
             /\ Len(waiting) < MaxQueue
             /\ waiting' = Append(waiting, j)
             /\ told' = [told EXCEPT ![j] = "queued"]
             /\ UNCHANGED <<taken, lent, stopped>>

(* Whoever came first is next, also if it was cancelled meanwhile. *)
Take == /\ waiting # <<>> /\ SlotLeft
        /\ waiting' = Tail(waiting)
        /\ taken' = taken \cup {Head(waiting)}
        /\ UNCHANGED <<lent, told, stopped>>

Begin(j) == /\ j \in taken
            /\ told[j] \in {"queued", "cancelled"}
            /\ told' = [told EXCEPT ![j] = "running"]
            /\ UNCHANGED <<waiting, taken, lent, stopped>>

Stop(j) == /\ told[j] # "none"
           /\ stopped' = [stopped EXCEPT ![j] = TRUE]
           /\ told' = [told EXCEPT ![j] = IF @ = "queued" THEN "cancelled" ELSE @]
           /\ UNCHANGED <<waiting, taken, lent>>

(* A job that runs is over when it gives its slot back, and only then. *)
End(j) == /\ j \in taken
          /\ told[j] = "running"
          /\ taken' = taken \ {j}
          /\ \E over \in IF stopped[j] THEN {"cancelled"} ELSE {"done", "failed"} :
               told' = [told EXCEPT ![j] = over]
          /\ UNCHANGED <<waiting, lent, stopped>>

Lend(a) == /\ a \notin lent /\ SlotLeft
           /\ lent' = lent \cup {a}
           /\ UNCHANGED <<waiting, taken, told, stopped>>

Return(a) == /\ a \in lent
             /\ lent' = lent \ {a}
             /\ UNCHANGED <<waiting, taken, told, stopped>>

BNext == \/ Take
         \/ \E j \in Jobs : Accept(j) \/ Begin(j) \/ Stop(j) \/ End(j)
         \/ \E a \in Analyses : Lend(a) \/ Return(a)

BSpec == BInit /\ [][BNext]_bvars
=============================================================================
