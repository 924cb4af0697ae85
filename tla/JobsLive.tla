------------------------------ MODULE JobsLive ------------------------------
(***************************************************************************)
(* What must go on with jobs: in the service that works them off           *)
(* (SolveJobs), and on the page that has one made for each scenario and    *)
(* follows them (GeneratePlans).  Of the service the page only needs that  *)
(* a job ends, which is JobSettles, so one of the two is at work, chosen   *)
(* at the start.                                                           *)
(***************************************************************************)
EXTENDS SolveJobs

CONSTANTS Scenarios, MaxBatches, MaxStopped  \* of GeneratePlans

VARIABLES side,
          batch, posts, table, polls, busy, finished, mounted, ran  \* busy is `running' there

Page == INSTANCE GeneratePlans WITH running <- busy

generate == <<batch, posts, table, polls, busy, finished, mounted, ran>>

SideInit == side \in {"service", "page"} /\ Init /\ Page!GenerateInit

(* Beside the page no request reaches the service: its workers fall asleep. *)
(* BatchEnds asks nothing of a page that was left, so it is not left here.  *)
SideNext ==
  \/ side = "service" /\ Next /\ UNCHANGED <<side, generate>>
  \/ side = "page" /\ (\E w \in Workers : WorkerStep(w)) /\ UNCHANGED <<side, generate>>
  \/ side = "page" /\ (\A w \in Workers : worker[w].at = "asleep")
     /\ Page!GenerateNext /\ mounted' /\ UNCHANGED <<side, vars>>

(* Each with the fairness of its module. *)
SideSpec ==
  /\ SideInit /\ [][SideNext]_<<side, vars, generate>>
  /\ Fairness /\ Page!GenerateFairness

-----------------------------------------------------------------------------
(* See GeneratePlans: a batch comes to an end and its button comes back.    *)
BatchEnds == Page!BatchEnds
=============================================================================
