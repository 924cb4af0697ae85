----------------------------- MODULE JobPhases -----------------------------
(***************************************************************************)
(* One job of the service, as the clients that poll it depend on it: the   *)
(* line, the slots and the threads of SolveJobs are left out, and what is  *)
(* left of a job is JobBoard's, in one value.  A job that is cancelled     *)
(* while it waits is withdrawn: clients are told so, but the worker takes  *)
(* it all the same.  One that is cancelled while it runs goes on until its *)
(* solver has stopped.                                                     *)
(***************************************************************************)

Phases == {"queued", "withdrawn", "running", "stopping", "done", "failed", "cancelled"}

(* The state that JobJson tells. *)
Said(phase) ==
  CASE phase = "withdrawn" -> "cancelled"
    [] phase = "stopping" -> "running"
    [] OTHER -> phase

(* What a cancellation makes of it. *)
Stopped(phase) ==
  CASE phase = "queued" -> "withdrawn"
    [] phase = "running" -> "stopping"
    [] OTHER -> phase

(* What WorkerLoop may make of it next. *)
Worked(phase) ==
  CASE phase = "queued" -> {"running"}
    [] phase = "withdrawn" -> {"stopping"}
    [] phase = "running" -> {"done", "failed"}
    [] phase = "stopping" -> {"cancelled"}
    [] OTHER -> {}

(* Somebody has cancelled it. *)
WasStopped(phase) == phase \in {"withdrawn", "stopping", "cancelled"}
=============================================================================
