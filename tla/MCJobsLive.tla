----------------------------- MODULE MCJobsLive -----------------------------
(* The model-checking instance of JobsLive: one worker, so that a job waits *)
(* behind another and behind an analysis; two batches of two scenarios, so  *)
(* that the polls of the first run into the second and a batch may be       *)
(* created in part, and one job that is cancelled.                          *)
EXTENDS JobsLive
=============================================================================
