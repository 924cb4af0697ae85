---------------------------- MODULE GeneratePlans ----------------------------
(***************************************************************************)
(* The Generate section of a project's page in the React client            *)
(* (client/src/routes/ProjectDetail.jsx): one job per scenario is created, *)
(* each is polled until it ends, and the section is busy meanwhile.  The   *)
(* creations of a batch, and a poll, which is a chain of requests and      *)
(* timers, are tied neither to the batch shown nor to the page, so those   *)
(* of an earlier batch may still write the table.                          *)
(***************************************************************************)
EXTENDS Naturals, FiniteSets, JobPhases

CONSTANTS Scenarios,   \* SCENARIOS
          MaxBatches,  \* bound: how often plans are generated
          MaxStopped   \* bound: jobs that are cancelled

ASSUME GenerateAssumption ==
  /\ IsFiniteSet(Scenarios) /\ Scenarios # {}
  /\ MaxBatches \in Nat \ {0} /\ MaxStopped \in Nat

VARIABLES batch,     \* how often the button was pressed
          posts,     \* the createJob calls of every batch, while they are awaited
          table,     \* `jobs`: the job and the state shown of each scenario
          polls,     \* chains of ticks
          running, finished, mounted,
          ran        \* server: the phase of every job

generate == <<batch, posts, table, polls, running, finished, mounted, ran>>

-----------------------------------------------------------------------------

Live == {"queued", "running"}
Ended == {"done", "failed", "cancelled"}
Job == (1..MaxBatches) \X Scenarios
Shown == [job : 0..MaxBatches, state : Live \cup Ended \cup {"none"}]
NotStarted == [job |-> 0, state |-> "none"]

(* asking: the request is out.  timer: waits to ask again.                  *)
Poll == [job : Job, at : {"asking", "timer"}]
Asking(j) == [job |-> j, at |-> "asking"]

GenerateInit ==
  /\ batch = 0 /\ posts = [j \in Job |-> "none"]
  /\ table = [s \in Scenarios |-> NotStarted] /\ polls = {}
  /\ running = FALSE /\ finished = FALSE /\ mounted = TRUE
  /\ ran = [j \in Job |-> "none"]

-----------------------------------------------------------------------------
(* start() *)

Start ==
  /\ mounted /\ ~running /\ batch < MaxBatches
  /\ batch' = batch + 1
  /\ posts' = [j \in Job |-> IF j[1] = batch + 1 THEN "out" ELSE posts[j]]
  /\ table' = [s \in Scenarios |-> NotStarted]
  /\ running' = TRUE /\ finished' = FALSE
  /\ UNCHANGED <<polls, mounted, ran>>

(* The creations of batch b are awaited no more. *)
Dropped(b) == [j \in Job |-> IF j[1] = b THEN "none" ELSE posts[j]]

(* The answer of one createJob.  The batch's last one fills the table, of a *)
(* page that was not left, and starts the polls.                            *)
Created(j) ==
  /\ posts[j] = "out" /\ ran[j] # "none"
  /\ IF \A s \in Scenarios \ {j[2]} : posts[<<j[1], s>>] = "ok"
     THEN /\ posts' = Dropped(j[1])
          /\ table' = IF mounted THEN [s \in Scenarios |-> [job |-> j[1], state |-> "queued"]] ELSE table
          /\ polls' = polls \cup {Asking(<<j[1], s>>) : s \in Scenarios}
     ELSE posts' = [posts EXCEPT ![j] = "ok"] /\ UNCHANGED <<table, polls>>
  /\ UNCHANGED <<batch, running, finished, mounted, ran>>

(* One refusal ends the batch: nobody waits for the others, nor polls them. *)
CreateFails(j) ==
  /\ posts[j] = "out"
  /\ posts' = Dropped(j[1]) /\ running' = FALSE
  /\ UNCHANGED <<batch, table, polls, finished, mounted, ran>>

-----------------------------------------------------------------------------
(* poll(sc, id) *)

(* Whether the table says that all have ended.  The mutated form waits for  *)
(* every job to be done.                                                    *)
AllEndedDone(t) == \A s \in Scenarios : t[s].state = "done"
AllEnded(t) == \A s \in Scenarios : t[s].state \in Ended

(* What a tick writes.  The mutated form takes it for the newest batch's.   *)
EntryState(j) == [job |-> batch, state |-> Said(ran[j])]
EntryOf(j) == [job |-> j[1], state |-> Said(ran[j])]

(* The timer of a job that has not ended.                                   *)
Again(p) == IF Said(ran[p.job]) \in Live THEN {[p EXCEPT !.at = "timer"]} ELSE {}

(* The answer, as old as the service said it last. *)
Told(p) ==
  LET t == [table EXCEPT ![p.job[2]] = EntryOf(p.job)] IN
  /\ p.at = "asking"
  /\ polls' = (polls \ {p}) \cup Again(p)
  /\ IF ~mounted THEN UNCHANGED <<table, running, finished>>
     ELSE /\ table' = t
          /\ IF Said(ran[p.job]) \in Ended /\ AllEnded(t)
             THEN running' = FALSE /\ finished' = TRUE
             ELSE UNCHANGED <<running, finished>>
  /\ UNCHANGED <<batch, posts, mounted, ran>>

(* A tick that fails shows the job as failed and polls no more.             *)
PollFails(p) ==
  /\ p.at = "asking" /\ polls' = polls \ {p}
  /\ IF mounted
     THEN running' = FALSE /\ table' = [table EXCEPT ![p.job[2]].state = "failed"]
     ELSE UNCHANGED <<running, table>>
  /\ UNCHANGED <<batch, posts, finished, mounted, ran>>

Tick(p) ==
  /\ p.at = "timer" /\ polls' = (polls \ {p}) \cup {Asking(p.job)}
  /\ UNCHANGED <<batch, posts, table, running, finished, mounted, ran>>

(* Leaving the page clears the timers, and the section's state goes with    *)
(* it; a request that is out goes on, and what it leads to.                 *)
Leave ==
  /\ mounted /\ mounted' = FALSE
  /\ polls' = {p \in polls : p.at # "timer"}
  /\ table' = [s \in Scenarios |-> NotStarted]
  /\ running' = FALSE /\ finished' = FALSE
  /\ UNCHANGED <<batch, posts, ran>>

-----------------------------------------------------------------------------
(* The service.  A creation whose batch was given up on may still arrive.   *)

Make(j) == /\ j[1] <= batch /\ ran[j] = "none" /\ ran' = [ran EXCEPT ![j] = "queued"]
           /\ UNCHANGED <<batch, posts, table, polls, running, finished, mounted>>

Work(j) == /\ \E phase \in Worked(ran[j]) : ran' = [ran EXCEPT ![j] = phase]
           /\ UNCHANGED <<batch, posts, table, polls, running, finished, mounted>>

(* The Cancel button of a row, whose answer is ignored.                     *)
CancelRow(s) ==
  /\ mounted /\ table[s].state \in Live
  /\ Cardinality({j \in Job : WasStopped(ran[j])}) < MaxStopped
  /\ ran' = [ran EXCEPT ![<<table[s].job, s>>] = Stopped(@)]
  /\ UNCHANGED <<batch, posts, table, polls, running, finished, mounted>>

-----------------------------------------------------------------------------

PollStep == \E p \in polls : Told(p) \/ PollFails(p) \/ Tick(p)

GenerateNext ==
  \/ Start \/ Leave \/ PollStep
  \/ \E s \in Scenarios : CancelRow(s)
  \/ \E j \in Job : Created(j) \/ CreateFails(j) \/ Make(j) \/ Work(j)

(* A request settles, RequestsSettle of ApiClient, a timer goes off and the *)
(* service works off its jobs, JobSettles of SolveJobs.  A creation is      *)
(* answered once and a job ends, so both come to everybody's turn.          *)
Settle(j) == \E p \in polls : p.job = j /\ (Told(p) \/ PollFails(p) \/ Tick(p))
Replies == \E j \in Job : Created(j) \/ CreateFails(j)
Works == \E j \in Job : Work(j)

GenerateSpec == GenerateInit /\ [][GenerateNext]_generate
GenerateFairness ==
  WF_generate(Replies) /\ WF_generate(Works) /\ \A j \in Job : WF_generate(Settle(j))

-----------------------------------------------------------------------------
(* Properties *)

(* "The state shown is the real job state" (routes/Project.jsx:308): a job  *)
(* is done on the server when a row shows it as done, was cancelled when it *)
(* is shown as cancelled, and was taken up when it is shown as running; and *)
(* every row is of one job, whichever batches the ticks that wrote the      *)
(* table belong to.                                                         *)
EndedAsReported ==
  \A s \in Scenarios :
    LET phase == ran[<<table[s].job, s>>]
    IN /\ table[s].state = "done" => phase = "done"
       /\ table[s].state = "cancelled" => WasStopped(phase)
       /\ table[s].state = "running" => phase \notin {"none", "queued", "withdrawn"}

(* A batch comes to an end and its button comes back, over and over, though *)
(* polls fail, jobs are cancelled and older batches are still polled.       *)
BatchEnds == []<>(mounted => ~running)
=============================================================================
