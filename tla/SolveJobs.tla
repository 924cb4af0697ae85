----------------------------- MODULE SolveJobs -----------------------------
(***************************************************************************)
(* The solve service of src/src/service/main.cpp: the job queue, the pool  *)
(* of worker threads that run a solver process per job, the interactive    *)
(* analyses that share their slots, and the handlers that submit and       *)
(* cancel jobs of one project.                                             *)
(*                                                                         *)
(* An action is a stretch of code under the mutex g_mu, one store call, or *)
(* one step of a solver process.  g_cv is modelled by who sleeps on it: a  *)
(* thread sleeps only after it found its condition false, and every        *)
(* notify_all sends every sleeper back to check.  Notifying is a step of   *)
(* its own, because the code notifies after it has released g_mu.          *)
(*                                                                         *)
(* A solver may exit at any moment, so the SIGTERM that cancelling sends   *)
(* needs no state.  Nothing in the program stops the HTTP server, so       *)
(* g_shutdown stays false; the pool lives until the process is killed.     *)
(***************************************************************************)
EXTENDS Naturals, Sequences, FiniteSets

CONSTANTS Jobs,            \* the solve requests that may be sent
          Stating,         \* those that send an expected_revision
          Workers,         \* the pool; its size is max_concurrent_solves
          NoJob,
          Analyses,        \* explain and repair requests, each sent once
          MaxQueue,        \* g_cfg.max_queue
          Plans            \* scenarios of a job, so plans its solver may write

ASSUME JobsAssumption ==
  /\ NoJob \notin Jobs /\ Stating \subseteq Jobs
  /\ IsFiniteSet(Jobs) /\ IsFiniteSet(Workers) /\ IsFiniteSet(Analyses)
  /\ MaxQueue \in Nat /\ Plans \in Nat \ {0}

MaxSolves == Cardinality(Workers)

VARIABLES queue,      \* g_queue
          running,    \* g_running, the slots taken
          jobs,       \* g_jobs
          solver,     \* the solver process of each job
          worker,     \* where each thread of the pool is, and its job
          analysis,   \* where each analysis handler is
          request,    \* where each submit handler is
          revision    \* the project's revision in the store

vars == <<queue, running, jobs, solver, worker, analysis, request, revision>>
pool == <<worker, analysis>>

-----------------------------------------------------------------------------

JobState == {"none", "queued", "running", "done", "failed", "cancelled"}
Ended == {"done", "failed", "cancelled"}

(* recorded counts created_versions, unstored the plans whose insertion     *)
(* into the store failed.                                                  *)
Job == [state : JobState, cancel : BOOLEAN, recorded : 0..Plans, unstored : 0..Plans]

Handled(j) == jobs[j].recorded + jobs[j].unstored

(* written counts the complete plans in the job directory. *)
Solver == [at : {"none", "solving", "ok", "failed"}, written : 0..Plans]

WorkerAt == {"check", "asleep", "popped", "launch", "reading", "ran",
             "recording", "closing", "notify"}
AnalysisAt == {"unsent", "check", "asleep", "holding", "notify", "gone"}

(* A submit handler read the project at revision `loaded`, the one stated  *)
(* by the caller if the caller stated any.                                 *)
Request == [at : {"unsent", "checked", "queued", "bumped", "answered"},
            loaded : Nat]

TypeOK == /\ queue \in Seq(Jobs)
          /\ running \in Nat
          /\ jobs \in [Jobs -> Job]
          /\ solver \in [Jobs -> Solver]
          /\ worker \in [Workers -> [at : WorkerAt, job : Jobs \cup {NoJob}]]
          /\ analysis \in [Analyses -> AnalysisAt]
          /\ request \in [Jobs -> Request]
          /\ revision \in Nat

Init == /\ queue = <<>>
        /\ running = 0
        /\ jobs = [j \in Jobs |-> [state |-> "none", cancel |-> FALSE,
                             recorded |-> 0, unstored |-> 0]]
        /\ solver = [j \in Jobs |-> [at |-> "none", written |-> 0]]
        /\ worker = [w \in Workers |-> [at |-> "check", job |-> NoJob]]
        /\ analysis = [a \in Analyses |-> "unsent"]
        /\ request = [j \in Jobs |-> [at |-> "unsent", loaded |-> 0]]
        /\ revision = 0

SlotFree == running < MaxSolves

(* notify_all: whoever sleeps checks again. *)
AwakeWorkers == [v \in Workers |-> IF worker[v].at = "asleep"
                                   THEN [worker[v] EXCEPT !.at = "check"]
                                   ELSE worker[v]]
AwakeAnalyses == [b \in Analyses |-> IF analysis[b] = "asleep" THEN "check"
                                     ELSE analysis[b]]

-----------------------------------------------------------------------------
(* Submitting a job *)

(* The handler loads the project.  A stated revision other than the loaded *)
(* one is answered 409 and leaves no trace.                                *)
Submit(j) ==
  /\ request[j].at = "unsent"
  /\ request' = [request EXCEPT ![j] = [at |-> "checked", loaded |-> revision]]
  /\ UNCHANGED <<queue, running, jobs, solver, pool, revision>>

(* 429 when the queue is full; otherwise the job becomes visible.  The     *)
(* mutated form forgets the limit.                                         *)
EnqueueUnbounded(j) ==
  /\ request[j].at = "checked"
  /\ queue' = Append(queue, j)
  /\ jobs' = [jobs EXCEPT ![j].state = "queued"]
  /\ request' = [request EXCEPT ![j].at = "queued"]
  /\ UNCHANGED <<running, solver, pool, revision>>

Enqueue(j) ==
  /\ request[j].at = "checked"
  /\ IF Len(queue) >= MaxQueue
     THEN /\ request' = [request EXCEPT ![j].at = "unsent"]
          /\ UNCHANGED <<queue, jobs>>
     ELSE /\ queue' = Append(queue, j)
          /\ jobs' = [jobs EXCEPT ![j].state = "queued"]
          /\ request' = [request EXCEPT ![j].at = "queued"]
  /\ UNCHANGED <<running, solver, pool, revision>>

(* BumpProjectRevision compares and swaps; the handler drops its answer.   *)
Bump(j) ==
  /\ request[j].at = "queued"
  /\ revision' = IF revision = request[j].loaded THEN revision + 1 ELSE revision
  /\ request' = [request EXCEPT ![j].at = "bumped"]
  /\ UNCHANGED <<queue, running, jobs, solver, pool>>

(* notify_all, then the answer.  The mutated form forgets the former. *)
AnswerSilently(j) ==
  /\ request[j].at = "bumped"
  /\ request' = [request EXCEPT ![j].at = "answered"]
  /\ UNCHANGED <<queue, running, jobs, solver, pool, revision>>

Answer(j) ==
  /\ request[j].at = "bumped"
  /\ worker' = AwakeWorkers
  /\ analysis' = AwakeAnalyses
  /\ request' = [request EXCEPT ![j].at = "answered"]
  /\ UNCHANGED <<queue, running, jobs, solver, revision>>

(* The cancel handler, for any job a client can name. *)
Cancel(j) ==
  /\ jobs[j].state # "none"
  /\ jobs' = [jobs EXCEPT ![j].cancel = TRUE,
                          ![j].state = IF @ = "queued" THEN "cancelled" ELSE @]
  /\ UNCHANGED <<queue, running, solver, pool, request, revision>>

-----------------------------------------------------------------------------
(* A worker thread *)

Goto(w, at) == worker' = [worker EXCEPT ![w].at = at]

(* The condition of g_cv.wait, and the pop when it holds. *)
CheckForJob(w) ==
  /\ worker[w].at = "check"
  /\ IF queue # <<>> /\ SlotFree
     THEN /\ queue' = Tail(queue)
          /\ running' = running + 1
          /\ worker' = [worker EXCEPT ![w] = [at |-> "popped", job |-> Head(queue)]]
     ELSE /\ Goto(w, "asleep")
          /\ UNCHANGED <<queue, running>>
  /\ UNCHANGED <<jobs, solver, analysis, request, revision>>

(* Whatever the state was: a job cancelled while queued runs all the same. *)
MarkRunning(w) ==
  /\ worker[w].at = "popped"
  /\ jobs' = [jobs EXCEPT ![worker[w].job].state = "running"]
  /\ Goto(w, "launch")
  /\ UNCHANGED <<queue, running, solver, analysis, request, revision>>

(* RunWorker up to the fork: a pipe, the fork or the exec may fail. *)
Launch(w, started) ==
  /\ worker[w].at = "launch"
  /\ solver' = [solver EXCEPT ![worker[w].job].at =
                  IF started THEN "solving" ELSE "failed"]
  /\ Goto(w, "reading")
  /\ UNCHANGED <<queue, running, jobs, analysis, request, revision>>

(* The read loop ends at end-of-file and the process is reaped.  The       *)
(* mutated form does not wait for the process.                             *)
ReapEarly(w) ==
  /\ worker[w].at = "reading"
  /\ Goto(w, "ran")
  /\ UNCHANGED <<queue, running, jobs, solver, analysis, request, revision>>

Reap(w) ==
  /\ worker[w].at = "reading"
  /\ solver[worker[w].job].at # "solving"
  /\ Goto(w, "ran")
  /\ UNCHANGED <<queue, running, jobs, solver, analysis, request, revision>>

(* RecordPlanVersions is skipped altogether for a cancelled job. *)
BeginRecording(w) ==
  /\ worker[w].at = "ran"
  /\ Goto(w, IF jobs[worker[w].job].cancel THEN "closing" ELSE "recording")
  /\ UNCHANGED <<queue, running, jobs, solver, analysis, request, revision>>

(* One AddPlanVersion per plan in the directory; nobody hears of one that  *)
(* the store refused.                                                      *)
RecordPlan(w, stored) ==
  LET j == worker[w].job IN
  /\ worker[w].at = "recording"
  /\ Handled(j) < solver[j].written
  /\ jobs' = IF stored THEN [jobs EXCEPT ![j].recorded = @ + 1]
             ELSE [jobs EXCEPT ![j].unstored = @ + 1]
  /\ UNCHANGED <<queue, running, solver, pool, request, revision>>

EndRecording(w) ==
  /\ worker[w].at = "recording"
  /\ Handled(worker[w].job) = solver[worker[w].job].written
  /\ Goto(w, "closing")
  /\ UNCHANGED <<queue, running, jobs, solver, analysis, request, revision>>

(* The outcome is written and the slot given back in one critical section. *)
(* Mutated forms: without looking at cancel, without giving the slot back. *)
FinishWithoutCancel(w) ==
  LET j == worker[w].job IN
  /\ worker[w].at = "closing"
  /\ jobs' = [jobs EXCEPT ![j].state =
                IF solver[j].at = "ok" THEN "done" ELSE "failed"]
  /\ running' = running - 1
  /\ worker' = [worker EXCEPT ![w] = [at |-> "notify", job |-> NoJob]]
  /\ UNCHANGED <<queue, solver, analysis, request, revision>>
FinishKeepingSlot(w) ==
  LET j == worker[w].job IN
  /\ worker[w].at = "closing"
  /\ jobs' = [jobs EXCEPT ![j].state = IF jobs[j].cancel THEN "cancelled"
                                       ELSE IF solver[j].at = "ok" THEN "done"
                                       ELSE "failed"]
  /\ worker' = [worker EXCEPT ![w] = [at |-> "notify", job |-> NoJob]]
  /\ UNCHANGED <<queue, running, solver, analysis, request, revision>>

Finish(w) ==
  LET j == worker[w].job IN
  /\ worker[w].at = "closing"
  /\ jobs' = [jobs EXCEPT ![j].state = IF jobs[j].cancel THEN "cancelled"
                                       ELSE IF solver[j].at = "ok" THEN "done"
                                       ELSE "failed"]
  /\ running' = running - 1
  /\ worker' = [worker EXCEPT ![w] = [at |-> "notify", job |-> NoJob]]
  /\ UNCHANGED <<queue, solver, analysis, request, revision>>

NotifyAfterJob(w) ==
  /\ worker[w].at = "notify"
  /\ worker' = [AwakeWorkers EXCEPT ![w].at = "check"]
  /\ analysis' = AwakeAnalyses
  /\ UNCHANGED <<queue, running, jobs, solver, request, revision>>

-----------------------------------------------------------------------------
(* The solver process of a job *)

WritePlan(j) ==
  /\ solver[j].at = "solving"
  /\ solver[j].written < Plans
  /\ solver' = [solver EXCEPT ![j].written = @ + 1]
  /\ UNCHANGED <<queue, running, jobs, pool, request, revision>>

(* Exit code 0 only after every scenario; anything else at any moment. *)
SolverExits(j, ok) ==
  /\ solver[j].at = "solving"
  /\ ok => solver[j].written = Plans
  /\ solver' = [solver EXCEPT ![j].at = IF ok THEN "ok" ELSE "failed"]
  /\ UNCHANGED <<queue, running, jobs, pool, request, revision>>

-----------------------------------------------------------------------------
(* An analysis: WorkerSlot around RunWorkerSync *)

SendAnalysis(a) ==
  /\ analysis[a] = "unsent"
  /\ analysis' = [analysis EXCEPT ![a] = "check"]
  /\ UNCHANGED <<queue, running, jobs, solver, worker, request, revision>>

TakeSlot(a) ==
  /\ analysis[a] = "check"
  /\ IF SlotFree
     THEN /\ running' = running + 1
          /\ analysis' = [analysis EXCEPT ![a] = "holding"]
     ELSE /\ analysis' = [analysis EXCEPT ![a] = "asleep"]
          /\ UNCHANGED running
  /\ UNCHANGED <<queue, jobs, solver, worker, request, revision>>

(* wait_for's timeout looks at the condition once more; else 429.          *)
WaitTimesOut(a) ==
  /\ analysis[a] = "asleep"
  /\ IF SlotFree
     THEN /\ running' = running + 1
          /\ analysis' = [analysis EXCEPT ![a] = "holding"]
     ELSE /\ analysis' = [analysis EXCEPT ![a] = "gone"]
          /\ UNCHANGED running
  /\ UNCHANGED <<queue, jobs, solver, worker, request, revision>>

GiveSlotBack(a) ==
  /\ analysis[a] = "holding"
  /\ running' = running - 1
  /\ analysis' = [analysis EXCEPT ![a] = "notify"]
  /\ UNCHANGED <<queue, jobs, solver, worker, request, revision>>

NotifyAfterAnalysis(a) ==
  /\ analysis[a] = "notify"
  /\ worker' = AwakeWorkers
  /\ analysis' = [AwakeAnalyses EXCEPT ![a] = "gone"]
  /\ UNCHANGED <<queue, running, jobs, solver, request, revision>>

-----------------------------------------------------------------------------

SubmitStep(j) == Enqueue(j) \/ Bump(j) \/ Answer(j)

WorkerStep(w) == \/ CheckForJob(w)
                 \/ MarkRunning(w)
                 \/ \E started \in BOOLEAN : Launch(w, started)
                 \/ Reap(w)
                 \/ BeginRecording(w)
                 \/ \E stored \in BOOLEAN : RecordPlan(w, stored)
                 \/ EndRecording(w)
                 \/ Finish(w)
                 \/ NotifyAfterJob(w)

AnalysisStep(a) == \/ TakeSlot(a)
                   \/ WaitTimesOut(a)
                   \/ GiveSlotBack(a)
                   \/ NotifyAfterAnalysis(a)

Next == \/ \E j \in Jobs : Submit(j) \/ SubmitStep(j)
        \/ \E j \in Jobs : Cancel(j) \/ WritePlan(j)
        \/ \E j \in Jobs, ok \in BOOLEAN : SolverExits(j, ok)
        \/ \E w \in Workers : WorkerStep(w)
        \/ \E a \in Analyses : SendAnalysis(a) \/ AnalysisStep(a)

Spec == Init /\ [][Next]_vars

(* A thread that can go on does (weak fairness of the scheduler and of     *)
(* g_mu), and a solver ends: its CPU time is limited when it is launched.  *)
Fairness == /\ \A j \in Jobs : /\ WF_vars(SubmitStep(j))
                               /\ WF_vars(\E ok \in BOOLEAN : SolverExits(j, ok))
            /\ \A w \in Workers : WF_vars(WorkerStep(w))
            /\ \A a \in Analyses : WF_vars(AnalysisStep(a))

-----------------------------------------------------------------------------
(* Properties *)

HoldsJob(w) == worker[w].at \notin {"check", "asleep", "notify"}
Holds(w, j) == HoldsJob(w) /\ worker[w].job = j
InQueue(j) == \E n \in DOMAIN queue : queue[n] = j

(* g_running is what it claims to be, the workers between pop and finish   *)
(* plus the analyses that hold a WorkerSlot, so that solves and analyses   *)
(* together never run more solver processes than --max-solves (the comment *)
(* on WorkerSlot, main.cpp:441-444).                                       *)
SlotsAccounted ==
  /\ running = Cardinality({w \in Workers : HoldsJob(w)})
               + Cardinality({a \in Analyses : analysis[a] = "holding"})
  /\ Cardinality({j \in Jobs : solver[j].at = "solving"})
       + Cardinality({a \in Analyses : analysis[a] = "holding"}) <= MaxSolves

(* No accepted job is lost or run twice: it waits at one place of the      *)
(* queue or one worker has it, never both, and the queue keeps its limit.  *)
JobsHeldOnce ==
  /\ Len(queue) <= MaxQueue
  /\ \A m, n \in DOMAIN queue : queue[m] = queue[n] => m = n
  /\ \A j \in Jobs :
       /\ \A v, w \in Workers : Holds(v, j) /\ Holds(w, j) => v = w
       /\ \A w \in Workers : Holds(w, j) => ~InQueue(j)
       /\ jobs[j].state = "queued" =>
            InQueue(j) \/ \E w \in Workers : Holds(w, j) /\ worker[w].at = "popped"
       /\ jobs[j].state = "running" => \E w \in Workers : Holds(w, j)

(* A job reported done or failed has been through every plan its solver    *)
(* wrote -- each has a version, or the store refused it -- and nothing     *)
(* writes to its directory any more ("before the job is reported finished, *)
(* so a version always exists", main.cpp:625-627).                         *)
RecordedWhenReported ==
  \A j \in Jobs : jobs[j].state \in {"done", "failed"} =>
    /\ Handled(j) = solver[j].written
    /\ solver[j].at # "solving"

(* No lost wakeup: whenever a sleeping worker could take a job, a          *)
(* notify_all is still to come.                                            *)
NotifyPending == \/ \E j \in Jobs : request[j].at \in {"queued", "bumped"}
                 \/ \E v \in Workers : worker[v].at = "notify"
                 \/ \E a \in Analyses : analysis[a] = "notify"

NoIdleSlot ==
  \A w \in Workers :
    worker[w].at = "asleep" /\ queue # <<>> /\ SlotFree => NotifyPending

(* How a job's state may move.  A job cancelled in the queue is resurrected *)
(* by the worker that pops it and cancelled again; done and failed are      *)
(* final, and no job that was cancelled before it ended ends up there.      *)
JobEdges == {<<"none", "queued">>, <<"queued", "running">>, <<"queued", "cancelled">>,
             <<"cancelled", "running">>, <<"running", "done">>,
             <<"running", "failed">>, <<"running", "cancelled">>}

JobStateMoves ==
  [][\A j \in Jobs : LET s == jobs[j].state   t == jobs'[j].state IN
       t # s => /\ <<s, t>> \in JobEdges
                /\ jobs[j].cancel => t \notin {"done", "failed"}]_vars

(* Threads, wakeups and processes aside, the service is the board of jobs  *)
(* its users see: jobs are taken in the order they were accepted, slots    *)
(* are never oversold to solves and analyses together, and a running job   *)
(* is over exactly when its worker gives the slot back, cancelled if it    *)
(* was asked to be (main.cpp:441-463, 604-655, 1358-1420).                 *)
Taken == {j \in Jobs : \E w \in Workers : Holds(w, j)}
Lent == {a \in Analyses : analysis[a] = "holding"}

Board == INSTANCE JobBoard WITH
  Slots <- MaxSolves, waiting <- queue, taken <- Taken, lent <- Lent,
  told <- [j \in Jobs |-> jobs[j].state], stopped <- [j \in Jobs |-> jobs[j].cancel]

ImplementsBoard == Board!BSpec

(* Every accepted job (a job stays accepted) comes to an end and stays     *)
(* there, also when it was cancelled in the queue and is still run.        *)
JobSettles ==
  <>[](\A j \in Jobs : jobs[j].state \in {"none"} \cup Ended)

(* Every slot comes back: the service does not run out of them.            *)
SlotsComeBack == []<>(running = 0)

(* Cancelling "keeps the best complete plan already written"               *)
(* (docs/API.md:138): whatever the solver of a cancelled job wrote is      *)
(* handed to the store once the worker is through with the job.            *)
CancelKeepsPlans ==
  \A j \in Jobs :
    /\ jobs[j].state = "cancelled"
    /\ \A w \in Workers : ~Holds(w, j)
    => Handled(j) = solver[j].written

(* Of the planners who state the revision they worked from, one is served  *)
(* and the others see 409 (docs/API.md:117-119: "If it is stale you get    *)
(* 409 with both values, rather than racing another planner").             *)
Accepted(j) == request[j].at \in {"queued", "bumped", "answered"}

OneRunPerRevision ==
  \A j, k \in Stating :
    /\ Accepted(j) /\ Accepted(k)
    /\ request[j].loaded = request[k].loaded
    => j = k
=============================================================================
