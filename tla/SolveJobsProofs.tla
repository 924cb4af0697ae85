--------------------------- MODULE SolveJobsProofs ---------------------------
(***************************************************************************)
(* Proofs about the solve service, for every number of jobs, workers,      *)
(* analyses and plans and every length of the queue.                       *)
(***************************************************************************)
EXTENDS SolveJobs, Queues, FiniteSetTheorems, TLAPS

-----------------------------------------------------------------------------
(* The inductive invariant *)

Holders == {w \in Workers : HoldsJob(w)}
Holding == {a \in Analyses : analysis[a] = "holding"}

(* Slots are counted, and the condition under which one is taken keeps them *)
(* within the pool.                                                         *)
SlotsOK == running = Cardinality(Holders) + Cardinality(Holding) /\ running <= MaxSolves

(* No solver has run, and nothing is recorded. *)
Untouched(j) == solver[j].at = "none" /\ solver[j].written = 0 /\ Handled(j) = 0

(* A job before a worker runs it: it may have been cancelled. *)
Pending(j) == jobs[j].state \in {"queued", "cancelled"} /\ Untouched(j)

(* What is true of the job of a worker, by where the worker is. *)
AtPlace(at, j) ==
  IF at = "popped" THEN Pending(j)
  ELSE /\ jobs[j].state = "running"
       /\ at = "launch" => Untouched(j)
       /\ at \in {"reading", "ran"} => Handled(j) = 0 /\ solver[j].at # "none"
       /\ at \in {"ran", "recording", "closing"} => solver[j].at \in {"ok", "failed"}
       /\ at = "recording" => Handled(j) <= solver[j].written
       /\ at = "closing" => jobs[j].cancel \/ Handled(j) = solver[j].written

(* A job that is nowhere: not asked for, or over. *)
AtNoPlace(j) ==
  /\ jobs[j].state \notin {"queued", "running"}
  /\ solver[j].at # "solving"
  /\ jobs[j].state = "none" => Untouched(j)
  /\ jobs[j].state \in {"done", "failed"} => Handled(j) = solver[j].written

HeldBySome(j) == \E w \in Workers : Holds(w, j)

(* Every job is at one place at most, and is what its place says. *)
JobOK(j) ==
  /\ request[j].at \in {"unsent", "checked"} <=> jobs[j].state = "none"
  /\ jobs[j].state = "cancelled" => jobs[j].cancel
  /\ In(j, queue) => Pending(j) /\ ~HeldBySome(j)
  /\ \A w \in Workers : Holds(w, j) => AtPlace(worker[w].at, j)
  /\ ~In(j, queue) /\ ~HeldBySome(j) => AtNoPlace(j)

PlacesOK ==
  /\ Len(queue) <= MaxQueue /\ Distinct(queue)
  /\ \A w \in Workers : HoldsJob(w) => worker[w].job \in Jobs
  /\ \A v, w \in Workers : HoldsJob(v) /\ Holds(w, worker[v].job) => v = w
  /\ \A j \in Jobs : JobOK(j)

-----------------------------------------------------------------------------
(* Types *)

(* A worker that holds a job has a slot to give back, and so has an         *)
(* analysis that holds one.                                                 *)
LEMMA FiniteHolders ==
  /\ IsFiniteSet(Holders) /\ IsFiniteSet(Holding)
  /\ Cardinality(Holders) \in Nat /\ Cardinality(Holding) \in Nat
  /\ MaxSolves \in Nat
  <1>1. IsFiniteSet(Holders) /\ IsFiniteSet(Holding)
    BY JobsAssumption, FS_Subset DEF Holders, Holding
  <1>. QED
    BY <1>1, JobsAssumption, FS_CardinalityType DEF MaxSolves

LEMMA SlotToGiveBack ==
  ASSUME SlotsOK, (\E w \in Workers : HoldsJob(w)) \/ (\E a \in Analyses : analysis[a] = "holding")
  PROVE  running - 1 \in Nat
  <1>1. Holders # {} \/ Holding # {}
    BY DEF Holders, Holding
  <1>2. Cardinality(Holders) > 0 \/ Cardinality(Holding) > 0
    BY <1>1, FiniteHolders, FS_EmptySet
  <1>. QED
    BY <1>2, FiniteHolders DEF SlotsOK

LEMMA TypeInit == Init => TypeOK
  BY JobsAssumption DEF Init, TypeOK, Job, JobState, Solver, WorkerAt, AnalysisAt, Request

LEMMA AwakeTypes ==
  ASSUME TypeOK
  PROVE  /\ AwakeWorkers \in [Workers -> [at : WorkerAt, job : Jobs \cup {NoJob}]]
         /\ AwakeAnalyses \in [Analyses -> AnalysisAt]
  BY DEF TypeOK, AwakeWorkers, AwakeAnalyses, WorkerAt, AnalysisAt

(* A job that gets another state, or another plan counted, is a job. *)
LEMMA JobTypes ==
  ASSUME TypeOK, NEW j \in Jobs, NEW s \in JobState
  PROVE  /\ [jobs EXCEPT ![j].state = s] \in [Jobs -> Job]
         /\ [jobs EXCEPT ![j].cancel = TRUE, ![j].state = s] \in [Jobs -> Job]
  BY DEF TypeOK, Job

LEMMA SubmitTypes ==
  ASSUME TypeOK, NEW j \in Jobs, Submit(j) \/ SubmitStep(j) \/ Cancel(j)
  PROVE  TypeOK'
  <1>1. CASE Submit(j)
    BY <1>1 DEF TypeOK, Submit, Request, pool
  <1>2. CASE Enqueue(j)
    <2>1. CASE Len(queue) >= MaxQueue
      <3>1. request' = [request EXCEPT ![j].at = "unsent"]
        BY <1>2, <2>1 DEF Enqueue
      <3>2. request' \in [Jobs -> Request]
        BY <3>1 DEF TypeOK, Request
      <3>. QED
        BY <1>2, <2>1, <3>2 DEF TypeOK, Enqueue, pool
    <2>2. CASE ~(Len(queue) >= MaxQueue)
      <3>1. "queued" \in JobState
        BY DEF JobState
      <3>2. [jobs EXCEPT ![j].state = "queued"] \in [Jobs -> Job]
        BY <3>1, JobTypes
      <3>3. Append(queue, j) \in Seq(Jobs)
        BY AppendProperties DEF TypeOK
      <3>4. [request EXCEPT ![j].at = "queued"] \in [Jobs -> Request]
        BY DEF TypeOK, Request
      <3>. QED
        BY <1>2, <2>2, <3>2, <3>3, <3>4 DEF TypeOK, Enqueue, pool
    <2>. QED
      BY <2>1, <2>2
  <1>3. CASE Bump(j)
    BY <1>3 DEF TypeOK, Bump, Request, pool
  <1>4. CASE Answer(j)
    BY <1>4, AwakeTypes DEF TypeOK, Answer, Request
  <1>5. CASE Cancel(j)
    <2>1. PICK s \in JobState : jobs' = [jobs EXCEPT ![j].cancel = TRUE, ![j].state = s]
      BY <1>5 DEF TypeOK, Cancel, Job, JobState
    <2>2. jobs' \in [Jobs -> Job]
      BY <2>1, JobTypes
    <2>. QED
      BY <1>5, <2>2 DEF TypeOK, Cancel, pool
  <1>. QED
    BY <1>1, <1>2, <1>3, <1>4, <1>5 DEF SubmitStep

(* A worker that goes elsewhere stays a worker. *)
LEMMA GotoTypes ==
  ASSUME TypeOK, NEW w \in Workers, NEW at \in WorkerAt, Goto(w, at)
  PROVE  worker' \in [Workers -> [at : WorkerAt, job : Jobs \cup {NoJob}]]
  BY DEF TypeOK, Goto

LEMMA WorkerTypes ==
  ASSUME TypeOK, SlotsOK, NEW w \in Workers, WorkerStep(w)
  PROVE  TypeOK'
  <1>1. CASE CheckForJob(w)
    <2>1. CASE queue # <<>> /\ SlotFree
      <3>1. Tail(queue) \in Seq(Jobs) /\ Head(queue) \in Jobs
        BY <2>1, HeadTailProperties DEF TypeOK
      <3>2. /\ queue' = Tail(queue) /\ running' = running + 1
            /\ worker' = [worker EXCEPT ![w] = [at |-> "popped", job |-> Head(queue)]]
            /\ UNCHANGED <<jobs, solver, analysis, request, revision>>
        BY <1>1, <2>1 DEF CheckForJob
      <3>3. [at |-> "popped", job |-> Head(queue)] \in [at : WorkerAt, job : Jobs \cup {NoJob}]
        BY <3>1 DEF WorkerAt
      <3>. QED
        BY <3>1, <3>2, <3>3 DEF TypeOK
    <2>2. CASE ~(queue # <<>> /\ SlotFree)
      <3>1. /\ Goto(w, "asleep") /\ "asleep" \in WorkerAt
            /\ UNCHANGED <<queue, running, jobs, solver, analysis, request, revision>>
        BY <1>1, <2>2 DEF CheckForJob, WorkerAt
      <3>2. worker' \in [Workers -> [at : WorkerAt, job : Jobs \cup {NoJob}]]
        BY <3>1, GotoTypes
      <3>. QED
        BY <3>1, <3>2 DEF TypeOK
    <2>. QED
      BY <2>1, <2>2
  <1>2. CASE MarkRunning(w)
    <2>1. Goto(w, "launch") /\ "launch" \in WorkerAt
      BY <1>2 DEF MarkRunning, WorkerAt
    <2>2. worker' \in [Workers -> [at : WorkerAt, job : Jobs \cup {NoJob}]]
      BY <2>1, GotoTypes
    <2>3. jobs' \in [Jobs -> Job]
      <3>1. "running" \in JobState /\ jobs' = [jobs EXCEPT ![worker[w].job].state = "running"]
        BY <1>2 DEF MarkRunning, JobState
      <3>. QED
        BY <3>1 DEF TypeOK, Job
    <2>. QED
      BY <1>2, <2>2, <2>3 DEF TypeOK, MarkRunning
  <1>3. ASSUME NEW started \in BOOLEAN, Launch(w, started) PROVE TypeOK'
    <2>1. Goto(w, "reading") /\ "reading" \in WorkerAt
      BY <1>3 DEF Launch, WorkerAt
    <2>2. worker' \in [Workers -> [at : WorkerAt, job : Jobs \cup {NoJob}]]
      BY <2>1, GotoTypes
    <2>3. solver' \in [Jobs -> Solver]
      <3>1. PICK at \in {"solving", "failed"} : solver' = [solver EXCEPT ![worker[w].job].at = at]
        BY <1>3 DEF Launch
      <3>. QED
        BY <3>1 DEF TypeOK, Solver
    <2>. QED
      BY <1>3, <2>2, <2>3 DEF TypeOK, Launch
  <1>4. CASE Reap(w) \/ BeginRecording(w) \/ EndRecording(w)
    <2>1. PICK at \in {"ran", "closing", "recording"} : Goto(w, at)
      BY <1>4 DEF Reap, BeginRecording, EndRecording
    <2>2. at \in WorkerAt
      BY DEF WorkerAt
    <2>3. worker' \in [Workers -> [at : WorkerAt, job : Jobs \cup {NoJob}]]
      BY <2>1, <2>2, GotoTypes
    <2>. QED
      BY <1>4, <2>3 DEF TypeOK, Reap, BeginRecording, EndRecording
  <1>5. ASSUME NEW stored \in BOOLEAN, RecordPlan(w, stored) PROVE TypeOK'
    <2> DEFINE j == worker[w].job
    <2>1. CASE j \notin Jobs
      BY <1>5, <2>1 DEF TypeOK, RecordPlan, pool
    <2>2. CASE j \in Jobs
      <3>1. /\ jobs[j] \in Job /\ solver[j].written \in 0..Plans
            /\ jobs[j].recorded + jobs[j].unstored < solver[j].written
        BY <1>5, <2>2 DEF TypeOK, RecordPlan, Handled, Solver
      <3>2. jobs[j].recorded + 1 \in 0..Plans /\ jobs[j].unstored + 1 \in 0..Plans
        BY <3>1, JobsAssumption DEF Job
      <3>3. jobs' \in [Jobs -> Job]
        BY <1>5, <3>1, <3>2 DEF TypeOK, RecordPlan, Job
      <3>. QED
        BY <1>5, <3>3 DEF TypeOK, RecordPlan, pool
    <2>. QED
      BY <2>1, <2>2
  <1>6. CASE Finish(w)
    <2>1. running - 1 \in Nat
      BY <1>6, SlotToGiveBack DEF Finish, HoldsJob
    <2>2. PICK s \in JobState : jobs' = [jobs EXCEPT ![worker[w].job].state = s]
      BY <1>6 DEF Finish, JobState
    <2>3. jobs' \in [Jobs -> Job]
      BY <2>2, JobTypes DEF TypeOK
    <2>. QED
      BY <1>6, <2>1, <2>3 DEF TypeOK, Finish, WorkerAt
  <1>7. CASE NotifyAfterJob(w)
    BY <1>7, AwakeTypes DEF TypeOK, NotifyAfterJob, WorkerAt
  <1>. QED
    BY <1>1, <1>2, <1>3, <1>4, <1>5, <1>6, <1>7 DEF WorkerStep

LEMMA AnalysisTypes ==
  ASSUME TypeOK, SlotsOK, NEW a \in Analyses, SendAnalysis(a) \/ AnalysisStep(a)
  PROVE  TypeOK'
  <1>1. CASE SendAnalysis(a) \/ TakeSlot(a) \/ WaitTimesOut(a)
    BY <1>1 DEF TypeOK, SendAnalysis, TakeSlot, WaitTimesOut, AnalysisAt
  <1>2. CASE GiveSlotBack(a)
    <2>1. running - 1 \in Nat
      BY <1>2, SlotToGiveBack DEF GiveSlotBack
    <2>. QED
      BY <1>2, <2>1 DEF TypeOK, GiveSlotBack, AnalysisAt
  <1>3. CASE NotifyAfterAnalysis(a)
    BY <1>3, AwakeTypes DEF TypeOK, NotifyAfterAnalysis, AnalysisAt
  <1>. QED
    BY <1>1, <1>2, <1>3 DEF AnalysisStep

LEMMA TypeStep == TypeOK /\ SlotsOK /\ [Next]_vars => TypeOK'
  <1>. SUFFICES ASSUME TypeOK, SlotsOK, [Next]_vars PROVE TypeOK'
    OBVIOUS
  <1>1. ASSUME NEW j \in Jobs, WritePlan(j) PROVE TypeOK'
    BY <1>1, JobsAssumption DEF TypeOK, WritePlan, Solver, pool
  <1>2. ASSUME NEW j \in Jobs, NEW ok \in BOOLEAN, SolverExits(j, ok) PROVE TypeOK'
    BY <1>2 DEF TypeOK, SolverExits, Solver, pool
  <1>3. CASE UNCHANGED vars
    BY <1>3 DEF TypeOK, vars, pool
  <1>. QED
    BY <1>1, <1>2, <1>3, SubmitTypes, WorkerTypes, AnalysisTypes DEF Next

-----------------------------------------------------------------------------
(* Slots *)

LEMMA SlotsInit == Init => SlotsOK
  <1>. SUFFICES ASSUME Init PROVE SlotsOK
    OBVIOUS
  <1>1. Holders = {} /\ Holding = {} /\ running = 0
    BY DEF Init, Holders, HoldsJob, Holding
  <1>. QED
    BY <1>1, FS_EmptySet, FiniteHolders DEF SlotsOK

(* Nobody comes to hold a slot or gives one back. *)
LEMMA SlotsKept ==
  ASSUME SlotsOK, running' = running,
         \A w \in Workers : HoldsJob(w)' <=> HoldsJob(w),
         \A a \in Analyses : analysis'[a] = "holding" <=> analysis[a] = "holding"
  PROVE  SlotsOK'
  <1>1. Holders' = Holders /\ Holding' = Holding
    BY DEF Holders, Holding
  <1>. QED
    BY <1>1 DEF SlotsOK, MaxSolves

(* Waking whoever sleeps does neither. *)
LEMMA AwakeHolders ==
  ASSUME TypeOK, NEW v \in Workers
  PROVE  AwakeWorkers[v].at \in {"check", "asleep", "notify"} <=> ~HoldsJob(v)
  BY DEF TypeOK, AwakeWorkers, HoldsJob

LEMMA WorkerTakes ==
  ASSUME SlotsOK, SlotFree, running' = running + 1, NEW w \in Workers, ~HoldsJob(w),
         HoldsJob(w)', \A v \in Workers \ {w} : HoldsJob(v)' <=> HoldsJob(v),
         analysis' = analysis
  PROVE  SlotsOK'
  <1>1. Holders' = Holders \cup {w} /\ Holding' = Holding /\ w \notin Holders
    BY DEF Holders, Holding
  <1>2. Cardinality(Holders') = Cardinality(Holders) + 1
    BY <1>1, FiniteHolders, FS_AddElement
  <1>. QED
    BY <1>1, <1>2, FiniteHolders DEF SlotsOK, SlotFree, MaxSolves

LEMMA WorkerGives ==
  ASSUME SlotsOK, running' = running - 1, NEW w \in Workers, HoldsJob(w),
         ~HoldsJob(w)', \A v \in Workers \ {w} : HoldsJob(v)' <=> HoldsJob(v),
         analysis' = analysis
  PROVE  SlotsOK'
  <1>1. Holders' = Holders \ {w} /\ Holding' = Holding /\ w \in Holders
    BY DEF Holders, Holding
  <1>2. Cardinality(Holders') = Cardinality(Holders) - 1
    BY <1>1, FiniteHolders, FS_RemoveElement
  <1>. QED
    BY <1>1, <1>2, FiniteHolders DEF SlotsOK, MaxSolves

LEMMA AnalysisTakes ==
  ASSUME SlotsOK, SlotFree, running' = running + 1, worker' = worker,
         NEW a \in Analyses, analysis[a] # "holding", analysis'[a] = "holding",
         \A b \in Analyses \ {a} : analysis'[b] = analysis[b]
  PROVE  SlotsOK'
  <1>1. Holders' = Holders /\ Holding' = Holding \cup {a} /\ a \notin Holding
    BY DEF Holders, Holding, HoldsJob
  <1>2. Cardinality(Holding') = Cardinality(Holding) + 1
    BY <1>1, FiniteHolders, FS_AddElement
  <1>. QED
    BY <1>1, <1>2, FiniteHolders DEF SlotsOK, SlotFree, MaxSolves

LEMMA AnalysisGives ==
  ASSUME SlotsOK, running' = running - 1, worker' = worker,
         NEW a \in Analyses, analysis[a] = "holding", analysis'[a] # "holding",
         \A b \in Analyses \ {a} : analysis'[b] = analysis[b]
  PROVE  SlotsOK'
  <1>1. Holders' = Holders /\ Holding' = Holding \ {a} /\ a \in Holding
    BY DEF Holders, Holding, HoldsJob
  <1>2. Cardinality(Holding') = Cardinality(Holding) - 1
    BY <1>1, FiniteHolders, FS_RemoveElement
  <1>. QED
    BY <1>1, <1>2, FiniteHolders DEF SlotsOK, MaxSolves

LEMMA WorkerSlots ==
  ASSUME TypeOK, SlotsOK, NEW w \in Workers, WorkerStep(w)
  PROVE  SlotsOK'
  <1>1. CASE CheckForJob(w)
    <2>1. CASE queue # <<>> /\ SlotFree
      BY <1>1, <2>1, WorkerTakes DEF TypeOK, CheckForJob, HoldsJob
    <2>2. CASE ~(queue # <<>> /\ SlotFree)
      BY <1>1, <2>2, SlotsKept DEF TypeOK, CheckForJob, HoldsJob, Goto
    <2>. QED
      BY <2>1, <2>2
  <1>2. CASE MarkRunning(w) \/ Reap(w) \/ BeginRecording(w) \/ EndRecording(w)
    BY <1>2, SlotsKept DEF TypeOK, MarkRunning, Reap, BeginRecording, EndRecording, HoldsJob, Goto
  <1>3. ASSUME NEW started \in BOOLEAN, Launch(w, started) PROVE SlotsOK'
    BY <1>3, SlotsKept DEF TypeOK, Launch, HoldsJob, Goto
  <1>4. ASSUME NEW stored \in BOOLEAN, RecordPlan(w, stored) PROVE SlotsOK'
    BY <1>4, SlotsKept DEF RecordPlan, HoldsJob, pool
  <1>5. CASE Finish(w)
    BY <1>5, WorkerGives DEF TypeOK, Finish, HoldsJob
  <1>6. CASE NotifyAfterJob(w)
    <2>1. \A v \in Workers : HoldsJob(v)' <=> HoldsJob(v)
      BY <1>6, AwakeTypes, AwakeHolders DEF TypeOK, NotifyAfterJob, HoldsJob
    <2>2. \A a \in Analyses : analysis'[a] = "holding" <=> analysis[a] = "holding"
      BY <1>6 DEF NotifyAfterJob, AwakeAnalyses
    <2>. QED
      BY <1>6, <2>1, <2>2, SlotsKept DEF NotifyAfterJob
  <1>. QED
    BY <1>1, <1>2, <1>3, <1>4, <1>5, <1>6 DEF WorkerStep

LEMMA AnalysisSlots ==
  ASSUME TypeOK, SlotsOK, NEW a \in Analyses, SendAnalysis(a) \/ AnalysisStep(a)
  PROVE  SlotsOK'
  <1>1. CASE SendAnalysis(a)
    BY <1>1, SlotsKept DEF TypeOK, SendAnalysis, HoldsJob
  <1>2. CASE TakeSlot(a) \/ WaitTimesOut(a)
    <2>1. CASE SlotFree
      BY <1>2, <2>1, AnalysisTakes DEF TypeOK, TakeSlot, WaitTimesOut
    <2>2. CASE ~SlotFree
      BY <1>2, <2>2, SlotsKept DEF TypeOK, TakeSlot, WaitTimesOut, HoldsJob
    <2>. QED
      BY <2>1, <2>2
  <1>3. CASE GiveSlotBack(a)
    BY <1>3, AnalysisGives DEF TypeOK, GiveSlotBack
  <1>4. CASE NotifyAfterAnalysis(a)
    <2>1. \A v \in Workers : HoldsJob(v)' <=> HoldsJob(v)
      BY <1>4, AwakeHolders DEF NotifyAfterAnalysis, HoldsJob
    <2>2. \A b \in Analyses : analysis'[b] = "holding" <=> analysis[b] = "holding"
      BY <1>4 DEF NotifyAfterAnalysis, AwakeAnalyses
    <2>. QED
      BY <1>4, <2>1, <2>2, SlotsKept DEF NotifyAfterAnalysis
  <1>. QED
    BY <1>1, <1>2, <1>3, <1>4 DEF AnalysisStep

LEMMA SlotsStep == TypeOK /\ SlotsOK /\ [Next]_vars => SlotsOK'
  <1>. SUFFICES ASSUME TypeOK, SlotsOK, [Next]_vars PROVE SlotsOK'
    OBVIOUS
  <1>1. ASSUME NEW j \in Jobs, Submit(j) \/ Enqueue(j) \/ Bump(j) \/ Cancel(j) \/ WritePlan(j)
        PROVE  SlotsOK'
    BY <1>1, SlotsKept DEF Submit, Enqueue, Bump, Cancel, WritePlan, pool, HoldsJob
  <1>2. ASSUME NEW j \in Jobs, Answer(j) PROVE SlotsOK'
    <2>1. \A v \in Workers : HoldsJob(v)' <=> HoldsJob(v)
      BY <1>2, AwakeHolders DEF Answer, HoldsJob
    <2>2. \A b \in Analyses : analysis'[b] = "holding" <=> analysis[b] = "holding"
      BY <1>2 DEF Answer, AwakeAnalyses
    <2>. QED
      BY <1>2, <2>1, <2>2, SlotsKept DEF Answer
  <1>3. ASSUME NEW j \in Jobs, NEW ok \in BOOLEAN, SolverExits(j, ok) PROVE SlotsOK'
    BY <1>3, SlotsKept DEF SolverExits, pool, HoldsJob
  <1>4. CASE UNCHANGED vars
    BY <1>4, SlotsKept DEF vars, pool, HoldsJob
  <1>. QED
    BY <1>1, <1>2, <1>3, <1>4, WorkerSlots, AnalysisSlots DEF Next, SubmitStep

-----------------------------------------------------------------------------
(* Places *)

LEMMA PlacesInit == Init => PlacesOK
  <1>. SUFFICES ASSUME Init PROVE PlacesOK
    OBVIOUS
  <1>1. Len(queue) = 0 /\ DOMAIN queue = {}
    BY LenProperties, EmptySeq DEF Init
  <1>2. \A w \in Workers : ~HoldsJob(w)
    BY DEF Init, HoldsJob
  <1>3. \A j \in Jobs : JobOK(j)
    BY <1>1, <1>2 DEF Init, JobOK, In, HeldBySome, Holds, AtNoPlace, Untouched, Handled
  <1>. QED
    BY <1>1, <1>2, <1>3, JobsAssumption DEF PlacesOK, Distinct

(* The places stay, and one job at most changes where it is. *)
LEMMA OneJobMoves ==
  ASSUME TypeOK, PlacesOK, queue' = queue, NEW j \in Jobs,
         \A w \in Workers : HoldsJob(w)' <=> HoldsJob(w),
         \A w \in Workers : HoldsJob(w) => worker'[w].job = worker[w].job,
         \A w \in Workers : HoldsJob(w) /\ ~Holds(w, j) => worker'[w].at = worker[w].at,
         \A k \in Jobs \ {j} : /\ jobs'[k] = jobs[k] /\ solver'[k] = solver[k]
                               /\ request'[k].at = request[k].at,
         /\ request'[j].at \in {"unsent", "checked"} <=> jobs'[j].state = "none"
         /\ jobs'[j].state = "cancelled" => jobs'[j].cancel,
         In(j, queue) => Pending(j)',
         \A w \in Workers : Holds(w, j) => AtPlace(worker[w].at, j)',
         ~In(j, queue) /\ ~HeldBySome(j) => AtNoPlace(j)'
  PROVE  PlacesOK'
  <1>1. \A w \in Workers, k \in Jobs : Holds(w, k)' <=> Holds(w, k)
    BY DEF Holds
  <1>2. \A k \in Jobs : HeldBySome(k)' <=> HeldBySome(k)
    BY <1>1 DEF HeldBySome
  <1>3. JobOK(j)'
    BY <1>1, <1>2 DEF PlacesOK, JobOK, In
  <1>4. ASSUME NEW k \in Jobs \ {j} PROVE JobOK(k)'
    <2>1. /\ Pending(k)' <=> Pending(k)
          /\ AtNoPlace(k)' <=> AtNoPlace(k)
          /\ \A at : AtPlace(at, k)' <=> AtPlace(at, k)
      BY DEF Pending, AtNoPlace, AtPlace, Untouched, Handled
    <2>2. \A w \in Workers : Holds(w, k) => worker'[w].at = worker[w].at
      BY DEF Holds
    <2>. QED
      BY <1>1, <1>2, <2>1, <2>2 DEF PlacesOK, JobOK, In
  <1>5. /\ \A w \in Workers : HoldsJob(w)' => worker'[w].job \in Jobs
        /\ \A v, w \in Workers : HoldsJob(v)' /\ Holds(w, worker[v].job)' => v = w
    BY <1>1 DEF PlacesOK
  <1>. QED
    BY <1>3, <1>4, <1>5 DEF PlacesOK

LEMMA NoJobMoves ==
  ASSUME TypeOK, PlacesOK, queue' = queue,
         \A w \in Workers : HoldsJob(w)' <=> HoldsJob(w),
         \A w \in Workers : HoldsJob(w) => worker'[w] = worker[w],
         jobs' = jobs, solver' = solver,
         \A k \in Jobs : request'[k].at \in {"unsent", "checked"} <=> request[k].at \in {"unsent", "checked"}
  PROVE  PlacesOK'
  <1>1. \A w \in Workers, k \in Jobs : Holds(w, k)' <=> Holds(w, k)
    BY DEF Holds
  <1>2. ASSUME NEW k \in Jobs PROVE JobOK(k)'
    <2>1. HeldBySome(k)' <=> HeldBySome(k)
      BY <1>1 DEF HeldBySome
    <2>2. /\ Pending(k)' <=> Pending(k)
          /\ AtNoPlace(k)' <=> AtNoPlace(k)
          /\ \A at : AtPlace(at, k)' <=> AtPlace(at, k)
      BY DEF Pending, AtNoPlace, AtPlace, Untouched, Handled
    <2>3. \A w \in Workers : Holds(w, k) => worker'[w].at = worker[w].at
      BY DEF Holds
    <2>. QED
      BY <1>1, <2>1, <2>2, <2>3 DEF PlacesOK, JobOK, In
  <1>3. /\ \A w \in Workers : HoldsJob(w)' => worker'[w].job \in Jobs
        /\ \A v, w \in Workers : HoldsJob(v)' /\ Holds(w, worker[v].job)' => v = w
    BY <1>1 DEF PlacesOK
  <1>. QED
    BY <1>2, <1>3 DEF PlacesOK

(* What a worker that holds a job knows of it. *)
LEMMA Held ==
  ASSUME TypeOK, PlacesOK, NEW w \in Workers, HoldsJob(w)
  PROVE  LET j == worker[w].job IN
         /\ j \in Jobs /\ Holds(w, j) /\ HeldBySome(j) /\ ~In(j, queue)
         /\ JobOK(j) /\ AtPlace(worker[w].at, j)
         /\ \A v \in Workers : Holds(v, j) => v = w
  <1>1. worker[w].job \in Jobs /\ Holds(w, worker[w].job)
    BY DEF PlacesOK, Holds
  <1>2. JobOK(worker[w].job) /\ HeldBySome(worker[w].job)
    BY <1>1 DEF PlacesOK, HeldBySome
  <1>3. \A v \in Workers : Holds(v, worker[w].job) => v = w
    BY DEF PlacesOK
  <1>. QED
    BY <1>1, <1>2, <1>3 DEF JobOK

(* A job that was not accepted yet is nowhere. *)
LEMMA NotAccepted ==
  ASSUME PlacesOK, NEW j \in Jobs, request[j].at \in {"unsent", "checked"}
  PROVE  /\ jobs[j].state = "none" /\ ~In(j, queue) /\ ~HeldBySome(j) /\ Untouched(j)
  <1>1. JobOK(j) /\ jobs[j].state = "none"
    BY DEF PlacesOK, JobOK
  <1>2. ~In(j, queue)
    BY <1>1 DEF JobOK, Pending
  <1>3. ~HeldBySome(j)
    BY <1>1 DEF JobOK, HeldBySome, AtPlace, Pending
  <1>. QED
    BY <1>1, <1>2, <1>3 DEF JobOK, AtNoPlace

LEMMA EnqueuePlaces ==
  ASSUME TypeOK, PlacesOK, NEW j \in Jobs, Enqueue(j)
  PROVE  PlacesOK'
  <1>1. CASE Len(queue) >= MaxQueue
    <2>1. \A k \in Jobs : request'[k].at \in {"unsent", "checked"} <=> request[k].at \in {"unsent", "checked"}
      <3>1. /\ request[j].at = "checked" /\ request'[j].at = "unsent"
            /\ \A k \in Jobs \ {j} : request'[k] = request[k]
        BY <1>1 DEF TypeOK, Enqueue, Request
      <3>. QED
        BY <3>1
    <2>. QED
      BY <1>1, <2>1, NoJobMoves DEF Enqueue, pool, HoldsJob
  <1>2. CASE ~(Len(queue) >= MaxQueue)
    <2>1. /\ queue' = Append(queue, j)
          /\ jobs' = [jobs EXCEPT ![j].state = "queued"]
          /\ request' = [request EXCEPT ![j].at = "queued"]
          /\ worker' = worker /\ solver' = solver
      BY <1>2 DEF Enqueue, pool
    <2>2. /\ jobs[j].state = "none" /\ ~In(j, queue) /\ ~HeldBySome(j) /\ Untouched(j)
      BY NotAccepted DEF Enqueue
    <2>3. /\ Distinct(queue')
          /\ \A x : In(x, queue') <=> In(x, queue) \/ x = j
      BY <2>1, <2>2, AppendToQueue DEF PlacesOK, TypeOK
    <2>4. Len(queue') <= MaxQueue
      <3>1. Len(queue') = Len(queue) + 1 /\ Len(queue) \in Nat
        BY <2>1, AppendProperties, LenProperties DEF TypeOK
      <3>. QED
        BY <1>2, <3>1, JobsAssumption
    <2>5. \A w \in Workers : HoldsJob(w)' <=> HoldsJob(w)
      BY <2>1 DEF HoldsJob
    <2>6. \A w \in Workers, k \in Jobs : Holds(w, k)' <=> Holds(w, k)
      BY <2>1, <2>5 DEF Holds
    <2>7. \A k \in Jobs : HeldBySome(k)' <=> HeldBySome(k)
      BY <2>6 DEF HeldBySome
    <2>8. JobOK(j)'
      <3>1. /\ jobs'[j].state = "queued" /\ request'[j].at = "queued"
            /\ jobs'[j].recorded = jobs[j].recorded /\ jobs'[j].unstored = jobs[j].unstored
        BY <2>1 DEF TypeOK, Job, Request
      <3>2. Pending(j)'
        BY <2>1, <2>2, <3>1 DEF Pending, Untouched, Handled
      <3>. QED
        BY <2>2, <2>3, <2>6, <2>7, <3>1, <3>2 DEF JobOK, HeldBySome
    <2>9. ASSUME NEW k \in Jobs \ {j} PROVE JobOK(k)'
      <3>1. jobs'[k] = jobs[k] /\ request'[k] = request[k]
        BY <2>1 DEF TypeOK
      <3>2. /\ Pending(k)' <=> Pending(k)
            /\ AtNoPlace(k)' <=> AtNoPlace(k)
            /\ \A at : AtPlace(at, k)' <=> AtPlace(at, k)
        BY <2>1, <3>1 DEF Pending, AtNoPlace, AtPlace, Untouched, Handled
      <3>. QED
        BY <2>1, <2>3, <2>6, <2>7, <3>1, <3>2 DEF PlacesOK, JobOK
    <2>. QED
      BY <2>1, <2>3, <2>4, <2>5, <2>6, <2>8, <2>9 DEF PlacesOK
  <1>. QED
    BY <1>1, <1>2

LEMMA CheckPlaces ==
  ASSUME TypeOK, PlacesOK, NEW w \in Workers, CheckForJob(w)
  PROVE  PlacesOK'
  <1>1. CASE ~(queue # <<>> /\ SlotFree)
    BY <1>1, NoJobMoves DEF TypeOK, CheckForJob, Goto, HoldsJob
  <1>2. CASE queue # <<>> /\ SlotFree
    <2>0. PICK j \in Jobs : j = Head(queue)
      BY <1>2, HeadTailProperties DEF TypeOK
    <2>1. /\ queue' = Tail(queue)
          /\ worker' = [worker EXCEPT ![w] = [at |-> "popped", job |-> j]]
          /\ jobs' = jobs /\ solver' = solver /\ request' = request
      BY <1>2, <2>0 DEF CheckForJob
    <2>2. /\ Distinct(Tail(queue))
          /\ \A x : In(x, Tail(queue)) <=> In(x, queue) /\ x # j
      BY <1>2, <2>0, TailOfQueue DEF PlacesOK, TypeOK
    <2>3. In(j, queue) /\ Len(queue') <= MaxQueue
      <3>1. /\ Len(queue) \in Nat /\ Len(queue) > 0 /\ DOMAIN queue = 1..Len(queue)
            /\ j = queue[1] /\ Len(Tail(queue)) = Len(queue) - 1
        BY <1>2, <2>0, EmptySeq, HeadTailProperties, LenProperties DEF TypeOK
      <3>2. Len(queue) <= MaxQueue
        BY DEF PlacesOK
      <3>. QED
        BY <2>1, <3>1, <3>2, JobsAssumption DEF In
    <2>4. JobOK(j) /\ Pending(j) /\ ~HeldBySome(j)
      BY <2>2, <2>3 DEF PlacesOK, JobOK
    <2>5. ~HoldsJob(w) /\ HoldsJob(w)' /\ worker'[w].job = j /\ worker'[w].at = "popped"
      BY <2>1 DEF TypeOK, CheckForJob, HoldsJob
    <2>6. \A v \in Workers \ {w} : worker'[v] = worker[v] /\ (HoldsJob(v)' <=> HoldsJob(v))
      BY <2>1 DEF TypeOK, HoldsJob
    <2>7. \A v \in Workers, k \in Jobs : Holds(v, k)' <=> Holds(v, k) \/ (v = w /\ k = j)
      BY <2>5, <2>6 DEF Holds
    <2>8. \A k \in Jobs : /\ Pending(k)' <=> Pending(k)
                          /\ AtNoPlace(k)' <=> AtNoPlace(k)
                          /\ \A at : AtPlace(at, k)' <=> AtPlace(at, k)
      BY <2>1 DEF Pending, AtNoPlace, AtPlace, Untouched, Handled
    <2>9. JobOK(j)'
      <3>1. ~In(j, queue)' /\ HeldBySome(j)'
        BY <2>1, <2>2, <2>7 DEF HeldBySome
      <3>2. ASSUME NEW v \in Workers, Holds(v, j)' PROVE AtPlace(worker[v].at, j)'
        <4>1. v = w
          BY <2>2, <2>4, <2>7, <3>2 DEF HeldBySome
        <4>2. worker'[v].at = "popped" /\ Pending(j)'
          BY <2>4, <2>5, <2>8, <4>1
        <4>. QED
          BY <4>2 DEF AtPlace
      <3>. QED
        BY <2>1, <2>4, <3>1, <3>2 DEF JobOK
    <2>10. ASSUME NEW k \in Jobs \ {j} PROVE JobOK(k)'
      <3>1. \A v \in Workers : /\ Holds(v, k)' <=> Holds(v, k)
                               /\ Holds(v, k) => worker'[v] = worker[v]
        BY <2>5, <2>6, <2>7 DEF Holds
      <3>2. HeldBySome(k)' <=> HeldBySome(k)
        BY <3>1 DEF HeldBySome
      <3>3. In(k, queue)' <=> In(k, queue)
        BY <2>1, <2>2
      <3>. QED
        BY <2>1, <2>8, <3>1, <3>2, <3>3 DEF PlacesOK, JobOK
    <2>11. \A v \in Workers : HoldsJob(v)' => worker'[v].job \in Jobs
      BY <2>2, <2>5, <2>6 DEF PlacesOK
    <2>12. ASSUME NEW u \in Workers, NEW v \in Workers, HoldsJob(u)', Holds(v, worker[u].job)'
           PROVE u = v
      <3>1. worker'[u].job \in Jobs /\ Holds(u, worker[u].job)'
        BY <2>11, <2>12 DEF Holds
      <3>2. CASE worker'[u].job = j
        BY <2>2, <2>4, <2>7, <2>12, <3>1, <3>2 DEF HeldBySome, Holds
      <3>3. CASE worker'[u].job # j
        <4>1. u # w /\ v # w
          BY <2>5, <2>12, <3>3 DEF Holds
        <4>. QED
          BY <2>6, <2>12, <4>1 DEF PlacesOK, Holds
      <3>. QED
        BY <3>2, <3>3
    <2>. QED
      BY <2>1, <2>2, <2>3, <2>9, <2>10, <2>11, <2>12 DEF PlacesOK
  <1>. QED
    BY <1>1, <1>2

LEMMA FinishPlaces ==
  ASSUME TypeOK, PlacesOK, NEW w \in Workers, Finish(w)
  PROVE  PlacesOK'
  <1>1. HoldsJob(w) /\ worker[w].at = "closing"
    BY DEF Finish, HoldsJob
  <1>0. PICK j \in Jobs : j = worker[w].job
    BY <1>1 DEF PlacesOK
  <1>2. /\ Holds(w, j) /\ ~In(j, queue) /\ JobOK(j) /\ AtPlace("closing", j)
        /\ \A v \in Workers : Holds(v, j) => v = w
    BY <1>0, <1>1, Held
  <1>3. /\ worker' = [worker EXCEPT ![w] = [at |-> "notify", job |-> NoJob]]
        /\ jobs' = [jobs EXCEPT ![j].state = IF jobs[j].cancel THEN "cancelled"
                                            ELSE IF solver[j].at = "ok" THEN "done" ELSE "failed"]
        /\ queue' = queue /\ solver' = solver /\ request' = request
    BY <1>0 DEF Finish
  <1>4. ~HoldsJob(w)' /\ \A v \in Workers \ {w} : worker'[v] = worker[v] /\ (HoldsJob(v)' <=> HoldsJob(v))
    BY <1>3 DEF TypeOK, HoldsJob
  <1>5. \A v \in Workers, k \in Jobs : Holds(v, k)' <=> Holds(v, k) /\ v # w
    BY <1>4 DEF Holds
  <1>6. JobOK(j)'
    <2>1. /\ jobs'[j].state = (IF jobs[j].cancel THEN "cancelled" ELSE IF solver[j].at = "ok" THEN "done" ELSE "failed")
          /\ jobs'[j].cancel = jobs[j].cancel
          /\ jobs'[j].recorded = jobs[j].recorded /\ jobs'[j].unstored = jobs[j].unstored
      BY <1>2, <1>3 DEF TypeOK, Job
    <2>2. AtNoPlace(j)'
      BY <1>2, <1>3, <2>1 DEF AtPlace, AtNoPlace, Untouched, Handled
    <2>3. request[j].at \notin {"unsent", "checked"}
      BY <1>2 DEF JobOK, AtPlace
    <2>. QED
      BY <1>2, <1>3, <1>5, <2>1, <2>2, <2>3 DEF JobOK, HeldBySome
  <1>7. ASSUME NEW k \in Jobs \ {j} PROVE JobOK(k)'
    <2>1. jobs'[k] = jobs[k]
      BY <1>3 DEF TypeOK
    <2>2. /\ Pending(k)' <=> Pending(k)
          /\ AtNoPlace(k)' <=> AtNoPlace(k)
          /\ \A at : AtPlace(at, k)' <=> AtPlace(at, k)
      BY <1>3, <2>1 DEF Pending, AtNoPlace, AtPlace, Untouched, Handled
    <2>3. \A v \in Workers : /\ Holds(v, k)' <=> Holds(v, k)
                             /\ Holds(v, k) => worker'[v] = worker[v]
      BY <1>2, <1>4, <1>5 DEF Holds
    <2>4. HeldBySome(k)' <=> HeldBySome(k)
      BY <2>3 DEF HeldBySome
    <2>. QED
      BY <1>3, <2>1, <2>2, <2>3, <2>4 DEF PlacesOK, JobOK
  <1>8. /\ \A v \in Workers : HoldsJob(v)' => worker'[v].job \in Jobs
        /\ \A u, v \in Workers : HoldsJob(u)' /\ Holds(v, worker[u].job)' => u = v
    BY <1>4 DEF PlacesOK, Holds
  <1>. QED
    BY <1>3, <1>6, <1>7, <1>8 DEF PlacesOK

(* A worker goes on with the job it holds, and with nothing else. *)
LEMMA WorkerGoesOn ==
  ASSUME TypeOK, PlacesOK, NEW w \in Workers, NEW at \in WorkerAt, HoldsJob(w),
         at \notin {"check", "asleep", "notify"}, Goto(w, at)
  PROVE  /\ \A v \in Workers : HoldsJob(v)' <=> HoldsJob(v)
         /\ \A v \in Workers : worker'[v].job = worker[v].job
         /\ worker'[w].at = at
         /\ \A v \in Workers \ {w} : worker'[v] = worker[v]
  BY DEF TypeOK, Goto, HoldsJob

LEMMA GoesOnPlaces ==
  ASSUME TypeOK, PlacesOK, NEW w \in Workers, NEW at \in WorkerAt, HoldsJob(w),
         at \notin {"check", "asleep", "notify"}, Goto(w, at),
         NEW j \in Jobs, j = worker[w].job, UNCHANGED <<queue, request>>,
         \A k \in Jobs \ {j} : jobs'[k] = jobs[k] /\ solver'[k] = solver[k],
         jobs'[j].state = "running", AtPlace(at, j)'
  PROVE  PlacesOK'
  <1>1. /\ \A v \in Workers : HoldsJob(v)' <=> HoldsJob(v)
        /\ \A v \in Workers : worker'[v].job = worker[v].job
        /\ worker'[w].at = at
        /\ \A v \in Workers \ {w} : worker'[v] = worker[v]
    BY WorkerGoesOn
  <1>2. /\ Holds(w, j) /\ HeldBySome(j) /\ ~In(j, queue) /\ JobOK(j) /\ AtPlace(worker[w].at, j)
        /\ \A v \in Workers : Holds(v, j) => v = w
    BY Held
  <1>3. request[j].at \notin {"unsent", "checked"}
    BY <1>2 DEF JobOK, AtPlace, Pending
  <1>4. \A v \in Workers : Holds(v, j) => AtPlace(worker[v].at, j)'
    <2>1. ASSUME NEW v \in Workers, Holds(v, j) PROVE AtPlace(worker[v].at, j)'
      <3>1. worker'[v].at = at
        BY <1>1, <1>2, <2>1
      <3>. QED
        BY <3>1 DEF AtPlace
    <2>. QED
      BY <2>1
  <1>5. /\ \A v \in Workers : HoldsJob(v) => worker'[v].job = worker[v].job
        /\ \A v \in Workers : HoldsJob(v) /\ ~Holds(v, j) => worker'[v].at = worker[v].at
        /\ \A k \in Jobs \ {j} : jobs'[k] = jobs[k] /\ solver'[k] = solver[k] /\ request'[k].at = request[k].at
    BY <1>1, <1>2
  <1>. QED
    BY <1>1, <1>2, <1>3, <1>4, <1>5, OneJobMoves

LEMMA WorkerPlaces ==
  ASSUME TypeOK, PlacesOK, NEW w \in Workers, WorkerStep(w)
  PROVE  PlacesOK'
  <1>1. CASE MarkRunning(w)
    <2>1. HoldsJob(w) /\ "launch" \in WorkerAt
      BY <1>1 DEF MarkRunning, HoldsJob, WorkerAt
    <2>2. PICK j \in Jobs : j = worker[w].job
      BY <2>1 DEF PlacesOK
    <2>3. Pending(j)
      BY <1>1, <2>1, <2>2, Held DEF MarkRunning, AtPlace
    <2>4. /\ jobs'[j].state = "running" /\ \A k \in Jobs \ {j} : jobs'[k] = jobs[k]
          /\ jobs'[j].recorded = jobs[j].recorded /\ jobs'[j].unstored = jobs[j].unstored
      BY <1>1, <2>2 DEF TypeOK, MarkRunning, Job
    <2>5. AtPlace("launch", j)'
      BY <1>1, <2>3, <2>4 DEF MarkRunning, AtPlace, Pending, Untouched, Handled
    <2>. QED
      BY <1>1, <2>1, <2>2, <2>4, <2>5, GoesOnPlaces DEF MarkRunning
  <1>2. ASSUME NEW started \in BOOLEAN, Launch(w, started) PROVE PlacesOK'
    <2>1. HoldsJob(w) /\ "reading" \in WorkerAt
      BY <1>2 DEF Launch, HoldsJob, WorkerAt
    <2>2. PICK j \in Jobs : j = worker[w].job
      BY <2>1 DEF PlacesOK
    <2>3. Untouched(j) /\ jobs[j].state = "running"
      BY <1>2, <2>1, <2>2, Held DEF Launch, AtPlace
    <2>4. \A k \in Jobs \ {j} : solver'[k] = solver[k]
      BY <1>2, <2>2 DEF TypeOK, Launch
    <2>5. solver'[j].at \in {"solving", "failed"} /\ solver'[j].written = solver[j].written
      BY <1>2, <2>2 DEF TypeOK, Solver, Launch
    <2>6. AtPlace("reading", j)'
      BY <1>2, <2>3, <2>5 DEF Launch, AtPlace, Untouched, Handled
    <2>. QED
      BY <1>2, <2>1, <2>2, <2>3, <2>4, <2>6, GoesOnPlaces DEF Launch
  <1>3. CASE Reap(w)
    <2>1. HoldsJob(w) /\ "ran" \in WorkerAt
      BY <1>3 DEF Reap, HoldsJob, WorkerAt
    <2>2. PICK j \in Jobs : j = worker[w].job
      BY <2>1 DEF PlacesOK
    <2>3. Handled(j) = 0 /\ jobs[j].state = "running" /\ solver[j].at # "none"
      BY <1>3, <2>1, <2>2, Held DEF Reap, AtPlace
    <2>4. AtPlace("ran", j)'
      BY <1>3, <2>2, <2>3 DEF TypeOK, Solver, Reap, AtPlace, Handled
    <2>. QED
      BY <1>3, <2>1, <2>2, <2>3, <2>4, GoesOnPlaces DEF Reap
  <1>4. CASE BeginRecording(w)
    <2>1. HoldsJob(w) /\ worker[w].at = "ran"
      BY <1>4 DEF BeginRecording, HoldsJob
    <2>2. PICK j \in Jobs : j = worker[w].job
      BY <2>1 DEF PlacesOK
    <2>3. Handled(j) = 0 /\ jobs[j].state = "running" /\ solver[j].at \in {"ok", "failed"}
      BY <2>1, <2>2, Held DEF AtPlace
    <2>4. PICK at \in {"closing", "recording"} : Goto(w, at) /\ (at = "closing" => jobs[j].cancel)
      BY <1>4, <2>2 DEF BeginRecording
    <2>5. AtPlace(at, j)'
      <3>1. solver[j].written \in Nat /\ jobs' = jobs /\ solver' = solver
        BY <1>4, JobsAssumption DEF TypeOK, Solver, BeginRecording
      <3>2. Handled(j)' = 0 /\ 0 <= solver[j].written
        BY <2>3, <3>1 DEF Handled
      <3>. QED
        BY <2>3, <2>4, <3>1, <3>2 DEF AtPlace
    <2>6. at \in WorkerAt /\ at \notin {"check", "asleep", "notify"}
      BY DEF WorkerAt
    <2>7. jobs' = jobs /\ solver' = solver /\ UNCHANGED <<queue, request>>
      BY <1>4 DEF BeginRecording
    <2>. QED
      BY <2>1, <2>2, <2>3, <2>4, <2>5, <2>6, <2>7, GoesOnPlaces
  <1>5. ASSUME NEW stored \in BOOLEAN, RecordPlan(w, stored) PROVE PlacesOK'
    <2>1. HoldsJob(w) /\ worker[w].at = "recording"
      BY <1>5 DEF RecordPlan, HoldsJob
    <2>2. PICK j \in Jobs : j = worker[w].job
      BY <2>1 DEF PlacesOK
    <2>3. /\ Holds(w, j) /\ HeldBySome(j) /\ ~In(j, queue) /\ JobOK(j) /\ AtPlace("recording", j)
          /\ \A v \in Workers : Holds(v, j) => v = w
      BY <2>1, <2>2, Held
    <2>4. /\ \A k \in Jobs \ {j} : jobs'[k] = jobs[k]
          /\ jobs'[j].state = jobs[j].state /\ jobs'[j].cancel = jobs[j].cancel
          /\ jobs'[j].recorded + jobs'[j].unstored = jobs[j].recorded + jobs[j].unstored + 1
          /\ jobs[j].recorded + jobs[j].unstored < solver[j].written
          /\ jobs[j].recorded \in Nat /\ jobs[j].unstored \in Nat /\ solver[j].written \in Nat
      <3>1. CASE stored
        BY <1>5, <2>2, <3>1, JobsAssumption DEF TypeOK, RecordPlan, Job, Solver, Handled
      <3>2. CASE ~stored
        BY <1>5, <2>2, <3>2, JobsAssumption DEF TypeOK, RecordPlan, Job, Solver, Handled
      <3>. QED
        BY <3>1, <3>2
    <2>5. AtPlace("recording", j)'
      BY <1>5, <2>3, <2>4 DEF RecordPlan, AtPlace, Handled
    <2>6. \A v \in Workers : Holds(v, j) => AtPlace(worker[v].at, j)'
      BY <1>5, <2>1, <2>3, <2>5 DEF RecordPlan, pool, AtPlace
    <2>. QED
      BY <1>5, <2>3, <2>4, <2>6, OneJobMoves DEF RecordPlan, pool, HoldsJob, JobOK, AtPlace
  <1>6. CASE EndRecording(w)
    <2>1. HoldsJob(w) /\ "closing" \in WorkerAt
      BY <1>6 DEF EndRecording, HoldsJob, WorkerAt
    <2>2. PICK j \in Jobs : j = worker[w].job
      BY <2>1 DEF PlacesOK
    <2>3. AtPlace("recording", j) /\ Handled(j) = solver[j].written
      BY <1>6, <2>1, <2>2, Held DEF EndRecording
    <2>4. AtPlace("closing", j)' /\ jobs[j].state = "running"
      BY <1>6, <2>3 DEF EndRecording, AtPlace, Handled
    <2>. QED
      BY <1>6, <2>1, <2>2, <2>4, GoesOnPlaces DEF EndRecording
  <1>7. CASE NotifyAfterJob(w)
    <2>1. \A v \in Workers : HoldsJob(v)' <=> HoldsJob(v)
      BY <1>7, AwakeTypes, AwakeHolders DEF TypeOK, NotifyAfterJob, HoldsJob
    <2>2. \A v \in Workers : HoldsJob(v) => worker'[v] = worker[v]
      BY <1>7 DEF NotifyAfterJob, AwakeWorkers, HoldsJob
    <2>. QED
      BY <1>7, <2>1, <2>2, NoJobMoves DEF NotifyAfterJob
  <1>. QED
    BY <1>1, <1>2, <1>3, <1>4, <1>5, <1>6, <1>7, CheckPlaces, FinishPlaces DEF WorkerStep

(* What a client and the solver of a job do to it. *)
LEMMA JobPlaces ==
  ASSUME TypeOK, PlacesOK, NEW j \in Jobs,
         Cancel(j) \/ WritePlan(j) \/ \E ok \in BOOLEAN : SolverExits(j, ok)
  PROVE  PlacesOK'
  <1>1. /\ UNCHANGED <<queue, worker, request>>
        /\ \A k \in Jobs \ {j} : jobs'[k] = jobs[k] /\ solver'[k] = solver[k]
    BY DEF TypeOK, Cancel, WritePlan, SolverExits, pool
  <1>2. JobOK(j)
    BY DEF PlacesOK
  <1>3. /\ request[j].at \in {"unsent", "checked"} <=> jobs'[j].state = "none"
        /\ jobs'[j].state = "cancelled" => jobs'[j].cancel
        /\ In(j, queue) => Pending(j)'
        /\ \A w \in Workers : Holds(w, j) => AtPlace(worker[w].at, j)'
        /\ ~In(j, queue) /\ ~HeldBySome(j) => AtNoPlace(j)'
    <2>1. CASE Cancel(j)
      <3>1. /\ jobs'[j].cancel = TRUE
            /\ jobs'[j].state = (IF jobs[j].state = "queued" THEN "cancelled" ELSE jobs[j].state)
            /\ jobs'[j].recorded = jobs[j].recorded /\ jobs'[j].unstored = jobs[j].unstored
            /\ solver' = solver
        BY <2>1 DEF TypeOK, Cancel, Job
      <3>2. Pending(j) => Pending(j)'
        BY <3>1 DEF Pending, Untouched, Handled
      <3>3. \A w \in Workers : AtPlace(worker[w].at, j) => AtPlace(worker[w].at, j)'
        BY <1>1, <3>1, <3>2 DEF AtPlace, Untouched, Handled
      <3>4. AtNoPlace(j) => AtNoPlace(j)'
        BY <3>1 DEF AtNoPlace, Untouched, Handled
      <3>. QED
        BY <1>2, <3>1, <3>2, <3>3, <3>4 DEF JobOK
    <2>2. CASE WritePlan(j) \/ \E ok \in BOOLEAN : SolverExits(j, ok)
      <3>1. /\ jobs' = jobs /\ solver[j].at = "solving"
            /\ solver'[j].at \in {"solving", "ok", "failed"}
        BY <2>2 DEF TypeOK, Solver, WritePlan, SolverExits
      <3>2. ~Pending(j) /\ ~AtNoPlace(j)
        BY <3>1 DEF Pending, Untouched, AtNoPlace
      <3>3. \A w \in Workers : AtPlace(worker[w].at, j) => AtPlace(worker[w].at, j)'
        <4>1. ASSUME NEW w \in Workers, AtPlace(worker[w].at, j) PROVE AtPlace(worker[w].at, j)'
          <5>1. worker[w].at \notin {"popped", "launch", "ran", "recording", "closing"}
            BY <3>1, <3>2, <4>1 DEF AtPlace, Untouched
          <5>. QED
            BY <1>1, <3>1, <4>1, <5>1 DEF AtPlace, Handled
        <4>. QED
          BY <4>1
      <3>. QED
        BY <1>2, <3>1, <3>2, <3>3 DEF JobOK
    <2>. QED
      BY <2>1, <2>2
  <1>. QED
    BY <1>1, <1>3, OneJobMoves DEF HoldsJob

LEMMA PlacesStep == TypeOK /\ PlacesOK /\ [Next]_vars => PlacesOK'
  <1>. SUFFICES ASSUME TypeOK, PlacesOK, [Next]_vars PROVE PlacesOK'
    OBVIOUS
  <1>1. ASSUME NEW j \in Jobs, Submit(j) \/ Bump(j) PROVE PlacesOK'
    <2>1. /\ UNCHANGED <<queue, jobs, solver, worker>>
          /\ \A k \in Jobs : request'[k].at \in {"unsent", "checked"} <=> request[k].at \in {"unsent", "checked"}
      <3>1. CASE Submit(j)
        BY <1>1, <3>1 DEF TypeOK, Request, Submit, pool
      <3>2. CASE Bump(j)
        BY <1>1, <3>2 DEF TypeOK, Request, Bump, pool
      <3>. QED
        BY <1>1, <3>1, <3>2
    <2>. QED
      BY <2>1, NoJobMoves DEF HoldsJob
  <1>2. ASSUME NEW j \in Jobs, Answer(j) PROVE PlacesOK'
    <2>1. \A v \in Workers : HoldsJob(v)' <=> HoldsJob(v)
      BY <1>2, AwakeHolders DEF Answer, HoldsJob
    <2>2. \A v \in Workers : HoldsJob(v) => worker'[v] = worker[v]
      BY <1>2 DEF Answer, AwakeWorkers, HoldsJob
    <2>3. \A k \in Jobs : request'[k].at \in {"unsent", "checked"} <=> request[k].at \in {"unsent", "checked"}
      BY <1>2 DEF TypeOK, Request, Answer
    <2>. QED
      BY <1>2, <2>1, <2>2, <2>3, NoJobMoves DEF Answer
  <1>3. ASSUME NEW a \in Analyses, SendAnalysis(a) \/ TakeSlot(a) \/ WaitTimesOut(a) \/ GiveSlotBack(a)
        PROVE  PlacesOK'
    BY <1>3, NoJobMoves DEF SendAnalysis, TakeSlot, WaitTimesOut, GiveSlotBack, HoldsJob
  <1>4. ASSUME NEW a \in Analyses, NotifyAfterAnalysis(a) PROVE PlacesOK'
    <2>1. \A v \in Workers : HoldsJob(v)' <=> HoldsJob(v)
      BY <1>4, AwakeHolders DEF NotifyAfterAnalysis, HoldsJob
    <2>2. \A v \in Workers : HoldsJob(v) => worker'[v] = worker[v]
      BY <1>4 DEF NotifyAfterAnalysis, AwakeWorkers, HoldsJob
    <2>. QED
      BY <1>4, <2>1, <2>2, NoJobMoves DEF NotifyAfterAnalysis
  <1>5. CASE UNCHANGED vars
    BY <1>5, NoJobMoves DEF vars, pool, HoldsJob
  <1>. QED
    BY <1>1, <1>2, <1>3, <1>4, <1>5, EnqueuePlaces, WorkerPlaces, JobPlaces
    DEF Next, SubmitStep, AnalysisStep

-----------------------------------------------------------------------------
(* Wakeups *)

(* Whoever has just been sent back to check does not sleep. *)
LEMMA NobodyAsleep ==
  ASSUME TypeOK
  PROVE  \A v \in Workers : AwakeWorkers[v].at # "asleep"
  BY DEF TypeOK, AwakeWorkers

(* A step after which no more workers sleep, no more jobs wait, no slot     *)
(* is freed and no notification is given up.                                *)
LEMMA StillNotified ==
  ASSUME NoIdleSlot,
         \A w \in Workers : worker'[w].at = "asleep" => worker[w].at = "asleep",
         queue' # <<>> /\ SlotFree' => queue # <<>> /\ SlotFree,
         NotifyPending => NotifyPending'
  PROVE  NoIdleSlot'
  BY DEF NoIdleSlot

LEMMA NoIdleInit == Init => NoIdleSlot
  BY DEF Init, NoIdleSlot

LEMMA NoIdleStep == TypeOK /\ SlotsOK /\ NoIdleSlot /\ [Next]_vars => NoIdleSlot'
  <1>. SUFFICES ASSUME TypeOK, SlotsOK, NoIdleSlot, [Next]_vars PROVE NoIdleSlot'
    OBVIOUS
  <1>1. ASSUME NEW j \in Jobs, Submit(j) PROVE NoIdleSlot'
    BY <1>1, StillNotified DEF TypeOK, Request, Submit, pool, NotifyPending, SlotFree, MaxSolves
  <1>2. ASSUME NEW j \in Jobs, Enqueue(j) PROVE NoIdleSlot'
    <2>1. CASE Len(queue) >= MaxQueue
      BY <1>2, <2>1, StillNotified DEF TypeOK, Request, Enqueue, pool, NotifyPending, SlotFree, MaxSolves
    <2>2. CASE ~(Len(queue) >= MaxQueue)
      <3>1. request'[j].at = "queued"
        BY <1>2, <2>2 DEF TypeOK, Request, Enqueue
      <3>. QED
        BY <3>1 DEF NoIdleSlot, NotifyPending
    <2>. QED
      BY <2>1, <2>2
  <1>3. ASSUME NEW j \in Jobs, Bump(j) PROVE NoIdleSlot'
    <2>1. request'[j].at = "bumped"
      BY <1>3 DEF TypeOK, Request, Bump
    <2>. QED
      BY <2>1 DEF NoIdleSlot, NotifyPending
  <1>4. ASSUME NEW j \in Jobs, Answer(j) PROVE NoIdleSlot'
    BY <1>4, NobodyAsleep DEF Answer, NoIdleSlot
  <1>5. ASSUME NEW j \in Jobs, Cancel(j) \/ WritePlan(j) \/ \E ok \in BOOLEAN : SolverExits(j, ok)
        PROVE  NoIdleSlot'
    BY <1>5, StillNotified DEF Cancel, WritePlan, SolverExits, pool, NotifyPending, SlotFree, MaxSolves
  <1>6. ASSUME NEW w \in Workers, CheckForJob(w) PROVE NoIdleSlot'
    <2>1. CASE queue # <<>> /\ SlotFree
      <3>1. SlotFree' => SlotFree
        BY <2>1
      <3>2. NotifyPending => NotifyPending'
        BY <1>6 DEF TypeOK, CheckForJob, NotifyPending, Goto
      <3>3. \A v \in Workers : worker'[v].at = "asleep" => worker[v].at = "asleep"
        BY <1>6, <2>1 DEF TypeOK, CheckForJob
      <3>. QED
        BY <2>1, <3>1, <3>2, <3>3, StillNotified
    <2>2. CASE ~(queue # <<>> /\ SlotFree)
      BY <1>6, <2>2 DEF CheckForJob, NoIdleSlot, SlotFree, MaxSolves
    <2>. QED
      BY <2>1, <2>2
  <1>7. ASSUME NEW w \in Workers,
               MarkRunning(w) \/ (\E started \in BOOLEAN : Launch(w, started)) \/ Reap(w)
                 \/ BeginRecording(w) \/ EndRecording(w)
        PROVE  NoIdleSlot'
    <2>1. PICK at \in WorkerAt \ {"asleep"} : Goto(w, at)
      BY <1>7 DEF MarkRunning, Launch, Reap, BeginRecording, EndRecording, WorkerAt
    <2>2. \A v \in Workers : worker'[v].at = "asleep" => worker[v].at = "asleep"
      BY <2>1 DEF TypeOK, Goto
    <2>3. UNCHANGED <<queue, running, request, analysis>> /\ worker[w].at # "notify"
      BY <1>7 DEF MarkRunning, Launch, Reap, BeginRecording, EndRecording
    <2>4. NotifyPending => NotifyPending'
      BY <2>1, <2>3 DEF TypeOK, NotifyPending, Goto
    <2>. QED
      BY <2>2, <2>3, <2>4, StillNotified DEF SlotFree, MaxSolves
  <1>8. ASSUME NEW w \in Workers, NEW stored \in BOOLEAN, RecordPlan(w, stored) PROVE NoIdleSlot'
    BY <1>8, StillNotified DEF RecordPlan, pool, NotifyPending, SlotFree, MaxSolves
  <1>9. ASSUME NEW w \in Workers, Finish(w) PROVE NoIdleSlot'
    <2>1. worker'[w].at = "notify"
      BY <1>9 DEF TypeOK, Finish
    <2>. QED
      BY <2>1 DEF NoIdleSlot, NotifyPending
  <1>10. ASSUME NEW w \in Workers, NotifyAfterJob(w) PROVE NoIdleSlot'
    <2>1. \A v \in Workers : worker'[v].at # "asleep"
      BY <1>10, NobodyAsleep, AwakeTypes DEF NotifyAfterJob
    <2>. QED
      BY <2>1 DEF NoIdleSlot
  <1>11. ASSUME NEW a \in Analyses, SendAnalysis(a) PROVE NoIdleSlot'
    BY <1>11, StillNotified DEF TypeOK, SendAnalysis, NotifyPending, SlotFree, MaxSolves
  <1>12. ASSUME NEW a \in Analyses, TakeSlot(a) \/ WaitTimesOut(a) PROVE NoIdleSlot'
    <2>1. SlotFree' => SlotFree
      BY <1>12 DEF TypeOK, TakeSlot, WaitTimesOut, SlotFree, MaxSolves
    <2>2. NotifyPending => NotifyPending'
      BY <1>12 DEF TypeOK, TakeSlot, WaitTimesOut, NotifyPending
    <2>. QED
      BY <1>12, <2>1, <2>2, StillNotified DEF TakeSlot, WaitTimesOut
  <1>13. ASSUME NEW a \in Analyses, GiveSlotBack(a) PROVE NoIdleSlot'
    <2>1. analysis'[a] = "notify"
      BY <1>13 DEF TypeOK, GiveSlotBack
    <2>. QED
      BY <2>1 DEF NoIdleSlot, NotifyPending
  <1>14. ASSUME NEW a \in Analyses, NotifyAfterAnalysis(a) PROVE NoIdleSlot'
    BY <1>14, NobodyAsleep DEF NotifyAfterAnalysis, NoIdleSlot
  <1>15. CASE UNCHANGED vars
    BY <1>15, StillNotified DEF vars, pool, NotifyPending, SlotFree, MaxSolves
  <1>. QED
    BY <1>1, <1>2, <1>3, <1>4, <1>5, <1>6, <1>7, <1>8, <1>9, <1>10, <1>11, <1>12, <1>13, <1>14, <1>15
    DEF Next, SubmitStep, WorkerStep, AnalysisStep

-----------------------------------------------------------------------------
(* The theorems *)

JobsInv == TypeOK /\ SlotsOK /\ PlacesOK /\ NoIdleSlot

LEMMA JobsInvInit == Init => JobsInv
  BY TypeInit, SlotsInit, PlacesInit, NoIdleInit DEF JobsInv

LEMMA JobsInvStep == JobsInv /\ [Next]_vars => JobsInv'
  BY TypeStep, SlotsStep, PlacesStep, NoIdleStep DEF JobsInv

(* Whatever is submitted, cancelled and analysed, and however solvers end,  *)
(* slots, jobs and wakeups keep the invariant (WorkerLoop, main.cpp:604).   *)
THEOREM JobsInvariant == Spec => []JobsInv
  BY JobsInvInit, JobsInvStep, PTL DEF Spec

(* Each job that is being solved has the worker that reads its output, so   *)
(* there are no more solvers than workers that hold jobs.                   *)
LEMMA SolversHaveWorkers ==
  ASSUME JobsInv
  PROVE  Cardinality({j \in Jobs : solver[j].at = "solving"}) <= Cardinality(Holders)
  <1> DEFINE Solving == {j \in Jobs : solver[j].at = "solving"}
             Of == [j \in Solving |-> CHOOSE w \in Workers : Holds(w, j)]
  <1>1. ASSUME NEW j \in Solving PROVE \E w \in Workers : Holds(w, j)
    BY DEF JobsInv, PlacesOK, JobOK, Pending, Untouched, AtNoPlace, HeldBySome
  <1>2. \A j \in Solving : Of[j] \in Workers /\ Holds(Of[j], j)
    BY <1>1
  <1>3. \A j \in Solving : Of[j] \in Holders /\ worker[Of[j]].job = j
    BY <1>2 DEF Holds, Holders
  <1> HIDE DEF Solving
  <1>4. Of \in [Solving -> Holders]
    BY <1>3
  <1>5. Of \in Injection(Solving, Holders)
    BY <1>3, <1>4 DEF Injection, IsInjective
  <1>6. Cardinality(Solving) <= Cardinality(Holders)
    BY <1>5, FiniteHolders, FS_Injection
  <1>. QED
    BY <1>6 DEF Solving

(* g_running counts exactly who holds a slot, and solves and analyses       *)
(* together stay within --max-solves (main.cpp:441-444).                    *)
THEOREM SlotsAlways == Spec => []SlotsAccounted
  <1>1. JobsInv => SlotsAccounted
    BY SolversHaveWorkers, FiniteHolders, FS_CardinalityType, FS_Subset, JobsAssumption
    DEF JobsInv, SlotsOK, SlotsAccounted, Holders, Holding
  <1>. QED
    BY <1>1, JobsInvariant, PTL

(* No accepted job is lost, queued twice or run by two workers, and the     *)
(* queue keeps its limit (main.cpp:604-632, 1367).                          *)
THEOREM HeldOnce == Spec => []JobsHeldOnce
  <1>1. ASSUME JobsInv PROVE JobsHeldOnce
    <2>1. /\ Len(queue) <= MaxQueue
          /\ \A m, n \in DOMAIN queue : queue[m] = queue[n] => m = n
      BY <1>1 DEF JobsInv, PlacesOK, Distinct
    <2>2. ASSUME NEW j \in Jobs
          PROVE  /\ \A v, w \in Workers : Holds(v, j) /\ Holds(w, j) => v = w
                 /\ \A w \in Workers : Holds(w, j) => ~InQueue(j)
                 /\ jobs[j].state = "queued" =>
                      InQueue(j) \/ \E w \in Workers : Holds(w, j) /\ worker[w].at = "popped"
                 /\ jobs[j].state = "running" => \E w \in Workers : Holds(w, j)
      <3>1. JobOK(j) /\ (InQueue(j) <=> In(j, queue))
        BY <1>1 DEF JobsInv, PlacesOK, InQueue, In
      <3>2. \A v, w \in Workers : Holds(v, j) /\ Holds(w, j) => v = w
        BY <1>1 DEF JobsInv, PlacesOK, Holds
      <3>. QED
        BY <3>1, <3>2 DEF JobOK, Pending, AtNoPlace, AtPlace, HeldBySome
    <2>. QED
      BY <2>1, <2>2 DEF JobsHeldOnce
  <1>. QED
    BY <1>1, JobsInvariant, PTL

(* What is reported done or failed has been recorded, and its solver is     *)
(* gone (main.cpp:625-627).                                                 *)
THEOREM Recorded == Spec => []RecordedWhenReported
  <1>1. ASSUME JobsInv PROVE RecordedWhenReported
    <2>1. ASSUME NEW j \in Jobs, jobs[j].state \in {"done", "failed"} PROVE AtNoPlace(j)
      BY <1>1, <2>1 DEF JobsInv, PlacesOK, JobOK, Pending, AtPlace, HeldBySome
    <2>. QED
      BY <2>1 DEF AtNoPlace, RecordedWhenReported
  <1>. QED
    BY <1>1, JobsInvariant, PTL

(* A worker that sleeps beside a job and a free slot is about to be woken   *)
(* (g_cv, main.cpp:608, 1378).                                              *)
THEOREM NoneIdle == Spec => []NoIdleSlot
  <1>1. JobsInv => NoIdleSlot
    BY DEF JobsInv
  <1>. QED
    BY <1>1, JobsInvariant, PTL

(* A job's state moves along the legal edges only, and a job cancelled in   *)
(* time is never reported done or failed (main.cpp:612-629, 1414).          *)
THEOREM Moves == Spec => JobStateMoves
  <1> DEFINE Legal(j) ==
        jobs'[j].state # jobs[j].state =>
          /\ <<jobs[j].state, jobs'[j].state>> \in JobEdges
          /\ jobs[j].cancel => jobs'[j].state \notin {"done", "failed"}
  <1>1. ASSUME JobsInv, Next PROVE \A k \in Jobs : Legal(k)
    <2>0. TypeOK /\ PlacesOK
      BY <1>1 DEF JobsInv
    <2>1. ASSUME NEW j \in Jobs, Enqueue(j) PROVE \A k \in Jobs : Legal(k)
      <3>1. jobs[j].state = "none"
        BY <2>0, <2>1, NotAccepted DEF Enqueue
      <3>2. \A k \in Jobs : jobs'[k].state = jobs[k].state \/ (k = j /\ jobs'[k].state = "queued")
        BY <2>0, <2>1 DEF TypeOK, Job, Enqueue
      <3>. QED
        BY <3>1, <3>2 DEF JobEdges
    <2>2. ASSUME NEW j \in Jobs, Cancel(j) PROVE \A k \in Jobs : Legal(k)
      <3>1. \A k \in Jobs : \/ jobs'[k].state = jobs[k].state
                            \/ jobs[k].state = "queued" /\ jobs'[k].state = "cancelled"
        BY <2>0, <2>2 DEF TypeOK, Job, Cancel
      <3>. QED
        BY <3>1 DEF JobEdges
    <2>3. ASSUME NEW w \in Workers, MarkRunning(w) PROVE \A k \in Jobs : Legal(k)
      <3>1. PICK j \in Jobs : j = worker[w].job
        BY <2>0, <2>3 DEF MarkRunning, PlacesOK, HoldsJob
      <3>2. Pending(j)
        BY <2>0, <2>3, <3>1, Held DEF MarkRunning, HoldsJob, AtPlace
      <3>3. \A k \in Jobs : jobs'[k].state = jobs[k].state \/ (k = j /\ jobs'[k].state = "running")
        BY <2>0, <2>3, <3>1 DEF TypeOK, Job, MarkRunning
      <3>. QED
        BY <3>2, <3>3 DEF JobEdges, Pending
    <2>4. ASSUME NEW w \in Workers, NEW stored \in BOOLEAN, RecordPlan(w, stored)
          PROVE  \A k \in Jobs : Legal(k)
      <3>1. \A k \in Jobs : jobs'[k].state = jobs[k].state
        BY <2>0, <2>4 DEF TypeOK, Job, RecordPlan
      <3>. QED
        BY <3>1
    <2>5. ASSUME NEW w \in Workers, Finish(w) PROVE \A k \in Jobs : Legal(k)
      <3>1. PICK j \in Jobs : j = worker[w].job
        BY <2>0, <2>5 DEF Finish, PlacesOK, HoldsJob
      <3>2. jobs[j].state = "running"
        BY <2>0, <2>5, <3>1, Held DEF Finish, HoldsJob, AtPlace
      <3>3. \A k \in Jobs : \/ jobs'[k].state = jobs[k].state
                            \/ /\ k = j
                               /\ jobs'[k].state \in {"cancelled", "done", "failed"}
                               /\ jobs[k].cancel => jobs'[k].state = "cancelled"
        BY <2>0, <2>5, <3>1 DEF TypeOK, Job, Finish
      <3>. QED
        BY <3>2, <3>3 DEF JobEdges
    <2>6. CASE jobs' = jobs
      BY <2>6
    <2>. QED
      BY <1>1, <2>1, <2>2, <2>3, <2>4, <2>5, <2>6
      DEF Next, Submit, SubmitStep, Bump, Answer, WritePlan, SolverExits, WorkerStep, CheckForJob,
          Launch, Reap, BeginRecording, EndRecording, NotifyAfterJob, SendAnalysis, AnalysisStep,
          TakeSlot, WaitTimesOut, GiveSlotBack, NotifyAfterAnalysis
  <1>2. JobsInv /\ [Next]_vars => [\A k \in Jobs : Legal(k)]_vars
    BY <1>1
  <1>3. [\A k \in Jobs : Legal(k)]_vars =>
          [\A j \in Jobs : LET s == jobs[j].state   t == jobs'[j].state IN
             t # s => /\ <<s, t>> \in JobEdges
                      /\ jobs[j].cancel => t \notin {"done", "failed"}]_vars
    OBVIOUS
  <1>. QED
    BY <1>2, <1>3, JobsInvariant, PTL DEF Spec, JobStateMoves

-----------------------------------------------------------------------------
(* The service is a board of jobs *)

(* The jobs taken and the workers that hold one are as many, so a slot that *)
(* is free in the service is left on the board.                             *)
LEMMA TakenAreHeld ==
  ASSUME TypeOK, PlacesOK
  PROVE  Cardinality(Taken) = Cardinality(Holders)
  <1> DEFINE Of == [w \in Holders |-> worker[w].job]
  <1>1. \A w \in Holders : Of[w] \in Taken
    BY DEF PlacesOK, Holders, Holds, Taken
  <1>2. \A v, w \in Holders : Of[v] = Of[w] => v = w
    BY DEF PlacesOK, Holders, Holds
  <1>3. ASSUME NEW j \in Taken PROVE \E w \in Holders : Of[w] = j
    BY <1>3 DEF Taken, Holders, Holds
  <1>4. Of \in [Holders -> Taken]
    BY <1>1
  <1>5. Of \in Bijection(Holders, Taken)
    BY <1>2, <1>3, <1>4 DEF Bijection, Injection, Surjection, IsInjective
  <1>6. ExistsBijection(Holders, Taken)
    BY <1>5 DEF ExistsBijection
  <1>. QED
    BY <1>6, FiniteHolders, FS_Bijection

LEMMA FreeIsLeft ==
  ASSUME TypeOK, SlotsOK, PlacesOK, SlotFree
  PROVE  Board!SlotLeft
  <1>1. Lent = Holding
    BY DEF Lent, Holding
  <1>2. Cardinality(Taken) + Cardinality(Lent) < MaxSolves
    BY <1>1, TakenAreHeld DEF SlotsOK, SlotFree
  <1>. QED
    BY <1>2 DEF Board!SlotLeft, Board!Cardinality, Cardinality

(* Who is taken and who is lent a slot changes only where a slot does.      *)
LEMMA SameTaken ==
  ASSUME \A w \in Workers : HoldsJob(w)' <=> HoldsJob(w),
         \A w \in Workers : HoldsJob(w) => worker'[w].job = worker[w].job
  PROVE  Taken' = Taken
  <1>1. \A w \in Workers, j \in Jobs : Holds(w, j)' <=> Holds(w, j)
    BY DEF Holds
  <1>. QED
    BY <1>1 DEF Taken

LEMMA SameLent ==
  ASSUME \A a \in Analyses : analysis'[a] = "holding" <=> analysis[a] = "holding"
  PROVE  Lent' = Lent
  BY DEF Lent

(* What the board's users are told. *)
Told == [j \in Jobs |-> jobs[j].state]
Stopped == [j \in Jobs |-> jobs[j].cancel]

LEMMA SameBoard ==
  ASSUME queue' = queue, Taken' = Taken, Lent' = Lent, Told' = Told, Stopped' = Stopped
  PROVE  UNCHANGED Board!bvars
  BY DEF Board!bvars, Told, Stopped

LEMMA WorkerOnBoard ==
  ASSUME TypeOK, SlotsOK, PlacesOK, NEW w \in Workers, WorkerStep(w)
  PROVE  Board!BNext \/ UNCHANGED Board!bvars
  <1>1. CASE CheckForJob(w)
    <2>1. CASE ~(queue # <<>> /\ SlotFree)
      <3>1. Taken' = Taken
        BY <1>1, <2>1, SameTaken DEF TypeOK, CheckForJob, Goto, HoldsJob
      <3>. QED
        BY <1>1, <2>1, <3>1, SameBoard DEF CheckForJob, Lent, Told, Stopped
    <2>2. CASE queue # <<>> /\ SlotFree
      <3>0. PICK j \in Jobs : j = Head(queue)
        BY <2>2, HeadTailProperties DEF TypeOK
      <3>1. /\ queue' = Tail(queue) /\ jobs' = jobs /\ analysis' = analysis
            /\ worker' = [worker EXCEPT ![w] = [at |-> "popped", job |-> j]]
        BY <1>1, <2>2, <3>0 DEF CheckForJob
      <3>2. ~HoldsJob(w) /\ HoldsJob(w)' /\ worker'[w].job = j
        BY <1>1, <3>1 DEF TypeOK, CheckForJob, HoldsJob
      <3>3. \A v \in Workers \ {w} : worker'[v] = worker[v] /\ (HoldsJob(v)' <=> HoldsJob(v))
        BY <3>1 DEF TypeOK, HoldsJob
      <3>4. \A v \in Workers, k \in Jobs : Holds(v, k)' <=> Holds(v, k) \/ (v = w /\ k = j)
        BY <3>2, <3>3 DEF Holds
      <3>5. Taken' = Taken \cup {j}
        BY <3>4 DEF Taken
      <3>6. Lent' = Lent /\ Told' = Told /\ Stopped' = Stopped
        BY <3>1 DEF Lent, Told, Stopped
      <3>7. Board!SlotLeft
        BY <2>2, FreeIsLeft
      <3>8. Board!Take
        BY <2>2, <3>0, <3>1, <3>5, <3>6, <3>7 DEF Board!Take, Told, Stopped
      <3>. QED
        BY <3>8 DEF Board!BNext
    <2>. QED
      BY <2>1, <2>2
  <1>2. CASE MarkRunning(w)
    <2>1. HoldsJob(w) /\ "launch" \in WorkerAt
      BY <1>2 DEF MarkRunning, HoldsJob, WorkerAt
    <2>2. PICK j \in Jobs : j = worker[w].job
      BY <2>1 DEF PlacesOK
    <2>3. Pending(j) /\ Holds(w, j)
      BY <1>2, <2>1, <2>2, Held DEF MarkRunning, AtPlace
    <2>4. Taken' = Taken /\ j \in Taken
      BY <1>2, <2>1, <2>3, WorkerGoesOn, SameTaken DEF MarkRunning, Taken
    <2>5. Told' = [Told EXCEPT ![j] = "running"] /\ Stopped' = Stopped
      BY <1>2, <2>2 DEF TypeOK, Job, MarkRunning, Told, Stopped
    <2>6. queue' = queue /\ Lent' = Lent
      BY <1>2 DEF MarkRunning, Lent
    <2>7. Told[j] \in {"queued", "cancelled"}
      BY <2>3 DEF Pending, Told
    <2>8. Board!Begin(j)
      BY <2>4, <2>5, <2>6, <2>7 DEF Board!Begin, Told, Stopped
    <2>. QED
      BY <2>8 DEF Board!BNext
  <1>3. ASSUME NEW started \in BOOLEAN, Launch(w, started) PROVE UNCHANGED Board!bvars
    <2>1. HoldsJob(w) /\ "reading" \in WorkerAt /\ Goto(w, "reading")
      BY <1>3 DEF Launch, HoldsJob, WorkerAt
    <2>2. Taken' = Taken
      BY <2>1, WorkerGoesOn, SameTaken
    <2>. QED
      BY <1>3, <2>2, SameBoard DEF Launch, Lent, Told, Stopped
  <1>4. CASE Reap(w)
    <2>1. HoldsJob(w) /\ "ran" \in WorkerAt /\ Goto(w, "ran")
      BY <1>4 DEF Reap, HoldsJob, WorkerAt
    <2>2. Taken' = Taken
      BY <2>1, WorkerGoesOn, SameTaken
    <2>. QED
      BY <1>4, <2>2, SameBoard DEF Reap, Lent, Told, Stopped
  <1>5. CASE BeginRecording(w) \/ EndRecording(w)
    <2>1. HoldsJob(w)
      BY <1>5 DEF BeginRecording, EndRecording, HoldsJob
    <2>2. PICK at \in {"closing", "recording"} : Goto(w, at)
      BY <1>5 DEF BeginRecording, EndRecording
    <2>3. at \in WorkerAt /\ at \notin {"check", "asleep", "notify"}
      BY DEF WorkerAt
    <2>4. Taken' = Taken
      BY <2>1, <2>2, <2>3, WorkerGoesOn, SameTaken
    <2>. QED
      BY <1>5, <2>4, SameBoard DEF BeginRecording, EndRecording, Lent, Told, Stopped
  <1>6. ASSUME NEW stored \in BOOLEAN, RecordPlan(w, stored) PROVE UNCHANGED Board!bvars
    <2>1. HoldsJob(w)
      BY <1>6 DEF RecordPlan, HoldsJob
    <2>2. PICK j \in Jobs : j = worker[w].job
      BY <2>1 DEF PlacesOK
    <2>3. \A k \in Jobs : jobs'[k].state = jobs[k].state /\ jobs'[k].cancel = jobs[k].cancel
      BY <1>6, <2>2 DEF TypeOK, Job, RecordPlan
    <2>4. Told' = Told /\ Stopped' = Stopped
      BY <2>3 DEF Told, Stopped
    <2>5. Taken' = Taken /\ Lent' = Lent /\ queue' = queue
      BY <1>6 DEF RecordPlan, pool, Taken, Holds, HoldsJob, Lent
    <2>. QED
      BY <2>4, <2>5, SameBoard
  <1>7. CASE Finish(w)
    <2>1. HoldsJob(w) /\ worker[w].at = "closing"
      BY <1>7 DEF Finish, HoldsJob
    <2>2. PICK j \in Jobs : j = worker[w].job
      BY <2>1 DEF PlacesOK
    <2>3. /\ Holds(w, j) /\ jobs[j].state = "running"
          /\ \A v \in Workers : Holds(v, j) => v = w
      BY <2>1, <2>2, Held DEF AtPlace
    <2>4. PICK over \in IF jobs[j].cancel THEN {"cancelled"} ELSE {"done", "failed"} :
            jobs' = [jobs EXCEPT ![j].state = over]
      BY <1>7, <2>2 DEF Finish
    <2>5. ~HoldsJob(w)' /\ \A v \in Workers \ {w} : worker'[v] = worker[v]
      BY <1>7 DEF TypeOK, Finish, HoldsJob
    <2>6. \A v \in Workers, k \in Jobs : Holds(v, k)' <=> Holds(v, k) /\ v # w
      BY <2>5 DEF Holds, HoldsJob
    <2>7. \A v \in Workers, k \in Jobs : Holds(v, k) /\ v = w => k = j
      BY <2>2 DEF Holds
    <2>8. Taken' = Taken \ {j} /\ j \in Taken
      BY <2>3, <2>6, <2>7 DEF Taken
    <2>9. Told' = [Told EXCEPT ![j] = over] /\ Stopped' = Stopped
      BY <2>4 DEF TypeOK, Job, Told, Stopped
    <2>10. queue' = queue /\ Lent' = Lent
      BY <1>7 DEF Finish, Lent
    <2>11. Told[j] = "running" /\ over \in IF Stopped[j] THEN {"cancelled"} ELSE {"done", "failed"}
      BY <2>3 DEF Told, Stopped
    <2>12. Board!End(j)
      BY <2>8, <2>9, <2>10, <2>11 DEF Board!End, Told, Stopped
    <2>. QED
      BY <2>12 DEF Board!BNext
  <1>8. CASE NotifyAfterJob(w)
    <2>1. \A v \in Workers : HoldsJob(v)' <=> HoldsJob(v)
      BY <1>8, AwakeTypes, AwakeHolders DEF TypeOK, NotifyAfterJob, HoldsJob
    <2>2. \A v \in Workers : HoldsJob(v) => worker'[v] = worker[v]
      BY <1>8 DEF NotifyAfterJob, AwakeWorkers, HoldsJob
    <2>3. Taken' = Taken
      BY <2>1, <2>2, SameTaken
    <2>4. Lent' = Lent
      BY <1>8, SameLent DEF NotifyAfterJob, AwakeAnalyses
    <2>. QED
      BY <1>8, <2>3, <2>4, SameBoard DEF NotifyAfterJob, Told, Stopped
  <1>. QED
    BY <1>1, <1>2, <1>3, <1>4, <1>5, <1>6, <1>7, <1>8 DEF WorkerStep

LEMMA RequestOnBoard ==
  ASSUME TypeOK, SlotsOK, PlacesOK, NEW j \in Jobs, Submit(j) \/ SubmitStep(j) \/ Cancel(j)
  PROVE  Board!BNext \/ UNCHANGED Board!bvars
  <1>1. CASE Submit(j) \/ Bump(j)
    <2>1. Taken' = Taken /\ Lent' = Lent
      BY <1>1 DEF Submit, Bump, pool, Taken, Holds, HoldsJob, Lent
    <2>. QED
      BY <1>1, <2>1, SameBoard DEF Submit, Bump, Told, Stopped
  <1>2. CASE Enqueue(j)
    <2>1. Taken' = Taken /\ Lent' = Lent
      BY <1>2 DEF Enqueue, pool, Taken, Holds, HoldsJob, Lent
    <2>2. CASE Len(queue) >= MaxQueue
      BY <1>2, <2>1, <2>2, SameBoard DEF Enqueue, Told, Stopped
    <2>3. CASE ~(Len(queue) >= MaxQueue)
      <3>1. queue' = Append(queue, j) /\ jobs' = [jobs EXCEPT ![j].state = "queued"]
        BY <1>2, <2>3 DEF Enqueue
      <3>2. Len(queue) < MaxQueue
        BY <2>3, JobsAssumption, LenProperties DEF TypeOK
      <3>3. Told' = [Told EXCEPT ![j] = "queued"] /\ Stopped' = Stopped
        BY <3>1 DEF TypeOK, Job, Told, Stopped
      <3>4. Told[j] = "none"
        BY <1>2, NotAccepted DEF Enqueue, Told
      <3>5. Board!Accept(j)
        BY <2>1, <3>1, <3>2, <3>3, <3>4 DEF Board!Accept, Told, Stopped
      <3>. QED
        BY <3>5 DEF Board!BNext
    <2>. QED
      BY <2>2, <2>3
  <1>3. CASE Answer(j)
    <2>1. \A v \in Workers : HoldsJob(v)' <=> HoldsJob(v)
      BY <1>3, AwakeHolders DEF Answer, HoldsJob
    <2>2. \A v \in Workers : HoldsJob(v) => worker'[v] = worker[v]
      BY <1>3 DEF Answer, AwakeWorkers, HoldsJob
    <2>3. Taken' = Taken
      BY <2>1, <2>2, SameTaken
    <2>4. Lent' = Lent
      BY <1>3, SameLent DEF Answer, AwakeAnalyses
    <2>. QED
      BY <1>3, <2>3, <2>4, SameBoard DEF Answer, Told, Stopped
  <1>4. CASE Cancel(j)
    <2>1. Taken' = Taken /\ Lent' = Lent /\ queue' = queue
      BY <1>4 DEF Cancel, pool, Taken, Holds, HoldsJob, Lent
    <2>2. Told[j] # "none"
      BY <1>4 DEF Cancel, Told
    <2>3. /\ Stopped' = [Stopped EXCEPT ![j] = TRUE]
          /\ Told' = [Told EXCEPT ![j] = IF @ = "queued" THEN "cancelled" ELSE @]
      BY <1>4 DEF TypeOK, Job, Cancel, Told, Stopped
    <2>4. Board!Stop(j)
      BY <2>1, <2>2, <2>3 DEF Board!Stop, Told, Stopped
    <2>. QED
      BY <2>4 DEF Board!BNext
  <1>. QED
    BY <1>1, <1>2, <1>3, <1>4 DEF SubmitStep

LEMMA AnalysisOnBoard ==
  ASSUME TypeOK, SlotsOK, PlacesOK, NEW a \in Analyses, SendAnalysis(a) \/ AnalysisStep(a)
  PROVE  Board!BNext \/ UNCHANGED Board!bvars
  <1>0. queue' = queue /\ Told' = Told /\ Stopped' = Stopped
    BY DEF SendAnalysis, AnalysisStep, TakeSlot, WaitTimesOut, GiveSlotBack, NotifyAfterAnalysis,
           Told, Stopped
  <1>1. CASE SendAnalysis(a)
    <2>1. Taken' = Taken
      BY <1>1 DEF SendAnalysis, Taken, Holds, HoldsJob
    <2>2. Lent' = Lent
      BY <1>1 DEF TypeOK, SendAnalysis, Lent
    <2>. QED
      BY <1>0, <2>1, <2>2, SameBoard
  <1>2. CASE TakeSlot(a) \/ WaitTimesOut(a)
    <2>0. Taken' = Taken
      BY <1>2 DEF TakeSlot, WaitTimesOut, Taken, Holds, HoldsJob
    <2>1. CASE SlotFree
      <3>1. Lent' = Lent \cup {a} /\ a \notin Lent
        BY <1>2, <2>1 DEF TypeOK, TakeSlot, WaitTimesOut, Lent
      <3>2. Board!SlotLeft
        BY <2>1, FreeIsLeft
      <3>3. Board!Lend(a)
        BY <1>0, <2>0, <3>1, <3>2 DEF Board!Lend, Told, Stopped
      <3>. QED
        BY <3>3 DEF Board!BNext
    <2>2. CASE ~SlotFree
      <3>1. Lent' = Lent
        BY <1>2, <2>2 DEF TypeOK, TakeSlot, WaitTimesOut, Lent
      <3>. QED
        BY <1>0, <2>0, <3>1, SameBoard
    <2>. QED
      BY <2>1, <2>2
  <1>3. CASE GiveSlotBack(a)
    <2>1. Taken' = Taken
      BY <1>3 DEF GiveSlotBack, Taken, Holds, HoldsJob
    <2>2. Lent' = Lent \ {a} /\ a \in Lent
      BY <1>3 DEF TypeOK, GiveSlotBack, Lent
    <2>3. Board!Return(a)
      BY <1>0, <2>1, <2>2 DEF Board!Return, Told, Stopped
    <2>. QED
      BY <2>3 DEF Board!BNext
  <1>4. CASE NotifyAfterAnalysis(a)
    <2>1. \A v \in Workers : HoldsJob(v)' <=> HoldsJob(v)
      BY <1>4, AwakeHolders DEF NotifyAfterAnalysis, HoldsJob
    <2>2. \A v \in Workers : HoldsJob(v) => worker'[v] = worker[v]
      BY <1>4 DEF NotifyAfterAnalysis, AwakeWorkers, HoldsJob
    <2>3. Taken' = Taken
      BY <2>1, <2>2, SameTaken
    <2>4. Lent' = Lent
      BY <1>4, SameLent DEF NotifyAfterAnalysis, AwakeAnalyses
    <2>. QED
      BY <1>0, <2>3, <2>4, SameBoard
  <1>. QED
    BY <1>1, <1>2, <1>3, <1>4 DEF AnalysisStep

LEMMA BoardInit == Init => Board!BInit
  <1>. SUFFICES ASSUME Init PROVE Board!BInit
    OBVIOUS
  <1>1. Taken = {} /\ Lent = {} /\ queue = <<>>
    BY DEF Init, Taken, Lent, Holds, HoldsJob
  <1>2. Told = [j \in Jobs |-> "none"] /\ Stopped = [j \in Jobs |-> FALSE]
    BY DEF Init, Told, Stopped
  <1>. QED
    BY <1>1, <1>2 DEF Board!BInit, Told, Stopped

LEMMA BoardStep == JobsInv /\ [Next]_vars => [Board!BNext]_Board!bvars
  <1>. SUFFICES ASSUME JobsInv, [Next]_vars PROVE Board!BNext \/ UNCHANGED Board!bvars
    OBVIOUS
  <1>0. TypeOK /\ SlotsOK /\ PlacesOK
    BY DEF JobsInv
  <1>1. ASSUME NEW j \in Jobs, Submit(j) \/ SubmitStep(j) \/ Cancel(j)
        PROVE  Board!BNext \/ UNCHANGED Board!bvars
    BY <1>0, <1>1, RequestOnBoard
  <1>2. ASSUME NEW w \in Workers, WorkerStep(w) PROVE Board!BNext \/ UNCHANGED Board!bvars
    BY <1>0, <1>2, WorkerOnBoard
  <1>3. ASSUME NEW a \in Analyses, SendAnalysis(a) \/ AnalysisStep(a)
        PROVE  Board!BNext \/ UNCHANGED Board!bvars
    BY <1>0, <1>3, AnalysisOnBoard
  <1>4. ASSUME NEW j \in Jobs, WritePlan(j) \/ \E ok \in BOOLEAN : SolverExits(j, ok)
        PROVE  UNCHANGED Board!bvars
    <2>1. queue' = queue /\ jobs' = jobs /\ worker' = worker /\ analysis' = analysis
      BY <1>4 DEF WritePlan, SolverExits, pool
    <2>. QED
      BY <2>1, SameBoard DEF Taken, Holds, HoldsJob, Lent, Told, Stopped
  <1>5. CASE UNCHANGED vars
    <2>1. queue' = queue /\ jobs' = jobs /\ worker' = worker /\ analysis' = analysis
      BY <1>5 DEF vars, pool
    <2>. QED
      BY <2>1, SameBoard DEF Taken, Holds, HoldsJob, Lent, Told, Stopped
  <1>. QED
    BY <1>1, <1>2, <1>3, <1>4, <1>5 DEF Next

(* The threads, the wakeups and the solver processes carry out the board of *)
(* jobs, whatever the interleaving (main.cpp:441-463, 604-655, 1358-1420).  *)
THEOREM IsBoard == Spec => ImplementsBoard
  BY BoardInit, BoardStep, JobsInvariant, PTL DEF Spec, ImplementsBoard, Board!BSpec

=============================================================================
