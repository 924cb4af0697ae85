---------------------------- MODULE LegacyWizard ----------------------------
(***************************************************************************)
(* The new-plan wizard of the legacy interface (web/app.js:456-762): an    *)
(* input is uploaded and checked, a plan is generated, and reviewed.  Each *)
(* press starts a handler that keeps the wizard object it began with and,  *)
(* whatever is on screen by then, moves that one on and draws the view     *)
(* anew, which takes the run's line away from a run that is followed.      *)
(* Which project S holds meanwhile is in LegacyClient.                     *)
(***************************************************************************)
EXTENDS Naturals, Sequences, FiniteSets, JobPhases

CONSTANTS MaxTasks,    \* bound: handlers under way
          MaxWizards,  \* bound: how often the wizard is started
          MaxJobs      \* bound: jobs started

VARIABLES wizards,   \* the wizard objects made
          wizard,    \* S.wizard, 0 for null
          inWizard,  \* S.view is the wizard
          signedIn,  \* S.user and S.project are there
          pressed,   \* the handler that disabled the buttons on screen, 0 if none
          doing,     \* the handlers under way
          jobs       \* server: the jobs, with the wizard that asked for them

wizardVars == <<wizards, wizard, inWizard, signedIn, pressed, doing, jobs>>

-----------------------------------------------------------------------------

Busy == 1..MaxTasks
Free == {i \in Busy : doing[i].do = "idle"}
Least == CHOOSE i \in Free : \A j \in Free : i <= j

Doing(do, at) == [do |-> do, at |-> at, wizard |-> wizard, job |-> 0]
Rest == [do |-> "idle", at |-> "idle", wizard |-> 0, job |-> 0]
Awaits(i, at) == doing' = [doing EXCEPT ![i].at = at]
Ends(i) == doing' = [doing EXCEPT ![i] = Rest]

WizardInit ==
  /\ wizards = <<>> /\ wizard = 0 /\ inWizard = FALSE /\ signedIn = TRUE
  /\ pressed = 0 /\ doing = [i \in Busy |-> Rest] /\ jobs = <<>>

(* render(): the buttons are new, and the review loads its plans; i is free *)
(* for that.                                                                *)
Drawn(i) ==
  /\ pressed' = 0
  /\ doing' = [doing EXCEPT ![i] =
                 IF inWizard' /\ wizards'[wizard'].stage = "review"
                 THEN [Rest EXCEPT !.do = "review", !.at = "files"] ELSE Rest]

Draw == Free # {} /\ Drawn(Least) /\ UNCHANGED jobs

-----------------------------------------------------------------------------
(* What the planner does *)

StartWizard ==
  /\ signedIn /\ ~inWizard /\ Len(wizards) < MaxWizards
  /\ wizards' = Append(wizards, [stage |-> "upload", ok |-> FALSE, job |-> 0])
  /\ wizard' = Len(wizards) + 1 /\ inWizard' = TRUE /\ UNCHANGED signedIn /\ Draw

AtStage(stage) == signedIn /\ inWizard /\ wizards[wizard].stage = stage

(* A button that leads to another stage. *)
GoTo(from, to) ==
  /\ AtStage(from) /\ (to = "generate" => from = "review" \/ wizards[wizard].ok)
  /\ wizards' = [wizards EXCEPT ![wizard].stage = to]
  /\ UNCHANGED <<wizard, inWizard, signedIn>> /\ Draw

Turn == GoTo("check", "upload") \/ GoTo("check", "generate") \/ GoTo("review", "generate")

(* Another view, also by the review's Done, which drops the wizard. *)
LeaveWizard ==
  /\ signedIn /\ inWizard /\ inWizard' = FALSE
  /\ wizard' \in IF wizards[wizard].stage = "review" THEN {0, wizard} ELSE {wizard}
  /\ UNCHANGED <<wizards, signedIn>> /\ Draw

ChangeLanguage == UNCHANGED <<wizards, wizard, inWizard, signedIn>> /\ Draw

(* Signed out, by a handler of any view; and back, with a project open.     *)
SignedOut == /\ signedIn /\ signedIn' = FALSE
             /\ UNCHANGED <<wizards, wizard, inWizard, pressed, doing, jobs>>

SignedIn == /\ ~signedIn /\ signedIn' = TRUE /\ inWizard' = FALSE
            /\ UNCHANGED <<wizards, wizard>> /\ Draw

Press(do, at) ==
  /\ pressed = 0 /\ Free # {} /\ pressed' = Least
  /\ doing' = [doing EXCEPT ![Least] = Doing(do, at)]
  /\ UNCHANGED <<wizards, wizard, inWizard, signedIn, jobs>>

(* doCheck, with eight files or the sample, and the run button. *)
Check == AtStage("upload") /\ Press("check", "upload")
Run == /\ AtStage("generate") /\ Press("run", "job")
       /\ Len(jobs) + Cardinality({i \in Busy : doing[i].at = "job"}) < MaxJobs

(* A file is picked while the button waits, which redraw() enables again.   *)
PickFile == /\ AtStage("upload") /\ pressed # 0 /\ pressed' = 0
            /\ UNCHANGED <<wizards, wizard, inWizard, signedIn, doing, jobs>>

(* The line of the run, #genState, stands on screen: this run's or that of  *)
(* a later one.                                                             *)
LineShown == pressed # 0 /\ doing[pressed].do = "run"

(* The stop button, for the job that its wizard has last created.  Its      *)
(* answer is ignored.                                                       *)
CancelRun ==
  /\ AtStage("generate") /\ LineShown /\ doing[pressed].job # 0
  /\ jobs' = [jobs EXCEPT ![wizards[doing[pressed].wizard].job].state = Stopped(@)]
  /\ UNCHANGED <<wizards, wizard, inWizard, signedIn, pressed, doing>>

(* After a 409: the versions are read again, and drawn. *)
Reload == /\ AtStage("generate") /\ pressed = 0 /\ Free # {}
          /\ doing' = [doing EXCEPT ![Least] = Doing("reload", "versions")]
          /\ UNCHANGED <<wizards, wizard, inWizard, signedIn, pressed, jobs>>

-----------------------------------------------------------------------------
(* The handlers.  A request that fails may have signed out.                 *)

Good(i, do, at) == doing[i].do = do /\ doing[i].at = at /\ UNCHANGED signedIn
Bad(i, do) == doing[i].do = do /\ doing[i].at # "timer" /\ signedIn' \in {signedIn, FALSE}

(* The wizard object of i is at another stage, and the view is drawn.       *)
MovesOn(i, stage, ok) ==
  /\ wizards' = [wizards EXCEPT ![doing[i].wizard].stage = stage, ![doing[i].wizard].ok = ok]
  /\ UNCHANGED <<wizard, inWizard>> /\ Drawn(i)

(* doCheck: any failure, also of the reads that follow, is a failed check.  *)
Checking(i) ==
  /\ \/ Good(i, "check", "upload") /\ Awaits(i, "detail") /\ UNCHANGED <<wizards, wizard, inWizard, pressed>>
     \/ /\ Good(i, "check", "detail") /\ signedIn
        /\ Awaits(i, "instances") /\ UNCHANGED <<wizards, wizard, inWizard, pressed>>
     \/ Good(i, "check", "instances") /\ MovesOn(i, "check", TRUE)
     \/ Bad(i, "check") /\ MovesOn(i, "check", FALSE)
  /\ UNCHANGED jobs

(* What ends the loop of pollJob, and what of that it throws for.  The      *)
(* mutated forms do not know cancelled, and do not throw.                   *)
StopsButCancelled(state) == state \in {"done", "failed"}
StopsFor(state) == state \in {"done", "failed", "cancelled"}
ThrowsNever(state) == FALSE
ThrowsFor(state) == state = "failed"

(* The catch of a run: its buttons come back, if they are still on screen.  *)
GivesUp(i) == /\ Ends(i) /\ pressed' = (IF pressed = i THEN 0 ELSE pressed)
              /\ UNCHANGED <<wizards, wizard, inWizard, jobs>>

Reviewed(i) == MovesOn(i, "review", wizards[doing[i].wizard].ok) /\ UNCHANGED jobs

Created(i) ==
  /\ Good(i, "run", "job")
  /\ jobs' = Append(jobs, [wizard |-> doing[i].wizard, state |-> "queued"])
  /\ doing' = [doing EXCEPT ![i].at = "poll", ![i].job = Len(jobs) + 1]
  /\ wizards' = [wizards EXCEPT ![doing[i].wizard].job = Len(jobs) + 1]
  /\ UNCHANGED <<wizard, inWizard, pressed>>

(* A poll.  Without the line it throws, on its own state.                   *)
JobPolled(i) ==
  LET state == Said(jobs[doing[i].job].state) IN
  /\ Good(i, "run", "poll")
  /\ IF ~LineShown \/ (StopsFor(state) /\ ThrowsFor(state)) THEN GivesUp(i)
     ELSE IF StopsFor(state) /\ ~signedIn THEN Reviewed(i)
     ELSE /\ Awaits(i, IF StopsFor(state) THEN "versions" ELSE "timer")
          /\ UNCHANGED <<wizards, wizard, inWizard, pressed, jobs>>

Running(i) ==
  \/ Created(i) \/ JobPolled(i)
  \/ /\ Good(i, "run", "timer") /\ Awaits(i, "poll")
     /\ UNCHANGED <<wizards, wizard, inWizard, pressed, jobs>>
  \/ Good(i, "run", "versions") /\ IF signedIn THEN Reviewed(i) ELSE GivesUp(i)
  \/ Bad(i, "run") /\ GivesUp(i)

(* stageReview draws its plans or an error, and the reload draws. *)
Reviewing(i) == /\ Good(i, "review", "files") \/ Bad(i, "review")
                /\ Ends(i) /\ UNCHANGED <<wizards, wizard, inWizard, pressed, jobs>>

Reloading(i) ==
  \/ /\ Good(i, "reload", "versions") /\ signedIn
     /\ UNCHANGED <<wizards, wizard, inWizard>> /\ Drawn(i) /\ UNCHANGED jobs
  \/ Bad(i, "reload") /\ Ends(i) /\ UNCHANGED <<wizards, wizard, inWizard, pressed, jobs>>

(* The service works off its jobs. *)
Work(j) ==
  /\ j \in DOMAIN jobs
  /\ \E phase \in Worked(jobs[j].state) : jobs' = [jobs EXCEPT ![j].state = phase]
  /\ UNCHANGED <<wizards, wizard, inWizard, signedIn, pressed, doing>>

-----------------------------------------------------------------------------

Step(i) == Checking(i) \/ Running(i) \/ Reviewing(i) \/ Reloading(i)

WizardNext ==
  \/ \E i \in Busy : Step(i)
  \/ \E j \in 1..MaxJobs : Work(j)
  \/ StartWizard \/ Turn \/ LeaveWizard \/ ChangeLanguage \/ SignedOut \/ SignedIn
  \/ Check \/ PickFile \/ Run \/ CancelRun \/ Reload

WizardSpec == WizardInit /\ [][WizardNext]_wizardVars

(* A request is answered or fails, a timer goes off, and a job is worked.   *)
WizardFairness == /\ \A i \in Busy : WF_wizardVars(Step(i))
                  /\ \A j \in 1..MaxJobs : WF_wizardVars(Work(j))

-----------------------------------------------------------------------------
(* Properties *)

(* "Nothing is shown as saved before the server has said so" (app.js:4-6):  *)
(* a wizard gets to its review only by a run of its own that ended well or  *)
(* was cancelled, though views are drawn and wizards begun meanwhile.       *)
ReviewFollowsRun ==
  \A w \in DOMAIN wizards : wizards[w].stage = "review" =>
    \E j \in DOMAIN jobs : jobs[j].wizard = w /\ (jobs[j].state = "done" \/ WasStopped(jobs[j].state))

(* Every handler comes to its end, that of a run too, though it is          *)
(* cancelled, its line is drawn over, or the session ends meanwhile.        *)
HandlersEnd == \A i \in Busy : doing[i].do # "idle" ~> doing[i].do = "idle"
=============================================================================
