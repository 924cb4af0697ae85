------------------------------ MODULE PageForms ------------------------------
(***************************************************************************)
(* The forms of the React client that change something on the server:      *)
(* creating a project (routes/Projects.jsx), the sample project            *)
(* (Sample.jsx), the upload of a project's files (ProjectUpload.jsx), the  *)
(* accounts (Settings.jsx) and the coordinator of an activity              *)
(* (components/ActivityDetail.jsx).  Each has one handler at a time; when  *)
(* its page is left the handler goes on without one.                       *)
(***************************************************************************)
EXTENDS Naturals, FiniteSets, SequencesExt

CONSTANTS Planners,  \* who may coordinate an activity
          Nobody,    \* "": unassigned
          Slots,     \* INSTANCE_FILES, as numbers from 1
          MaxPicked, \* bound: how many files are picked
          MaxMade,   \* bound: how many projects are made
          MaxLate    \* bound: handlers that outlive their page

ASSUME FormsAssumption ==
  /\ Nobody \notin Planners /\ IsFiniteSet(Slots) /\ Slots \subseteq Nat \ {0}
  /\ MaxPicked \in Nat /\ MaxMade \in Nat /\ MaxLate \in Nat

VARIABLES page,      \* the page that is open
          step,      \* what its handler awaits, "free" if there is none
          late,      \* what handlers await whose page was left
          picked,    \* upload: the files chosen, each as the number its name begins with
          drawer,    \* the coordinator shown, the one before, the note
          saved,     \* the coordinators the server acknowledged to this drawer
          assigned,  \* server: the coordinator
          made       \* server: how many projects there are

formVars == <<page, step, late, picked, drawer, saved, assigned, made>>

-----------------------------------------------------------------------------

Page == {"projects", "sample", "upload", "settings", "drawer", "project"}

(* A page opened: the drawer shows the row it was opened with, which may    *)
(* have been read before the last change.                                   *)
Closed == [shown |-> Nobody, previous |-> Nobody, note |-> ""]
Open(p) == /\ page' = p /\ step' = "free" /\ picked' = <<>>
           /\ IF p = "drawer"
              THEN \E v \in Planners \cup {Nobody} :
                     drawer' = [Closed EXCEPT !.shown = v, !.previous = v] /\ saved' = {v}
              ELSE drawer' = Closed /\ saved' = {Nobody}

FormsInit ==
  /\ page = "project" /\ step = "free" /\ late = {} /\ picked = <<>>
  /\ assigned = Nobody /\ saved = {Nobody} /\ made = 0
  /\ drawer = Closed

Busy == step # "free"

(* Following a link, also to the page that is open. *)
Visit(p) ==
  /\ Open(p)
  /\ late' = IF Busy THEN late \cup {step} ELSE late
  /\ Cardinality(late') <= MaxLate
  /\ UNCHANGED <<assigned, made>>

-----------------------------------------------------------------------------
(* The handlers up to their first await *)

(* A press while a handler runs does nothing.                             *)
Free(p) == page = p /\ ~Busy

Await(s) == step' = s /\ UNCHANGED <<page, late, picked, saved, assigned, made>>

(* matchFiles: the files in turn, each to the slot of its number if that is *)
(* free.  An exact name begins with the number too, so which of two files   *)
(* of one number is taken depends on their order alone.  `matched` is the   *)
(* position taken, 0 if none.                                               *)
Match(r, i) ==
  IF picked[i] \in Slots /\ r.matched[picked[i]] = 0
  THEN [r EXCEPT !.matched[picked[i]] = i]
  ELSE [r EXCEPT !.extra = @ \cup {i}]

Report == FoldLeft(Match, [matched |-> [n \in Slots |-> 0], extra |-> {}],
                   [i \in DOMAIN picked |-> i])

Missing == {n \in Slots : Report.matched[n] = 0}

(* Files that are too large together are refused like an incomplete set.    *)
Pick == /\ page = "upload"
        /\ picked' \in UNION {[1..n -> Slots \cup {0}] : n \in 1..MaxPicked}
        /\ UNCHANGED <<page, step, late, drawer, saved, assigned, made>>

CreateProject == Free("projects") /\ Await("create") /\ UNCHANGED drawer
OpenSample == Free("sample") /\ Await("createSample") /\ UNCHANGED drawer
UploadFiles == /\ Free("upload") /\ picked # <<>> /\ Missing = {} /\ Await("upload")
               /\ UNCHANGED drawer
LoadSample == Free("upload") /\ Await("demo") /\ UNCHANGED drawer
CreateAccount == Free("settings") /\ Await("user") /\ UNCHANGED drawer
SetDisabled == Free("settings") /\ Await("disable") /\ UNCHANGED drawer

(* The coordinator chosen is shown before it is saved. *)
Save(v) ==
  /\ Free("drawer") /\ v # drawer.shown /\ Await("assign")
  /\ drawer' = [shown |-> v, previous |-> drawer.shown, note |-> ""]

Submit == CreateProject \/ OpenSample \/ UploadFiles \/ LoadSample \/ CreateAccount
          \/ SetDisabled \/ \E v \in Planners \cup {Nobody} : Save(v)

-----------------------------------------------------------------------------
(* The rest of a handler.  What the request of a step does on the server;   *)
(* a request that fails may have been carried out.                          *)

Effect(s) ==
  /\ made' = IF s \in {"create", "createSample"} THEN made + 1 ELSE made
  /\ made' <= MaxMade
  /\ assigned' = IF s = "assign" THEN drawer.shown ELSE assigned

NoEffect == UNCHANGED <<made, assigned>>

(* Where a good answer leads: to the next request, or to another page.      *)
Leads == [create |-> "upload", upload |-> "project", demo |-> "project"]
Then == [createSample |-> "demo", user |-> "list", disable |-> "list"]

(* `finally` frees the form.                                                *)
AfterError == "free"

(* What the drawer shows when a save failed.  The mutated form keeps what   *)
(* was chosen.                                                              *)
RevertedNot == [drawer EXCEPT !.note = "error"]
Reverted == [drawer EXCEPT !.shown = drawer.previous, !.note = "error"]

Succeeds ==
  /\ Busy
  /\ IF step = "list" THEN NoEffect ELSE Effect(step)
  /\ IF step \in DOMAIN Leads
     THEN Open(Leads[step])
     ELSE /\ step' = IF step \in DOMAIN Then THEN Then[step] ELSE "free"
          /\ drawer' = IF step = "assign" THEN [drawer EXCEPT !.note = "saved"] ELSE drawer
          /\ saved' = IF step = "assign" THEN saved \cup {drawer.shown} ELSE saved
          /\ UNCHANGED <<page, picked>>
  /\ UNCHANGED late

Fails ==
  /\ Busy /\ step' = AfterError
  /\ NoEffect \/ (step # "list" /\ Effect(step))
  /\ drawer' = IF step = "assign" THEN Reverted ELSE drawer
  /\ UNCHANGED <<page, late, picked, saved>>

(* A handler whose page was left still goes where its answer leads, from    *)
(* whatever page is open by then.                                           *)
LateSucceeds(s) ==
  /\ IF s = "assign" THEN \E v \in Planners \cup {Nobody} : assigned' = v /\ UNCHANGED made
     ELSE IF s = "list" THEN NoEffect ELSE Effect(s)
  /\ IF s \in DOMAIN Leads
     THEN Open(Leads[s]) /\ late' = (late \ {s}) \cup (IF Busy THEN {step} ELSE {})
     ELSE /\ late' = (late \ {s}) \cup (IF s \in DOMAIN Then THEN {Then[s]} ELSE {})
          /\ UNCHANGED <<page, step, picked, drawer, saved>>

LateFails(s) == /\ late' = late \ {s} /\ NoEffect
                /\ UNCHANGED <<page, step, picked, drawer, saved>>

Late == \E s \in late : LateSucceeds(s) \/ LateFails(s)

FormsNext == \/ \E p \in Page : Visit(p)
             \/ Pick \/ Submit \/ Succeeds \/ Fails \/ Late

FormsSpec == FormsInit /\ [][FormsNext]_formVars

-----------------------------------------------------------------------------
(* Properties *)

(* The coordinator shown while nothing is being saved is the one the drawer *)
(* was opened with or one the server acknowledged, and so is the one a      *)
(* failure goes back to (ActivityDetail.jsx:47-64).                         *)
ShownWasSaved ==
  /\ step # "assign" => drawer.shown \in saved
  /\ drawer.previous \in saved
=============================================================================
