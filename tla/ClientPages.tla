----------------------------- MODULE ClientPages -----------------------------
(***************************************************************************)
(* The parts of the two browser interfaces that keep a state of their own  *)
(* while they are on screen: the sections and forms of the React client,   *)
(* and the legacy interface.  They share nothing but the service, of which *)
(* each module has what it sees; a tab shows one of them, chosen when it   *)
(* is opened, so one run looks into all of them.                           *)
(***************************************************************************)
EXTENDS GeneratePlans, Photos, PageForms, ProjectIndex, ScheduleData

CONSTANTS Plans, Horizon, PageSize, Windows,  \* of ScheduleTables
          Projects, None, MaxHandlers,        \* of LegacyClient
          MaxTasks, MaxWizards, MaxJobs       \* of LegacyWizard

ASSUME PagesAssumption ==
  /\ Horizon \in Nat /\ Windows \subseteq Nat \ {0}
  /\ None \notin Projects
  /\ {PageSize, MaxHandlers, MaxTasks, MaxWizards, MaxJobs} \subseteq Nat \ {0}

VARIABLES showing,
          rows, params, label, display,
          S, shown, task, crossed, server,
          wizards, wizard, inWizard, signedIn, pressed, doing, jobs

Tables == INSTANCE ScheduleTables
ASSUME PlansAssumption == Plans \subseteq Tables!PlanRows

Legacy == INSTANCE LegacyClient
Wizard == INSTANCE LegacyWizard

tables == <<rows, params, label, display>>
legacy == <<S, shown, task, crossed, server>>
wizardVars == <<wizards, wizard, inWizard, signedIn, pressed, doing, jobs>>

pages == <<showing, generate, photoVars, formVars, indexVars, scheduleVars, tables, legacy,
           wizardVars>>

-----------------------------------------------------------------------------

(* What is not shown has one initial state. *)
Init == /\ showing \in {"generate", "photos", "forms", "index", "schedule", "tables", "legacy",
                        "wizard"}
        /\ GenerateInit /\ PhotosInit /\ FormsInit /\ Wizard!WizardInit
        /\ Legacy!LegacyInit /\ (showing # "legacy" => S.token = "none")
        /\ IndexInit /\ (showing # "index" => projects = 0)
        /\ ScheduleInit /\ (showing # "schedule" => ~open /\ plans = 0)
        /\ Tables!TablesInit
        /\ showing # "tables" => /\ rows = CHOOSE r \in Plans : r # <<>>
                                 /\ label = CHOOSE l \in DOMAIN Tables!Groups : TRUE
                                 /\ display = Tables!Fresh(CHOOSE n \in Windows : TRUE)

Next ==
  \/ /\ showing = "generate" /\ GenerateNext
     /\ UNCHANGED <<showing, photoVars, formVars, indexVars, scheduleVars, tables, legacy, wizardVars>>
  \/ /\ showing = "photos" /\ PhotosNext
     /\ UNCHANGED <<showing, generate, formVars, indexVars, scheduleVars, tables, legacy, wizardVars>>
  \/ /\ showing = "forms" /\ FormsNext
     /\ UNCHANGED <<showing, generate, photoVars, indexVars, scheduleVars, tables, legacy, wizardVars>>
  \/ /\ showing = "index" /\ IndexNext
     /\ UNCHANGED <<showing, generate, photoVars, formVars, scheduleVars, tables, legacy, wizardVars>>
  \/ /\ showing = "schedule" /\ ScheduleNext
     /\ UNCHANGED <<showing, generate, photoVars, formVars, indexVars, tables, legacy, wizardVars>>
  \/ /\ showing = "tables" /\ Tables!TablesNext
     /\ UNCHANGED <<showing, generate, photoVars, formVars, indexVars, scheduleVars, legacy, wizardVars>>
  \/ /\ showing = "legacy" /\ Legacy!LegacyNext
     /\ UNCHANGED <<showing, generate, photoVars, formVars, indexVars, scheduleVars, tables, wizardVars>>
  \/ /\ showing = "wizard" /\ Wizard!WizardNext
     /\ UNCHANGED <<showing, generate, photoVars, formVars, indexVars, scheduleVars, tables, legacy>>

Spec == Init /\ [][Next]_pages

-----------------------------------------------------------------------------
(* The properties of the modules that are instantiated *)

(* See ScheduleTables: every access that matches is in one group, and pages *)
(* and windows chosen before the rows changed still show them.              *)
EveryAccessShown == showing = "tables" => Tables!EveryAccessShown

(* See LegacyClient: a first administrator is asked for once.               *)
BootstrapsOnce == Legacy!BootstrapsOnce

(* See LegacyClient: a project is not shown with another's plans or input.  *)
ProjectAgrees == Legacy!ProjectAgrees

(* See LegacyWizard: a review follows a run of its own wizard.              *)
ReviewFollowsRun == Wizard!ReviewFollowsRun
=============================================================================
