----------------------------- MODULE ClientLive -----------------------------
(***************************************************************************)
(* What must go on in a browser: the React client's requests and its       *)
(* session (ClientSession), and the legacy interface's wizard              *)
(* (LegacyWizard).  A tab has one of them at work, chosen when it is       *)
(* opened.                                                                 *)
(***************************************************************************)
EXTENDS ClientSession

CONSTANTS MaxTasks, MaxWizards, MaxJobs  \* of LegacyWizard

VARIABLES tab,
          wizards, wizard, inWizard, signedIn, pressed, doing, jobs

Wizard == INSTANCE LegacyWizard

wizardVars == <<wizards, wizard, inWizard, signedIn, pressed, doing, jobs>>

(* Nothing of the session is at work in the other tabs. *)
TabInit ==
  /\ tab \in {"session", "wizard"}
  /\ Loaded(IF tab = "session" THEN "start" ELSE "done")
  /\ tab # "session" => saved = None /\ ~installed
  /\ Wizard!WizardInit

TabNext ==
  \/ tab = "session" /\ Next /\ UNCHANGED <<tab, wizardVars>>
  \/ tab = "wizard" /\ Wizard!WizardNext /\ UNCHANGED <<tab, vars>>

(* Each with the fairness of its module. *)
TabSpec ==
  /\ TabInit /\ [][TabNext]_<<tab, vars, wizardVars>>
  /\ Fairness /\ Wizard!WizardFairness

-----------------------------------------------------------------------------
(* See LegacyWizard: every handler comes to its end.                        *)
HandlersEnd == Wizard!HandlersEnd
=============================================================================
