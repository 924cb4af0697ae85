---------------------------- MODULE LegacyClient ----------------------------
(***************************************************************************)
(* The legacy browser interface (web/app.js): one global state S, handlers *)
(* that read and write it before and after every request, and a view that  *)
(* is drawn anew by render().  Nothing ties a handler to the view, the     *)
(* project or the session it was started in.  Several may be under way.    *)
(* What the wizard does with its own state is in LegacyWizard.             *)
(***************************************************************************)
EXTENDS Naturals

CONSTANTS Projects, None,
          MaxHandlers   \* bound: handlers under way

VARIABLES S,        \* the global state, what of it handlers share
          shown,    \* which of #signin and #app is not hidden
          task,     \* the handlers under way
          crossed,  \* a project was opened or left with answers for one to come
          server    \* [admin, made, installed, planned]

legacy == <<S, shown, task, crossed, server>>

-----------------------------------------------------------------------------

Handler == 1..MaxHandlers
ProjectViews == {"overview", "schedule", "activities", "history", "wizard"}

(* A handler: what it does, the request it awaits, the project that is for, *)
(* the token it carries.  Of a token it matters whether it still counts.    *)
Task(do, at, of, token) == [do |-> do, at |-> at, of |-> of, auth |-> token]
Idle == Task("idle", "idle", None, "none")
Then(i, at, of) == task' = [task EXCEPT ![i].at = at, ![i].of = of, ![i].auth = S.token]
End(i) == task' = [task EXCEPT ![i] = Idle]

(* A token may be left in the session storage; it may have expired.         *)
LegacyInit ==
  \E left \in {"none", "live", "dead"} :
    /\ S = [token |-> left, user |-> FALSE, view |-> "projects", project |-> None,
            detail |-> None, versions |-> None]
    /\ server = [admin |-> left # "none", made |-> {}, installed |-> {}, planned |-> {}]
    /\ shown = "none" /\ crossed = FALSE
    /\ task = [i \in Handler |-> IF i = 1 THEN Task("boot", "health", None, left) ELSE Idle]

-----------------------------------------------------------------------------
(* The pieces every handler uses *)

(* A schedule without a plan is the overview. *)
Shown(s) == IF s.view = "schedule" /\ s.versions = None THEN [s EXCEPT !.view = "overview"] ELSE s

(* What drawing a view asks the service for.  A view drawn when nobody is   *)
(* signed in fails instead.                                                 *)
Load(s) ==
  CASE ~s.user -> Idle
    [] s.user /\ s.view = "history" /\ s.project # None ->
         Task("view", "versions", s.project, s.token)
    [] s.user /\ s.view \in {"schedule", "activities"} /\ s.versions # None ->
         Task("view", "files", None, s.token)
    [] s.user /\ s.view = "settings" -> Task("view", "users", None, s.token)
    [] OTHER -> Idle

(* render(), in a state that is s by now; i is free for what it starts.     *)
Render(i, s) == S' = Shown(s) /\ task' = [task EXCEPT ![i] = Load(Shown(s))]

(* openProject up to its first await.  The mutated form keeps the detail.   *)
ClearedButDetail(s, p) == [s EXCEPT !.project = p, !.versions = None]
Cleared(s, p) == [s EXCEPT !.project = p, !.versions = None, !.detail = None]

(* Whether a handler that is not i's has a project's answer to come.        *)
Crosses(i) == \E j \in Handler \ {i} : task[j].of # None

SignedOut(s) == [Cleared(s, None) EXCEPT !.token = "none", !.user = FALSE]

(* api(): whether the service can accept a request, and whether it can      *)
(* refuse it.  A 401 signs out whoever is signed in by then.                *)
Accepts(t) == t.at \in {"health", "bootstrap", "outrun", "login"} \/ t.auth = "live"
Refuses(t) == ~Accepts(t) \/ t.at = "login"

(* What a request does on the server. *)
Carried(t) ==
  CASE t.at = "bootstrap" -> [server EXCEPT !.admin = TRUE]
    [] t.at = "create" -> [server EXCEPT !.made = @ \cup {t.of}]
    [] t.at = "upload" -> [server EXCEPT !.installed = @ \cup {t.of}]
    [] OTHER -> server

(* The ways the request of i fails: S after it, whether it signed out, and  *)
(* the server, which may have carried it out.                               *)
Errors(i) ==
  LET t == task[i] refused == S.token # "none" IN
  (IF Refuses(t)
   THEN {[s |-> IF refused THEN SignedOut(S) ELSE S, out |-> refused, server |-> server]}
   ELSE {})
  \cup (IF Accepts(t) THEN {[s |-> S, out |-> FALSE, server |-> v] : v \in {server, Carried(t)}}
        ELSE {})

Good(i, do, at) == /\ task[i].do = do /\ task[i].at = at /\ Accepts(task[i])
                   /\ server' = Carried(task[i])
Bad(i, do, e) == /\ task[i].do = do /\ server' = e.server
                 /\ crossed' = (crossed \/ (e.out /\ Crosses(i)))

(* What most handlers do about it: a note, nothing more. *)
Noted(i, do) ==
  \E e \in Errors(i) : /\ Bad(i, do, e) /\ S' = e.s /\ End(i)
                       /\ shown' = IF e.out THEN "signin" ELSE shown

-----------------------------------------------------------------------------
(* Starting: boot, the sign-in form, signing out *)

SignInAgain(i) == shown' = "signin" /\ End(i)

Boot(i) ==
  \/ /\ Good(i, "boot", "health")
     /\ IF server.admin /\ S.token # "none"
        THEN Then(i, "me", None) /\ UNCHANGED shown
        ELSE SignInAgain(i)
     /\ UNCHANGED <<S, crossed>>
  \/ /\ Good(i, "boot", "me") /\ shown' = "app" /\ S' = [S EXCEPT !.user = TRUE]
     /\ Then(i, "projects", None) /\ UNCHANGED crossed
  \/ /\ Good(i, "boot", "projects") /\ Render(i, [S EXCEPT !.view = "projects"])
     /\ UNCHANGED <<shown, crossed>>
  \/ \E e \in Errors(i) : Bad(i, "boot", e) /\ S' = e.s /\ SignInAgain(i)

(* The form is asked to submit while it is already.  The mutated form       *)
(* relies on the disabled button, which a second key press may outrun.      *)
InFlightNever == FALSE
InFlight == \E i \in Handler : task[i].do = "signin"

(* Handlers start where one is free. *)
Least(free) == CHOOSE i \in free : \A j \in free : i <= j
Starts(do, at, of) ==
  LET free == {i \in Handler : task[i] = Idle} IN
  /\ free # {} /\ task' = [task EXCEPT ![Least(free)] = Task(do, at, of, S.token)]
  /\ UNCHANGED <<S, shown, crossed, server>>

Submit == shown = "signin" /\ ~InFlight /\ Starts("signin", "health", None)

(* Where a health answer leads.                                             *)
FirstRun == ~server.admin

SignIn(i) ==
  \/ /\ Good(i, "signin", "health") /\ Then(i, IF FirstRun THEN "bootstrap" ELSE "login", None)
     /\ UNCHANGED <<S, shown, crossed>>
  \/ /\ Good(i, "signin", "bootstrap") /\ Then(i, "login", None)
     /\ UNCHANGED <<S, shown, crossed>>
  \/ /\ Good(i, "signin", "login") /\ shown' = "app"
     /\ S' = [S EXCEPT !.token = "live", !.user = TRUE]
     /\ task' = [task EXCEPT ![i] = Task("enter", "projects", None, "live")]
     /\ UNCHANGED crossed
  \/ \E e \in Errors(i) : Bad(i, "signin", e) /\ S' = e.s /\ SignInAgain(i)

(* enter(): nobody waits for the projects, so whoever is signed in when     *)
(* they are listed goes to them.                                            *)
Enter(i) ==
  \/ /\ Good(i, "enter", "projects") /\ Render(i, [S EXCEPT !.view = "projects"])
     /\ UNCHANGED <<shown, crossed>>
  \/ Noted(i, "enter")

AppShown == shown = "app"

SignOut == AppShown /\ Starts("signout", "logout", None)

(* Whatever the answer, and whoever is signed in by then. *)
Leave(i) ==
  /\ task[i].do = "signout" /\ server' = server /\ crossed' = (crossed \/ Crosses(i))
  /\ S' = SignedOut(S) /\ SignInAgain(i)

-----------------------------------------------------------------------------
(* Projects *)

(* openProject; i is the handler it goes on as, free till now or the one    *)
(* that created p.  What was under way before may still answer.             *)
OpenIn(i, p) ==
  /\ S' = Cleared(S, p) /\ crossed' = Crosses(i)
  /\ task' = [task EXCEPT ![i] = Task("open", "versions", p, S.token)]

OpenProject(p) ==
  LET free == {i \in Handler : task[i] = Idle} IN
  /\ AppShown /\ S.view = "projects" /\ p \in server.made /\ free # {}
  /\ OpenIn(Least(free), p) /\ UNCHANGED <<shown, server>>

(* refreshVersions, answered: with no project open what follows fails.      *)
Refreshed(i) ==
  [S EXCEPT !.versions = IF task[i].of \in server.planned THEN task[i].of ELSE None]

Opening(i) ==
  \/ /\ Good(i, "open", "versions") /\ S' = Refreshed(i)
     /\ IF S.project = None THEN End(i) ELSE Then(i, "instances", task[i].of)
     /\ UNCHANGED <<shown, crossed>>
  \/ /\ Good(i, "open", "instances") /\ UNCHANGED <<shown, crossed>>
     /\ IF task[i].of \in server.installed
        THEN Then(i, "detail", task[i].of) /\ UNCHANGED S
        ELSE Render(i, [S EXCEPT !.view = "overview"])
  \/ /\ Good(i, "open", "detail") /\ UNCHANGED <<shown, crossed>>
     /\ Render(i, [S EXCEPT !.detail = task[i].of, !.view = "overview"])
  \/ Noted(i, "open")

(* The button stays enabled: a press more makes a project more.             *)
CreateProject(p) ==
  /\ AppShown /\ S.view = "projects" /\ p \notin server.made
  /\ \A j \in Handler : task[j].do = "create" => task[j].of # p
  /\ Starts("create", "create", p)

Creating(i) ==
  \/ /\ Good(i, "create", "create") /\ Then(i, "projects", task[i].of)
     /\ UNCHANGED <<S, shown, crossed>>
  \/ /\ Good(i, "create", "projects") /\ UNCHANGED shown
     /\ IF S.user THEN OpenIn(i, task[i].of) ELSE End(i) /\ UNCHANGED <<S, crossed>>
  \/ Noted(i, "create")

-----------------------------------------------------------------------------
(* Views *)

(* A user's action that draws the view anew, when a handler is free for     *)
(* what that asks for.                                                      *)
Draw(s) ==
  LET free == {i \in Handler : task[i] = Idle} IN
  free # {} /\ Render(Least(free), s) /\ UNCHANGED <<shown, crossed, server>>

(* The navigation and the buttons that lead to a view. *)
Go(v) == /\ AppShown /\ (v \in ProjectViews => S.project # None)
         /\ Draw([S EXCEPT !.view = v])

(* Also on the sign-in page, whose view behind it is drawn too. *)
ChangeLanguage == shown # "none" /\ Draw(S)

(* A view's own requests.  The history's versions, then its audit.          *)
ViewHistory(i) ==
  \/ /\ Good(i, "view", "versions") /\ S' = Refreshed(i)
     /\ IF S.project = None THEN End(i) ELSE Then(i, "audit", None)
     /\ UNCHANGED <<shown, crossed>>
  \/ Good(i, "view", "audit") /\ End(i) /\ UNCHANGED <<S, shown, crossed>>

(* The files of a plan, for a view or to be downloaded. *)
ViewPlan(i) == Good(i, "view", "files") /\ End(i) /\ UNCHANGED <<S, shown, crossed>>

(* The accounts. *)
ViewAccounts(i) == Good(i, "view", "users") /\ End(i) /\ UNCHANGED <<S, shown, crossed>>

Viewing(i) == ViewHistory(i) \/ ViewPlan(i) \/ ViewAccounts(i) \/ Noted(i, "view")

(* Publishing and withdrawing a plan: the versions are read again, of the   *)
(* project open by then, and drawn.                                         *)
Publish == AppShown /\ S.view = "history" /\ S.versions # None /\ Starts("publish", "approve", None)

Publishing(i) ==
  \/ /\ Good(i, "publish", "approve") /\ UNCHANGED <<shown, crossed>>
     /\ IF S.project = None THEN Render(i, S)
        ELSE Then(i, "versions", S.project) /\ UNCHANGED S
  \/ /\ Good(i, "publish", "versions") /\ UNCHANGED <<shown, crossed>>
     /\ IF S.project = None THEN S' = Refreshed(i) /\ End(i) ELSE Render(i, Refreshed(i))
  \/ Noted(i, "publish")

(* An account created or disabled, and drawn. *)
ChangeAccount == AppShown /\ S.view = "settings" /\ Starts("account", "account", None)

ChangingAccount(i) ==
  \/ /\ Good(i, "account", "account") /\ Render(i, S) /\ UNCHANGED <<shown, crossed>>
  \/ Noted(i, "account")

(* What is asked of a plan and answered beside the view: why an activity is *)
(* not in another week, what a disruption would move, and its files.        *)
Explain == AppShown /\ S.view = "schedule" /\ Starts("ask", "analysis", None)
Repair == AppShown /\ S.view = "schedule" /\ Starts("ask", "analysis", None)
Download == AppShown /\ S.view = "history" /\ S.versions # None /\ Starts("view", "files", None)

Asking(i) == \/ Good(i, "ask", "analysis") /\ End(i) /\ UNCHANGED <<S, shown, crossed>>
             \/ Noted(i, "ask")

(* What the wizard's handlers do to S: a check sets the detail of the input *)
(* it installed, and a run, or the reload after a conflict, the versions.   *)
UseWizard == /\ AppShown /\ S.view = "wizard" /\ S.project # None
             /\ \/ Starts("check", "upload", S.project)
                \/ Starts("run", "job", None) \/ Starts("run", "versions", S.project)

(* With no project open the rest of a check fails; it is drawn all the same. *)
WizardChecks(i) ==
  \/ /\ Good(i, "check", "upload") /\ Then(i, "detail", task[i].of)
     /\ UNCHANGED <<S, shown, crossed>>
  \/ /\ Good(i, "check", "detail") /\ UNCHANGED <<shown, crossed>>
     /\ IF S.project = None THEN Render(i, [S EXCEPT !.detail = task[i].of])
        ELSE S' = [S EXCEPT !.detail = task[i].of] /\ Then(i, "instances", None)
  \/ Good(i, "check", "instances") /\ Render(i, S) /\ UNCHANGED <<shown, crossed>>
  \/ \E e \in Errors(i) : /\ Bad(i, "check", e) /\ Render(i, e.s)
                          /\ shown' = IF e.out THEN "signin" ELSE shown

WizardRuns(i) ==
  \/ /\ Good(i, "run", "job") /\ UNCHANGED <<shown, crossed>>
     /\ IF S.project = None THEN Render(i, S)
        ELSE Then(i, "versions", S.project) /\ UNCHANGED S
  \/ /\ Good(i, "run", "versions") /\ UNCHANGED <<shown, crossed>>
     /\ IF S.project = None THEN S' = Refreshed(i) /\ End(i) ELSE Render(i, Refreshed(i))
  \/ Noted(i, "run")

UsingWizard(i) == WizardChecks(i) \/ WizardRuns(i)

-----------------------------------------------------------------------------
(* The service beside the page: plans and inputs that are made, a first     *)
(* administrator that another client creates, which leaves a request for    *)
(* one to be refused, and sessions that end.                                *)

Around(p) == /\ p \in server.made
             /\ server' = IF p \in server.installed
                          THEN [server EXCEPT !.planned = @ \cup {p}]
                          ELSE [server EXCEPT !.installed = @ \cup {p}]
             /\ UNCHANGED <<S, shown, task, crossed>>

AnotherBootstraps ==
  /\ ~server.admin /\ server' = [server EXCEPT !.admin = TRUE]
  /\ task' = [i \in Handler |-> IF task[i].at = "bootstrap" THEN [task[i] EXCEPT !.at = "outrun"]
                                ELSE task[i]]
  /\ UNCHANGED <<S, shown, crossed>>

Ended(token) == IF token = "live" THEN "dead" ELSE token
Expire == /\ S' = [S EXCEPT !.token = Ended(S.token)]
          /\ task' = [i \in Handler |-> [task[i] EXCEPT !.auth = Ended(task[i].auth)]]
          /\ UNCHANGED <<shown, crossed, server>>

-----------------------------------------------------------------------------

Answer(i) == \/ Boot(i) \/ SignIn(i) \/ Enter(i) \/ Leave(i) \/ Opening(i) \/ Creating(i)
             \/ Viewing(i) \/ Asking(i) \/ Publishing(i) \/ ChangingAccount(i)
             \/ UsingWizard(i)

LegacyNext ==
  \/ \E i \in Handler : Answer(i)
  \/ \E p \in Projects : OpenProject(p) \/ CreateProject(p) \/ Around(p)
  \/ \E v \in ProjectViews \cup {"projects", "settings"} : Go(v)
  \/ Submit \/ SignOut \/ ChangeLanguage \/ Publish \/ ChangeAccount \/ Explain \/ Repair
  \/ Download \/ UseWizard \/ AnotherBootstraps \/ Expire

-----------------------------------------------------------------------------
(* Properties *)

(* "First run: these details create the initial administrator" (app.js:281) *)
(* and "One flight at a time" (app.js:262): no form asks for a first        *)
(* administrator once there is one, though it is submitted twice, or again  *)
(* after an answer was lost; another client's may only outrun its request.  *)
BootstrapsOnce == \A i \in Handler : task[i].at = "bootstrap" => ~server.admin

(* A project that was opened while nothing of another was under way is not  *)
(* shown with the plans or the input of that one, whichever of its requests *)
(* fail (app.js:355-374).                                                   *)
ProjectAgrees ==
  ~crossed /\ S.project # None => {S.versions, S.detail} \subseteq {S.project, None}
=============================================================================
