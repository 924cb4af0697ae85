---------------------------- MODULE ClientSession ----------------------------
(***************************************************************************)
(* The login session of the React client (client/src/state/auth.jsx and    *)
(* routes/SignIn.jsx) and one resource of a page (lib/useResource.js),     *)
(* over the request layer.  Every action is a step of ApiClient together   *)
(* with what the awaiting code does next.  The initial states are those of *)
(* a page load: the tab may hold a token, the server may have no account.  *)
(***************************************************************************)
EXTENDS ApiClient

CONSTANTS RestoreCall, SignInCall, SignOutCall,  \* the calls auth.jsx makes
          Health, Me, Bootstrap, Login, Logout,  \* and their paths
          Polled                                 \* reads asked without a signal

PageCalls == Calls \ {RestoreCall, SignInCall, SignOutCall}
PageReads == Reads \ ({Health, Me} \cup Polled)

ASSUME SessionAssumption ==
  /\ {RestoreCall, SignInCall, SignOutCall} \subseteq Calls /\ None \notin Calls \cup Reads
  /\ Polled \subseteq Reads \ Immutable
  /\ {Health, Me} \subseteq Reads \ Polled /\ {Bootstrap, Login, Logout} \subseteq Changes

VARIABLES user,      \* whose session the interface shows, None if signed out
          saved,     \* sessionStorage
          boot,      \* needsBootstrap
          restore,   \* where the effect that restores a session is
          entering,  \* where signIn is
          leaving,   \* where signOut is
          view,      \* the resource of the page
          issued,    \* server: tokens handed out so far
          installed, \* server: there is an account
          offer      \* server: the token in a login's answer; None: not acted

session == <<user, saved, boot, restore, entering, leaving>>
server == <<issued, installed, offer>>
vars == <<api, session, view, server>>

-----------------------------------------------------------------------------

Nothing == [key |-> None, owner |-> None]
Data == [key : PageReads, owner : Owner] \cup {Nothing}

(* dep: what the hook is to show, None when disabled.  asking: its effect is *)
(* about to run.  eff: the call its cleanup would abort.  run: the call of   *)
(* the newest sequence number.                                               *)
View == [dep : PageReads \cup {None}, asking : BOOLEAN,
         eff : PageCalls \cup {None}, run : PageCalls \cup {None},
         data : Data, loading : BOOLEAN]

Blank == [dep |-> None, asking |-> FALSE, eff |-> None, run |-> None,
          data |-> Nothing, loading |-> FALSE]

SessionTypeOK ==
  /\ TypeOK
  /\ user \in Owner /\ saved \in Owner /\ boot \in BOOLEAN
  /\ restore \in {"start", "ask", "health", "askme", "me", "drop", "done"}
  /\ entering \in {"no", "bootstrap", "bootstrapped", "login", "enter"}
  /\ leaving \in {"no", "logout", "out"}
  /\ view \in View
  /\ issued \subseteq Tokens
  /\ installed \in BOOLEAN /\ offer \in Owner

(* ready *)
Ready == restore = "done"

(* A page load, the effect being at r. *)
Loaded(r) ==
        /\ ApiInit
        /\ user = None /\ boot = FALSE /\ restore = r
        /\ entering = "no" /\ leaving = "no" /\ view = Blank
        /\ saved \in Owner /\ issued = {saved} \ {None}
        /\ installed \in {saved # None, TRUE}
        /\ offer = None

Init == Loaded("start")

-----------------------------------------------------------------------------
(* The effect of AuthProvider that restores a session *)

RestoreToken ==
  /\ restore = "start" /\ restore' = "ask"
  /\ IF saved # None THEN SetToken(saved) ELSE UNCHANGED api
  /\ UNCHANGED <<user, saved, boot, entering, leaving, view, server>>

RestoreAsk ==
  /\ \/ restore = "ask" /\ restore' = "health" /\ Launch(RestoreCall, Health, TRUE)
     \/ restore = "askme" /\ restore' = "me" /\ Launch(RestoreCall, Me, TRUE)
  /\ UNCHANGED <<user, saved, boot, entering, leaving, view, server>>

(* `finally` makes the session ready whatever went wrong.  The mutated form *)
(* waits for the service.                                                   *)
AfterHealthOnly(answered) == IF answered THEN IF saved # None THEN "askme" ELSE "done"
                             ELSE "health"
AfterHealth(answered) == IF answered /\ saved # None THEN "askme" ELSE "done"

RestoreHealth ==
  /\ restore = "health" /\ Deliver(RestoreCall)
  /\ LET answered == Outcome(RestoreCall) = "value" IN
     /\ restore' = AfterHealth(answered)
     /\ boot' = IF answered THEN ~installed ELSE boot
  /\ UNCHANGED <<user, saved, entering, leaving, view, server>>

(* A refused or unanswered `me` drops the token; a cancelled one does not.  *)
RestoreMe ==
  /\ restore = "me" /\ Deliver(RestoreCall)
  /\ user' = IF Outcome(RestoreCall) = "value" THEN call[RestoreCall].auth ELSE user
  /\ restore' = IF Outcome(RestoreCall) \in {"value", "aborted"} THEN "done" ELSE "drop"
  /\ UNCHANGED <<saved, boot, entering, leaving, view, server>>

RestoreDrop ==
  /\ restore = "drop" /\ restore' = "done" /\ saved' = None
  /\ IF token # None THEN SetToken(None) ELSE UNCHANGED api
  /\ UNCHANGED <<user, boot, entering, leaving, view, server>>

-----------------------------------------------------------------------------
(* signIn, from the form of SignIn.jsx, which may be open in a session too *)

Submit ==
  /\ Ready /\ entering = "no" /\ view = Blank
  /\ entering' = IF boot THEN "bootstrap" ELSE "login"
  /\ Launch(SignInCall, IF boot THEN Bootstrap ELSE Login, FALSE)
  /\ UNCHANGED <<user, saved, boot, restore, leaving, view, server>>

(* The login that follows an accepted bootstrap. *)
SubmitLogin ==
  /\ entering = "bootstrapped" /\ entering' = "login"
  /\ Launch(SignInCall, Login, FALSE)
  /\ UNCHANGED <<user, saved, boot, restore, leaving, view, server>>

(* An error is shown and the form comes back. *)
SignInAnswered ==
  /\ entering \in {"bootstrap", "login"} /\ Deliver(SignInCall)
  /\ entering' = IF Outcome(SignInCall) # "value" THEN "no"
                 ELSE IF entering = "login" THEN "enter" ELSE "bootstrapped"
  /\ offer' = IF entering' = "enter" THEN offer ELSE None
  /\ UNCHANGED <<user, saved, boot, restore, leaving, view, issued, installed>>

Enter ==
  /\ entering = "enter" /\ entering' = "no" /\ SetToken(offer)
  /\ saved' = offer /\ user' = offer /\ boot' = FALSE
  /\ offer' = None /\ view' = Blank
  /\ UNCHANGED <<restore, leaving, issued, installed>>

-----------------------------------------------------------------------------
(* signOut, and the session-expired listener *)

SignOut ==
  /\ user # None /\ leaving = "no" /\ leaving' = "logout"
  /\ Launch(SignOutCall, Logout, FALSE)
  /\ UNCHANGED <<user, saved, boot, restore, entering, view, server>>

(* "The local session goes either way" (auth.jsx:52). *)
SignOutAnswered ==
  /\ leaving = "logout" /\ leaving' = "out" /\ Deliver(SignOutCall)
  /\ UNCHANGED <<user, saved, boot, restore, entering, view, server>>

(* The page that showed the session is gone with it.  The mutated form      *)
(* leaves the interface signed in.                                          *)
ForgetToken == saved' = None /\ UNCHANGED <<user, view>>
Forget == saved' = None /\ user' = None /\ view' = Blank

SignedOut ==
  /\ leaving = "out" /\ leaving' = "no" /\ Forget
  /\ IF token # None THEN SetToken(None) ELSE UNCHANGED api
  /\ UNCHANGED <<boot, restore, entering, server>>

(* A 401: the session is over on the server, which it may be at any time,   *)
(* or a wrong password was typed while signed in, for login carries the     *)
(* token of the session too.                                                *)
Expired(c) ==
  /\ call[c].key # Health
  /\ Expire(c) /\ Forget
  /\ UNCHANGED <<boot, restore, entering, leaving, server>>

-----------------------------------------------------------------------------
(* useResource *)

(* The effect's cleanup. *)
CleanUp == IF /\ view.eff # None
              /\ call[view.eff].at \in {"waiting", "granted", "fetching"}
           THEN CallerAborts(view.eff) ELSE UNCHANGED api

(* The deps change to k: the cleanup, then the new run (StartRun).          *)
Show(k) ==
  /\ user # None /\ k # view.dep /\ CleanUp
  /\ view' = [view EXCEPT !.dep = k, !.asking = TRUE, !.eff = None, !.run = None,
                          !.loading = TRUE]
  /\ UNCHANGED <<session, server>>

(* The hook is disabled.  A run that a reload started goes on, and is still *)
(* the newest.                                                              *)
Disable ==
  /\ view.dep # None /\ CleanUp
  /\ view' = [Blank EXCEPT !.run = IF view.run = view.eff THEN None ELSE view.run]
  /\ UNCHANGED <<session, server>>

Unmount == /\ view # Blank /\ CleanUp /\ view' = Blank
           /\ UNCHANGED <<session, server>>

Kept(k) == LET i == CHOOSE j \in DOMAIN immutable : immutable[j].key = k
           IN [key |-> k, owner |-> immutable[i].owner]

(* run(): a kept answer at once, or a request of this run's own.            *)
Ask(v, byEffect) ==
  IF Cached(v.dep)
  THEN /\ view' = [v EXCEPT !.data = Kept(v.dep), !.loading = FALSE, !.run = None]
       /\ UNCHANGED api
  ELSE \E c \in PageCalls :
         /\ Launch(c, v.dep, TRUE)
         /\ view' = [v EXCEPT !.run = c, !.loading = TRUE,
                              !.eff = IF byEffect THEN c ELSE view.eff]

StartRun == /\ view.asking /\ Ask([view EXCEPT !.asking = FALSE], TRUE)
            /\ UNCHANGED <<session, server>>

Reload == /\ view.dep # None /\ ~view.asking /\ Ask(view, FALSE)
          /\ UNCHANGED <<session, server>>

(* A request without a signal, as the pages poll jobs and list users.       *)
Poll == /\ user # None /\ ~view.asking
        /\ \E c \in PageCalls, k \in Polled : Join(c, k) \/ Launch(c, k, FALSE)
        /\ UNCHANGED <<session, view, server>>

(* Whether this reply is the newest run's.  The mutated form shows the      *)
(* reply of any run that its cleanup has not aborted.                       *)
NewestAny(c) == view.dep # None /\ call[c].signal /\ Outcome(c) # "aborted"
Newest(c) == view.run = c

(* The newest reply, shown.  The mutated form leaves an error loading. *)
ShowingValue(v, c) ==
  IF Outcome(c) # "value" THEN v
  ELSE [v EXCEPT !.loading = FALSE, !.data = [key |-> call[c].key, owner |-> call[c].auth]]

Showing(v, c) ==
  [v EXCEPT !.loading = FALSE,
            !.data = IF Outcome(c) = "value"
                     THEN [key |-> call[c].key, owner |-> call[c].auth] ELSE Nothing]

PageAnswered(c) ==
  /\ Deliver(c)
  /\ view' =
       LET v == [view EXCEPT !.eff = IF @ = c THEN None ELSE @,
                             !.run = IF @ = c THEN None ELSE @] IN
       IF Newest(c) /\ Outcome(c) # "aborted" THEN Showing(v, c) ELSE v
  /\ UNCHANGED <<session, server>>

-----------------------------------------------------------------------------
(* External: the server, as far as the session goes.  What it does with a   *)
(* request it does while the request is out; the answer may still be lost.  *)

ServerBootstraps ==
  /\ At(SignInCall) = "fetching" /\ call[SignInCall].key = Bootstrap
  /\ ~installed /\ installed' = TRUE
  /\ UNCHANGED <<api, session, view, issued, offer>>

ServerLogsIn ==
  /\ At(SignInCall) = "fetching" /\ call[SignInCall].key = Login
  /\ installed /\ offer = None
  /\ \E t \in Tokens \ issued :
       issued' = issued \cup {t} /\ offer' = t
  /\ UNCHANGED <<api, session, view, installed>>

(* A change is only answered once it is made. *)
Made(c) == /\ call[c].key = Bootstrap => installed
           /\ call[c].key = Login => offer # None

Transport(c) ==
  /\ Proceed(c) \/ (Made(c) /\ Answer(c)) \/ Refuse(c) \/ Fail(c) \/ TimerFires(c)
  /\ UNCHANGED <<session, view, server>>

-----------------------------------------------------------------------------

Restore == RestoreToken \/ RestoreAsk \/ RestoreHealth \/ RestoreMe \/ RestoreDrop
SignIn == SubmitLogin \/ SignInAnswered \/ Enter
SignsOut == SignOutAnswered \/ SignedOut

Next == \/ Restore \/ SignIn \/ SignsOut \/ StartRun \/ Submit \/ SignOut
        \/ \E k \in PageReads : Show(k)
        \/ Disable \/ Unmount \/ Reload \/ Poll
        \/ \E c \in PageCalls : PageAnswered(c)
        \/ \E c \in Calls : Transport(c) \/ Expired(c)
        \/ ServerBootstraps \/ ServerLogsIn

Spec == Init /\ [][Next]_vars

(* JavaScript runs its microtasks, an aborted fetch rejects and the timer   *)
(* of a request goes off.  Nothing is assumed of the server or of people.   *)
Settles(c) == \/ /\ Proceed(c) \/ Fail(c) \/ TimerFires(c)
                 /\ UNCHANGED <<session, view, server>>
              \/ c \in PageCalls /\ PageAnswered(c)

Fairness ==
  /\ WF_vars(Restore) /\ WF_vars(SignIn) /\ WF_vars(SignsOut) /\ WF_vars(StartRun)
  /\ \A c \in Calls : WF_vars(Settles(c))


-----------------------------------------------------------------------------
(* Properties *)

(* What the interface shows as signed in is the session requests carry and  *)
(* the tab would restore, whatever order a restore, sign-ins, sign-outs and *)
(* expiries settle in (auth.jsx:13-58).                                     *)
SessionAgrees ==
  /\ user # None => token = user /\ saved = user
  /\ view.dep # None => user # None

(* "Switching project can never leave the previous project's data on        *)
(* screen" (useResource.js:6-8), nor a session the previous one's.          *)
ShownIsAsked ==
  view.data # Nothing =>
    /\ view.data.owner = user
    /\ view.dep # None /\ ~view.loading => view.data.key = view.dep

(* No page stays loading: the answer, an error or another question comes.   *)
LoadingEnds ==
  \A k \in PageReads :
    view.loading /\ view.dep = k ~> ~view.loading \/ view.dep # k

(* The sign-in screen appears, its form comes back and signing out ends,    *)
(* though the server may never answer (auth.jsx:16-31, 41-58).              *)
FormsComeBack ==
  /\ ~Ready ~> Ready
  /\ entering # "no" ~> entering = "no"
  /\ leaving # "no" ~> leaving = "no"
=============================================================================
