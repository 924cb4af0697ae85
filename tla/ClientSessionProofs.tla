------------------------ MODULE ClientSessionProofs ------------------------
(***************************************************************************)
(* Proofs about the session of the React client and a resource of a page:  *)
(* that its steps are steps of the request layer, so that what is proved   *)
(* there holds here, and that the session and what is shown agree.         *)
(***************************************************************************)
EXTENDS ClientSession, ApiClientProofs

-----------------------------------------------------------------------------
(* The inductive invariant *)

Fields == view = [dep |-> view.dep, asking |-> view.asking, eff |-> view.eff,
                  run |-> view.run, data |-> view.data, loading |-> view.loading]

(* From the moment the effect has read it, the tab's token is the one in    *)
(* use; a user is shown only when restoring is over.                        *)
SessionOK ==
  /\ user \in Owner /\ saved \in Owner /\ offer \in Owner
  /\ token = IF restore = "start" THEN None ELSE saved
  /\ user # None => restore = "done" /\ user = token
  /\ entering # "no" => restore = "done"

(* The newest run asks for what is to be shown, by a call that is not       *)
(* answered yet.                                                            *)
ViewOK ==
  /\ Fields
  /\ view.dep \in PageReads \cup {None}
  /\ view.eff \in PageCalls \cup {None} /\ view.run \in PageCalls \cup {None}
  /\ user = None => view = Blank
  /\ view.asking => view.dep # None
  /\ view.run # None => /\ Live(view.run)
                        /\ view.dep # None => call[view.run].key = view.dep
  /\ view.data # Nothing => /\ view.data.owner = user
                            /\ view.dep # None /\ ~view.loading => view.data.key = view.dep

SInv == Inv /\ SessionOK /\ ViewOK

LEMMA Constants ==
  /\ RestoreCall \in Calls /\ SignInCall \in Calls /\ SignOutCall \in Calls
  /\ PageCalls \subseteq Calls /\ None \notin Calls
  /\ RestoreCall \notin PageCalls /\ SignInCall \notin PageCalls /\ SignOutCall \notin PageCalls
  /\ None \in Owner /\ None \notin PageReads
  BY SessionAssumption DEF PageCalls, PageReads, Owner

-----------------------------------------------------------------------------
(* The steps are steps of the request layer *)

LEMMA CleanUpIsApi ==
  ASSUME ViewOK, CleanUp PROVE ApiNext \/ UNCHANGED api
  BY Constants DEF CleanUp, ViewOK, ApiNext, ApiStep

LEMMA AskIsApi ==
  ASSUME NEW v, NEW e, Ask(v, e) PROVE ApiNext \/ UNCHANGED api
  <1>1. CASE Cached(v.dep)
    BY <1>1 DEF Ask
  <1>2. CASE ~Cached(v.dep)
    <2>1. PICK c \in PageCalls : Launch(c, v.dep, TRUE)
      BY <1>2 DEF Ask
    <2>2. c \in Calls /\ v.dep \in Keys /\ TRUE \in BOOLEAN
      BY <2>1, Constants DEF Launch
    <2>. QED
      BY <2>1, <2>2 DEF ApiNext
  <1>. QED
    BY <1>1, <1>2

LEMMA LaunchIsApi ==
  ASSUME NEW c \in Calls, NEW k, NEW signal \in BOOLEAN, Launch(c, k, signal)
  PROVE  ApiNext
  <1>1. k \in Keys
    BY DEF Launch
  <1>. QED
    BY <1>1 DEF ApiNext

LEMMA StepIsApi ==
  ASSUME SInv, Next PROVE ApiNext \/ UNCHANGED api
  <1>0. Inv /\ SessionOK /\ ViewOK
    BY DEF SInv
  <1>1. CASE RestoreToken
    <2>1. saved \in Owner
      BY <1>0 DEF SessionOK
    <2>. QED
      BY <1>1, <2>1 DEF RestoreToken, ApiNext
  <1>2. CASE RestoreAsk
    BY <1>2, LaunchIsApi, Constants DEF RestoreAsk
  <1>3. CASE RestoreHealth \/ RestoreMe \/ SignInAnswered \/ SignOutAnswered
    <2>1. Deliver(RestoreCall) \/ Deliver(SignInCall) \/ Deliver(SignOutCall)
      BY <1>3 DEF RestoreHealth, RestoreMe, SignInAnswered, SignOutAnswered
    <2>. QED
      BY <2>1, Constants DEF ApiNext, ApiStep
  <1>4. CASE RestoreDrop \/ SignedOut
    <2>1. SetToken(None) \/ UNCHANGED api
      BY <1>4 DEF RestoreDrop, SignedOut
    <2>. QED
      BY <2>1, Constants DEF ApiNext
  <1>5. CASE SubmitLogin \/ Submit \/ SignOut
    <2>1. \E k : Launch(SignInCall, k, FALSE) \/ Launch(SignOutCall, k, FALSE)
      BY <1>5 DEF SubmitLogin, Submit, SignOut
    <2>. QED
      BY <2>1, LaunchIsApi, Constants
  <1>6. CASE Enter
    <2>1. offer \in Owner
      BY <1>0 DEF SessionOK
    <2>. QED
      BY <1>6, <2>1 DEF Enter, ApiNext
  <1>7. CASE StartRun \/ Reload
    BY <1>7, AskIsApi DEF StartRun, Reload
  <1>8. CASE Disable \/ Unmount \/ \E k \in PageReads : Show(k)
    <2>1. CleanUp
      BY <1>8 DEF Disable, Unmount, Show
    <2>. QED
      BY <1>0, <2>1, CleanUpIsApi
  <1>9. CASE Poll
    <2>1. PICK c \in PageCalls, k \in Polled : Join(c, k) \/ Launch(c, k, FALSE)
      BY <1>9 DEF Poll
    <2>2. CASE Join(c, k)
      <3>1. k \in Keys /\ c \in Calls /\ TRUE \in BOOLEAN
        BY <2>2, Constants DEF Join, Keys
      <3>. QED
        BY <2>2, <3>1 DEF ApiNext
    <2>3. CASE Launch(c, k, FALSE)
      BY <2>3, LaunchIsApi, Constants
    <2>. QED
      BY <2>1, <2>2, <2>3
  <1>10. CASE \E c \in PageCalls : PageAnswered(c)
    BY <1>10, Constants DEF PageAnswered, ApiNext, ApiStep
  <1>11. CASE \E c \in Calls : Transport(c) \/ Expired(c)
    <2>1. PICK c \in Calls : Transport(c) \/ Expired(c)
      BY <1>11
    <2>2. ApiStep(c)
      BY <2>1 DEF Transport, Expired, ApiStep
    <2>. QED
      BY <2>2 DEF ApiNext
  <1>12. CASE ServerBootstraps \/ ServerLogsIn
    BY <1>12 DEF ServerBootstraps, ServerLogsIn
  <1>. QED
    BY <1>1, <1>2, <1>3, <1>4, <1>5, <1>6, <1>7, <1>8, <1>9, <1>10, <1>11, <1>12
    DEF Next, Restore, SignIn, SignsOut

LEMMA ApiInvKept ==
  ASSUME SInv, [Next]_vars PROVE Inv'
  <1>1. ApiNext \/ UNCHANGED api
    BY StepIsApi DEF vars, api
  <1>. QED
    BY <1>1, InvStep, InvStutter DEF SInv

-----------------------------------------------------------------------------
(* The session *)

(* Only a change of the session changes the token. *)
LEMMA TokenKept ==
  /\ \A c \in Calls : \A k, signal : Launch(c, k, signal) => token' = token
  /\ \A c \in Calls : \A k : Join(c, k) => token' = token
  /\ \A c \in Calls : Deliver(c) \/ Transport(c) => token' = token
  /\ CleanUp => token' = token
  /\ \A v, e : Ask(v, e) => token' = token
  <1>1. \A c, k, signal : Launch(c, k, signal) => token' = token
    BY DEF Launch
  <1>2. \A c, k : Join(c, k) => token' = token
    BY DEF Join
  <1>3. \A c, why : Abort(c, why) => token' = token
    BY DEF Abort
  <1>4. \A c : Deliver(c) \/ Transport(c) => token' = token
    BY <1>3 DEF Deliver, Transport, Proceed, Answer, Refuse, Fail, TimerFires
  <1>5. CleanUp => token' = token
    BY <1>3 DEF CleanUp, CallerAborts, api
  <1>6. \A v, e : Ask(v, e) => token' = token
    BY <1>1 DEF Ask, api
  <1>. QED
    BY <1>1, <1>2, <1>4, <1>5, <1>6

(* A good answer carries the session in use. *)
LEMMA ValueIsOfSession ==
  ASSUME Inv, NEW c \in Calls, At(c) \in {"resolved", "rejected"}, Outcome(c) = "value"
  PROVE  call[c].auth = token
  <1>1. At(c) = "resolved" /\ call[c].scope = epoch
    <2>1. CASE Fulfilled(c)
      BY <2>1 DEF Fulfilled
    <2>2. CASE ~Fulfilled(c)
      <3>1. call[c].why \in Why
        BY DEF Inv, TypeOK, Call
      <3>. QED
        BY <2>2, <3>1 DEF Outcome, Why
    <2>. QED
      BY <2>1, <2>2
  <1>. QED
    BY <1>1 DEF Inv, Isolated, ScopeIsAuth, Live

LEMMA SessionKept ==
  ASSUME SInv, Next PROVE SessionOK'
  <1>0. /\ Inv /\ SessionOK /\ ViewOK
        /\ user \in Owner /\ saved \in Owner /\ offer \in Owner /\ token \in Owner
        /\ token = IF restore = "start" THEN None ELSE saved
        /\ user # None => restore = "done" /\ user = token
        /\ entering # "no" => restore = "done"
    BY DEF SInv, SessionOK, Inv, TypeOK
  <1> USE Constants
  <1>1. CASE RestoreToken
    <2>1. restore = "start" /\ restore' = "ask" /\ UNCHANGED <<user, saved, entering, offer>>
      BY <1>1 DEF RestoreToken, server
    <2>2. token' = saved
      BY <1>0, <1>1, <2>1 DEF RestoreToken, SetToken, Session, api
    <2>. QED
      BY <1>0, <2>1, <2>2 DEF SessionOK
  <1>2. CASE RestoreAsk
    <2>1. /\ restore \in {"ask", "askme"} /\ restore' \in {"health", "me"}
          /\ UNCHANGED <<user, saved, entering, offer, token>>
      BY <1>2, TokenKept DEF RestoreAsk, server
    <2>. QED
      BY <1>0, <2>1 DEF SessionOK
  <1>3. CASE RestoreHealth
    <2>1. /\ restore = "health" /\ restore' \in {"askme", "done"}
          /\ UNCHANGED <<user, saved, entering, offer, token>>
      BY <1>3, TokenKept DEF RestoreHealth, server, AfterHealth
    <2>. QED
      BY <1>0, <2>1 DEF SessionOK
  <1>4. CASE RestoreMe
    <2>1. /\ restore = "me" /\ restore' \in {"done", "drop"} /\ Deliver(RestoreCall)
          /\ user' = IF Outcome(RestoreCall) = "value" THEN call[RestoreCall].auth ELSE user
          /\ Outcome(RestoreCall) = "value" => restore' = "done"
          /\ UNCHANGED <<saved, entering, offer, token>>
      BY <1>4, TokenKept DEF RestoreMe, server
    <2>2. user' # None => restore' = "done" /\ user' = token
      <3>1. CASE Outcome(RestoreCall) = "value"
        BY <1>0, <2>1, <3>1, ValueIsOfSession DEF Deliver
      <3>2. CASE Outcome(RestoreCall) # "value"
        BY <1>0, <2>1, <3>2
      <3>. QED
        BY <3>1, <3>2
    <2>3. user' \in Owner
      BY <1>0, <2>1, <2>2
    <2>4. entering = "no"
      BY <1>0, <2>1
    <2>. QED
      BY <1>0, <2>1, <2>2, <2>3, <2>4 DEF SessionOK
  <1>5. CASE RestoreDrop
    <2>1. /\ restore = "drop" /\ restore' = "done" /\ saved' = None
          /\ UNCHANGED <<user, entering, offer>>
      BY <1>5 DEF RestoreDrop, server
    <2>2. token' = None
      BY <1>0, <1>5 DEF RestoreDrop, SetToken, Session, api
    <2>. QED
      BY <1>0, <2>1, <2>2 DEF SessionOK
  <1>6. CASE Submit \/ SubmitLogin
    <2>1. /\ restore = "done" \/ entering # "no"
          /\ UNCHANGED <<user, saved, restore, offer, token>>
      BY <1>6, TokenKept DEF Submit, SubmitLogin, server, Ready
    <2>. QED
      BY <1>0, <2>1 DEF SessionOK
  <1>7. CASE SignInAnswered
    <2>1. /\ entering # "no" /\ offer' \in {offer, None}
          /\ UNCHANGED <<user, saved, restore, token>>
      BY <1>7, TokenKept DEF SignInAnswered
    <2>. QED
      BY <1>0, <2>1 DEF SessionOK
  <1>8. CASE Enter
    <2>1. /\ entering = "enter" /\ entering' = "no" /\ token' = offer
          /\ saved' = offer /\ user' = offer /\ offer' = None /\ restore' = restore
      BY <1>8 DEF Enter, SetToken, Session
    <2>. QED
      BY <1>0, <2>1 DEF SessionOK
  <1>9. CASE SignOut \/ SignOutAnswered
    <2>1. UNCHANGED <<user, saved, restore, entering, offer, token>>
      BY <1>9, TokenKept DEF SignOut, SignOutAnswered, server
    <2>. QED
      BY <1>0, <2>1 DEF SessionOK
  <1>10. CASE SignedOut
    <2>1. user' = None /\ saved' = None /\ UNCHANGED <<restore, entering, offer>>
      BY <1>10 DEF SignedOut, Forget, server
    <2>2. token' = None
      BY <1>0, <1>10 DEF SignedOut, SetToken, Session, api
    <2>. QED
      BY <1>0, <2>1, <2>2 DEF SessionOK
  <1>11. CASE \E c \in Calls : Expired(c)
    <2>1. user' = None /\ saved' = None /\ token' = None /\ UNCHANGED <<restore, entering, offer>>
      BY <1>11 DEF Expired, Forget, Expire, Session, server
    <2>. QED
      BY <1>0, <2>1 DEF SessionOK
  <1>12. CASE StartRun \/ Reload \/ Disable \/ Unmount \/ \E k \in PageReads : Show(k)
    <2>1. UNCHANGED <<user, saved, restore, entering, offer, token>>
      BY <1>12, TokenKept DEF StartRun, Reload, Disable, Unmount, Show, session, server
    <2>. QED
      BY <1>0, <2>1 DEF SessionOK
  <1>13. CASE Poll \/ \E c \in PageCalls : PageAnswered(c)
    <2>1. UNCHANGED <<user, saved, restore, entering, offer, token>>
      BY <1>13, TokenKept DEF Poll, PageAnswered, session, server
    <2>. QED
      BY <1>0, <2>1 DEF SessionOK
  <1>14. CASE \E c \in Calls : Transport(c)
    <2>1. UNCHANGED <<user, saved, restore, entering, offer, token>>
      BY <1>14, TokenKept DEF Transport, session, server
    <2>. QED
      BY <1>0, <2>1 DEF SessionOK
  <1>15. CASE ServerBootstraps \/ ServerLogsIn
    <2>1. offer' \in Owner /\ UNCHANGED <<user, saved, restore, entering, token>>
      BY <1>0, <1>15 DEF ServerBootstraps, ServerLogsIn, session, api, Owner
    <2>. QED
      BY <1>0, <2>1 DEF SessionOK
  <1>. QED
    BY <1>1, <1>2, <1>3, <1>4, <1>5, <1>6, <1>7, <1>8, <1>9, <1>10, <1>11, <1>12, <1>13,
       <1>14, <1>15 DEF Next, Restore, SignIn, SignsOut

-----------------------------------------------------------------------------
(* The view *)

(* A call under way stays under way and asks the same, until it is          *)
(* delivered.                                                               *)
LiveNext(d) == call'[d].at \notin {"idle", "joined"}
Stays(d) == Live(d) => LiveNext(d) /\ call'[d].key = call[d].key

LEMMA CallsStay ==
  ASSUME Inv
  PROVE  /\ \A c \in Calls, k \in Keys, signal \in BOOLEAN :
              Launch(c, k, signal) \/ Join(c, k) => \A d \in Calls : Stays(d)
         /\ \A c \in Calls : Transport(c) \/ CallerAborts(c) => \A d \in Calls : Stays(d)
         /\ \A c \in Calls : Deliver(c) => \A d \in Calls \ {c} : Stays(d)
  <1>0. TypeOK /\ SlotsCounted
    BY DEF Inv
  <1>1. ASSUME NEW c \in Calls, NEW k \in Keys, NEW signal \in BOOLEAN,
               Launch(c, k, signal) \/ Join(c, k), NEW d \in Calls
        PROVE  Stays(d)
    <2>1. At(c) = "idle" /\ (d # c => call'[d] = call[d])
      BY <1>0, <1>1 DEF Launch, Join, TypeOK
    <2>. QED
      BY <2>1 DEF Stays, LiveNext, Live, At
  <1>2. ASSUME NEW c \in Calls, NEW why \in Why, At(c) \in Pending, Abort(c, why), NEW d \in Calls
        PROVE  Stays(d)
    <2>1. call[c] \in Call /\ At(c) \in {"waiting"} \cup Holding
      BY <1>0, <1>2 DEF TypeOK, Pending, Holding
    <2>2. call'[c] = Aborted(call[c], why) /\ (d # c => call'[d] = call[d])
      BY <1>0, <1>2 DEF Abort, TypeOK
    <2>3. call'[c].key = call[c].key /\ call'[c].at \in {"rejected", "failing"}
      BY <2>1, <2>2, AbortedCall DEF At
    <2>. QED
      BY <2>2, <2>3 DEF Stays, LiveNext, Live, At
  <1>3. ASSUME NEW c \in Calls, Transport(c) \/ CallerAborts(c), NEW d \in Calls PROVE Stays(d)
    <2>1. CASE Proceed(c)
      <3>1. call' = [call EXCEPT ![c].at = "fetching"]
        BY <2>1 DEF Proceed
      <3>2. call[c] \in Call /\ call \in [Calls -> Call]
        BY <1>0 DEF TypeOK
      <3>3. /\ call'[c].at = "fetching" /\ call'[c].key = call[c].key
            /\ d # c => call'[d] = call[d]
        BY <3>1, <3>2 DEF Call
      <3>. QED
        BY <3>3 DEF Stays, LiveNext, Live, At
    <2>2. CASE Settled(c)
      <3>1. PICK r \in Call :
              /\ Release([call EXCEPT ![c] = r]) /\ At(c) \in {"fetching", "failing"}
              /\ r.at \in {"resolved", "rejected"} /\ r.key = call[c].key
        BY <1>0, <2>2, SettledReleases
      <3>2. /\ call'[c] = r
            /\ \A e \in Calls \ {c} :
                 \/ call'[e] = call[e]
                 \/ At(e) = "waiting" /\ call'[e] = [call[e] EXCEPT !.at = "granted"]
        BY <1>0, <3>1, Released
      <3>3. call[d] \in Call
        BY <1>0 DEF TypeOK
      <3>4. CASE d = c
        BY <3>1, <3>2, <3>4 DEF Stays, LiveNext, Live, At
      <3>5. CASE d # c /\ call'[d] = [call[d] EXCEPT !.at = "granted"]
        BY <3>3, <3>5 DEF Stays, LiveNext, Live, At, Call
      <3>6. CASE call'[d] = call[d]
        BY <3>6 DEF Stays, LiveNext, Live, At
      <3>. QED
        BY <3>2, <3>4, <3>5, <3>6
    <2>3. CASE TimerFires(c)
      BY <1>2, <2>3 DEF TimerFires, Timed, Pending, Why
    <2>4. CASE CallerAborts(c)
      BY <1>2, <2>4 DEF CallerAborts, Pending, Why
    <2>. QED
      BY <1>3, <2>1, <2>2, <2>3, <2>4 DEF Transport, Settled
  <1>4. ASSUME NEW c \in Calls, Deliver(c), NEW d \in Calls \ {c} PROVE Stays(d)
    BY <1>0, <1>4, Delivered DEF Stays, LiveNext, Live, At
  <1>. QED
    BY <1>1, <1>3, <1>4

LEMMA LaunchStarts ==
  ASSUME TypeOK, NEW c \in Calls, NEW k, NEW signal, Launch(c, k, signal)
  PROVE  At(c) = "idle" /\ LiveNext(c) /\ call'[c].key = k
  <1>1. call'[c] \in {New(c, k, signal), [New(c, k, signal) EXCEPT !.at = "waiting"]}
    BY DEF Launch, TypeOK
  <1>2. New(c, k, signal).key = k /\ New(c, k, signal).at = "granted"
    BY DEF New
  <1>3. /\ [New(c, k, signal) EXCEPT !.at = "waiting"].key = k
        /\ [New(c, k, signal) EXCEPT !.at = "waiting"].at = "waiting"
    BY DEF New
  <1>4. call'[c].key = k /\ call'[c].at \in {"granted", "waiting"}
    BY <1>1, <1>2, <1>3
  <1>. QED
    BY <1>4 DEF Launch, LiveNext, At

(* A view that stays, stays right while the newest run is under way. *)
LEMMA ViewStays ==
  ASSUME ViewOK, view' = view, user' = user \/ view = Blank,
         view.run # None => Stays(view.run)
  PROVE  ViewOK'
  <1>1. CASE view = Blank
    BY <1>1 DEF ViewOK, Fields, Live, LiveNext, At, Blank, Nothing
  <1>2. CASE user' = user
    <2>1. view.run # None => /\ LiveNext(view.run)
                             /\ view.dep # None => call'[view.run].key = view.dep
      BY DEF ViewOK, Stays
    <2>. QED
      BY <1>2, <2>1 DEF ViewOK, Fields, Live, LiveNext, At
  <1>. QED
    BY <1>1, <1>2

LEMMA BlankIsOK == ASSUME view' = Blank PROVE ViewOK'
  BY DEF ViewOK, Fields, Live, LiveNext, At, Blank, Nothing

LEMMA CleanUpStays ==
  ASSUME Inv, ViewOK, CleanUp PROVE view.run # None => Stays(view.run)
  <1>1. CASE call' = call
    BY <1>1 DEF Stays, LiveNext, Live, At
  <1>2. CASE view.eff # None /\ CallerAborts(view.eff)
    BY <1>2, CallsStay, Constants DEF ViewOK
  <1>. QED
    BY <1>1, <1>2 DEF CleanUp, api

LEMMA ShowOK ==
  ASSUME Inv, ViewOK, NEW k \in PageReads, Show(k) PROVE ViewOK'
  <1>1. /\ user' = user /\ user # None
        /\ view' = [view EXCEPT !.dep = k, !.asking = TRUE, !.eff = None, !.run = None,
                                !.loading = TRUE]
    BY DEF Show, session
  <1>2. view' = [dep |-> k, asking |-> TRUE, eff |-> None, run |-> None,
                 data |-> view.data, loading |-> TRUE]
    BY <1>1 DEF ViewOK, Fields, Live, LiveNext, At
  <1>3. /\ view'.dep = k /\ view'.asking /\ view'.eff = None /\ view'.run = None
        /\ view'.data = view.data /\ view'.loading
    BY <1>2
  <1>4. Fields'
    BY <1>2, <1>3 DEF Fields
  <1>5. view.data # Nothing => view.data.owner = user
    BY DEF ViewOK
  <1>. HIDE DEF Nothing
  <1>. QED
    BY <1>1, <1>3, <1>4, <1>5, Constants DEF ViewOK

LEMMA DisableOK ==
  ASSUME Inv, ViewOK, Disable PROVE ViewOK'
  <1>1. /\ user' = user /\ CleanUp /\ view.dep # None
        /\ view' = [Blank EXCEPT !.run = IF view.run = view.eff THEN None ELSE view.run]
    BY DEF Disable, session
  <1>2. user # None
    BY <1>1 DEF ViewOK, Blank
  <1>3. view' = [dep |-> None, asking |-> FALSE, eff |-> None,
                 run |-> IF view.run = view.eff THEN None ELSE view.run,
                 data |-> Nothing, loading |-> FALSE]
    BY <1>1 DEF Blank
  <1>4. view'.run # None => LiveNext(view.run) /\ view'.run = view.run
    BY <1>1, <1>3, CleanUpStays DEF Stays, ViewOK
  <1>5. view.run \in PageCalls \cup {None}
    BY DEF ViewOK
  <1>6. /\ view'.dep = None /\ ~view'.asking /\ view'.eff = None
        /\ view'.run \in PageCalls \cup {None} /\ view'.data = Nothing /\ ~view'.loading
    BY <1>3, <1>5
  <1>7. Fields'
    BY <1>3, <1>6 DEF Fields
  <1>. QED
    BY <1>1, <1>2, <1>4, <1>6, <1>7 DEF ViewOK, Live, LiveNext, At

(* run(), with the view it starts from. *)
LEMMA AskOK ==
  ASSUME SInv, NEW v, NEW byEffect, Ask(v, byEffect), user' = user, view.dep # None,
         v = [view EXCEPT !.asking = FALSE] \/ (v = view /\ ~view.asking)
  PROVE  ViewOK'
  <1>0. Inv /\ ViewOK /\ SessionOK /\ user # None /\ user = token
    BY DEF SInv, ViewOK, SessionOK, Blank
  <1>1. v = [dep |-> view.dep, asking |-> FALSE, eff |-> view.eff, run |-> view.run,
             data |-> view.data, loading |-> view.loading]
    BY <1>0 DEF ViewOK, Fields, Live, LiveNext, At
  <1>2. CASE Cached(v.dep)
    <2>1. view' = [v EXCEPT !.data = Kept(v.dep), !.loading = FALSE, !.run = None]
      BY <1>2 DEF Ask
    <2>2. view' = [dep |-> view.dep, asking |-> FALSE, eff |-> view.eff, run |-> None,
                   data |-> Kept(view.dep), loading |-> FALSE]
      BY <1>1, <2>1
    <2>3. Kept(view.dep).key = view.dep /\ Kept(view.dep).owner = token
      <3> DEFINE i == CHOOSE j \in DOMAIN immutable : immutable[j].key = view.dep
      <3>1. i \in DOMAIN immutable
        BY <1>1, <1>2 DEF Cached
      <3>2. immutable[i].owner = token
        BY <1>0, <3>1 DEF Inv, Isolated, SessionIsolation
      <3>3. Kept(view.dep) = [key |-> view.dep, owner |-> immutable[i].owner]
        BY DEF Kept
      <3>. HIDE DEF i
      <3>. QED
        BY <3>2, <3>3
    <2>. QED
      BY <1>0, <2>2, <2>3 DEF ViewOK, Fields, Live, LiveNext, At
  <1>3. CASE ~Cached(v.dep)
    <2>1. PICK c \in PageCalls :
            /\ Launch(c, v.dep, TRUE)
            /\ view' = [v EXCEPT !.run = c, !.loading = TRUE,
                                 !.eff = IF byEffect THEN c ELSE view.eff]
      BY <1>3 DEF Ask
    <2>2. view' = [dep |-> view.dep, asking |-> FALSE,
                   eff |-> IF byEffect THEN c ELSE view.eff, run |-> c,
                   data |-> view.data, loading |-> TRUE]
      BY <1>1, <2>1
    <2>3. LiveNext(c) /\ call'[c].key = view.dep
      BY <1>0, <1>1, <2>1, LaunchStarts, Constants DEF Inv
    <2>4. /\ view'.dep = view.dep /\ ~view'.asking /\ view'.run = c
          /\ view'.eff \in PageCalls \cup {None}
          /\ view'.data = view.data /\ view'.loading
      BY <1>0, <2>1, <2>2 DEF ViewOK
    <2>5. Fields'
      BY <2>2, <2>4 DEF Fields
    <2>6. view.data # Nothing => view.data.owner = user
      BY <1>0 DEF ViewOK
    <2>. HIDE DEF Nothing
    <2>. QED
      BY <1>0, <2>1, <2>3, <2>4, <2>5, <2>6 DEF ViewOK, Live, LiveNext, At
  <1>. QED
    BY <1>2, <1>3

LEMMA AnsweredOK ==
  ASSUME SInv, NEW c \in PageCalls, PageAnswered(c) PROVE ViewOK'
  <1> DEFINE eff == IF view.eff = c THEN None ELSE view.eff
             run == IF view.run = c THEN None ELSE view.run
             v == [view EXCEPT !.eff = eff, !.run = run]
  <1>0. /\ Inv /\ ViewOK /\ SessionOK /\ user' = user /\ Deliver(c)
        /\ c \in Calls /\ c # None
    BY Constants DEF SInv, PageAnswered, session
  <1>1. v = [dep |-> view.dep, asking |-> view.asking, eff |-> eff, run |-> run,
             data |-> view.data, loading |-> view.loading]
    <2>1. v = [view EXCEPT !.eff = eff, !.run = run]
      OBVIOUS
    <2>. HIDE DEF v, eff, run
    <2>. QED
      BY <1>0, <2>1 DEF ViewOK, Fields
  <1>2. run # None => /\ LiveNext(run)
                      /\ view.dep # None => call'[run].key = view.dep
    <2>1. SUFFICES ASSUME run # None PROVE Stays(view.run) /\ run = view.run
      BY DEF ViewOK, Stays, SInv
    <2>2. view.run \in Calls \ {c} /\ run = view.run
      BY <1>0, <2>1, Constants DEF ViewOK
    <2>. QED
      BY <1>0, <2>2, CallsStay
  <1>3. eff \in PageCalls \cup {None} /\ run \in PageCalls \cup {None}
    BY <1>0 DEF ViewOK
  <1>4. CASE Newest(c) /\ Outcome(c) # "aborted"
    <2>1. view' = Showing(v, c) /\ view.run = c
      BY <1>4 DEF PageAnswered, Newest
    <2> DEFINE d == IF Outcome(c) = "value"
                    THEN [key |-> call[c].key, owner |-> call[c].auth] ELSE Nothing
    <2>2. view' = [dep |-> view.dep, asking |-> view.asking, eff |-> eff, run |-> run,
                   data |-> d, loading |-> FALSE]
      BY <1>1, <2>1 DEF Showing
    <2>3. user # None /\ user = token
      BY <1>0, <2>1 DEF ViewOK, SessionOK, Blank
    <2>4. d # Nothing => d.owner = user /\ (view.dep # None => d.key = view.dep)
      <3>1. SUFFICES ASSUME d # Nothing PROVE d.owner = user /\ (view.dep # None => d.key = view.dep)
        OBVIOUS
      <3>2. Outcome(c) = "value" /\ d = [key |-> call[c].key, owner |-> call[c].auth]
        BY <3>1
      <3>3. call[c].auth = user
        BY <1>0, <2>3, <3>2, ValueIsOfSession DEF Deliver
      <3>4. view.dep # None => call[c].key = view.dep
        BY <1>0, <2>1 DEF ViewOK
      <3>. QED
        BY <3>2, <3>3, <3>4
    <2>. HIDE DEF d, eff, run
    <2>. QED
      BY <1>0, <1>2, <1>3, <2>2, <2>3, <2>4 DEF ViewOK, Fields, Live, LiveNext, At
  <1>5. CASE ~(Newest(c) /\ Outcome(c) # "aborted")
    <2>1. view' = v
      BY <1>5 DEF PageAnswered
    <2>2. user = None => v = view
      <3>1. user = None => view = Blank
        BY <1>0 DEF ViewOK
      <3>. QED
        BY <1>0, <1>1, <3>1 DEF Blank
    <2>. HIDE DEF eff, run, v
    <2>. QED
      BY <1>0, <1>1, <1>2, <1>3, <2>1, <2>2 DEF ViewOK, Fields, Live, LiveNext, At
  <1>. QED
    BY <1>4, <1>5

LEMMA ViewKept ==
  ASSUME SInv, Next PROVE ViewOK'
  <1>0. Inv /\ SessionOK /\ ViewOK /\ TypeOK
    BY DEF SInv, Inv
  <1>a. user = None => view = Blank
    BY <1>0 DEF ViewOK
  <1>b. view.run \in PageCalls \cup {None}
    BY <1>0 DEF ViewOK
  (* A step of the session's own calls. *)
  <1>c. ASSUME NEW c \in Calls \ PageCalls, Deliver(c), view' = view, user' = user \/ view = Blank
        PROVE  ViewOK'
    BY <1>0, <1>b, <1>c, CallsStay, ViewStays, Constants
  <1>d. ASSUME NEW c \in Calls, NEW k, NEW signal \in BOOLEAN, Launch(c, k, signal),
               view' = view, user' = user
        PROVE  ViewOK'
    <2>1. k \in Keys
      BY <1>d DEF Launch
    <2>. QED
      BY <1>0, <1>b, <1>d, <2>1, CallsStay, ViewStays, Constants
  (* A change of the session: nobody was signed in, or nothing is shown. *)
  <1>e. ASSUME view = Blank \/ view' = Blank, view' = view \/ view' = Blank PROVE ViewOK'
    BY <1>e, BlankIsOK
  <1>1. CASE RestoreToken \/ RestoreDrop
    <2>1. restore \in {"start", "drop"} /\ view' = view
      BY <1>1 DEF RestoreToken, RestoreDrop
    <2>. QED
      BY <1>0, <1>a, <1>e, <2>1 DEF SessionOK
  <1>2. CASE RestoreAsk
    <2>1. /\ view' = view /\ user' = user
          /\ Launch(RestoreCall, Health, TRUE) \/ Launch(RestoreCall, Me, TRUE)
      BY <1>2 DEF RestoreAsk
    <2>. QED
      BY <1>d, <2>1, Constants
  <1>3. CASE RestoreHealth \/ SignInAnswered \/ SignOutAnswered
    <2>1. /\ view' = view /\ user' = user
          /\ Deliver(RestoreCall) \/ Deliver(SignInCall) \/ Deliver(SignOutCall)
      BY <1>3 DEF RestoreHealth, SignInAnswered, SignOutAnswered
    <2>. QED
      BY <1>c, <2>1, Constants
  <1>4. CASE RestoreMe
    <2>1. view' = view /\ restore = "me"
      BY <1>4 DEF RestoreMe
    <2>. QED
      BY <1>0, <1>a, <1>e, <2>1 DEF SessionOK
  <1>5. CASE Submit \/ SubmitLogin \/ SignOut
    <2>1. /\ view' = view /\ user' = user
          /\ \E k : Launch(SignInCall, k, FALSE) \/ Launch(SignOutCall, k, FALSE)
      BY <1>5 DEF Submit, SubmitLogin, SignOut
    <2>. QED
      BY <1>d, <2>1, Constants
  <1>6. CASE Enter \/ SignedOut \/ Unmount \/ \E c \in Calls : Expired(c)
    <2>1. view' = Blank
      BY <1>6 DEF Enter, SignedOut, Unmount, Expired, Forget
    <2>. QED
      BY <2>1, BlankIsOK
  <1>7. CASE StartRun
    <2>1. PICK v : v = [view EXCEPT !.asking = FALSE]
      OBVIOUS
    <2>2. Ask(v, TRUE) /\ user' = user /\ view.dep # None
      BY <1>0, <1>7, <2>1 DEF StartRun, session, ViewOK
    <2>. QED
      BY <2>1, <2>2, AskOK
  <1>8. CASE Reload
    <2>1. Ask(view, FALSE) /\ user' = user /\ view.dep # None /\ ~view.asking
      BY <1>8 DEF Reload, session
    <2>. QED
      BY <2>1, AskOK
  <1>9. CASE \E k \in PageReads : Show(k)
    BY <1>0, <1>9, ShowOK
  <1>10. CASE Disable
    BY <1>0, <1>10, DisableOK
  <1>11. CASE Poll
    <2>1. PICK c \in PageCalls, k \in Polled : Join(c, k) \/ Launch(c, k, FALSE)
      BY <1>11 DEF Poll
    <2>2. k \in Keys /\ c \in Calls /\ FALSE \in BOOLEAN /\ view' = view /\ user' = user
      BY <1>11, <2>1, Constants, SessionAssumption DEF Poll, session, Keys
    <2>3. view.run # None => Stays(view.run)
      BY <1>0, <1>b, <2>1, <2>2, CallsStay, Constants
    <2>. QED
      BY <1>0, <2>2, <2>3, ViewStays
  <1>12. CASE \E c \in PageCalls : PageAnswered(c)
    BY <1>12, AnsweredOK
  <1>13. CASE \E c \in Calls : Transport(c)
    <2>1. view' = view /\ user' = user
      BY <1>13 DEF Transport, session
    <2>2. view.run # None => Stays(view.run)
      BY <1>0, <1>b, <1>13, CallsStay, Constants
    <2>. QED
      BY <1>0, <2>1, <2>2, ViewStays
  <1>14. CASE ServerBootstraps \/ ServerLogsIn
    <2>1. view' = view /\ user' = user /\ call' = call
      BY <1>14 DEF ServerBootstraps, ServerLogsIn, session, api
    <2>2. view.run # None => Stays(view.run)
      BY <2>1 DEF Stays, LiveNext, Live, At
    <2>. QED
      BY <1>0, <2>1, <2>2, ViewStays
  <1>. QED
    BY <1>1, <1>2, <1>3, <1>4, <1>5, <1>6, <1>7, <1>8, <1>9, <1>10, <1>11, <1>12, <1>13,
       <1>14 DEF Next, Restore, SignIn, SignsOut

-----------------------------------------------------------------------------
(* The theorems *)

LEMMA SInvInit == Init => SInv
  <1> SUFFICES ASSUME Init PROVE SInv
    OBVIOUS
  <1>1. Inv
    BY InvInit DEF Init, Loaded
  <1>2. SessionOK
    BY Constants DEF Init, Loaded, ApiInit, SessionOK
  <1>3. ViewOK
    BY DEF Init, Loaded, Blank, ViewOK, Fields, Nothing
  <1>. QED
    BY <1>1, <1>2, <1>3 DEF SInv

LEMMA SInvStep == SInv /\ [Next]_vars => SInv'
  <1>1. ASSUME SInv, Next PROVE SInv'
    BY <1>1, ApiInvKept, SessionKept, ViewKept DEF SInv
  <1>2. ASSUME SInv, UNCHANGED vars PROVE SInv'
    <2>1. Inv'
      BY <1>2, ApiInvKept
    <2>2. UNCHANGED <<user, saved, restore, entering, offer, token, view, call>>
      BY <1>2 DEF vars, session, server, api
    <2>3. SessionOK'
      BY <1>2, <2>2 DEF SInv, SessionOK
    <2>4. view.run # None => Stays(view.run)
      BY <2>2 DEF Stays, LiveNext, Live, At
    <2>5. ViewOK'
      BY <1>2, <2>2, <2>4, ViewStays DEF SInv
    <2>. QED
      BY <2>1, <2>3, <2>5 DEF SInv
  <1>. QED
    BY <1>1, <1>2

(* The invariant holds whatever restores, sign-ins, sign-outs, expiries and *)
(* answers come in whatever order (auth.jsx, useResource.js).               *)
THEOREM SessionInvariant == Spec => []SInv
  BY SInvInit, SInvStep, PTL DEF Spec

(* Whoever the interface shows as signed in is whose token requests carry   *)
(* and the tab would restore (auth.jsx:13-58).                              *)
THEOREM Agreement == Spec => []SessionAgrees
  <1>1. SInv => SessionAgrees
    <2> SUFFICES ASSUME SInv PROVE SessionAgrees
      OBVIOUS
    <2>1. view.dep # None => view # Blank
      BY DEF Blank
    <2>. QED
      BY <2>1 DEF SInv, SessionOK, ViewOK, SessionAgrees
  <1>. QED
    BY <1>1, SessionInvariant, PTL

(* What a page shows is what it asked for last, in the session shown        *)
(* (useResource.js:6-8).                                                    *)
THEOREM Shown == Spec => []ShownIsAsked
  <1>1. SInv => ShownIsAsked
    BY DEF SInv, ViewOK, ShownIsAsked
  <1>. QED
    BY <1>1, SessionInvariant, PTL

(* The request layer keeps its promises under the pages (api.js): what is   *)
(* proved of it holds of the client.                                        *)
THEOREM ClientIsApi == Spec => ApiSpec
  <1>1. Init => ApiInit
    BY DEF Init, Loaded
  <1>2. SInv /\ [Next]_vars => [ApiNext]_api
    BY StepIsApi DEF vars
  <1>. QED
    BY <1>1, <1>2, SessionInvariant, PTL DEF Spec, ApiSpec
=============================================================================
