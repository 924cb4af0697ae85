------------------------------ MODULE ApiClient ------------------------------
(***************************************************************************)
(* The request layer of the React client, client/src/lib/api.js: at most   *)
(* MaxConcurrent requests at a time, a queue for the others, answers kept  *)
(* for what never changes, reads in flight shared, and everything bound to *)
(* the login session it was asked in.                                      *)
(*                                                                         *)
(* An action is a stretch of JavaScript that runs without an await.  A     *)
(* call is one use of request(): its controller, its timer and its place   *)
(* in raw() are the record call[c].  A cached answer is handed over before *)
(* anything else runs, so it needs no call: see Cached.                    *)
(***************************************************************************)
EXTENDS Naturals, Sequences, FiniteSets, SequencesExt

CONSTANTS Calls,           \* the requests that may be outstanding together
          Reads,           \* GET paths
          Immutable,       \* those asked with a cacheKey
          Changes,         \* POST paths
          Tokens,          \* session tokens the server hands out
          None,            \* null
          MaxConcurrent,   \* MAX_CONCURRENT
          MaxCache,        \* MAX_CACHE
          MaxEpoch         \* bound: how often the session may change

ASSUME ApiAssumption ==
  /\ IsFiniteSet(Calls) /\ None \notin Tokens
  /\ Immutable \subseteq Reads /\ Reads # {} /\ Reads \cap Changes = {}
  /\ MaxConcurrent \in Nat \ {0} /\ MaxCache \in Nat \ {0} /\ MaxEpoch \in Nat

VARIABLES token,      \* the session in use, None when signed out
          epoch,      \* counts changes of the session
          active,     \* slots taken
          waiting,    \* calls queued for a slot
          immutable,  \* cached answers, oldest first, with whose they are
          inflight,   \* shared reads by scope and path
          call

api == <<token, epoch, active, waiting, immutable, inflight, call>>

-----------------------------------------------------------------------------

Keys == Reads \cup Changes
Owner == Tokens \cup {None}

(* idle: not in use.  waiting: awaiting a slot.  granted: has a slot, about *)
(* to fetch.  fetching: the request is out.  failing: has a slot and its    *)
(* controller is aborted.  resolved, rejected: raw() is over, its slot is   *)
(* back, the promise of request() not settled yet.  joined: shares the      *)
(* promise of another call.                                                 *)
CallAt == {"idle", "waiting", "granted", "fetching", "failing", "resolved",
           "rejected", "joined"}
Holding == {"granted", "fetching", "failing"}
Why == {"none", "aborted", "failed"}

(* signal: the caller can cancel, so the call is shared with no one.  why:  *)
(* what it will be rejected with, an AbortError or an ApiError.             *)
Call == [at : CallAt, key : Keys, signal : BOOLEAN, scope : 0..MaxEpoch,
         auth : Owner, why : Why, via : Calls]

Entry == [key : Immutable, owner : Owner]

TypeOK == /\ token \in Owner
          /\ epoch \in 0..MaxEpoch
          /\ active \in Nat
          /\ waiting \in Seq(Calls)
          /\ immutable \in Seq(Entry)
          /\ inflight \in SUBSET [scope : 0..MaxEpoch, key : Reads, call : Calls]
          /\ call \in [Calls -> Call]

At(c) == call[c].at

Idle(c) == [at |-> "idle", key |-> CHOOSE k \in Keys : TRUE, signal |-> FALSE,
            scope |-> 0, auth |-> None, why |-> "none", via |-> c]

ApiInit == /\ token = None /\ epoch = 0 /\ active = 0 /\ waiting = <<>>
           /\ immutable = <<>> /\ inflight = {}
           /\ call = [c \in Calls |-> Idle(c)]

-----------------------------------------------------------------------------
(* request(path, opts) *)

Cached(k) == \E i \in DOMAIN immutable : immutable[i].key = k

(* The key of a shared read carries the scope. *)
Shared(k) == {e \in inflight : e.scope = epoch /\ e.key = k}

New(c, k, signal) == [at |-> "granted", key |-> k, signal |-> signal, scope |-> epoch,
                      auth |-> token, why |-> "none", via |-> c]

(* A read without a signal joins the one in flight. *)
Join(c, k) ==
  /\ At(c) = "idle" /\ k \in Reads \ Immutable
  /\ \E e \in Shared(k) :
       call' = [call EXCEPT ![c] = [New(c, k, FALSE) EXCEPT !.at = "joined",
                                                           !.via = e.call]]
  /\ UNCHANGED <<token, epoch, active, waiting, immutable, inflight>>

(* acquire(): a slot at once, or a place at the end of the queue.           *)
SlotFree == active < MaxConcurrent

Launch(c, k, signal) ==
  /\ At(c) = "idle" /\ k \in Keys
  /\ k \in Immutable => signal /\ ~Cached(k)
  /\ k \in Reads /\ ~signal => Shared(k) = {}
  /\ IF SlotFree
     THEN /\ active' = active + 1 /\ UNCHANGED waiting
          /\ call' = [call EXCEPT ![c] = New(c, k, signal)]
     ELSE /\ waiting' = Append(waiting, c) /\ UNCHANGED active
          /\ call' = [call EXCEPT ![c] = [New(c, k, signal) EXCEPT !.at = "waiting"]]
  /\ inflight' = IF k \in Reads /\ ~signal
                 THEN inflight \cup {[scope |-> epoch, key |-> k, call |-> c]}
                 ELSE inflight
  /\ UNCHANGED <<token, epoch, immutable>>

-----------------------------------------------------------------------------
(* raw(path, opts, authToken, scope) *)

Proceed(c) ==
  /\ At(c) = "granted"
  /\ call' = [call EXCEPT ![c].at = "fetching"]
  /\ UNCHANGED <<token, epoch, active, waiting, immutable, inflight>>

(* release(): the slot passes to the head of the queue.  `settled` is the   *)
(* call table without the hand-over.  The mutated form wakes no one.        *)
ReleaseWakingNoOne(settled) ==
  /\ active' = active - 1 /\ call' = settled /\ UNCHANGED waiting

Release(settled) ==
  IF waiting = <<>>
  THEN active' = active - 1 /\ call' = settled /\ UNCHANGED waiting
  ELSE /\ UNCHANGED active
       /\ waiting' = Tail(waiting)
       /\ call' = [settled EXCEPT ![Head(waiting)].at = "granted"]

(* A good answer, parsed. *)
Answer(c) ==
  /\ At(c) = "fetching"
  /\ Release([call EXCEPT ![c].at = "resolved"])
  /\ UNCHANGED <<token, epoch, immutable, inflight>>

(* A refusal, or the service cannot be reached. *)
Refuse(c) ==
  /\ At(c) = "fetching"
  /\ Release([call EXCEPT ![c].at = "rejected", ![c].why = "failed"])
  /\ UNCHANGED <<token, epoch, immutable, inflight>>

(* An aborted controller rejects the fetch, or is noticed before it. *)
Fail(c) ==
  /\ At(c) = "failing"
  /\ Release([call EXCEPT ![c].at = "rejected"])
  /\ UNCHANGED <<token, epoch, immutable, inflight>>

(* controller.abort(): a queued call leaves the queue, a call with a slot   *)
(* fails at its next step.                                                  *)
Aborted(r, why) ==
  CASE r.at = "waiting" -> [r EXCEPT !.at = "rejected", !.why = why]
    [] r.at \in Holding -> [r EXCEPT !.at = "failing", !.why = why]
    [] OTHER -> r

Place(c) == CHOOSE i \in DOMAIN waiting : waiting[i] = c
Without(c) == IF At(c) = "waiting" THEN RemoveAt(waiting, Place(c)) ELSE waiting

Abort(c, why) ==
  /\ call' = [call EXCEPT ![c] = Aborted(call[c], why)]
  /\ waiting' = Without(c)
  /\ UNCHANGED <<token, epoch, active, immutable, inflight>>

(* The timer also runs while the call is queued.  It cannot go off between  *)
(* a grant and the fetch, nor between an abort and the failure it causes:   *)
(* both take no longer than the microtasks of one turn.                     *)
(* The mutated form covers the queue alone.                                 *)
TimedQueued == {"waiting"}
Timed == {"waiting", "fetching"}

TimerFires(c) == At(c) \in Timed /\ Abort(c, "failed")

CallerAborts(c) ==
  /\ call[c].signal /\ At(c) \in {"waiting", "granted", "fetching"}
  /\ Abort(c, "aborted")

-----------------------------------------------------------------------------
(* setToken(t) *)

AbortedAll == [c \in Calls |-> IF At(c) = "failing" THEN call[c]
                               ELSE Aborted(call[c], "aborted")]

Session(t) == token' = t /\ epoch' = epoch + 1

(* The mutated form keeps the answers of the session that ends. *)
DropCacheNot == immutable' = immutable
DropCache == immutable' = <<>>

SetToken(t) ==
  /\ t # token /\ epoch < MaxEpoch /\ Session(t)
  /\ call' = AbortedAll /\ waiting' = <<>>
  /\ DropCache /\ inflight' = {}
  /\ UNCHANGED active

(* A 401 for a session: the listener of chocobofix:session-expired signs    *)
(* out before raw() throws and gives its slot back; nobody waits by then.   *)
Expire(c) ==
  /\ At(c) = "fetching" /\ call[c].auth # None /\ epoch < MaxEpoch
  /\ Session(None) /\ DropCache /\ inflight' = {} /\ waiting' = <<>>
  /\ active' = active - 1
  /\ call' = [AbortedAll EXCEPT ![c].at = "rejected", ![c].why = "failed"]

-----------------------------------------------------------------------------
(* The continuation of raw() in request(). *)

(* Whether the promise is fulfilled. *)
Fulfilled(c) == At(c) = "resolved" /\ call[c].scope = epoch

(* The mutated form leaves a settled read in the table of those in flight. *)
StillInFlightAll(c) == inflight
StillInFlight(c) == {e \in inflight : e.call # c}

Evicted(s) == IF Len(s) >= MaxCache THEN Tail(s) ELSE s

(* Map.set keeps the place of a key it has. *)
Put(s, e) == IF \E i \in DOMAIN s : s[i].key = e.key
             THEN [i \in DOMAIN s |-> IF s[i].key = e.key THEN e ELSE s[i]]
             ELSE Append(s, e)

(* What the caller's await gets. *)
Outcome(c) == IF Fulfilled(c) THEN "value"
              ELSE IF At(c) = "resolved" THEN "aborted" ELSE call[c].why

(* Settles the promise, for the caller and for everyone who joined it. *)
Deliver(c) ==
  /\ At(c) \in {"resolved", "rejected"}
  /\ immutable' = IF Fulfilled(c) /\ call[c].key \in Immutable
                  THEN Put(Evicted(immutable), [key |-> call[c].key, owner |-> call[c].auth])
                  ELSE immutable
  /\ inflight' = StillInFlight(c)
  /\ call' = [d \in Calls |-> IF d = c \/ (At(d) = "joined" /\ call[d].via = c)
                              THEN Idle(d) ELSE call[d]]
  /\ UNCHANGED <<token, epoch, active, waiting>>

-----------------------------------------------------------------------------

ApiStep(c) == \/ Proceed(c) \/ Answer(c) \/ Refuse(c) \/ Fail(c) \/ TimerFires(c)
              \/ CallerAborts(c) \/ Expire(c) \/ Deliver(c)

ApiNext == \/ \E c \in Calls, k \in Keys, signal \in BOOLEAN :
                Join(c, k) \/ Launch(c, k, signal)
           \/ \E c \in Calls : ApiStep(c)
           \/ \E t \in Owner : SetToken(t)

ApiSpec == ApiInit /\ [][ApiNext]_api

-----------------------------------------------------------------------------
(* Properties *)

Holders == {c \in Calls : At(c) \in Holding}

(* Every slot taken is held by one call that will give it back, no more     *)
(* than MaxConcurrent, and the queue holds the calls that wait, each once   *)
(* (acquire and release, api.js:19-33).  Nobody waits while a slot is free, *)
(* whatever was cancelled, timed out or signed out in between.              *)
SlotsCounted ==
  /\ active = Cardinality(Holders) /\ active <= MaxConcurrent
  /\ \A c \in Calls : At(c) = "waiting" <=> \E i \in DOMAIN waiting : waiting[i] = c
  /\ \A i, j \in DOMAIN waiting : waiting[i] = waiting[j] => i = j
  /\ waiting # <<>> => active = MaxConcurrent

(* "Isolates cached data and pending requests by login session"             *)
(* (docs/REVIEW_2026_09_19.md:11): what is kept, shared, queued or sent     *)
(* belongs to the session in use, and carries its credentials.              *)
SessionIsolation ==
  /\ \A i \in DOMAIN immutable : immutable[i].owner = token
  /\ \A e \in inflight : e.scope = epoch
  /\ \A c \in Calls : At(c) \in {"waiting", "granted", "fetching"}
       => call[c].scope = epoch /\ call[c].auth = token

(* Who shares a promise shares it with a call nobody can cancel, that has   *)
(* not settled yet, that asked the same in the same session.                *)
JoinersAreServed ==
  \A c \in Calls : At(c) = "joined" =>
    LET d == call[call[c].via] IN
    /\ d.at \notin {"idle", "joined"} /\ ~d.signal
    /\ d.key = call[c].key /\ d.scope = call[c].scope /\ d.auth = call[c].auth

(* Every request settles, though the server may never answer: the timer     *)
(* covers the wait for a slot too (api.js:53).                              *)
RequestsSettle == \A c \in Calls : At(c) # "idle" ~> At(c) = "idle"
=============================================================================
