--------------------------- MODULE ApiClientProofs ---------------------------
(***************************************************************************)
(* Proofs about the request layer, for every number of calls and slots,    *)
(* every set of paths and sessions and every size of the cache.            *)
(***************************************************************************)
EXTENDS ApiClient, Queues, SequenceTheorems, FiniteSetTheorems, TLAPS

-----------------------------------------------------------------------------
(* The cache *)

(* Keeping an answer puts nothing else into the cache. *)
LEMMA PutKeepsElements ==
  ASSUME NEW S, NEW s \in Seq(S), NEW e \in S
  PROVE  Put(Evicted(s), e) \in Seq(S)
  <1> DEFINE t == Evicted(s)
  <1>1. t \in Seq(S)
    <2>1. CASE Len(s) >= MaxCache
      <3>1. s # <<>>
        BY <2>1, ApiAssumption, EmptySeq
      <3>2. Tail(s) \in Seq(S)
        BY <3>1, HeadTailProperties
      <3>. QED
        BY <2>1, <3>2 DEF Evicted
    <2>2. CASE ~(Len(s) >= MaxCache)
      BY <2>2 DEF Evicted
    <2>. QED
      BY <2>1, <2>2
  <1> HIDE DEF t
  <1>2. Len(t) \in Nat /\ DOMAIN t = 1..Len(t) /\ \A i \in 1..Len(t) : t[i] \in S
    BY <1>1, ElementOfSeq, LenProperties
  <1>3. [i \in DOMAIN t |-> IF t[i].key = e.key THEN e ELSE t[i]] \in [1..Len(t) -> S]
    BY <1>2
  <1>4. [i \in DOMAIN t |-> IF t[i].key = e.key THEN e ELSE t[i]] \in Seq(S)
    BY <1>2, <1>3, SeqDef
  <1>5. Append(t, e) \in Seq(S)
    BY <1>1, AppendProperties
  <1>6. Put(t, e) \in Seq(S)
    BY <1>4, <1>5 DEF Put
  <1>. QED
    BY <1>6 DEF t

-----------------------------------------------------------------------------
(* The inductive invariant.  Slots are counted and joiners served only      *)
(* because what is in flight is a call nobody can cancel, of this session.  *)

Live(c) == At(c) \notin {"idle", "joined"}

SharedAreLive ==
  \A e \in inflight : /\ Live(e.call) /\ ~call[e.call].signal
                      /\ call[e.call].key = e.key
                      /\ call[e.call].scope = e.scope /\ call[e.call].auth = token

ScopeIsAuth ==
  \A c \in Calls : Live(c) =>
    /\ call[c].scope <= epoch
    /\ call[c].scope = epoch => call[c].auth = token

Isolated == SessionIsolation /\ SharedAreLive /\ ScopeIsAuth

Inv == TypeOK /\ SlotsCounted /\ Isolated /\ JoinersAreServed

(* A call that starts is well formed. *)
LEMMA NewCall ==
  ASSUME TypeOK, NEW c \in Calls, NEW k \in Keys, NEW signal \in BOOLEAN,
         NEW at \in CallAt, NEW d \in Calls
  PROVE  /\ New(c, k, signal) \in Call
         /\ [New(c, k, signal) EXCEPT !.at = at] \in Call
         /\ [New(c, k, signal) EXCEPT !.at = at, !.via = d] \in Call
  BY DEF TypeOK, New, Call, CallAt, Why, Keys, Owner

(* So is one that is done with. *)
LEMMA IdleCall ==
  ASSUME NEW c \in Calls PROVE Idle(c) \in Call
  <1>1. (CHOOSE k \in Keys : TRUE) \in Keys
    BY ApiAssumption DEF Keys
  <1>2. 0 \in 0..MaxEpoch
    BY ApiAssumption
  <1>. QED
    BY <1>1, <1>2 DEF Idle, Call, CallAt, Why, Owner

(* The holders are finitely many. *)
LEMMA FiniteHolders ==
  /\ IsFiniteSet(Holders) /\ Cardinality(Holders) \in Nat
  /\ \A c \in Calls : At(c) \notin Holding =>
       Cardinality(Holders \cup {c}) = Cardinality(Holders) + 1
  /\ \A c \in Calls : At(c) \in Holding =>
       Cardinality(Holders \ {c}) = Cardinality(Holders) - 1
  <1>1. Holders \in SUBSET Calls
    BY DEF Holders
  <1>2. IsFiniteSet(Holders)
    BY <1>1, FS_Subset, ApiAssumption
  <1>3. ASSUME NEW c \in Calls
        PROVE  (c \in Holders <=> At(c) \in Holding)
    BY DEF Holders
  <1>. QED
    BY <1>2, <1>3, FS_AddElement, FS_RemoveElement, FS_CardinalityType

(* SlotsCounted, with the queue as a set. *)
LEMMA SlotsCountedMeans ==
  SlotsCounted <=> /\ active = Cardinality(Holders) /\ active <= MaxConcurrent
                   /\ \A c \in Calls : At(c) = "waiting" <=> In(c, waiting)
                   /\ Distinct(waiting)
                   /\ waiting # <<>> => active = MaxConcurrent
  BY DEF SlotsCounted, In, Distinct

(* What giving a slot back does: the caller that settles, r, and the head   *)
(* of the queue.                                                            *)
LEMMA Released ==
  ASSUME TypeOK, SlotsCounted, NEW c \in Calls, At(c) \in {"fetching", "failing"},
         NEW r \in Call, r.at \in {"resolved", "rejected"},
         Release([call EXCEPT ![c] = r])
  PROVE  /\ active' \in Nat /\ waiting' \in Seq(Calls) /\ call' \in [Calls -> Call]
         /\ SlotsCounted'
         /\ call'[c] = r
         /\ \A d \in Calls \ {c} :
              \/ call'[d] = call[d]
              \/ At(d) = "waiting" /\ call'[d] = [call[d] EXCEPT !.at = "granted"]
  <1>1. /\ active \in Nat /\ waiting \in Seq(Calls) /\ call \in [Calls -> Call]
        /\ active = Cardinality(Holders) /\ active <= MaxConcurrent
        /\ \A d \in Calls : At(d) = "waiting" <=> In(d, waiting)
        /\ Distinct(waiting) /\ (waiting # <<>> => active = MaxConcurrent)
    BY SlotsCountedMeans DEF TypeOK
  <1>2. At(c) \in Holding /\ Cardinality(Holders \ {c}) = Cardinality(Holders) - 1
        /\ Cardinality(Holders) \in Nat
    BY FiniteHolders DEF Holding
  <1>3. CASE waiting = <<>>
    <2>1. active' = active - 1 /\ waiting' = waiting /\ call' = [call EXCEPT ![c] = r]
      BY <1>3 DEF Release
    <2>2. /\ call' \in [Calls -> Call] /\ call'[c] = r
          /\ \A d \in Calls \ {c} : call'[d] = call[d]
      BY <1>1, <2>1
    <2>3. Holders' = Holders \ {c}
      BY <2>2 DEF Holders, At, Holding
    <2>4. active' = Cardinality(Holders') /\ active' <= MaxConcurrent /\ active' \in Nat
      <3>1. Cardinality(Holders') = Cardinality(Holders) - 1
        BY <1>2, <2>3
      <3>2. Cardinality(Holders \ {c}) \in Nat
        <4>1. IsFiniteSet(Holders \ {c})
          BY FiniteHolders, FS_RemoveElement
        <4>. QED
          BY <4>1, FS_CardinalityType
      <3>. QED
        BY <1>1, <1>2, <2>1, <3>1, <3>2, ApiAssumption
    <2>5. \A d \in Calls : call'[d].at = "waiting" <=> In(d, waiting)
      BY <1>1, <2>2 DEF At
    <2>6. SlotsCounted'
      BY <1>1, <1>3, <2>1, <2>4, <2>5 DEF SlotsCounted, At, In, Distinct
    <2>. QED
      BY <1>1, <2>1, <2>2, <2>4, <2>6
  <1>4. CASE waiting # <<>>
    <2> DEFINE h == Head(waiting)
    <2>1. /\ Tail(waiting) \in Seq(Calls) /\ h \in Calls /\ Distinct(Tail(waiting))
          /\ \A x : In(x, Tail(waiting)) <=> In(x, waiting) /\ x # h
      BY <1>1, <1>4, TailOfQueue
    <2>2. In(h, waiting)
      <3>1. 1 \in DOMAIN waiting /\ waiting[1] = h
        BY <1>1, <1>4, EmptySeq, HeadTailProperties, LenProperties
      <3>. QED
        BY <3>1 DEF In
    <2>3. At(h) = "waiting" /\ h # c
      BY <1>1, <2>1, <2>2
    <2>4. /\ active' = active /\ waiting' = Tail(waiting)
          /\ call' = [[call EXCEPT ![c] = r] EXCEPT ![h].at = "granted"]
      BY <1>4 DEF Release
    <2> HIDE DEF h
    <2>5. /\ call' \in [Calls -> Call] /\ call'[c] = r
          /\ call'[h] = [call[h] EXCEPT !.at = "granted"]
          /\ \A d \in Calls \ {c, h} : call'[d] = call[d]
      BY <1>1, <2>1, <2>3, <2>4 DEF Call, CallAt
    <2>6. call'[h].at = "granted"
      BY <1>1, <2>1, <2>5 DEF Call
    <2>7. Holders' = (Holders \ {c}) \cup {h}
      BY <1>1, <2>1, <2>3, <2>5, <2>6 DEF Holders, At, Holding
    <2>8. Cardinality(Holders') = Cardinality(Holders)
      <3>1. IsFiniteSet(Holders \ {c})
        BY FiniteHolders, FS_RemoveElement
      <3>2. h \notin Holders \ {c}
        BY <2>3 DEF Holders, Holding
      <3>3. Cardinality((Holders \ {c}) \cup {h}) = Cardinality(Holders \ {c}) + 1
        BY <3>1, <3>2, FS_AddElement
      <3>. QED
        BY <1>2, <2>7, <3>3
    <2>9. \A d \in Calls : call'[d].at = "waiting" <=> In(d, waiting')
      <3>1. TAKE d \in Calls
      <3>2. CASE d = c
        BY <1>1, <2>1, <2>4, <2>5, <3>2 DEF At
      <3>3. CASE d = h
        BY <2>1, <2>4, <2>6, <3>3
      <3>4. CASE d \notin {c, h}
        BY <1>1, <2>1, <2>4, <2>5, <3>4 DEF At
      <3>. QED
        BY <3>2, <3>3, <3>4
    <2>10. /\ active' = Cardinality(Holders') /\ active' <= MaxConcurrent
           /\ Distinct(waiting') /\ (waiting' # <<>> => active' = MaxConcurrent)
      BY <1>1, <1>4, <2>1, <2>4, <2>8
    <2>11. SlotsCounted'
      BY <2>9, <2>10 DEF SlotsCounted, At, In, Distinct
    <2>. QED
      BY <1>1, <2>1, <2>3, <2>4, <2>5, <2>11
  <1>. QED
    BY <1>3, <1>4

(* Calls that change without taking, giving back or queuing for a slot. *)
LEMMA SlotsUntouched ==
  ASSUME TypeOK, SlotsCounted, UNCHANGED <<active, waiting>>,
         \A c \in Calls : /\ call'[c].at = "waiting" <=> At(c) = "waiting"
                          /\ call'[c].at \in Holding <=> At(c) \in Holding
  PROVE  SlotsCounted'
  <1>1. Holders' = Holders
    BY DEF Holders, At
  <1>2. active' = Cardinality(Holders')
    BY <1>1 DEF SlotsCounted
  <1>. QED
    BY <1>2 DEF SlotsCounted, At

-----------------------------------------------------------------------------
(* Types, and slots *)

LEMMA JoinSlots ==
  ASSUME TypeOK, SlotsCounted, NEW c \in Calls, NEW k \in Keys, Join(c, k)
  PROVE  TypeOK' /\ SlotsCounted'
  <1>1. PICK e \in Shared(k) :
          call' = [call EXCEPT ![c] = [New(c, k, FALSE) EXCEPT !.at = "joined", !.via = e.call]]
    BY DEF Join
  <1>2. e.call \in Calls
    BY DEF Shared, TypeOK
  <1> DEFINE r == [New(c, k, FALSE) EXCEPT !.at = "joined", !.via = e.call]
  <1>3. r \in Call /\ r.at = "joined"
    <2>1. r \in Call
      BY <1>2, NewCall DEF CallAt
    <2>. QED
      BY <2>1 DEF New
  <1> HIDE DEF r
  <1>4. call' = [call EXCEPT ![c] = r]
    BY <1>1 DEF r
  <1>5. call' \in [Calls -> Call] /\ call'[c] = r /\ \A d \in Calls \ {c} : call'[d] = call[d]
    BY <1>3, <1>4 DEF TypeOK
  <1>6. TypeOK'
    BY <1>5 DEF TypeOK, Join
  <1>7. \A d \in Calls : /\ call'[d].at = "waiting" <=> At(d) = "waiting"
                         /\ call'[d].at \in Holding <=> At(d) \in Holding
    BY <1>3, <1>5 DEF Join, At, Holding
  <1>8. SlotsCounted'
    BY <1>7, SlotsUntouched DEF Join
  <1>. QED
    BY <1>6, <1>8

LEMMA LaunchSlots ==
  ASSUME TypeOK, SlotsCounted, NEW c \in Calls, NEW k \in Keys, NEW signal \in BOOLEAN,
         Launch(c, k, signal)
  PROVE  TypeOK' /\ SlotsCounted'
  <1>1. /\ active \in Nat /\ waiting \in Seq(Calls) /\ call \in [Calls -> Call]
        /\ active = Cardinality(Holders) /\ active <= MaxConcurrent
        /\ \A d \in Calls : At(d) = "waiting" <=> In(d, waiting)
        /\ Distinct(waiting) /\ (waiting # <<>> => active = MaxConcurrent)
    BY SlotsCountedMeans DEF TypeOK
  <1>2. At(c) = "idle" /\ UNCHANGED <<token, epoch, immutable>>
    BY DEF Launch
  <1>3. inflight' \in SUBSET [scope : 0..MaxEpoch, key : Reads, call : Calls]
    BY DEF Launch, TypeOK
  <1>4. CASE SlotFree
    <2> DEFINE r == New(c, k, signal)
    <2>1. r \in Call /\ r.at = "granted"
      <3>1. r \in Call
        BY NewCall DEF CallAt
      <3>. QED
        BY <3>1 DEF New
    <2>2. active' = active + 1 /\ waiting' = waiting /\ call' = [call EXCEPT ![c] = r]
      BY <1>4 DEF Launch
    <2> HIDE DEF r
    <2>3. call' \in [Calls -> Call] /\ call'[c] = r /\ \A d \in Calls \ {c} : call'[d] = call[d]
      BY <1>1, <2>1, <2>2
    <2>4. Holders' = Holders \cup {c}
      BY <2>1, <2>3 DEF Holders, At, Holding
    <2>5. Cardinality(Holders') = Cardinality(Holders) + 1
      <3>1. At(c) \notin Holding
        BY <1>2 DEF Holding
      <3>. QED
        BY <2>4, <3>1, FiniteHolders
    <2>6. active' = Cardinality(Holders') /\ active' <= MaxConcurrent /\ waiting' = <<>>
      BY <1>1, <1>4, <2>2, <2>5, ApiAssumption DEF SlotFree
    <2>7. \A d \in Calls : call'[d].at = "waiting" <=> In(d, waiting)
      BY <1>1, <1>2, <2>1, <2>3 DEF At
    <2>8. SlotsCounted'
      BY <1>1, <2>2, <2>6, <2>7 DEF SlotsCounted, In, Distinct, At
    <2>9. TypeOK'
      BY <1>1, <1>2, <1>3, <2>2, <2>3 DEF TypeOK
    <2>. QED
      BY <2>8, <2>9
  <1>5. CASE ~SlotFree
    <2> DEFINE r == [New(c, k, signal) EXCEPT !.at = "waiting"]
    <2>1. r \in Call /\ r.at = "waiting"
      <3>1. r \in Call
        BY NewCall DEF CallAt
      <3>. QED
        BY <3>1 DEF New
    <2>2. active' = active /\ waiting' = Append(waiting, c) /\ call' = [call EXCEPT ![c] = r]
      BY <1>5 DEF Launch
    <2> HIDE DEF r
    <2>3. call' \in [Calls -> Call] /\ call'[c] = r /\ \A d \in Calls \ {c} : call'[d] = call[d]
      BY <1>1, <2>1, <2>2
    <2>4. Holders' = Holders
      BY <1>2, <2>1, <2>3 DEF Holders, At, Holding
    <2>5. ~In(c, waiting)
      BY <1>1, <1>2
    <2>6. /\ waiting' \in Seq(Calls) /\ Distinct(waiting')
          /\ \A x : In(x, waiting') <=> In(x, waiting) \/ x = c
      BY <1>1, <2>2, <2>5, AppendToQueue
    <2>7. \A d \in Calls : call'[d].at = "waiting" <=> In(d, waiting')
      BY <1>1, <2>1, <2>3, <2>6 DEF At
    <2>8. active' = Cardinality(Holders') /\ active' <= MaxConcurrent /\ active' = MaxConcurrent
      BY <1>1, <1>5, <2>2, <2>4, ApiAssumption DEF SlotFree
    <2>9. SlotsCounted'
      BY <2>6, <2>7, <2>8 DEF SlotsCounted, In, Distinct, At
    <2>10. TypeOK'
      BY <1>1, <1>2, <1>3, <2>2, <2>3, <2>6 DEF TypeOK
    <2>. QED
      BY <2>9, <2>10
  <1>. QED
    BY <1>4, <1>5

LEMMA ProceedSlots ==
  ASSUME TypeOK, SlotsCounted, NEW c \in Calls, Proceed(c)
  PROVE  TypeOK' /\ SlotsCounted'
  <1>1. call' \in [Calls -> Call] /\ call'[c].at = "fetching"
        /\ \A d \in Calls \ {c} : call'[d] = call[d]
    <2> DEFINE r == [call[c] EXCEPT !.at = "fetching"]
    <2>1. r \in Call /\ r.at = "fetching"
      BY DEF TypeOK, Call, CallAt
    <2>2. call' = [call EXCEPT ![c] = r]
      BY DEF Proceed
    <2> HIDE DEF r
    <2>. QED
      BY <2>1, <2>2 DEF TypeOK
  <1>2. \A d \in Calls : /\ call'[d].at = "waiting" <=> At(d) = "waiting"
                         /\ call'[d].at \in Holding <=> At(d) \in Holding
    BY <1>1 DEF Proceed, At, Holding
  <1>3. SlotsCounted'
    BY <1>2, SlotsUntouched DEF Proceed
  <1>4. TypeOK'
    BY <1>1 DEF TypeOK, Proceed
  <1>. QED
    BY <1>3, <1>4

(* The three ways a request gives its slot back on its own. *)
Settled(c) == Answer(c) \/ Refuse(c) \/ Fail(c)

LEMMA SettledReleases ==
  ASSUME TypeOK, NEW c \in Calls, Settled(c)
  PROVE  \E r \in Call :
           /\ Release([call EXCEPT ![c] = r]) /\ At(c) \in {"fetching", "failing"}
           /\ r.at \in {"resolved", "rejected"}
           /\ r.key = call[c].key /\ r.scope = call[c].scope /\ r.auth = call[c].auth
           /\ r.signal = call[c].signal /\ r.via = call[c].via
           /\ UNCHANGED <<token, epoch, immutable, inflight>>
  <1>1. call[c] \in Call
    BY DEF TypeOK
  <1>2. CASE Answer(c)
    <2> DEFINE r == [call[c] EXCEPT !.at = "resolved"]
    <2>1. r \in Call /\ r.at = "resolved" /\ r.key = call[c].key /\ r.scope = call[c].scope
          /\ r.auth = call[c].auth /\ r.signal = call[c].signal /\ r.via = call[c].via
      BY <1>1 DEF Call, CallAt
    <2>. QED
      BY <1>2, <2>1 DEF Answer
  <1>3. CASE Refuse(c)
    <2> DEFINE r == [call[c] EXCEPT !.at = "rejected", !.why = "failed"]
    <2>1. r \in Call /\ r.at = "rejected" /\ r.key = call[c].key /\ r.scope = call[c].scope
          /\ r.auth = call[c].auth /\ r.signal = call[c].signal /\ r.via = call[c].via
      BY <1>1 DEF Call, CallAt, Why
    <2>2. [call EXCEPT ![c].at = "rejected", ![c].why = "failed"] = [call EXCEPT ![c] = r]
      BY DEF TypeOK
    <2> HIDE DEF r
    <2>. QED
      BY <1>3, <2>1, <2>2 DEF Refuse
  <1>4. CASE Fail(c)
    <2> DEFINE r == [call[c] EXCEPT !.at = "rejected"]
    <2>1. r \in Call /\ r.at = "rejected" /\ r.key = call[c].key /\ r.scope = call[c].scope
          /\ r.auth = call[c].auth /\ r.signal = call[c].signal /\ r.via = call[c].via
      BY <1>1 DEF Call, CallAt
    <2>. QED
      BY <1>4, <2>1 DEF Fail
  <1>. QED
    BY <1>2, <1>3, <1>4 DEF Settled

LEMMA SettledSlots ==
  ASSUME TypeOK, SlotsCounted, NEW c \in Calls, Settled(c)
  PROVE  TypeOK' /\ SlotsCounted'
  <1>1. PICK r \in Call :
          /\ Release([call EXCEPT ![c] = r]) /\ At(c) \in {"fetching", "failing"}
          /\ r.at \in {"resolved", "rejected"}
          /\ UNCHANGED <<token, epoch, immutable, inflight>>
    BY SettledReleases
  <1>2. /\ active' \in Nat /\ waiting' \in Seq(Calls) /\ call' \in [Calls -> Call]
        /\ SlotsCounted'
    BY <1>1, Released
  <1>. QED
    BY <1>1, <1>2 DEF TypeOK

(* What an abort does to a call: a queued one is rejected, one with a slot  *)
(* fails, others stay as they are, and none asks anything else.             *)
LEMMA AbortedCall ==
  ASSUME NEW r \in Call, NEW why \in Why
  PROVE  /\ Aborted(r, why) \in Call
         /\ r.at = "waiting" => Aborted(r, why).at = "rejected"
         /\ r.at \in Holding => Aborted(r, why).at = "failing"
         /\ r.at \notin Holding \cup {"waiting"} => Aborted(r, why) = r
         /\ Aborted(r, why).key = r.key /\ Aborted(r, why).scope = r.scope
         /\ Aborted(r, why).auth = r.auth /\ Aborted(r, why).signal = r.signal
         /\ Aborted(r, why).via = r.via
  <1>1. CASE r.at = "waiting"
    <2>1. Aborted(r, why) = [r EXCEPT !.at = "rejected", !.why = why]
      BY <1>1 DEF Aborted, Holding
    <2>. QED
      BY <1>1, <2>1 DEF Call, CallAt, Holding
  <1>2. CASE r.at \in Holding
    <2>1. Aborted(r, why) = [r EXCEPT !.at = "failing", !.why = why]
      BY <1>2 DEF Aborted, Holding
    <2>. QED
      BY <1>2, <2>1 DEF Call, CallAt, Holding
  <1>3. CASE r.at \notin Holding \cup {"waiting"}
    <2>1. Aborted(r, why) = r
      BY <1>3 DEF Aborted
    <2>. QED
      BY <1>3, <2>1
  <1>. QED
    BY <1>1, <1>2, <1>3

LEMMA AbortSlots ==
  ASSUME TypeOK, SlotsCounted, NEW c \in Calls, NEW why \in Why,
         At(c) \in {"waiting", "granted", "fetching"}, Abort(c, why)
  PROVE  TypeOK' /\ SlotsCounted'
  <1>1. /\ active \in Nat /\ waiting \in Seq(Calls) /\ call \in [Calls -> Call]
        /\ active = Cardinality(Holders) /\ active <= MaxConcurrent
        /\ \A d \in Calls : At(d) = "waiting" <=> In(d, waiting)
        /\ Distinct(waiting) /\ (waiting # <<>> => active = MaxConcurrent)
    BY SlotsCountedMeans DEF TypeOK
  <1>2. /\ call' \in [Calls -> Call] /\ call'[c] = Aborted(call[c], why)
        /\ \A d \in Calls \ {c} : call'[d] = call[d]
    <2>1. Aborted(call[c], why) \in Call
      BY <1>1, AbortedCall
    <2>. QED
      BY <1>1, <2>1 DEF Abort
  <1>3. UNCHANGED <<token, epoch, active, immutable, inflight>> /\ waiting' = Without(c)
    BY DEF Abort
  <1>4. CASE At(c) = "waiting"
    <2>1. call'[c].at = "rejected"
      BY <1>1, <1>2, <1>4, AbortedCall DEF At
    <2>2. Place(c) \in DOMAIN waiting /\ waiting[Place(c)] = c
      BY <1>1, <1>4 DEF Place, In
    <2>3. waiting' = RemoveAt(waiting, Place(c))
      BY <1>3, <1>4 DEF Without
    <2>4. /\ waiting' \in Seq(Calls) /\ Distinct(waiting')
          /\ \A x : In(x, waiting') <=> In(x, waiting) /\ x # c
      BY <1>1, <2>2, <2>3, RemoveFromQueue
    <2>5. Holders' = Holders
      BY <1>2, <1>4, <2>1 DEF Holders, At, Holding
    <2>6. \A d \in Calls : call'[d].at = "waiting" <=> In(d, waiting')
      BY <1>1, <1>2, <2>1, <2>4 DEF At
    <2>7. waiting # <<>>
      BY <1>1, <1>4, <2>2, EmptySeq, LenProperties
    <2>8. active' = Cardinality(Holders') /\ active' <= MaxConcurrent /\ active' = MaxConcurrent
      BY <1>1, <1>3, <2>5, <2>7
    <2>9. SlotsCounted'
      BY <2>4, <2>6, <2>8 DEF SlotsCounted, In, Distinct, At
    <2>. QED
      BY <1>1, <1>2, <1>3, <2>4, <2>9 DEF TypeOK
  <1>5. CASE At(c) \in {"granted", "fetching"}
    <2>1. call'[c].at = "failing"
      BY <1>1, <1>2, <1>5, AbortedCall DEF At, Holding
    <2>2. waiting' = waiting
      BY <1>3, <1>5 DEF Without
    <2>3. \A d \in Calls : /\ call'[d].at = "waiting" <=> At(d) = "waiting"
                           /\ call'[d].at \in Holding <=> At(d) \in Holding
      BY <1>2, <1>5, <2>1 DEF At, Holding
    <2>4. SlotsCounted'
      BY <1>3, <2>2, <2>3, SlotsUntouched
    <2>. QED
      BY <1>1, <1>2, <1>3, <2>2, <2>4 DEF TypeOK
  <1>. QED
    BY <1>4, <1>5

(* What a change of the session does to every call. *)
LEMMA AllAborted ==
  ASSUME TypeOK
  PROVE  /\ AbortedAll \in [Calls -> Call]
         /\ \A d \in Calls :
              /\ At(d) = "waiting" => AbortedAll[d].at = "rejected"
              /\ At(d) \in Holding => AbortedAll[d].at = "failing"
              /\ At(d) \notin Holding \cup {"waiting"} => AbortedAll[d] = call[d]
              /\ AbortedAll[d].key = call[d].key /\ AbortedAll[d].scope = call[d].scope
              /\ AbortedAll[d].auth = call[d].auth /\ AbortedAll[d].signal = call[d].signal
              /\ AbortedAll[d].via = call[d].via
  <1>1. "aborted" \in Why /\ call \in [Calls -> Call]
    BY DEF Why, TypeOK
  <1>2. ASSUME NEW d \in Calls
        PROVE  /\ AbortedAll[d] \in Call
               /\ At(d) = "waiting" => AbortedAll[d].at = "rejected"
               /\ At(d) \in Holding => AbortedAll[d].at = "failing"
               /\ At(d) \notin Holding \cup {"waiting"} => AbortedAll[d] = call[d]
               /\ AbortedAll[d].key = call[d].key /\ AbortedAll[d].scope = call[d].scope
               /\ AbortedAll[d].auth = call[d].auth /\ AbortedAll[d].signal = call[d].signal
               /\ AbortedAll[d].via = call[d].via
    <2>1. CASE At(d) = "failing"
      <3>1. AbortedAll[d] = call[d]
        BY <2>1 DEF AbortedAll
      <3>. QED
        BY <1>1, <2>1, <3>1 DEF At, Holding
    <2>2. CASE At(d) # "failing"
      <3>1. AbortedAll[d] = Aborted(call[d], "aborted")
        BY <2>2 DEF AbortedAll
      <3>. QED
        BY <1>1, <2>2, <3>1, AbortedCall DEF At
    <2>. QED
      BY <2>1, <2>2
  <1>3. AbortedAll \in [Calls -> Call]
    <2>1. DOMAIN AbortedAll = Calls /\ AbortedAll = [d \in Calls |-> AbortedAll[d]]
      BY DEF AbortedAll
    <2>. QED
      BY <1>2, <2>1
  <1>. QED
    BY <1>2, <1>3

LEMMA SetTokenSlots ==
  ASSUME TypeOK, SlotsCounted, NEW t \in Owner, SetToken(t)
  PROVE  TypeOK' /\ SlotsCounted'
  <1>1. call' = AbortedAll /\ waiting' = <<>> /\ active' = active
    BY DEF SetToken
  <1>2. \A d \in Calls : call'[d].at # "waiting" /\ (call'[d].at \in Holding <=> At(d) \in Holding)
    BY <1>1, AllAborted DEF At, Holding
  <1>3. Holders' = Holders
    BY <1>2 DEF Holders, At
  <1>4. SlotsCounted'
    BY <1>1, <1>2, <1>3 DEF SlotsCounted, At
  <1>5. token' \in Owner /\ epoch' \in 0..MaxEpoch
    BY ApiAssumption DEF SetToken, Session, TypeOK
  <1>6. immutable' = <<>> /\ inflight' = {}
    BY DEF SetToken, DropCache
  <1>7. TypeOK'
    BY <1>1, <1>5, <1>6, AllAborted DEF TypeOK
  <1>. QED
    BY <1>4, <1>7

(* The call that expires, and all the others. *)
LEMMA ExpiredCall ==
  ASSUME TypeOK, NEW c \in Calls, Expire(c)
  PROVE  /\ call' \in [Calls -> Call] /\ call'[c].at = "rejected"
         /\ call'[c].key = call[c].key /\ call'[c].scope = call[c].scope
         /\ call'[c].auth = call[c].auth /\ call'[c].signal = call[c].signal
         /\ \A d \in Calls \ {c} : call'[d] = AbortedAll[d]
  <1> DEFINE r == [AbortedAll[c] EXCEPT !.at = "rejected", !.why = "failed"]
  <1>1. AbortedAll \in [Calls -> Call] /\ AbortedAll[c] \in Call
    BY AllAborted
  <1>2. r \in Call /\ r.at = "rejected" /\ r.key = call[c].key /\ r.scope = call[c].scope
        /\ r.auth = call[c].auth /\ r.signal = call[c].signal
    <2>1. r \in Call /\ r.at = "rejected" /\ r.key = AbortedAll[c].key
          /\ r.scope = AbortedAll[c].scope /\ r.auth = AbortedAll[c].auth
          /\ r.signal = AbortedAll[c].signal
      BY <1>1 DEF Call, CallAt, Why
    <2> HIDE DEF r
    <2>. QED
      BY <2>1, AllAborted
  <1>3. call' = [AbortedAll EXCEPT ![c] = r]
    BY <1>1 DEF Expire
  <1> HIDE DEF r
  <1>. QED
    BY <1>1, <1>2, <1>3

LEMMA ExpireSlots ==
  ASSUME TypeOK, SlotsCounted, NEW c \in Calls, Expire(c)
  PROVE  TypeOK' /\ SlotsCounted'
  <1>1. /\ At(c) = "fetching" /\ active' = active - 1 /\ waiting' = <<>>
        /\ immutable' = <<>> /\ inflight' = {} /\ token' = None /\ epoch' = epoch + 1
        /\ epoch < MaxEpoch
    BY DEF Expire, Session, DropCache
  <1>2. /\ active \in Nat /\ active = Cardinality(Holders) /\ active <= MaxConcurrent
    BY DEF TypeOK, SlotsCounted
  <1>3. \A d \in Calls \ {c} : call'[d].at # "waiting"
                               /\ (call'[d].at \in Holding <=> At(d) \in Holding)
    BY ExpiredCall, AllAborted DEF At, Holding
  <1>4. Holders' = Holders \ {c}
    BY <1>3, ExpiredCall DEF Holders, At, Holding
  <1>5. Cardinality(Holders') = Cardinality(Holders) - 1 /\ Cardinality(Holders') \in Nat
    <2>1. At(c) \in Holding
      BY <1>1 DEF Holding
    <2>2. IsFiniteSet(Holders \ {c})
      BY FiniteHolders, FS_RemoveElement
    <2>3. Cardinality(Holders \ {c}) \in Nat
      BY <2>2, FS_CardinalityType
    <2>. QED
      BY <1>4, <2>1, <2>3, FiniteHolders
  <1>6. active' = Cardinality(Holders') /\ active' <= MaxConcurrent /\ active' \in Nat
    BY <1>1, <1>2, <1>5, ApiAssumption
  <1>7. \A d \in Calls : call'[d].at # "waiting"
    BY <1>3, ExpiredCall
  <1>8. SlotsCounted'
    BY <1>1, <1>6, <1>7 DEF SlotsCounted, At
  <1>9. token' \in Owner /\ epoch' \in 0..MaxEpoch
    BY <1>1, ApiAssumption DEF TypeOK, Owner
  <1>10. TypeOK'
    BY <1>1, <1>6, <1>9, ExpiredCall DEF TypeOK
  <1>. QED
    BY <1>8, <1>10

(* Who is idle again after a delivery, and that nobody else is touched. *)
LEMMA Delivered ==
  ASSUME TypeOK, NEW c \in Calls, Deliver(c)
  PROVE  /\ call' \in [Calls -> Call]
         /\ \A d \in Calls :
              \/ /\ d = c \/ (At(d) = "joined" /\ call[d].via = c)
                 /\ call'[d].at = "idle"
              \/ /\ d # c /\ (At(d) = "joined" => call[d].via # c)
                 /\ call'[d] = call[d]
  <1>1. \A d \in Calls : Idle(d) \in Call /\ Idle(d).at = "idle" /\ call[d] \in Call
    BY IdleCall DEF TypeOK, Idle
  <1>2. call' = [d \in Calls |-> IF d = c \/ (At(d) = "joined" /\ call[d].via = c)
                                 THEN Idle(d) ELSE call[d]]
    BY DEF Deliver
  <1>. QED
    BY <1>1, <1>2

LEMMA DeliverSlots ==
  ASSUME TypeOK, SlotsCounted, NEW c \in Calls, Deliver(c)
  PROVE  TypeOK' /\ SlotsCounted'
  <1>1. At(c) \in {"resolved", "rejected"} /\ UNCHANGED <<token, epoch, active, waiting>>
    BY DEF Deliver
  <1>2. \A d \in Calls : /\ call'[d].at = "waiting" <=> At(d) = "waiting"
                         /\ call'[d].at \in Holding <=> At(d) \in Holding
    BY <1>1, Delivered DEF At, Holding
  <1>3. SlotsCounted'
    BY <1>1, <1>2, SlotsUntouched
  <1>4. inflight' \in SUBSET [scope : 0..MaxEpoch, key : Reads, call : Calls]
    BY DEF Deliver, StillInFlight, TypeOK
  <1>5. immutable' \in Seq(Entry)
    <2>1. CASE Fulfilled(c) /\ call[c].key \in Immutable
      <3>1. [key |-> call[c].key, owner |-> call[c].auth] \in Entry
        BY <2>1 DEF Entry, TypeOK, Call
      <3>2. immutable' = Put(Evicted(immutable), [key |-> call[c].key, owner |-> call[c].auth])
        BY <2>1 DEF Deliver
      <3>. QED
        BY <3>1, <3>2, PutKeepsElements DEF TypeOK
    <2>2. CASE ~(Fulfilled(c) /\ call[c].key \in Immutable)
      BY <2>2 DEF Deliver, TypeOK
    <2>. QED
      BY <2>1, <2>2
  <1>6. TypeOK'
    BY <1>1, <1>4, <1>5, Delivered DEF TypeOK
  <1>. QED
    BY <1>3, <1>6

-----------------------------------------------------------------------------
(* Sessions, and shared reads *)

Same(d) == /\ call'[d].key = call[d].key /\ call'[d].scope = call[d].scope
           /\ call'[d].auth = call[d].auth /\ call'[d].signal = call[d].signal
           /\ call'[d].via = call[d].via

Pending == {"waiting", "granted", "fetching"}

(* Calls that only get on, within a session.                                *)
LEMMA GettingOn ==
  ASSUME TypeOK, Isolated, JoinersAreServed,
         UNCHANGED <<token, epoch, immutable, inflight>>,
         \A d \in Calls : /\ Same(d)
                          /\ call'[d].at = "joined" <=> At(d) = "joined"
                          /\ call'[d].at = "idle" <=> At(d) = "idle"
                          /\ call'[d].at \in Pending => At(d) \in Pending
  PROVE  Isolated' /\ JoinersAreServed'
  <1>1. \A d \in Calls : Live(d)' <=> Live(d)
    BY DEF Live, At
  <1>2. \A e \in inflight : e.call \in Calls
    BY DEF TypeOK
  <1>3. SessionIsolation'
    BY DEF Isolated, SessionIsolation, Same, At, Pending
  <1>4. SharedAreLive'
    BY <1>1, <1>2 DEF Isolated, SharedAreLive, Same
  <1>5. ScopeIsAuth'
    BY <1>1 DEF Isolated, ScopeIsAuth, Same
  <1>6. JoinersAreServed'
    <2> SUFFICES ASSUME NEW d \in Calls, call'[d].at = "joined"
                 PROVE  LET v == call'[call'[d].via] IN
                        /\ v.at \notin {"idle", "joined"} /\ ~v.signal
                        /\ v.key = call'[d].key /\ v.scope = call'[d].scope /\ v.auth = call'[d].auth
      BY DEF JoinersAreServed, At
    <2>1. At(d) = "joined" /\ call[d].via \in Calls
      BY DEF TypeOK, Call
    <2>2. LET v == call[call[d].via] IN
          /\ v.at \notin {"idle", "joined"} /\ ~v.signal
          /\ v.key = call[d].key /\ v.scope = call[d].scope /\ v.auth = call[d].auth
      BY <2>1 DEF JoinersAreServed
    <2>. QED
      BY <2>1, <2>2 DEF Same, At
  <1>. QED
    BY <1>3, <1>4, <1>5, <1>6 DEF Isolated

LEMMA ProceedIsolated ==
  ASSUME TypeOK, Isolated, JoinersAreServed, NEW c \in Calls, Proceed(c)
  PROVE  Isolated' /\ JoinersAreServed'
  <1> DEFINE r == [call[c] EXCEPT !.at = "fetching"]
  <1>1. r.at = "fetching" /\ r.key = call[c].key /\ r.scope = call[c].scope
        /\ r.auth = call[c].auth /\ r.signal = call[c].signal /\ r.via = call[c].via
    BY DEF TypeOK, Call, CallAt
  <1>2. call' = [call EXCEPT ![c] = r]
    BY DEF Proceed
  <1> HIDE DEF r
  <1>3. call'[c] = r /\ \A d \in Calls \ {c} : call'[d] = call[d]
    BY <1>2 DEF TypeOK
  <1>4. \A d \in Calls : /\ Same(d)
                         /\ call'[d].at = "joined" <=> At(d) = "joined"
                         /\ call'[d].at = "idle" <=> At(d) = "idle"
                         /\ call'[d].at \in Pending => At(d) \in Pending
    BY <1>1, <1>3 DEF Same, At, Pending, Proceed
  <1>. QED
    BY <1>4, GettingOn DEF Proceed

LEMMA SettledIsolated ==
  ASSUME TypeOK, SlotsCounted, Isolated, JoinersAreServed, NEW c \in Calls, Settled(c)
  PROVE  Isolated' /\ JoinersAreServed'
  <1>1. PICK r \in Call :
          /\ Release([call EXCEPT ![c] = r]) /\ At(c) \in {"fetching", "failing"}
          /\ r.at \in {"resolved", "rejected"}
          /\ r.key = call[c].key /\ r.scope = call[c].scope /\ r.auth = call[c].auth
          /\ r.signal = call[c].signal /\ r.via = call[c].via
          /\ UNCHANGED <<token, epoch, immutable, inflight>>
    BY SettledReleases
  <1>2. /\ call'[c] = r
        /\ \A d \in Calls \ {c} :
             \/ call'[d] = call[d]
             \/ At(d) = "waiting" /\ call'[d] = [call[d] EXCEPT !.at = "granted"]
    BY <1>1, Released
  <1>3. ASSUME NEW d \in Calls
        PROVE  /\ Same(d)
               /\ call'[d].at = "joined" <=> At(d) = "joined"
               /\ call'[d].at = "idle" <=> At(d) = "idle"
               /\ call'[d].at \in Pending => At(d) \in Pending
    <2>1. CASE d = c
      BY <1>1, <1>2, <2>1 DEF Same, At, Pending
    <2>2. CASE call'[d] = call[d]
      BY <2>2 DEF Same, At
    <2>3. CASE At(d) = "waiting" /\ call'[d] = [call[d] EXCEPT !.at = "granted"]
      <3>1. call[d] \in Call
        BY DEF TypeOK
      <3>. QED
        BY <2>3, <3>1 DEF Same, At, Pending, Call
    <2>. QED
      BY <1>2, <2>1, <2>2, <2>3
  <1>. QED
    BY <1>1, <1>3, GettingOn

LEMMA AbortIsolated ==
  ASSUME TypeOK, Isolated, JoinersAreServed, NEW c \in Calls, NEW why \in Why,
         At(c) \in Pending, Abort(c, why)
  PROVE  Isolated' /\ JoinersAreServed'
  <1>1. call[c] \in Call /\ At(c) \in {"waiting"} \cup Holding
    BY DEF TypeOK, Pending, Holding
  <1>2. call'[c] = Aborted(call[c], why) /\ \A d \in Calls \ {c} : call'[d] = call[d]
    BY DEF Abort, TypeOK
  <1>3. /\ Same(c) /\ call'[c].at \in {"rejected", "failing"}
    BY <1>1, <1>2, AbortedCall DEF Same, At
  <1>4. \A d \in Calls : /\ Same(d)
                         /\ call'[d].at = "joined" <=> At(d) = "joined"
                         /\ call'[d].at = "idle" <=> At(d) = "idle"
                         /\ call'[d].at \in Pending => At(d) \in Pending
    BY <1>1, <1>2, <1>3 DEF Same, At, Pending, Holding
  <1>. QED
    BY <1>4, GettingOn DEF Abort

(* A change of the session: nothing of the old one stays pending.           *)
LEMMA SessionChanges ==
  ASSUME TypeOK, Isolated, JoinersAreServed,
         epoch' = epoch + 1, immutable' = <<>>, inflight' = {},
         \A d \in Calls :
           /\ call'[d].key = call[d].key /\ call'[d].scope = call[d].scope
           /\ call'[d].auth = call[d].auth /\ call'[d].signal = call[d].signal
           /\ call'[d].at \notin Pending
           /\ At(d) \in {"idle", "joined"} => call'[d] = call[d]
           /\ At(d) \notin {"idle", "joined"} => call'[d].at \notin {"idle", "joined"}
  PROVE  Isolated' /\ JoinersAreServed'
  <1>1. SessionIsolation'
    BY DEF SessionIsolation, At, Pending
  <1>2. SharedAreLive'
    BY DEF SharedAreLive
  <1>3. ScopeIsAuth'
    <2> SUFFICES ASSUME NEW d \in Calls, Live(d)'
                 PROVE  call'[d].scope <= epoch' /\ call'[d].scope # epoch'
      BY DEF ScopeIsAuth
    <2>1. Live(d)
      BY DEF Live, At
    <2>2. call[d].scope <= epoch /\ call[d].scope \in Nat /\ epoch \in Nat
      BY <2>1 DEF Isolated, ScopeIsAuth, TypeOK, Call
    <2>. QED
      BY <2>2
  <1>4. JoinersAreServed'
    <2> SUFFICES ASSUME NEW d \in Calls, call'[d].at = "joined"
                 PROVE  LET v == call'[call'[d].via] IN
                        /\ v.at \notin {"idle", "joined"} /\ ~v.signal
                        /\ v.key = call'[d].key /\ v.scope = call'[d].scope /\ v.auth = call'[d].auth
      BY DEF JoinersAreServed, At
    <2>1. At(d) = "joined" /\ call'[d] = call[d] /\ call[d].via \in Calls
      BY DEF TypeOK, Call, At
    <2>2. LET v == call[call[d].via] IN
          /\ v.at \notin {"idle", "joined"} /\ ~v.signal
          /\ v.key = call[d].key /\ v.scope = call[d].scope /\ v.auth = call[d].auth
      BY <2>1 DEF JoinersAreServed
    <2>. QED
      BY <2>1, <2>2 DEF At
  <1>. QED
    BY <1>1, <1>2, <1>3, <1>4 DEF Isolated

LEMMA SetTokenIsolated ==
  ASSUME TypeOK, Isolated, JoinersAreServed, NEW t \in Owner, SetToken(t)
  PROVE  Isolated' /\ JoinersAreServed'
  <1>1. epoch' = epoch + 1 /\ immutable' = <<>> /\ inflight' = {} /\ call' = AbortedAll
    BY DEF SetToken, Session, DropCache
  <1>2. ASSUME NEW d \in Calls
        PROVE  /\ call'[d].key = call[d].key /\ call'[d].scope = call[d].scope
               /\ call'[d].auth = call[d].auth /\ call'[d].signal = call[d].signal
               /\ call'[d].at \notin Pending
               /\ At(d) \in {"idle", "joined"} => call'[d] = call[d]
               /\ At(d) \notin {"idle", "joined"} => call'[d].at \notin {"idle", "joined"}
    <2>1. CASE At(d) \in Holding \cup {"waiting"}
      BY <1>1, <2>1, AllAborted DEF Pending, Holding
    <2>2. CASE At(d) \notin Holding \cup {"waiting"}
      BY <1>1, <2>2, AllAborted DEF Pending, Holding, At
    <2>. QED
      BY <2>1, <2>2
  <1>. QED
    BY <1>1, <1>2, SessionChanges

LEMMA ExpireIsolated ==
  ASSUME TypeOK, Isolated, JoinersAreServed, NEW c \in Calls, Expire(c)
  PROVE  Isolated' /\ JoinersAreServed'
  <1>1. epoch' = epoch + 1 /\ immutable' = <<>> /\ inflight' = {} /\ At(c) = "fetching"
    BY DEF Expire, Session, DropCache
  <1>2. ASSUME NEW d \in Calls
        PROVE  /\ call'[d].key = call[d].key /\ call'[d].scope = call[d].scope
               /\ call'[d].auth = call[d].auth /\ call'[d].signal = call[d].signal
               /\ call'[d].at \notin Pending
               /\ At(d) \in {"idle", "joined"} => call'[d] = call[d]
               /\ At(d) \notin {"idle", "joined"} => call'[d].at \notin {"idle", "joined"}
    <2>1. CASE d = c
      BY <1>1, <2>1, ExpiredCall DEF Pending
    <2>2. CASE d # c /\ At(d) \in Holding \cup {"waiting"}
      BY <1>1, <2>2, ExpiredCall, AllAborted DEF Pending, Holding
    <2>3. CASE d # c /\ At(d) \notin Holding \cup {"waiting"}
      BY <1>1, <2>3, ExpiredCall, AllAborted DEF Pending, Holding, At
    <2>. QED
      BY <2>1, <2>2, <2>3
  <1>. QED
    BY <1>1, <1>2, SessionChanges

(* A call that was idle is shared by nobody. *)
LEMMA IdleIsUnshared ==
  ASSUME TypeOK, Isolated, JoinersAreServed, NEW c \in Calls, At(c) = "idle"
  PROVE  /\ \A e \in inflight : e.call \in Calls \ {c}
         /\ \A d \in Calls : At(d) = "joined" => d # c /\ call[d].via \in Calls \ {c}
  <1>1. \A e \in inflight : e.call \in Calls /\ Live(e.call)
    BY DEF TypeOK, Isolated, SharedAreLive
  <1>2. \A d \in Calls : At(d) = "joined" =>
          call[d].via \in Calls /\ call[call[d].via].at # "idle"
    BY DEF TypeOK, Call, JoinersAreServed
  <1>. QED
    BY <1>1, <1>2 DEF Live, At

LEMMA JoinIsolated ==
  ASSUME TypeOK, Isolated, JoinersAreServed, NEW c \in Calls, NEW k \in Keys, Join(c, k)
  PROVE  Isolated' /\ JoinersAreServed'
  <1>1. PICK e \in Shared(k) :
          call' = [call EXCEPT ![c] = [New(c, k, FALSE) EXCEPT !.at = "joined", !.via = e.call]]
    BY DEF Join
  <1>2. /\ e \in inflight /\ e.scope = epoch /\ e.key = k /\ e.call \in Calls \ {c}
        /\ At(c) = "idle" /\ UNCHANGED <<token, epoch, active, waiting, immutable, inflight>>
    BY IdleIsUnshared DEF Shared, Join
  <1>3. /\ Live(e.call) /\ ~call[e.call].signal /\ call[e.call].key = k
        /\ call[e.call].scope = epoch /\ call[e.call].auth = token
    BY <1>2 DEF Isolated, SharedAreLive
  <1> DEFINE r == [New(c, k, FALSE) EXCEPT !.at = "joined", !.via = e.call]
  <1>4. r.at = "joined" /\ r.via = e.call /\ r.key = k /\ r.scope = epoch /\ r.auth = token
    BY DEF New
  <1>5. call' = [call EXCEPT ![c] = r]
    BY <1>1
  <1> HIDE DEF r
  <1>6. call'[c] = r /\ \A d \in Calls \ {c} : call'[d] = call[d]
    BY <1>5 DEF TypeOK
  <1>7. SessionIsolation'
    BY <1>2, <1>4, <1>6 DEF Isolated, SessionIsolation, At
  <1>8. SharedAreLive'
    <2> SUFFICES ASSUME NEW f \in inflight
                 PROVE  /\ Live(f.call)' /\ ~call'[f.call].signal /\ call'[f.call].key = f.key
                        /\ call'[f.call].scope = f.scope /\ call'[f.call].auth = token
      BY <1>2 DEF SharedAreLive
    <2>1. call'[f.call] = call[f.call]
      BY <1>2, <1>6, IdleIsUnshared
    <2>. QED
      BY <2>1 DEF Isolated, SharedAreLive, Live, At
  <1>9. ScopeIsAuth'
    BY <1>2, <1>4, <1>6 DEF Isolated, ScopeIsAuth, Live, At
  <1>10. JoinersAreServed'
    <2> SUFFICES ASSUME NEW d \in Calls, call'[d].at = "joined"
                 PROVE  LET v == call'[call'[d].via] IN
                        /\ v.at \notin {"idle", "joined"} /\ ~v.signal
                        /\ v.key = call'[d].key /\ v.scope = call'[d].scope /\ v.auth = call'[d].auth
      BY DEF JoinersAreServed, At
    <2>1. CASE d = c
      <3>1. call'[call'[d].via] = call[e.call]
        BY <1>2, <1>4, <1>6, <2>1
      <3>. QED
        BY <1>3, <1>4, <1>6, <2>1, <3>1 DEF Live, At
    <2>2. CASE d # c
      <3>1. At(d) = "joined" /\ call'[d] = call[d]
        BY <1>6, <2>2 DEF At
      <3>2. call'[call'[d].via] = call[call[d].via]
        BY <1>2, <1>6, <3>1, IdleIsUnshared
      <3>. QED
        BY <3>1, <3>2 DEF JoinersAreServed
    <2>. QED
      BY <2>1, <2>2
  <1>. QED
    BY <1>7, <1>8, <1>9, <1>10 DEF Isolated

LEMMA LaunchIsolated ==
  ASSUME TypeOK, Isolated, JoinersAreServed, NEW c \in Calls, NEW k \in Keys,
         NEW signal \in BOOLEAN, Launch(c, k, signal)
  PROVE  Isolated' /\ JoinersAreServed'
  <1>1. At(c) = "idle" /\ UNCHANGED <<token, epoch, immutable>>
    BY DEF Launch
  <1>2. /\ \A d \in Calls \ {c} : call'[d] = call[d]
        /\ call'[c].at \in {"granted", "waiting"} /\ call'[c].signal = signal
        /\ call'[c].key = k /\ call'[c].scope = epoch /\ call'[c].auth = token
    <2>1. CASE SlotFree
      <3>1. call' = [call EXCEPT ![c] = New(c, k, signal)]
        BY <2>1 DEF Launch
      <3>. QED
        BY <3>1 DEF New, TypeOK
    <2>2. CASE ~SlotFree
      <3>1. call' = [call EXCEPT ![c] = [New(c, k, signal) EXCEPT !.at = "waiting"]]
        BY <2>2 DEF Launch
      <3>. QED
        BY <3>1 DEF New, TypeOK
    <2>. QED
      BY <2>1, <2>2
  <1>3. SessionIsolation'
    <2>1. \A e \in inflight' : e.scope = epoch'
      BY <1>1 DEF Launch, Isolated, SessionIsolation
    <2>. QED
      BY <1>1, <1>2, <2>1 DEF Isolated, SessionIsolation, At
  <1>4. SharedAreLive'
    <2> SUFFICES ASSUME NEW e \in inflight'
                 PROVE  /\ call'[e.call].at \notin {"idle", "joined"}
                        /\ ~call'[e.call].signal /\ call'[e.call].key = e.key
                        /\ call'[e.call].scope = e.scope /\ call'[e.call].auth = token'
      BY DEF SharedAreLive, Live, At
    <2>1. CASE e \in inflight
      <3>1. call'[e.call] = call[e.call]
        BY <1>1, <1>2, <2>1, IdleIsUnshared
      <3>. QED
        BY <1>1, <2>1, <3>1 DEF Isolated, SharedAreLive, Live, At
    <2>2. CASE e \notin inflight
      <3>1. e = [scope |-> epoch, key |-> k, call |-> c] /\ ~signal
        BY <2>2 DEF Launch
      <3>. QED
        BY <1>1, <1>2, <3>1
    <2>. QED
      BY <2>1, <2>2
  <1>5. ScopeIsAuth'
    <2>1. epoch \in Nat
      BY DEF TypeOK
    <2>. QED
      BY <1>1, <1>2, <2>1 DEF Isolated, ScopeIsAuth, Live, At
  <1>6. JoinersAreServed'
    <2> SUFFICES ASSUME NEW d \in Calls, call'[d].at = "joined"
                 PROVE  LET v == call'[call'[d].via] IN
                        /\ v.at \notin {"idle", "joined"} /\ ~v.signal
                        /\ v.key = call'[d].key /\ v.scope = call'[d].scope /\ v.auth = call'[d].auth
      BY DEF JoinersAreServed, At
    <2>1. d # c /\ At(d) = "joined" /\ call'[d] = call[d]
      BY <1>2 DEF At
    <2>2. call'[call'[d].via] = call[call[d].via]
      BY <1>1, <1>2, <2>1, IdleIsUnshared
    <2>. QED
      BY <2>1, <2>2 DEF JoinersAreServed
  <1>. QED
    BY <1>3, <1>4, <1>5, <1>6 DEF Isolated

LEMMA DeliverIsolated ==
  ASSUME TypeOK, Isolated, JoinersAreServed, NEW c \in Calls, Deliver(c)
  PROVE  Isolated' /\ JoinersAreServed'
  <1>1. /\ At(c) \in {"resolved", "rejected"} /\ UNCHANGED <<token, epoch>>
        /\ inflight' = {e \in inflight : e.call # c}
    BY DEF Deliver, StillInFlight
  <1>2. \A i \in DOMAIN immutable' : immutable'[i].owner = token
    <2> DEFINE Own == {e \in Entry : e.owner = token}
    <2>1. immutable \in Seq(Own)
      <3>1. immutable \in Seq(Entry) /\ \A i \in DOMAIN immutable : immutable[i].owner = token
        BY DEF TypeOK, Isolated, SessionIsolation
      <3>2. Len(immutable) \in Nat /\ DOMAIN immutable = 1..Len(immutable)
            /\ immutable \in [1..Len(immutable) -> Entry]
        BY <3>1, LenProperties
      <3>3. immutable \in [1..Len(immutable) -> Own]
        BY <3>1, <3>2
      <3>. QED
        BY <3>2, <3>3, SeqDef
    <2>2. immutable' \in Seq(Own)
      <3>1. CASE Fulfilled(c) /\ call[c].key \in Immutable
        <4>1. call[c].auth = token
          BY <3>1 DEF Fulfilled, Isolated, ScopeIsAuth, Live
        <4>2. [key |-> call[c].key, owner |-> call[c].auth] \in Own
          BY <3>1, <4>1 DEF Entry, TypeOK
        <4>3. immutable' = Put(Evicted(immutable), [key |-> call[c].key, owner |-> call[c].auth])
          BY <3>1 DEF Deliver
        <4> HIDE DEF Own
        <4>. QED
          BY <2>1, <4>2, <4>3, PutKeepsElements
      <3>2. CASE ~(Fulfilled(c) /\ call[c].key \in Immutable)
        BY <2>1, <3>2 DEF Deliver
      <3>. QED
        BY <3>1, <3>2
    <2>3. \A i \in DOMAIN immutable' : immutable'[i] \in Own
      <3> HIDE DEF Own
      <3>. QED
        BY <2>2, LenProperties, ElementOfSeq
    <2>. QED
      BY <2>3
  <1>3. \A d \in Calls : call'[d].at # "idle" =>
          call'[d] = call[d] /\ d # c /\ (At(d) = "joined" => call[d].via # c)
    BY Delivered
  <1>4. \A d \in Calls : Live(d) /\ d # c => call'[d] = call[d]
    BY Delivered DEF Live, At
  <1>5. SessionIsolation'
    BY <1>1, <1>2, <1>3 DEF Isolated, SessionIsolation, At
  <1>6. SharedAreLive'
    <2> SUFFICES ASSUME NEW e \in inflight, e.call # c
                 PROVE  /\ call'[e.call].at \notin {"idle", "joined"}
                        /\ ~call'[e.call].signal /\ call'[e.call].key = e.key
                        /\ call'[e.call].scope = e.scope /\ call'[e.call].auth = token
      BY <1>1 DEF SharedAreLive, Live, At
    <2>1. e.call \in Calls /\ Live(e.call)
      BY DEF TypeOK, Isolated, SharedAreLive
    <2>2. call'[e.call] = call[e.call]
      BY <1>4, <2>1
    <2>. QED
      BY <2>1, <2>2 DEF Isolated, SharedAreLive, Live, At
  <1>7. ScopeIsAuth'
    BY <1>1, <1>3 DEF Isolated, ScopeIsAuth, Live, At
  <1>8. JoinersAreServed'
    <2> SUFFICES ASSUME NEW d \in Calls, call'[d].at = "joined"
                 PROVE  LET v == call'[call'[d].via] IN
                        /\ v.at \notin {"idle", "joined"} /\ ~v.signal
                        /\ v.key = call'[d].key /\ v.scope = call'[d].scope /\ v.auth = call'[d].auth
      BY DEF JoinersAreServed, At
    <2>1. call'[d] = call[d] /\ At(d) = "joined" /\ call[d].via # c /\ call[d].via \in Calls
      BY <1>3 DEF TypeOK, Call, At
    <2>2. LET v == call[call[d].via] IN
          /\ v.at \notin {"idle", "joined"} /\ ~v.signal
          /\ v.key = call[d].key /\ v.scope = call[d].scope /\ v.auth = call[d].auth
      BY <2>1 DEF JoinersAreServed
    <2>3. call'[call[d].via] = call[call[d].via]
      BY <1>4, <2>1, <2>2 DEF Live, At
    <2>. QED
      BY <2>1, <2>2, <2>3
  <1>. QED
    BY <1>5, <1>6, <1>7, <1>8 DEF Isolated

-----------------------------------------------------------------------------
(* The theorems *)

LEMMA InvInit == ApiInit => Inv
  <1> SUFFICES ASSUME ApiInit PROVE Inv
    OBVIOUS
  <1>1. \A c \in Calls : call[c] = Idle(c) /\ At(c) = "idle"
    BY DEF ApiInit, At, Idle
  <1>2. TypeOK
    <2>1. call \in [Calls -> Call]
      BY IdleCall DEF ApiInit
    <2>2. <<>> \in Seq(Calls) /\ <<>> \in Seq(Entry)
      BY EmptySeq
    <2>3. 0 \in 0..MaxEpoch /\ None \in Owner
      BY ApiAssumption DEF Owner
    <2>. QED
      BY <2>1, <2>2, <2>3 DEF ApiInit, TypeOK
  <1>3. SlotsCounted
    <2>1. Holders = {}
      BY <1>1 DEF Holders, Holding
    <2>. QED
      BY <1>1, <2>1, FS_EmptySet, ApiAssumption DEF SlotsCounted, ApiInit
  <1>4. Isolated /\ JoinersAreServed
    BY <1>1 DEF Isolated, SessionIsolation, SharedAreLive, ScopeIsAuth, Live,
                JoinersAreServed, ApiInit
  <1>. QED
    BY <1>2, <1>3, <1>4 DEF Inv

LEMMA InvStep == Inv /\ ApiNext => Inv'
  <1> SUFFICES ASSUME Inv, ApiNext PROVE Inv'
    OBVIOUS
  <1> USE DEF Inv
  <1>1. ASSUME NEW c \in Calls, NEW k \in Keys, Join(c, k) PROVE Inv'
    BY <1>1, JoinSlots, JoinIsolated
  <1>2. ASSUME NEW c \in Calls, NEW k \in Keys, NEW signal \in BOOLEAN, Launch(c, k, signal)
        PROVE  Inv'
    BY <1>2, LaunchSlots, LaunchIsolated
  <1>3. ASSUME NEW t \in Owner, SetToken(t) PROVE Inv'
    BY <1>3, SetTokenSlots, SetTokenIsolated
  <1>4. ASSUME NEW c \in Calls, ApiStep(c) PROVE Inv'
    <2>1. CASE Proceed(c)
      BY <2>1, ProceedSlots, ProceedIsolated
    <2>2. CASE Settled(c)
      BY <2>2, SettledSlots, SettledIsolated
    <2>3. CASE TimerFires(c)
      BY <2>3, AbortSlots, AbortIsolated DEF TimerFires, Timed, Why, Pending
    <2>4. CASE CallerAborts(c)
      BY <2>4, AbortSlots, AbortIsolated DEF CallerAborts, Why, Pending
    <2>5. CASE Expire(c)
      BY <2>5, ExpireSlots, ExpireIsolated
    <2>6. CASE Deliver(c)
      BY <2>6, DeliverSlots, DeliverIsolated
    <2>. QED
      BY <1>4, <2>1, <2>2, <2>3, <2>4, <2>5, <2>6 DEF ApiStep, Settled
  <1>. QED
    BY <1>1, <1>2, <1>3, <1>4 DEF ApiNext

LEMMA InvStutter == Inv /\ UNCHANGED api => Inv'
  <1> SUFFICES ASSUME Inv, UNCHANGED api PROVE Inv'
    OBVIOUS
  <1>1. Holders' = Holders
    BY DEF api, Holders, At
  <1>. QED
    BY <1>1 DEF api, Inv, TypeOK, SlotsCounted, Isolated, SessionIsolation, SharedAreLive,
                ScopeIsAuth, Live, JoinersAreServed, At

(* The invariant of the request layer (api.js) holds in every state. *)
THEOREM ApiInvariant == ApiSpec => []Inv
  BY InvInit, InvStep, InvStutter, PTL DEF ApiSpec

(* The slots of acquire and release (api.js:19-33) are counted right, and   *)
(* nobody waits while one is free, whatever callers, timers and sessions    *)
(* do.                                                                      *)
THEOREM Slots == ApiSpec => []SlotsCounted
  <1>1. Inv => SlotsCounted
    BY DEF Inv
  <1>. QED
    BY <1>1, ApiInvariant, PTL

(* Nothing kept, shared, queued or sent belongs to a session that is over   *)
(* (setToken and request, api.js).                                          *)
THEOREM Isolation == ApiSpec => []SessionIsolation
  <1>1. Inv => SessionIsolation
    BY DEF Inv, Isolated
  <1>. QED
    BY <1>1, ApiInvariant, PTL

(* Whoever joins a read in flight (request, api.js) joins one that will be  *)
(* delivered to them and that no other caller can cancel.                   *)
THEOREM Joiners == ApiSpec => []JoinersAreServed
  <1>1. Inv => JoinersAreServed
    BY DEF Inv
  <1>. QED
    BY <1>1, ApiInvariant, PTL
=============================================================================
