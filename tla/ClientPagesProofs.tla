------------------------- MODULE ClientPagesProofs -------------------------
(***************************************************************************)
(* Proofs about the pages of the React client and the legacy interface,    *)
(* for every number of scenarios, people, plans, rows and saves: what is   *)
(* shown of jobs, photos, coordinators, projects and a plan's rows.        *)
(***************************************************************************)
EXTENDS ClientPages, SequenceTheorems, FiniteSetTheorems, WellFoundedInduction, TLAPS

-----------------------------------------------------------------------------
(* GeneratePlans *)

JobStates == Phases \cup {"none"}

(* A row that reports something of a job is of a job there is.              *)
GInv ==
  /\ batch \in 0..MaxBatches
  /\ table \in [Scenarios -> Shown]
  /\ polls \subseteq Poll
  /\ ran \in [Job -> JobStates]
  /\ posts \in [Job -> {"none", "out", "ok"}]
  /\ \A s \in Scenarios :
       table[s].state \in {"running", "done", "cancelled"} => table[s].job \in 1..MaxBatches
  /\ EndedAsReported

LEMMA GInvInit == GenerateInit => GInv
  BY GenerateAssumption
  DEF GenerateInit, GInv, NotStarted, Shown, JobStates, EndedAsReported

(* What is said of a job, and of what that remains true.                    *)
TakenUp(phase) == phase \notin {"none", "queued", "withdrawn"}
Keeps(phase, next) ==
  /\ phase = "done" => next = "done"
  /\ WasStopped(phase) => WasStopped(next)
  /\ TakenUp(phase) => TakenUp(next)

LEMMA SaidOfIt ==
  ASSUME NEW phase \in JobStates
  PROVE  /\ Said(phase) \in Live \cup Ended \cup {"none"}
         /\ Said(phase) = "done" => phase = "done"
         /\ Said(phase) = "cancelled" => WasStopped(phase)
         /\ Said(phase) = "running" => TakenUp(phase)
  BY DEF JobStates, Phases, Said, Live, Ended, WasStopped, TakenUp

LEMMA GetsOn ==
  ASSUME NEW phase \in JobStates, NEW next,
         (phase = "none" /\ next = "queued") \/ next \in Worked(phase) \/ next = Stopped(phase)
  PROVE  next \in JobStates /\ Keeps(phase, next)
  <1>1. CASE phase = "none" /\ next = "queued"
    BY <1>1 DEF JobStates, Phases, Keeps, WasStopped, TakenUp
  <1>2. CASE next \in Worked(phase)
    BY <1>2 DEF JobStates, Phases, Worked, Keeps, WasStopped, TakenUp
  <1>3. CASE next = Stopped(phase)
    BY <1>3 DEF JobStates, Phases, Stopped, Keeps, WasStopped, TakenUp
  <1>. QED
    BY <1>1, <1>2, <1>3

(* The server moves a job on: what the rows say stays true.                 *)
LEMMA Moved ==
  ASSUME GInv, NEW j \in Job, NEW st \in JobStates, ran' = [ran EXCEPT ![j] = st],
         UNCHANGED <<batch, posts, table, polls>>, Keeps(ran[j], st)
  PROVE  GInv'
  <1>1. ran' \in [Job -> JobStates] /\ \A i \in Job : ran'[i] = IF i = j THEN st ELSE ran[i]
    BY DEF GInv
  <1>2. ASSUME NEW s \in Scenarios, table[s].state \in {"running", "done", "cancelled"}
        PROVE  <<table[s].job, s>> \in Job
    BY <1>2 DEF GInv, Job
  <1>3. ASSUME NEW i \in Job PROVE Keeps(ran[i], ran'[i])
    BY <1>1 DEF Keeps
  <1>4. EndedAsReported'
    BY <1>2, <1>3 DEF GInv, EndedAsReported, Keeps, TakenUp
  <1>. QED
    BY <1>1, <1>4 DEF GInv

(* A tick writes one row. *)
LEMMA Written ==
  ASSUME GInv, NEW s \in Scenarios, NEW e \in Shown, table' = [table EXCEPT ![s] = e],
         UNCHANGED <<batch, posts, ran>>, polls' \subseteq Poll,
         \/ e.state \notin {"running", "done", "cancelled"}
         \/ e.job \in 1..MaxBatches /\ e.state = Said(ran[<<e.job, s>>])
  PROVE  GInv'
  <1>1. table' \in [Scenarios -> Shown] /\ \A r \in Scenarios : table'[r] = IF r = s THEN e ELSE table[r]
    BY DEF GInv
  <1>2. CASE e.state \notin {"running", "done", "cancelled"}
    BY <1>1, <1>2 DEF GInv, EndedAsReported
  <1>3. CASE e.job \in 1..MaxBatches /\ e.state = Said(ran[<<e.job, s>>])
    <2>1. ran[<<e.job, s>>] \in JobStates
      BY <1>3 DEF GInv, Job
    <2>2. LET phase == ran[<<e.job, s>>]
          IN /\ e.state = "done" => phase = "done"
             /\ e.state = "cancelled" => WasStopped(phase)
             /\ e.state = "running" => TakenUp(phase)
      BY <1>3, <2>1, SaidOfIt
    <2>. QED
      BY <1>1, <1>3, <2>2 DEF GInv, EndedAsReported, TakenUp
  <1>. QED
    BY <1>2, <1>3

LEMMA GInvStep == GInv /\ [GenerateNext]_generate => GInv'
  <1> SUFFICES ASSUME GInv, [GenerateNext]_generate PROVE GInv'
    OBVIOUS
  <1>0. /\ batch \in 0..MaxBatches /\ table \in [Scenarios -> Shown] /\ polls \subseteq Poll
        /\ ran \in [Job -> JobStates] /\ MaxBatches \in Nat \ {0}
        /\ posts \in [Job -> {"none", "out", "ok"}]
    BY GenerateAssumption DEF GInv
  <1>a. [s \in Scenarios |-> NotStarted] \in [Scenarios -> Shown]
    BY <1>0 DEF NotStarted, Shown
  (* Nothing that the invariant speaks of changes but polls and creations. *)
  <1>b. ASSUME UNCHANGED <<batch, table, ran>>, polls' \subseteq Poll,
               posts' \in [Job -> {"none", "out", "ok"}]
        PROVE  GInv'
    BY <1>b DEF GInv, EndedAsReported
  <1>c. \A b : Dropped(b) \in [Job -> {"none", "out", "ok"}]
    BY <1>0 DEF Dropped
  <1>1. CASE Start
    <2>1. /\ batch' \in 0..MaxBatches
          /\ posts' = [j \in Job |-> IF j[1] = batch + 1 THEN "out" ELSE posts[j]]
          /\ table' = [s \in Scenarios |-> NotStarted] /\ UNCHANGED <<polls, ran>>
      BY <1>0, <1>1 DEF Start
    <2>2. posts' \in [Job -> {"none", "out", "ok"}]
      BY <1>0, <2>1
    <2>. QED
      BY <1>0, <1>a, <2>1, <2>2 DEF GInv, NotStarted, EndedAsReported
  <1>2. CASE Leave
    <2>1. /\ table' = [s \in Scenarios |-> NotStarted] /\ polls' \subseteq polls
          /\ UNCHANGED <<batch, posts, ran>>
      BY <1>2 DEF Leave
    <2>. QED
      BY <1>0, <1>a, <2>1 DEF GInv, NotStarted, EndedAsReported
  <1>3. ASSUME NEW j \in Job, Created(j) PROVE GInv'
    <2>0. j[1] \in 1..MaxBatches /\ UNCHANGED <<batch, ran>>
      BY <1>3 DEF Created, Job
    <2>1. CASE posts' = [posts EXCEPT ![j] = "ok"] /\ UNCHANGED <<table, polls>>
      BY <1>0, <1>b, <2>0, <2>1
    <2>2. CASE /\ posts' = Dropped(j[1])
               /\ table' = IF mounted THEN [s \in Scenarios |-> [job |-> j[1], state |-> "queued"]]
                           ELSE table
               /\ polls' = polls \cup {Asking(<<j[1], s>>) : s \in Scenarios}
      <3>1. polls' \subseteq Poll
        BY <1>0, <2>0, <2>2 DEF Asking, Poll, Job
      <3>2. CASE mounted
        <4>1. /\ table' \in [Scenarios -> Shown]
              /\ \A s \in Scenarios : table'[s].state = "queued"
          BY <1>0, <2>0, <2>2, <3>2 DEF Shown, Live
        <4>. QED
          BY <1>0, <1>c, <2>0, <2>2, <3>1, <4>1 DEF GInv, EndedAsReported
      <3>3. CASE ~mounted
        BY <1>b, <1>c, <2>0, <2>2, <3>1, <3>3
      <3>. QED
        BY <3>2, <3>3
    <2>. QED
      BY <1>3, <2>1, <2>2 DEF Created
  <1>4. ASSUME NEW j \in Job, CreateFails(j) PROVE GInv'
    BY <1>0, <1>b, <1>c, <1>4 DEF CreateFails
  <1>5. ASSUME NEW p \in polls, Told(p) \/ PollFails(p) \/ Tick(p) PROVE GInv'
    <2>0. p \in Poll /\ p.job \in Job /\ p.job[1] \in 1..MaxBatches /\ p.job[2] \in Scenarios
          /\ p.job = <<p.job[1], p.job[2]>>
      BY <1>0, <1>5 DEF Poll, Job
    <2>1. CASE Told(p)
      <3>1. polls' = (polls \ {p}) \cup Again(p) /\ UNCHANGED <<batch, posts, ran>>
        BY <2>1 DEF Told
      <3>2. polls' \subseteq Poll
        <4>1. Again(p) \subseteq Poll
          BY <2>0 DEF Again, Poll
        <4>. QED
          BY <1>0, <3>1, <4>1
      <3>3. CASE ~mounted
        BY <1>0, <1>b, <2>1, <3>1, <3>2, <3>3 DEF Told
      <3>4. CASE mounted
        <4>1. table' = [table EXCEPT ![p.job[2]] = EntryOf(p.job)]
          BY <2>1, <3>4 DEF Told
        <4>2. ran[p.job] \in JobStates
          BY <1>0, <2>0
        <4>3. EntryOf(p.job) \in Shown /\ EntryOf(p.job).job = p.job[1]
              /\ EntryOf(p.job).state = Said(ran[p.job])
          BY <1>0, <2>0, <4>2, SaidOfIt DEF EntryOf, Shown
        <4>4. EntryOf(p.job).state = Said(ran[<<EntryOf(p.job).job, p.job[2]>>])
          BY <2>0, <4>3
        <4>. HIDE DEF EntryOf
        <4>. QED
          BY <2>0, <3>1, <3>2, <4>1, <4>3, <4>4, Written
      <3>. QED
        BY <3>3, <3>4
    <2>2. CASE PollFails(p)
      <3>1. polls' \subseteq Poll /\ UNCHANGED <<batch, posts, ran>>
        BY <1>0, <2>2 DEF PollFails
      <3>2. CASE ~mounted
        BY <1>0, <1>b, <2>2, <3>1, <3>2 DEF PollFails
      <3>3. CASE mounted
        <4> DEFINE e == [table[p.job[2]] EXCEPT !.state = "failed"]
        <4>1. e \in Shown /\ e.state = "failed"
          BY <1>0, <2>0 DEF Shown, Ended
        <4>2. table' = [table EXCEPT ![p.job[2]] = e]
          BY <1>0, <2>0, <2>2, <3>3 DEF PollFails
        <4>. HIDE DEF e
        <4>. QED
          BY <2>0, <3>1, <4>1, <4>2, Written
      <3>. QED
        BY <3>2, <3>3
    <2>3. CASE Tick(p)
      <3>1. Asking(p.job) \in Poll
        BY <2>0 DEF Asking, Poll
      <3>. QED
        BY <1>0, <1>b, <2>3, <3>1 DEF Tick
    <2>. QED
      BY <1>5, <2>1, <2>2, <2>3
  <1>6. ASSUME NEW s \in Scenarios, CancelRow(s) PROVE GInv'
    <2> DEFINE j == <<table[s].job, s>>
    <2>1. /\ ran' = [ran EXCEPT ![j] = Stopped(ran[j])]
          /\ UNCHANGED <<batch, posts, table, polls>>
      BY <1>6 DEF CancelRow
    <2>. HIDE DEF j
    <2>2. CASE j \in Job
      <3>1. Stopped(ran[j]) \in JobStates /\ Keeps(ran[j], Stopped(ran[j]))
        BY <1>0, <2>2, GetsOn
      <3>. QED
        BY <2>1, <2>2, <3>1, Moved
    <2>3. CASE j \notin Job
      <3>1. ran' = ran
        BY <1>0, <2>1, <2>3
      <3>. QED
        BY <1>0, <1>b, <2>1, <3>1
    <2>. QED
      BY <2>2, <2>3
  <1>7. ASSUME NEW j \in Job, Make(j) \/ Work(j) PROVE GInv'
    <2>1. PICK st : /\ ran' = [ran EXCEPT ![j] = st]
                    /\ (ran[j] = "none" /\ st = "queued") \/ st \in Worked(ran[j])
      BY <1>7 DEF Make, Work
    <2>2. st \in JobStates /\ Keeps(ran[j], st)
      BY <1>0, <2>1, GetsOn
    <2>. QED
      BY <1>7, <2>1, <2>2, Moved DEF Make, Work
  <1>8. CASE UNCHANGED generate
    BY <1>0, <1>b, <1>8 DEF generate
  <1>. QED
    BY <1>1, <1>2, <1>3, <1>4, <1>5, <1>6, <1>7, <1>8 DEF GenerateNext, PollStep

(* A state shown of a job is one the service has reported, whichever        *)
(* batches are still polled (poll, ProjectDetail.jsx).                      *)
THEOREM Reported == GenerateSpec => []EndedAsReported
  <1>1. GInv => EndedAsReported
    BY DEF GInv
  <1>. QED
    BY <1>1, GInvInit, GInvStep, PTL DEF GenerateSpec

-----------------------------------------------------------------------------
(* Photos *)

Fetches == [id : People, scope : 0..generation, token : Nat \ {0}]

(* A picture that is kept, or on its way in this generation, is not older   *)
(* than the newest change its person was told of; and it was asked for in a *)
(* session.                                                                 *)
PInv ==
  /\ generation \in Nat /\ seen \in Nat /\ writing \in Nat /\ sessions \in Nat
  /\ token \in Nat /\ (writing # 0 => token # 0)
  /\ current \in [People -> Nat] /\ seen <= current[Self]
  /\ loading \subseteq Fetches
  /\ arriving \subseteq [fetch : Fetches, src : Nat]
  /\ \A g \in arriving : g.fetch.id = Self /\ g.fetch.scope = generation =>
       g.src = 0 \/ g.src >= seen
  /\ avatar = [id |-> avatar.id, of |-> avatar.of, src |-> avatar.src, awaits |-> avatar.awaits]
  /\ avatar.id \in People
  /\ \A l \in avatar.awaits : l.id = avatar.id
  /\ PhotosFresh

LEMMA PInvInit == PhotosInit => PInv
  BY PhotosAssumption DEF PhotosInit, PInv, Blank, Cached, PhotosFresh, Fetches

(* What the avatar shows when a fetch is answered. *)
LEMMA ToldRight ==
  ASSUME PInv, NEW l, NEW src
  PROVE  LET a == ToldTo(l, src) IN
         /\ a = [id |-> a.id, of |-> a.of, src |-> a.src, awaits |-> a.awaits]
         /\ a.id \in People /\ (\A k \in a.awaits : k.id = a.id)
         /\ a.awaits = {} => a.of = a.id
  <1>1. CASE l \in avatar.awaits
    <2>1. PICK a : a = [avatar EXCEPT !.awaits = {}, !.of = l.id, !.src = src]
      OBVIOUS
    <2>2. a = [id |-> avatar.id, of |-> l.id, src |-> src, awaits |-> {}]
      BY <2>1 DEF PInv
    <2>. QED
      BY <1>1, <2>1, <2>2 DEF PInv, ToldTo
  <1>2. CASE l \notin avatar.awaits
    BY <1>2 DEF PInv, ToldTo, PhotosFresh
  <1>. QED
    BY <1>1, <1>2

LEMMA PInvStep == PInv /\ [PhotosNext]_photoVars => PInv'
  <1> SUFFICES ASSUME PInv, [PhotosNext]_photoVars PROVE PInv'
    OBVIOUS
  <1>0. /\ generation \in Nat /\ seen \in Nat /\ current \in [People -> Nat] /\ seen <= current[Self]
        /\ writing \in Nat /\ loading \subseteq Fetches /\ arriving \subseteq [fetch : Fetches, src : Nat]
        /\ Self \in People /\ sessions \in Nat /\ token \in Nat /\ (writing # 0 => token # 0)
        /\ token = 0 => photos = {}
    BY PhotosAssumption DEF PInv, PhotosFresh
  <1>1. ASSUME NEW p \in People, NEW none \in BOOLEAN, ShowPerson(p, none) PROVE PInv'
    <2>0. token # 0 /\ UNCHANGED <<photos, arriving, generation, sessions, token, writing, current, seen>>
      BY <1>1 DEF ShowPerson
    <2>1. SUFFICES /\ loading' \subseteq Fetches
                   /\ avatar' = [id |-> avatar'.id, of |-> avatar'.of, src |-> avatar'.src,
                                 awaits |-> avatar'.awaits]
                   /\ avatar'.id \in People /\ \A l \in avatar'.awaits : l.id = avatar'.id
                   /\ avatar'.awaits = {} => avatar'.of = avatar'.id
      BY <2>0 DEF PInv, PhotosFresh, Cached, Fetches
    <2>2. CASE none /\ \A e \in Cached(p) : e.src = 0
      <3>1. avatar' = [id |-> p, of |-> p, src |-> 0, awaits |-> {}] /\ loading' = loading
        BY <1>1, <2>2 DEF ShowPerson, Blank
      <3>. QED
        BY <1>0, <3>1
    <2>3. CASE ~(none /\ \A e \in Cached(p) : e.src = 0)
      <3>1. PICK a : a = [avatar EXCEPT !.id = p, !.awaits = {}] /\ Load(a)
        BY <1>1, <2>3 DEF ShowPerson
      <3>2. a = [id |-> p, of |-> avatar.of, src |-> avatar.src, awaits |-> {}]
        BY <3>1 DEF PInv
      <3>3. CASE Cached(p) # {}
        <4>1. PICK src : avatar' = [a EXCEPT !.src = src, !.of = p]
          BY <3>1, <3>2, <3>3 DEF Load
        <4>2. avatar' = [id |-> p, of |-> p, src |-> src, awaits |-> {}] /\ loading' = loading
          BY <3>1, <3>2, <3>3, <4>1 DEF Load
        <4>. QED
          BY <1>0, <4>2
      <3>4. CASE Cached(p) = {}
        <4>1. PICK l : l = Fetch(p, generation)
          OBVIOUS
        <4>2. avatar' = [a EXCEPT !.awaits = {l}] /\ loading' = loading \cup {l}
          BY <3>1, <3>2, <3>4, <4>1 DEF Load
        <4>3. avatar' = [id |-> p, of |-> avatar.of, src |-> avatar.src, awaits |-> {l}]
          BY <3>2, <4>2
        <4>4. l \in Fetches
          BY <1>0, <2>0, <4>1 DEF Fetch, Fetches
        <4>5. /\ avatar'.id = p /\ avatar'.of = avatar.of /\ avatar'.src = avatar.src
              /\ avatar'.awaits = {l} /\ l.id = p
          BY <4>1, <4>3 DEF Fetch
        <4>6. avatar' = [id |-> avatar'.id, of |-> avatar'.of, src |-> avatar'.src,
                         awaits |-> avatar'.awaits]
          BY <4>3, <4>5
        <4>. QED
          BY <1>0, <4>2, <4>4, <4>5, <4>6
      <3>. QED
        BY <3>3, <3>4
    <2>. QED
      BY <2>2, <2>3
  <1>2. ASSUME NEW l \in loading, Serve(l) PROVE PInv'
    <2>1. PICK src \in {0, current[l.id]} : arriving' = arriving \cup {[fetch |-> l, src |-> src]}
      BY <1>2 DEF Serve
    <2>2. UNCHANGED <<photos, loading, generation, sessions, token, avatar, writing, current, seen>>
      BY <1>2 DEF Serve
    <2>3. l \in Fetches /\ src \in Nat /\ (l.id = Self => src = 0 \/ src >= seen)
      BY <1>0, <2>1 DEF Fetches
    <2>4. arriving' \subseteq [fetch : Fetches, src : Nat]
      BY <1>0, <2>1, <2>3
    <2>5. \A g \in arriving' : g.fetch.id = Self /\ g.fetch.scope = generation =>
            g.src = 0 \/ g.src >= seen
      BY <2>1, <2>3 DEF PInv
    <2>. QED
      BY <2>2, <2>4, <2>5 DEF PInv, PhotosFresh, Cached, Fetches
  <1>3. ASSUME NEW l \in loading, Answered(l) PROVE PInv'
    <2>0. /\ loading' \subseteq loading /\ arriving' \subseteq arriving
          /\ UNCHANGED <<generation, sessions, token, writing, current, seen>>
      BY <1>3 DEF Answered
    <2>1. PICK s : avatar' = ToldTo(l, s)
      BY <1>3 DEF Answered, Fetched, Unfetched
    <2>2. \A e \in Cached(Self)' : e.src # 0 => e.src >= seen
      <3>1. CASE photos' = photos
        BY <2>0, <3>1 DEF PInv, PhotosFresh, Cached
      <3>2. CASE photos' # photos
        <4>1. PICK g \in arriving : /\ g.fetch = l /\ l.scope = generation /\ l.token = token
                                    /\ photos' = (photos \ Cached(l.id)) \cup {[id |-> l.id, src |-> g.src]}
          BY <1>3, <3>2 DEF Answered, Fetched, Unfetched, InScope
        <4>2. l.id = Self => g.src = 0 \/ g.src >= seen
          BY <4>1 DEF PInv
        <4>. QED
          BY <4>1, <4>2 DEF PInv, PhotosFresh, Cached
      <3>. QED
        BY <3>1, <3>2
    <2>3. /\ avatar' = [id |-> avatar'.id, of |-> avatar'.of, src |-> avatar'.src,
                        awaits |-> avatar'.awaits]
          /\ avatar'.id \in People /\ \A k \in avatar'.awaits : k.id = avatar'.id
          /\ avatar'.awaits = {} => avatar'.of = avatar'.id
      BY <2>1, ToldRight
    <2>4. token = 0 => photos' = {}
      <3>1. CASE photos' = photos
        BY <1>0, <3>1
      <3>2. CASE photos' # photos
        <4>1. l.token = token
          BY <1>3, <3>2 DEF Answered, Fetched, Unfetched, InScope
        <4>2. l.token # 0
          BY <1>0, <1>3 DEF Fetches
        <4>. QED
          BY <4>1, <4>2
      <3>. QED
        BY <3>1, <3>2
    <2>. QED
      BY <1>0, <2>0, <2>2, <2>3, <2>4 DEF PInv, PhotosFresh, Fetches
  <1>4. CASE Replace \/ NotReplaced
    BY <1>0, <1>4 DEF Replace, NotReplaced, PInv, PhotosFresh, Cached, Fetches
  <1>5. CASE Store
    <2>1. /\ current' \in [People -> Nat] /\ current'[Self] >= current[Self]
          /\ UNCHANGED <<photos, loading, arriving, generation, sessions, token, avatar, writing, seen>>
      BY <1>0, <1>5 DEF Store
    <2>. QED
      BY <1>0, <2>1 DEF PInv, PhotosFresh, Cached, Fetches
  <1>6. CASE Replaced
    <2>1. /\ seen' = current[Self] /\ generation' = generation + 1 /\ writing' = 0 /\ token # 0
          /\ UNCHANGED <<arriving, sessions, token, current>>
          /\ photos' = photos \ Cached(Self)
          /\ loading' = loading \cup {Fetch(Self, generation + 1)}
      BY <1>0, <1>6 DEF Replaced
    <2>2. PICK l : l = Fetch(Self, generation + 1)
      OBVIOUS
    <2>3. avatar' = [id |-> Self, of |-> Self, src |-> 0, awaits |-> {l}]
      BY <1>6, <2>2 DEF Replaced, Blank
    <2>4. Fetches \subseteq Fetches' /\ l \in Fetches'
      BY <1>0, <2>1, <2>2 DEF Fetch, Fetches
    <2>5. \A g \in arriving : g.fetch.scope # generation + 1
      BY <1>0 DEF Fetches
    <2>6. Cached(Self)' = {}
      BY <2>1 DEF Cached
    <2>7. loading' \subseteq Fetches' /\ arriving \subseteq [fetch : Fetches', src : Nat]
      BY <1>0, <2>1, <2>2, <2>4
    <2>. QED
      BY <1>0, <2>1, <2>2, <2>3, <2>5, <2>6, <2>7 DEF PInv, PhotosFresh, Fetch
  <1>7. CASE SignOut
    <2>1. /\ generation' = generation + 1 /\ photos' = {} /\ writing' = 0 /\ token' = 0
          /\ avatar' = [id |-> Self, of |-> Self, src |-> 0, awaits |-> {}]
          /\ UNCHANGED <<loading, arriving, sessions, current, seen>>
      BY <1>7 DEF SignOut, Blank
    <2>2. Fetches \subseteq Fetches'
      BY <1>0, <2>1 DEF Fetches
    <2>3. \A g \in arriving : g.fetch.scope # generation + 1
      BY <1>0 DEF Fetches
    <2>. QED
      BY <1>0, <2>1, <2>2, <2>3 DEF PInv, PhotosFresh, Cached
  <1>8. CASE SignIn
    <2>1. /\ token = 0 /\ token' = sessions + 1 /\ sessions' = sessions + 1
          /\ UNCHANGED <<photos, loading, arriving, generation, avatar, writing, current, seen>>
      BY <1>8 DEF SignIn
    <2>. QED
      BY <1>0, <2>1 DEF PInv, PhotosFresh, Cached, Fetches
  <1>9. CASE UNCHANGED photoVars
    BY <1>9 DEF photoVars, PInv, PhotosFresh, Cached, Fetches
  <1>. QED
    BY <1>1, <1>2, <1>3, <1>4, <1>5, <1>6, <1>7, <1>8, <1>9 DEF PhotosNext

(* A photo known to be replaced is never kept, none is kept when nobody is  *)
(* signed in, and an avatar that awaits nothing shows its own person        *)
(* (photos.js:23-60, Avatar.jsx:21-32).                                     *)
THEOREM Fresh == PhotosSpec => []PhotosFresh
  <1>1. PInv => PhotosFresh
    BY DEF PInv
  <1>. QED
    BY <1>1, PInvInit, PInvStep, PTL DEF PhotosSpec

-----------------------------------------------------------------------------
(* PageForms *)

FInv == /\ drawer = [shown |-> drawer.shown, previous |-> drawer.previous, note |-> drawer.note]
        /\ ShownWasSaved

LEMMA FInvInit == FormsInit => FInv
  <1> SUFFICES ASSUME FormsInit PROVE FInv
    OBVIOUS
  <1>1. drawer = [shown |-> Nobody, previous |-> Nobody, note |-> ""] /\ saved = {Nobody}
    BY DEF FormsInit, Closed
  <1>. QED
    BY <1>1 DEF FInv, ShownWasSaved

LEMMA OpenKeeps == ASSUME NEW p, Open(p) PROVE FInv'
  <1>1. CASE p = "drawer"
    <2>1. PICK v : drawer' = [Closed EXCEPT !.shown = v, !.previous = v] /\ saved' = {v}
      BY <1>1 DEF Open
    <2>2. drawer' = [shown |-> v, previous |-> v, note |-> ""]
      BY <2>1 DEF Closed
    <2>. QED
      BY <2>1, <2>2 DEF FInv, ShownWasSaved
  <1>2. CASE p # "drawer"
    <2>1. drawer' = [shown |-> Nobody, previous |-> Nobody, note |-> ""] /\ saved' = {Nobody}
      BY <1>2 DEF Open, Closed
    <2>. QED
      BY <2>1 DEF FInv, ShownWasSaved
  <1>. QED
    BY <1>1, <1>2

LEMMA FInvStep == FInv /\ [FormsNext]_formVars => FInv'
  <1> SUFFICES ASSUME FInv, [FormsNext]_formVars PROVE FInv'
    OBVIOUS
  <1>0. /\ drawer = [shown |-> drawer.shown, previous |-> drawer.previous, note |-> drawer.note]
        /\ step # "assign" => drawer.shown \in saved
        /\ drawer.previous \in saved
    BY DEF FInv, ShownWasSaved
  <1>1. CASE \E p \in Page : Visit(p)
    BY <1>1, OpenKeeps DEF Visit
  <1>2. CASE Pick \/ UNCHANGED formVars
    BY <1>2 DEF Pick, formVars, FInv, ShownWasSaved
  <1>3. CASE Submit
    <2>1. CASE \E v : Save(v)
      <3>1. PICK v : Save(v)
        BY <2>1
      <3>2. /\ drawer' = [shown |-> v, previous |-> drawer.shown, note |-> ""]
            /\ step = "free" /\ step' = "assign" /\ saved' = saved
        BY <3>1 DEF Save, Free, Busy, Await
      <3>. QED
        BY <1>0, <3>2 DEF FInv, ShownWasSaved
    <2>2. CASE CreateProject \/ OpenSample \/ UploadFiles \/ LoadSample \/ CreateAccount \/ SetDisabled
      <3>1. step = "free" /\ UNCHANGED <<drawer, saved>>
        BY <2>2 DEF CreateProject, OpenSample, UploadFiles, LoadSample, CreateAccount, SetDisabled,
                    Free, Busy, Await
      <3>. QED
        BY <1>0, <3>1 DEF FInv, ShownWasSaved
    <2>. QED
      BY <1>3, <2>1, <2>2 DEF Submit
  <1>4. CASE Succeeds
    <2>1. CASE step \in DOMAIN Leads
      BY <1>4, <2>1, OpenKeeps DEF Succeeds
    <2>2. CASE step \notin DOMAIN Leads /\ step = "assign"
      <3>1. drawer' = [drawer EXCEPT !.note = "saved"] /\ saved' = saved \cup {drawer.shown}
        BY <1>4, <2>2 DEF Succeeds
      <3>2. drawer' = [shown |-> drawer.shown, previous |-> drawer.previous, note |-> "saved"]
        BY <1>0, <3>1
      <3>. QED
        BY <1>0, <3>1, <3>2 DEF FInv, ShownWasSaved
    <2>3. CASE step \notin DOMAIN Leads /\ step # "assign"
      BY <1>0, <1>4, <2>3 DEF Succeeds, FInv, ShownWasSaved
    <2>. QED
      BY <2>1, <2>2, <2>3
  <1>5. CASE Fails
    <2>1. CASE step = "assign"
      <3>1. drawer' = [drawer EXCEPT !.shown = drawer.previous, !.note = "error"] /\ saved' = saved
        BY <1>5, <2>1 DEF Fails, Reverted
      <3>2. drawer' = [shown |-> drawer.previous, previous |-> drawer.previous, note |-> "error"]
        BY <1>0, <3>1
      <3>. QED
        BY <1>0, <3>1, <3>2 DEF FInv, ShownWasSaved
    <2>2. CASE step # "assign"
      BY <1>0, <1>5, <2>2 DEF Fails, FInv, ShownWasSaved
    <2>. QED
      BY <2>1, <2>2
  <1>6. CASE Late
    <2>1. PICK s : LateSucceeds(s) \/ LateFails(s)
      BY <1>6 DEF Late
    <2>2. (\E p : Open(p)) \/ UNCHANGED <<step, drawer, saved>>
      BY <2>1 DEF LateSucceeds, LateFails
    <2>. QED
      BY <1>0, <2>2, OpenKeeps DEF FInv, ShownWasSaved
  <1>. QED
    BY <1>1, <1>2, <1>3, <1>4, <1>5, <1>6 DEF FormsNext

(* The coordinator shown while nothing is being saved was saved, and so is  *)
(* the one a failure goes back to (ActivityDetail.jsx:47-64).               *)
THEOREM Coordinator == FormsSpec => []ShownWasSaved
  <1>1. FInv => ShownWasSaved
    BY DEF FInv
  <1>. QED
    BY <1>1, FInvInit, FInvStep, PTL DEF FormsSpec

-----------------------------------------------------------------------------
(* ScheduleData *)

Names == {"versions", "access", "occupancy", "detail", "assigns"}
Resource == [dep : Nat \X Nat, data : Nat \X Nat, loading : BOOLEAN, error : BOOLEAN]

(* What was answered is of what was asked.                                  *)
Good(x) == ~x.loading /\ ~x.error => x.data[1] = x.dep[1] /\ x.data[2] >= x.dep[2]

(* With the resources res, the block open or not and p and r chosen: each   *)
(* hook has asked for what it is to show, and for no save after r.          *)
HooksAsk(res, o, p, r) ==
  /\ \A n \in Names : res[n].dep[2] <= r
  /\ \A n \in Names \ {"versions"} :
       /\ Good(res[n])
       /\ Enabled(n, o, Chosen(res["versions"].data[1], p)) =>
            res[n].dep = Deps(o, r, Chosen(res["versions"].data[1], p))[n]

DInv ==
  /\ resource \in [Names -> Resource]
  /\ prefer \in Nat /\ revision \in Nat /\ plans \in Nat /\ saves \in Nat /\ open \in BOOLEAN
  /\ revision <= saves
  /\ HooksAsk(resource, open, prefer, revision)

LEMMA DepsTyped ==
  ASSUME NEW o, NEW r \in Nat, NEW v \in Nat, NEW n \in Names
  PROVE  Deps(o, r, v)[n] \in Nat \X Nat /\ Deps(o, r, v)[n][2] <= r
  BY DEF Deps, Names, InstanceOf

LEMMA OffIsGood == Off \in Resource /\ Good(Off) /\ Off.dep[2] = 0 /\ Off.data[1] = 0
  BY DEF Off, Resource, Good, Null

(* The effects that follow a change leave every hook asking for what it is  *)
(* to show, if what was answered before was right.                          *)
LEMMA EffectsAsk ==
  ASSUME NEW res \in [Names -> Resource], NEW o \in BOOLEAN, NEW p \in Nat, NEW r \in Nat,
         NEW s, s = AfterEffects(res, o, p, r),
         \A n \in Names \ {"versions"} : Good(res[n]),
         \A n \in Names : res[n].dep[2] <= r
  PROVE  s \in [Names -> Resource] /\ HooksAsk(s, o, p, r)
  <1> DEFINE v == Chosen(res["versions"].data[1], p)
             D(n) == Deps(o, r, v)[n]
             E(n) == Enabled(n, o, v)
  <1>0. "versions" \in Names /\ res["versions"] \in Resource /\ res["versions"].data[1] \in Nat
    BY DEF Names, Resource
  <1>1. v \in Nat
    BY <1>0 DEF Chosen
  <1>2. \A n \in Names : D(n) \in Nat \X Nat /\ D(n)[2] <= r
    BY <1>1, DepsTyped
  <1>3. /\ DOMAIN s = Names
        /\ \A n \in Names : s[n] = IF ~E(n) THEN Off
                                   ELSE IF res[n].dep = D(n) THEN res[n]
                                   ELSE [res[n] EXCEPT !.dep = D(n), !.loading = TRUE, !.error = FALSE]
        /\ s = [n \in Names |-> s[n]]
    BY DEF AfterEffects
  <1>. HIDE DEF v, D, E
  <1>4. ASSUME NEW n \in Names
        PROVE  /\ s[n] \in Resource /\ s[n].dep[2] <= r
               /\ n # "versions" => Good(s[n])
               /\ E(n) => s[n].dep = D(n) /\ s[n].data = res[n].data
    <2>1. CASE ~E(n)
      <3>1. s[n] = Off
        BY <1>3, <2>1
      <3>2. Off \in Resource /\ Good(Off) /\ Off.dep[2] <= r
        BY OffIsGood
      <3>. QED
        BY <2>1, <3>1, <3>2
    <2>2. CASE E(n) /\ res[n].dep = D(n)
      BY <1>3, <2>2
    <2>3. CASE E(n) /\ res[n].dep # D(n)
      <3>1. PICK x : x = [res[n] EXCEPT !.dep = D(n), !.loading = TRUE, !.error = FALSE]
        OBVIOUS
      <3>2. s[n] = x
        BY <1>3, <2>3, <3>1
      <3>3. x \in Resource /\ x.dep = D(n) /\ x.loading /\ x.data = res[n].data
        BY <1>2, <3>1 DEF Resource
      <3>. QED
        BY <1>2, <3>2, <3>3 DEF Good
    <2>. QED
      BY <2>1, <2>2, <2>3
  <1>5. s \in [Names -> Resource]
    BY <1>3, <1>4
  (* With the block open the versions shown are the same. *)
  <1>6. o => Chosen(s["versions"].data[1], p) = v
    BY <1>0, <1>4 DEF E, v, Enabled
  <1>7. ASSUME NEW n \in Names \ {"versions"}, Enabled(n, o, Chosen(s["versions"].data[1], p))
        PROVE  s[n].dep = Deps(o, r, Chosen(s["versions"].data[1], p))[n]
    <2>1. o /\ Chosen(s["versions"].data[1], p) = v
      BY <1>6, <1>7 DEF Enabled
    <2>2. E(n)
      BY <1>7, <2>1 DEF E
    <2>3. s[n].dep = D(n)
      BY <1>4, <2>2
    <2>. QED
      BY <2>1, <2>3 DEF D
  <1>. QED
    BY <1>4, <1>5, <1>7 DEF HooksAsk

LEMMA DInvInit == ScheduleInit => DInv
  <1> SUFFICES ASSUME ScheduleInit PROVE DInv
    OBVIOUS
  <1>1. PICK x : x = [Off EXCEPT !.dep = <<1, 0>>, !.loading = TRUE]
    OBVIOUS
  <1>2. /\ resource = [n \in Names |-> IF n = "versions" /\ open THEN x ELSE Off]
        /\ prefer = 0 /\ revision = 0 /\ saves = 0 /\ open \in BOOLEAN /\ plans \in Nat
    BY <1>1, ScheduleAssumption DEF ScheduleInit, Names
  <1>3. x \in Resource /\ x.dep = <<1, 0>> /\ x.data = Null
    BY <1>1 DEF Off, Resource, Null
  <1>4. "versions" \in Names /\ resource["versions"].data[1] = 0
    BY <1>2, <1>3, OffIsGood DEF Names, Null
  <1>5. resource \in [Names -> Resource] /\ \A n \in Names : resource[n].dep[2] <= 0
    BY <1>2, <1>3, OffIsGood
  <1>6. \A n \in Names \ {"versions"} :
          Good(resource[n]) /\ ~Enabled(n, open, Chosen(resource["versions"].data[1], prefer))
    BY <1>2, <1>4, OffIsGood DEF Enabled, Chosen
  <1>. QED
    BY <1>2, <1>5, <1>6 DEF DInv, HooksAsk

LEMMA AnswersRight ==
  ASSUME DInv, NEW n \in Names, NEW d \in Answers(n)
  PROVE  /\ d \in Nat \X Nat
         /\ n # "versions" => d[1] = resource[n].dep[1] /\ d[2] >= resource[n].dep[2]
  <1>0. /\ resource[n].dep \in Nat \X Nat /\ saves \in Nat /\ plans \in Nat
        /\ resource[n].dep[2] <= revision /\ revision <= saves /\ revision \in Nat
    BY DEF DInv, HooksAsk, Resource
  <1>1. CASE n = "versions"
    BY <1>0, <1>1 DEF Answers
  <1>2. CASE n = "assigns"
    BY <1>0, <1>2 DEF Answers
  <1>3. CASE n \notin {"versions", "assigns"}
    BY <1>0, <1>3 DEF Answers
  <1>. QED
    BY <1>1, <1>2, <1>3

LEMMA DInvStep == DInv /\ [ScheduleNext]_scheduleVars => DInv'
  <1> SUFFICES ASSUME DInv, [ScheduleNext]_scheduleVars PROVE DInv'
    OBVIOUS
  <1>0. /\ resource \in [Names -> Resource] /\ DOMAIN resource = Names
        /\ prefer \in Nat /\ revision \in Nat /\ plans \in Nat /\ saves \in Nat /\ open \in BOOLEAN
        /\ revision <= saves
        /\ \A n \in Names : resource[n].dep[2] <= revision
        /\ \A n \in Names \ {"versions"} : Good(resource[n])
    BY DEF DInv, HooksAsk
  (* The steps that end in the effects, with the resources they start from. *)
  <1>a. ASSUME NEW res \in [Names -> Resource], NEW o \in BOOLEAN, NEW p \in Nat, NEW r \in Nat,
               resource' = AfterEffects(res, o, p, r), open' = o, prefer' = p, revision' = r,
               \A n \in Names \ {"versions"} : Good(res[n]),
               \A n \in Names : res[n].dep[2] <= r,
               plans' \in Nat, saves' \in Nat, r <= saves'
        PROVE  DInv'
    BY <1>a, EffectsAsk DEF DInv
  <1>1. ASSUME NEW n \in Names, Arrives(n) \/ DoesNotArrive(n) PROVE DInv'
    <2>1. PICK x, res : /\ res = [resource EXCEPT ![n] = x]
                        /\ resource' = AfterEffects(res, open, prefer, revision)
                        /\ x \in Resource /\ x.dep = resource[n].dep
                        /\ n # "versions" => Good(x)
      <3>1. CASE Arrives(n)
        <4>1. PICK d \in Answers(n) :
                resource' = AfterEffects([resource EXCEPT ![n].data = d, ![n].loading = FALSE],
                                         open, prefer, revision)
          BY <3>1 DEF Arrives
        <4>2. /\ d \in Nat \X Nat
              /\ n # "versions" => d[1] = resource[n].dep[1] /\ d[2] >= resource[n].dep[2]
          BY <1>0, AnswersRight
        <4>3. PICK x : x = [resource[n] EXCEPT !.data = d, !.loading = FALSE]
          OBVIOUS
        <4>4. x \in Resource /\ x.dep = resource[n].dep /\ x.data = d
          BY <1>0, <4>2, <4>3 DEF Resource
        <4>5. [resource EXCEPT ![n].data = d, ![n].loading = FALSE] = [resource EXCEPT ![n] = x]
          BY <1>0, <4>3
        <4>. QED
          BY <4>1, <4>2, <4>4, <4>5 DEF Good
      <3>2. CASE DoesNotArrive(n)
        <4>1. PICK x : x = [resource[n] EXCEPT !.data = Null, !.loading = FALSE, !.error = TRUE]
          OBVIOUS
        <4>2. x \in Resource /\ x.dep = resource[n].dep /\ x.error
          BY <1>0, <4>1 DEF Resource, Null
        <4>3. [resource EXCEPT ![n].data = Null, ![n].loading = FALSE, ![n].error = TRUE]
              = [resource EXCEPT ![n] = x]
          BY <1>0, <4>1
        <4>. QED
          BY <3>2, <4>2, <4>3 DEF DoesNotArrive, Good
      <3>. QED
        BY <1>1, <3>1, <3>2
    <2>2. /\ res \in [Names -> Resource]
          /\ \A m \in Names : res[m] = IF m = n THEN x ELSE resource[m]
      BY <1>0, <2>1
    <2>3. UNCHANGED <<open, prefer, revision, plans, saves>>
      BY <1>1 DEF Arrives, DoesNotArrive
    <2>4. \A m \in Names : res[m].dep[2] <= revision
      BY <1>0, <2>1, <2>2
    <2>5. \A m \in Names \ {"versions"} : Good(res[m])
      BY <1>0, <2>1, <2>2
    <2>. QED
      BY <1>0, <1>a, <2>1, <2>2, <2>3, <2>4, <2>5
  <1>2. ASSUME NEW v \in 1..MaxPlans, ChoosePlan(v) PROVE DInv'
    BY <1>0, <1>a, <1>2, ScheduleAssumption DEF ChoosePlan
  <1>3. CASE Disclose
    BY <1>0, <1>a, <1>3 DEF Disclose
  <1>4. CASE Saved
    <2>1. \A n \in Names : resource[n].dep[2] <= saves
      BY <1>0 DEF Resource
    <2>. QED
      BY <1>0, <1>a, <1>4, <2>1 DEF Saved
  <1>5. CASE RetryAll
    <2>1. /\ open /\ UNCHANGED <<open, prefer, revision, plans, saves>>
          /\ resource' = [n \in Names |->
               IF Enabled(n, open, Plan) THEN [resource[n] EXCEPT !.loading = TRUE, !.error = FALSE]
               ELSE Off]
      BY <1>0, <1>5 DEF RetryAll
    <2>2. ASSUME NEW n \in Names
          PROVE  /\ resource'[n] \in Resource /\ resource'[n].dep[2] <= revision
                 /\ n # "versions" => Good(resource'[n])
                 /\ Enabled(n, open, Plan) => /\ resource'[n].dep = resource[n].dep
                                              /\ resource'[n].data = resource[n].data
      <3>1. CASE Enabled(n, open, Plan)
        <4>1. PICK x : x = [resource[n] EXCEPT !.loading = TRUE, !.error = FALSE]
          OBVIOUS
        <4>2. x \in Resource /\ x.dep = resource[n].dep /\ x.data = resource[n].data /\ x.loading
          BY <1>0, <4>1 DEF Resource
        <4>. QED
          BY <1>0, <2>1, <3>1, <4>1, <4>2 DEF Good
      <3>2. CASE ~Enabled(n, open, Plan)
        <4>1. resource'[n] = Off
          BY <2>1, <3>2
        <4>2. Off \in Resource /\ Good(Off) /\ Off.dep[2] <= revision
          BY <1>0, OffIsGood
        <4>. QED
          BY <3>2, <4>1, <4>2
      <3>. QED
        BY <3>1, <3>2
    <2>3. resource' \in [Names -> Resource]
      BY <2>1, <2>2
    <2>4. resource'["versions"].data = resource["versions"].data
      BY <2>1, <2>2 DEF Names, Enabled
    <2>5. Plan = Chosen(resource["versions"].data[1], prefer)
      BY DEF Plan
    <2>6. \A n \in Names \ {"versions"} : Enabled(n, open, Plan) =>
            resource'[n].dep = Deps(open, revision, Plan)[n]
      BY <2>2, <2>5 DEF DInv, HooksAsk
    <2>7. HooksAsk(resource', open, prefer, revision)
      BY <2>2, <2>4, <2>5, <2>6 DEF HooksAsk
    <2>. QED
      BY <1>0, <2>1, <2>3, <2>7 DEF DInv
  <1>6. CASE SaveCoordinator \/ AnotherPlan \/ UNCHANGED scheduleVars
    <2>1. /\ UNCHANGED <<open, prefer, resource, revision>>
          /\ plans' \in Nat /\ saves' \in Nat /\ revision <= saves'
      BY <1>0, <1>6 DEF SaveCoordinator, AnotherPlan, scheduleVars
    <2>. QED
      BY <1>0, <2>1 DEF DInv, HooksAsk
  <1>. QED
    BY <1>0, <1>1, <1>2, <1>3, <1>4, <1>5, <1>6 DEF ScheduleNext

(* The rows shown are those of the plan named above them, with the          *)
(* contracts and the coordinators of its input, whatever order answers come *)
(* in (useProjectSchedule.js:25-106).                                       *)
THEOREM OnePlan == ScheduleSpec => []OnePlanShown
  <1>1. DInv => OnePlanShown
    <2> SUFFICES ASSUME DInv, open, ~Loading, ~Failed, Plan # 0
                 PROVE  /\ resource["access"].data[1] = Plan /\ resource["occupancy"].data[1] = Plan
                        /\ resource["detail"].data[1] = InstanceOf(Plan)
                        /\ resource["assigns"].data[1] = InstanceOf(Plan)
                        /\ resource["assigns"].data[2] >= revision
      BY DEF OnePlanShown
    <2>1. /\ DOMAIN resource = Names /\ revision \in Nat
          /\ \A n \in Names \ {"versions"} :
               ~resource[n].loading /\ ~resource[n].error /\ Good(resource[n])
      BY DEF DInv, HooksAsk, Loading, Failed
    <2>2. \A n \in Names \ {"versions"} : resource[n].dep = Deps(open, revision, Plan)[n]
      BY DEF DInv, HooksAsk, Plan, Enabled
    <2>3. \A n \in Names \ {"versions"} :
            /\ resource[n].data[1] = Deps(open, revision, Plan)[n][1]
            /\ resource[n].data[2] >= Deps(open, revision, Plan)[n][2]
      BY <2>1, <2>2 DEF Good
    <2>. HIDE DEF Plan
    <2>. QED
      BY <2>3 DEF Names, Deps
  <1>. QED
    BY <1>1, DInvInit, DInvStep, PTL DEF ScheduleSpec

-----------------------------------------------------------------------------
(* ProjectIndex *)

(* The projects that a page shows between its cursor and the next one's. *)
Between(low, high) == {p \in 1..projects : low <= p /\ p < high}

(* What the page kept says of the page after it, once it was answered.      *)
Continues(next, cursor) ==
  /\ next \in 1..projects /\ next < cursor
  /\ position > 0 => Cardinality(Between(next, cursor)) = PageLimit

XInv ==
  /\ projects \in 0..MaxProjects
  /\ cursors \in Seq(1..Top) /\ position \in Nat /\ position < Len(cursors)
  /\ cursors[1] = Top
  /\ \A k \in 2..Len(cursors) : cursors[k] <= projects /\ cursors[k] < cursors[k - 1]
  /\ \A k \in 2..(Len(cursors) - 1) : Cardinality(Between(cursors[k + 1], cursors[k])) = PageLimit
  /\ index \in [ids : SUBSET Nat, loading : BOOLEAN, next : Nat]
  /\ ~index.loading =>
       /\ \A p \in index.ids : p < cursors[position + 1]
       /\ index.next # 0 => Continues(index.next, cursors[position + 1])

LEMMA XInvInit == IndexInit => XInv
  BY IndexAssumption DEF IndexInit, XInv, Top

(* A page with more below it ends PageLimit projects further down. *)
LEMMA ListingContinues ==
  ASSUME IndexAssumption, projects \in 0..MaxProjects, NEW c \in 1..Top
  PROVE  /\ Listing(c) \in [ids : SUBSET Nat, loading : {FALSE}, next : Nat]
         /\ \A p \in Listing(c).ids : p < c
         /\ Listing(c).next # 0 =>
              /\ Listing(c).next \in 1..projects /\ Listing(c).next < c
              /\ Cardinality(Between(Listing(c).next, c)) = PageLimit
  <1>0. projects \in Nat /\ c \in Nat \ {0} /\ PageLimit \in Nat \ {0}
    BY DEF IndexAssumption, Top
  <1>1. PICK n \in Nat : n <= projects /\ n < c /\ Below(c) = 1..n
    <2>1. CASE c > projects
      BY <1>0, <2>1 DEF Below
    <2>2. CASE c <= projects
      <3>1. Below(c) = 1..(c - 1)
        BY <1>0, <2>2 DEF Below
      <3>. QED
        BY <1>0, <2>2, <3>1
    <2>. QED
      BY <1>0, <2>1, <2>2
  <1>2. Cardinality(Below(c)) = n
    BY <1>1, FS_Interval
  <1>3. CASE n <= PageLimit
    <2>1. Listing(c) = [ids |-> Below(c), loading |-> FALSE, next |-> 0]
      BY <1>0, <1>2, <1>3 DEF Listing
    <2>. QED
      BY <1>0, <1>1, <2>1
  <1>4. CASE n > PageLimit
    <2> DEFINE Ends(p) == Cardinality({q \in Below(c) : q >= p}) = PageLimit
    <2> DEFINE least == CHOOSE p \in Below(c) : Ends(p)
    <2>1. /\ n - PageLimit + 1 \in Below(c)
          /\ {q \in Below(c) : q >= n - PageLimit + 1} = (n - PageLimit + 1)..n
      BY <1>0, <1>1, <1>4
    <2>2. Cardinality((n - PageLimit + 1)..n) = PageLimit
      <3>1. n - PageLimit + 1 \in Int /\ n \in Int /\ n - PageLimit + 1 <= n
        BY <1>0, <1>4
      <3>2. Cardinality((n - PageLimit + 1)..n) = n - (n - PageLimit + 1) + 1
        BY <3>1, FS_Interval
      <3>. QED
        BY <1>0, <3>2
    <2>3. least \in Below(c) /\ Ends(least)
      BY <2>1, <2>2
    <2>4. Listing(c) = [ids |-> {p \in Below(c) : p >= least}, loading |-> FALSE, next |-> least]
      BY <1>0, <1>2, <1>4 DEF Listing
    <2>. HIDE DEF least
    <2>5. {q \in Below(c) : q >= least} = Between(least, c)
      BY <1>0, <1>1, <2>3 DEF Between, Below
    <2>6. least \in 1..projects /\ least < c /\ least # 0
      BY <2>3 DEF Below
    <2>7. {p \in Below(c) : p >= least} \subseteq {p \in Nat : p < c}
      BY <1>0 DEF Below
    <2>8. Listing(c).next = least /\ Listing(c).ids = {p \in Below(c) : p >= least}
          /\ Listing(c) \in [ids : SUBSET Nat, loading : {FALSE}, next : Nat]
      BY <2>4, <2>6, <2>7
    <2>9. Cardinality(Between(least, c)) = PageLimit
      BY <2>3, <2>5
    <2>. QED
      BY <2>6, <2>7, <2>8, <2>9
  <1>5. n <= PageLimit \/ n > PageLimit
    BY <1>0, <1>1
  <1>. QED
    BY <1>3, <1>4, <1>5

LEMMA XInvStep == XInv /\ [IndexNext]_indexVars => XInv'
  <1> SUFFICES ASSUME XInv, [IndexNext]_indexVars PROVE XInv'
    OBVIOUS
  <1> USE IndexAssumption DEF IndexAssumption
  <1>0. /\ projects \in Nat /\ cursors \in Seq(Nat) /\ position + 1 \in 1..Len(cursors)
        /\ position \in Nat /\ position < Len(cursors)
        /\ Len(cursors) \in Nat /\ cursors[position + 1] \in 1..Top
        /\ \A k \in 1..Len(cursors) : cursors[k] \in Nat
    BY DEF XInv, Top
  <1>1. CASE Listed
    <2>1. /\ index' = Listing(cursors[position + 1])
          /\ UNCHANGED <<projects, cursors, position>>
      BY <1>1 DEF Listed
    <2> DEFINE c == cursors[position + 1]
    <2>2. c \in 1..Top
      BY <1>0
    <2>. HIDE DEF c
    <2>3. /\ index' \in [ids : SUBSET Nat, loading : {FALSE}, next : Nat]
          /\ \A p \in index'.ids : p < c
          /\ index'.next # 0 =>
               /\ index'.next \in 1..projects /\ index'.next < c
               /\ Cardinality(Between(index'.next, c)) = PageLimit
      BY <2>1, <2>2, ListingContinues DEF XInv, c
    <2>. QED
      BY <2>1, <2>3 DEF XInv, Continues, Between, c
  <1>2. CASE NotListed
    BY <1>2 DEF NotListed, XInv, Continues, Between
  <1>3. CASE ListAgain
    BY <1>3 DEF ListAgain, XInv, Continues, Between
  <1>4. CASE PreviousProjects
    <2>1. /\ ~index.loading /\ position > 0 /\ position' = position - 1
          /\ UNCHANGED <<projects, cursors>>
          /\ index' = [index EXCEPT !.loading = (cursors[position] # cursors[position + 1])]
      <3>1. position' + 1 = position
        BY <1>0, <1>4 DEF PreviousProjects
      <3>. QED
        BY <1>4, <3>1 DEF PreviousProjects, CanMove, Asked
    <2>2. cursors[position + 1] < cursors[position]
      <3>1. position + 1 \in 2..Len(cursors) /\ (position + 1) - 1 = position
        BY <1>0, <2>1
      <3>. QED
        BY <3>1 DEF XInv
    <2>3. index'.loading = TRUE /\ index' \in [ids : SUBSET Nat, loading : BOOLEAN, next : Nat]
      <3>1. cursors[position] # cursors[position + 1]
        BY <1>0, <2>1, <2>2
      <3>. QED
        BY <2>1, <3>1 DEF XInv
    <2>4. position' \in Nat /\ position' < Len(cursors)
      BY <1>0, <2>1
    <2>. QED
      BY <2>1, <2>3, <2>4 DEF XInv, Between
  <1>5. CASE NextProjects
    <2> DEFINE s == SubSeq(cursors, 1, position + 1)
    <2>1. /\ ~index.loading /\ index.next # 0 /\ position' = position + 1
          /\ cursors' = Append(s, index.next) /\ projects' = projects /\ Asked
      BY <1>5 DEF NextProjects, CanMove
    <2>2. Continues(index.next, cursors[position + 1])
      BY <2>1 DEF XInv
    <2>3. index.next \in 1..projects /\ index.next < cursors[position + 1] /\ index.next \in 1..Top
      BY <1>0, <2>2 DEF Continues, XInv, Top
    <2>4. /\ s \in Seq(1..Top) /\ Len(s) = position + 1
          /\ \A k \in 1..(position + 1) : s[k] = cursors[k]
      BY <1>0 DEF XInv
    <2>. HIDE DEF s
    <2>5. /\ cursors' \in Seq(1..Top) /\ Len(cursors') = position + 2
          /\ cursors'[position + 2] = index.next
          /\ \A k \in 1..(position + 1) : cursors'[k] = cursors[k]
      BY <1>0, <2>1, <2>3, <2>4
    <2>6. index'.loading = TRUE /\ index' \in [ids : SUBSET Nat, loading : BOOLEAN, next : Nat]
      <3>1. cursors'[position' + 1] = index.next
        BY <1>0, <2>1, <2>5
      <3>2. index.next # cursors[position + 1]
        BY <1>0, <2>3
      <3>. QED
        BY <2>1, <3>1, <3>2 DEF Asked, XInv
    <2>7. ASSUME NEW k \in 2..(position + 2)
          PROVE  cursors'[k] <= projects /\ cursors'[k] < cursors'[k - 1]
      <3>1. CASE k = position + 2
        BY <1>0, <2>3, <2>5, <3>1
      <3>2. CASE k # position + 2
        <4>1. /\ k \in 2..Len(cursors) /\ k \in 1..(position + 1) /\ k - 1 \in 1..(position + 1)
              /\ cursors'[k] = cursors[k] /\ cursors'[k - 1] = cursors[k - 1]
          BY <1>0, <2>5, <3>2
        <4>2. cursors[k] <= projects /\ cursors[k] < cursors[k - 1]
          BY <4>1 DEF XInv
        <4>. QED
          BY <4>1, <4>2
      <3>. QED
        BY <3>1, <3>2
    <2>8. ASSUME NEW k \in 2..(position + 1)
          PROVE  Cardinality(Between(cursors'[k + 1], cursors'[k])) = PageLimit
      <3>1. CASE k = position + 1
        <4>1. position > 0 /\ cursors'[k + 1] = index.next /\ cursors'[k] = cursors[position + 1]
          BY <1>0, <2>5, <3>1
        <4>. QED
          BY <2>2, <4>1 DEF Continues
      <3>2. CASE k # position + 1
        <4>1. /\ k \in 2..(Len(cursors) - 1)
              /\ cursors'[k + 1] = cursors[k + 1] /\ cursors'[k] = cursors[k]
          BY <1>0, <2>5, <3>2
        <4>. QED
          BY <4>1 DEF XInv
      <3>. QED
        BY <3>1, <3>2
    <2>9. cursors'[1] = Top /\ position' \in Nat /\ position' < Len(cursors')
      BY <1>0, <2>1, <2>5 DEF XInv
    <2>10. projects' \in 0..MaxProjects /\ Len(cursors') - 1 = position + 1
      BY <1>0, <2>1, <2>5 DEF XInv
    <2>. QED
      BY <2>1, <2>5, <2>6, <2>7, <2>8, <2>9, <2>10 DEF XInv, Between, Top
  <1>6. CASE AnotherProject
    <2>1. /\ projects' = projects + 1 /\ projects' \in 0..MaxProjects
          /\ UNCHANGED <<cursors, position, index>>
      BY <1>0, <1>6 DEF AnotherProject
    <2>2. ASSUME NEW low \in Nat, NEW high \in Nat, high <= projects
          PROVE  {p \in 1..projects' : low <= p /\ p < high} = Between(low, high)
      BY <1>0, <2>1, <2>2 DEF Between
    <2>3. ASSUME NEW k \in 2..(Len(cursors) - 1)
          PROVE  Cardinality({p \in 1..projects' : cursors[k + 1] <= p /\ p < cursors[k]}) = PageLimit
      <3>1. k \in 2..Len(cursors) /\ k \in 1..Len(cursors) /\ k + 1 \in 1..Len(cursors)
        BY <1>0
      <3>2. cursors[k] <= projects
        BY <3>1 DEF XInv
      <3>3. cursors[k] \in Nat /\ cursors[k + 1] \in Nat
        BY <1>0, <3>1
      <3>. QED
        BY <2>2, <3>2, <3>3 DEF XInv
    <2>4. ASSUME ~index.loading, index.next # 0
          PROVE  /\ index.next \in 1..projects' /\ index.next < cursors[position + 1]
                 /\ position > 0 =>
                      Cardinality({p \in 1..projects' : index.next <= p /\ p < cursors[position + 1]})
                        = PageLimit
      <3>1. Continues(index.next, cursors[position + 1])
        BY <2>4 DEF XInv
      <3>2. position > 0 => cursors[position + 1] <= projects
        BY <1>0 DEF XInv
      <3>3. index.next \in 1..projects' /\ index.next \in Nat
        BY <1>0, <2>1, <3>1 DEF Continues
      <3>. QED
        BY <1>0, <2>2, <3>1, <3>2, <3>3 DEF Continues
    <2>5. ASSUME NEW k \in 2..Len(cursors)
          PROVE  cursors[k] <= projects' /\ cursors[k] < cursors[k - 1]
      <3>1. k \in 1..Len(cursors) /\ cursors[k] \in Nat
        BY <1>0
      <3>2. cursors[k] <= projects /\ cursors[k] < cursors[k - 1]
        BY DEF XInv
      <3>. QED
        BY <1>0, <2>1, <3>1, <3>2
    <2>. QED
      BY <2>1, <2>3, <2>4, <2>5 DEF XInv, Continues, Between, Top
  <1>7. CASE UNCHANGED indexVars
    BY <1>7 DEF indexVars, XInv, Continues, Between
  <1>. QED
    BY <1>1, <1>2, <1>3, <1>4, <1>5, <1>6, <1>7 DEF IndexNext

(* Turning the pages skips no project and shows none twice, whatever is     *)
(* created meanwhile (useProjectIndex.js:5-11).                             *)
THEOREM InOrder == Spec => []IndexInOrder
  <1>1. XInv => IndexInOrder
    <2> SUFFICES ASSUME XInv PROVE IndexInOrder
      OBVIOUS
    <2>1. 2..position \subseteq 2..(Len(cursors) - 1)
      BY DEF XInv
    <2>. QED
      BY <2>1 DEF XInv, IndexInOrder, Between
  <1>2. Init => XInv
    BY XInvInit DEF Init
  <1>3. XInv /\ [Next]_pages => XInv'
    <2>1. [Next]_pages => [IndexNext]_indexVars
      BY DEF Next, pages, indexVars
    <2>. QED
      BY <2>1, XInvStep
  <1>. QED
    BY <1>1, <1>2, <1>3, PTL DEF Spec

-----------------------------------------------------------------------------
(* LegacyWizard *)

Stages == [stage : {"upload", "check", "generate", "review"}, ok : BOOLEAN, job : Nat]
Runs == [wizard : Nat, state : Phases]
Handlers == [do : {"idle", "check", "run", "review", "reload"},
             at : {"idle", "upload", "detail", "instances", "job", "poll", "timer", "versions", "files"},
             wizard : Nat, job : Nat]

WellEnded(job) == job.state = "done" \/ WasStopped(job.state)

(* A handler d moves a wizard that there is, by a job that was asked for    *)
(* that wizard; past its polls the job has ended well or was cancelled.     *)
Bound(d, n, js) ==
  /\ d.do \in {"check", "run"} => d.wizard \in 1..n
  /\ d.do = "run" /\ d.at # "job" =>
       /\ d.job \in 1..Len(js) /\ js[d.job].wizard = d.wizard
       /\ d.at = "versions" => WellEnded(js[d.job])

(* Jobs are added, and what ended well or was cancelled stays so.           *)
Kept(js, ks) ==
  /\ Len(js) <= Len(ks)
  /\ \A j \in 1..Len(js) : /\ ks[j].wizard = js[j].wizard
                           /\ WellEnded(js[j]) => WellEnded(ks[j])

Followed(ws, js) ==
  \A w \in 1..Len(ws) : ws[w].stage = "review" =>
    \E j \in 1..Len(js) : js[j].wizard = w /\ WellEnded(js[j])

WInv ==
  /\ wizards \in Seq(Stages) /\ wizard \in 0..Len(wizards) /\ (inWizard => wizard # 0)
  /\ jobs \in Seq(Runs)
  /\ doing \in [Wizard!Busy -> Handlers]
  /\ \A i \in Wizard!Busy : Bound(doing[i], Len(wizards), jobs)
  /\ Followed(wizards, jobs)

(* What the wizard is told of a job, and what becomes of one. *)
LEMMA ToldWell ==
  ASSUME NEW job \in Runs, Wizard!Said(job.state) \in {"done", "cancelled"}
  PROVE  WellEnded(job)
  <1>1. job.state \in Phases
    BY DEF Runs
  <1>. QED
    BY <1>1 DEF Phases, Wizard!Said, WellEnded, WasStopped

LEMMA RunsOn ==
  ASSUME NEW phase \in Phases, NEW next,
         next \in Wizard!Worked(phase) \/ next = Wizard!Stopped(phase)
  PROVE  next \in Phases /\ (phase = "done" \/ WasStopped(phase) => next = "done" \/ WasStopped(next))
  <1>1. CASE next \in Wizard!Worked(phase)
    BY <1>1 DEF Phases, Wizard!Worked, WasStopped
  <1>2. CASE next = Wizard!Stopped(phase)
    BY <1>2 DEF Phases, Wizard!Stopped, WasStopped
  <1>. QED
    BY <1>1, <1>2

LEMMA WInvInit == Wizard!WizardInit => WInv
  BY DEF Wizard!WizardInit, Wizard!Rest, WInv, Handlers, Bound, Followed

LEMMA BoundKept ==
  ASSUME NEW d \in Handlers, NEW n \in Nat, NEW m \in Nat, n <= m,
         NEW js \in Seq(Runs), NEW ks \in Seq(Runs), Kept(js, ks), Bound(d, n, js)
  PROVE  Bound(d, m, ks)
  <1>1. CASE d.do = "run" /\ d.at # "job"
    <2>1. /\ d.job \in 1..Len(js) /\ js[d.job].wizard = d.wizard /\ d.wizard \in 1..n
          /\ d.at = "versions" => WellEnded(js[d.job])
      BY <1>1 DEF Bound
    <2>2. d.job \in 1..Len(ks) /\ d.wizard \in 1..m
      BY <2>1 DEF Kept, Handlers
    <2>3. ks[d.job].wizard = d.wizard /\ (d.at = "versions" => WellEnded(ks[d.job]))
      BY <2>1 DEF Kept, WellEnded
    <2>. QED
      BY <2>2, <2>3 DEF Bound
  <1>2. CASE ~(d.do = "run" /\ d.at # "job")
    BY <1>2 DEF Bound, Handlers
  <1>. QED
    BY <1>1, <1>2

(* What every step of the interface comes to: handlers that are unchanged   *)
(* or bound anew, jobs that are kept, and wizards followed by a run.        *)
LEMMA WizardKeeps ==
  ASSUME WInv, wizards' \in Seq(Stages), Len(wizards) <= Len(wizards'),
         wizard' \in 0..Len(wizards'), inWizard' => wizard' # 0,
         jobs' \in Seq(Runs), Kept(jobs, jobs'),
         doing' \in [Wizard!Busy -> Handlers],
         \A i \in Wizard!Busy : doing'[i] = doing[i] \/ Bound(doing'[i], Len(wizards'), jobs'),
         Followed(wizards', jobs')
  PROVE  WInv'
  <1>1. ASSUME NEW i \in Wizard!Busy PROVE Bound(doing'[i], Len(wizards'), jobs')
    <2>1. /\ doing[i] \in Handlers /\ Bound(doing[i], Len(wizards), jobs) /\ jobs \in Seq(Runs)
          /\ Len(wizards) \in Nat /\ Len(wizards') \in Nat
      BY DEF WInv
    <2>2. Bound(doing[i], Len(wizards'), jobs')
      BY <2>1, BoundKept
    <2>. QED
      BY <2>2
  <1>2. Wizard!Busy' = Wizard!Busy
    BY DEF Wizard!Busy
  <1>. QED
    BY <1>1, <1>2 DEF WInv

LEMMA JobsKept ==
  ASSUME jobs \in Seq(Runs)
  PROVE  Kept(jobs, jobs)
  BY DEF Kept

(* A view that is drawn ends its handler, or reads a review's plans.        *)
LEMMA DrawnHandlers ==
  ASSUME WInv, NEW i, Wizard!Drawn(i), NEW n \in Nat, NEW js
  PROVE  /\ doing' \in [Wizard!Busy -> Handlers]
         /\ \A k \in Wizard!Busy : doing'[k] = doing[k] \/ Bound(doing'[k], n, js)
  <1>1. PICK r \in Handlers : r.do \in {"idle", "review"} /\ doing' = [doing EXCEPT ![i] = r]
    <2>1. /\ Wizard!Rest \in Handlers /\ Wizard!Rest.do = "idle"
          /\ [Wizard!Rest EXCEPT !.do = "review", !.at = "files"] \in Handlers
          /\ [Wizard!Rest EXCEPT !.do = "review", !.at = "files"].do = "review"
      BY DEF Wizard!Rest, Handlers
    <2>. QED
      BY <2>1 DEF Wizard!Drawn
  <1>2. Bound(r, n, js)
    BY <1>1 DEF Bound
  <1>. QED
    BY <1>1, <1>2 DEF WInv

(* A handler that starts, on the wizard there is when it does.              *)
LEMMA StartedHandlers ==
  ASSUME WInv, NEW i, NEW do \in {"check", "run", "reload"}, NEW at \in {"upload", "job", "versions"},
         do # "reload" => inWizard, do = "run" => at = "job",
         doing' = [doing EXCEPT ![i] = Wizard!Doing(do, at)]
  PROVE  /\ doing' \in [Wizard!Busy -> Handlers]
         /\ \A k \in Wizard!Busy : doing'[k] = doing[k] \/ Bound(doing'[k], Len(wizards), jobs)
  <1>1. Wizard!Doing(do, at) \in Handlers /\ Bound(Wizard!Doing(do, at), Len(wizards), jobs)
    BY DEF Wizard!Doing, Handlers, Bound, WInv
  <1>. QED
    BY <1>1 DEF WInv

(* A wizard that is at another stage than the review, or followed there.    *)
LEMMA StageSet ==
  ASSUME WInv, NEW w \in 1..Len(wizards), NEW v \in Stages,
         wizards' = [wizards EXCEPT ![w] = v],
         v.stage = "review" =>
           \E j \in 1..Len(jobs) : jobs[j].wizard = w /\ WellEnded(jobs[j])
  PROVE  wizards' \in Seq(Stages) /\ Len(wizards') = Len(wizards) /\ Followed(wizards', jobs)
  <1>1. wizards' \in Seq(Stages) /\ Len(wizards') = Len(wizards)
    BY DEF WInv
  <1>2. \A u \in 1..Len(wizards) : wizards'[u] = IF u = w THEN v ELSE wizards[u]
    BY DEF WInv
  <1>. QED
    BY <1>1, <1>2 DEF WInv, Followed

(* A handler moves its wizard on, and the view is drawn. *)
LEMMA MovedOn ==
  ASSUME WInv, NEW i, NEW stage \in {"upload", "check", "generate", "review"}, NEW ok \in BOOLEAN,
         Wizard!MovesOn(i, stage, ok), jobs' = jobs,
         doing[i].wizard \in 1..Len(wizards),
         stage = "review" =>
           \E j \in 1..Len(jobs) : jobs[j].wizard = doing[i].wizard /\ WellEnded(jobs[j])
  PROVE  WInv'
  <1> DEFINE w == doing[i].wizard
             v == [wizards[w] EXCEPT !.stage = stage, !.ok = ok]
  <1>0. Len(wizards) \in Nat /\ wizard \in 0..Len(wizards) /\ (inWizard => wizard # 0)
        /\ jobs \in Seq(Runs) /\ wizards \in Seq(Stages) /\ w \in 1..Len(wizards)
    BY DEF WInv
  <1>1. /\ wizards' = [wizards EXCEPT ![w] = v] /\ UNCHANGED <<wizard, inWizard>>
        /\ Wizard!Drawn(i)
    BY <1>0 DEF Wizard!MovesOn
  <1>v. v \in Stages /\ v.stage = stage
    <2>1. wizards[w] \in Stages
      BY <1>0
    <2>. QED
      BY <2>1 DEF Stages
  <1>. HIDE DEF v
  <1>2. wizards' \in Seq(Stages) /\ Len(wizards') = Len(wizards) /\ Followed(wizards', jobs)
    BY <1>0, <1>1, <1>v, StageSet
  <1>4. /\ doing' \in [Wizard!Busy -> Handlers]
        /\ \A k \in Wizard!Busy : doing'[k] = doing[k] \/ Bound(doing'[k], Len(wizards'), jobs')
    BY <1>0, <1>1, <1>2, DrawnHandlers
  <1>5. Kept(jobs, jobs')
    BY <1>0, JobsKept
  <1>. QED
    BY <1>0, <1>1, <1>2, <1>4, <1>5, WizardKeeps

(* Nothing of the wizards and the jobs changes; handlers go on within it.   *)
LEMMA OnlyHandlers ==
  ASSUME WInv, wizards' = wizards, wizard' = wizard, inWizard' => inWizard, jobs' = jobs,
         doing' \in [Wizard!Busy -> Handlers],
         \A i \in Wizard!Busy : doing'[i] = doing[i] \/ Bound(doing'[i], Len(wizards), jobs)
  PROVE  WInv'
  <1>1. /\ wizards \in Seq(Stages) /\ wizard \in 0..Len(wizards) /\ (inWizard => wizard # 0)
        /\ jobs \in Seq(Runs) /\ Followed(wizards, jobs) /\ Len(wizards) \in Nat
    BY DEF WInv
  <1>2. Kept(jobs, jobs')
    BY <1>1, JobsKept
  <1>. QED
    BY <1>1, <1>2, WizardKeeps

(* One handler waits for something else, on the same wizard and job.        *)
LEMMA Awaiting ==
  ASSUME WInv, NEW i \in Wizard!Busy, NEW at \in {"detail", "instances", "poll", "timer", "versions"},
         Wizard!Awaits(i, at), UNCHANGED <<wizards, wizard, inWizard, jobs>>,
         doing[i].at = "job" => doing[i].do # "run",
         doing[i].do = "run" /\ at = "versions" => WellEnded(jobs[doing[i].job])
  PROVE  WInv'
  <1>1. doing[i] \in Handlers /\ Bound(doing[i], Len(wizards), jobs)
    BY DEF WInv
  <1>2. doing' = [doing EXCEPT ![i] = [doing[i] EXCEPT !.at = at]]
    BY DEF Wizard!Awaits
  <1>3. [doing[i] EXCEPT !.at = at] \in Handlers /\ Bound([doing[i] EXCEPT !.at = at], Len(wizards), jobs)
    BY <1>1 DEF Handlers, Bound
  <1>. QED
    BY <1>2, <1>3, OnlyHandlers DEF WInv

LEMMA Resting ==
  ASSUME WInv, NEW i, Wizard!Ends(i), UNCHANGED <<wizards, wizard, inWizard, jobs>>
  PROVE  WInv'
  <1>1. /\ doing' = [doing EXCEPT ![i] = Wizard!Rest] /\ Wizard!Rest \in Handlers
        /\ Bound(Wizard!Rest, Len(wizards), jobs)
    BY DEF Wizard!Ends, Wizard!Rest, Handlers, Bound
  <1>. QED
    BY <1>1, OnlyHandlers DEF WInv

(* The view is drawn, of wizards whose stages did not become a review.      *)
LEMMA Redrawn ==
  ASSUME WInv, Wizard!Draw, wizards' \in Seq(Stages), Len(wizards) <= Len(wizards'),
         wizard' \in 0..Len(wizards'), inWizard' => wizard' # 0, Followed(wizards', jobs)
  PROVE  WInv'
  <1>1. Wizard!Drawn(Wizard!Least) /\ jobs' = jobs
    BY DEF Wizard!Draw
  <1>2. Len(wizards') \in Nat /\ jobs \in Seq(Runs)
    BY DEF WInv
  <1>3. /\ doing' \in [Wizard!Busy -> Handlers]
        /\ \A k \in Wizard!Busy : doing'[k] = doing[k] \/ Bound(doing'[k], Len(wizards'), jobs')
    BY <1>1, <1>2, DrawnHandlers
  <1>4. Kept(jobs, jobs')
    BY <1>1, <1>2, JobsKept
  <1>. QED
    BY <1>1, <1>2, <1>3, <1>4, WizardKeeps

(* One job is worked on, or cancelled. *)
LEMMA JobMoved ==
  ASSUME WInv, NEW j \in 1..Len(jobs), NEW st,
         st \in Wizard!Worked(jobs[j].state) \/ st = Wizard!Stopped(jobs[j].state),
         jobs' = [jobs EXCEPT ![j].state = st], UNCHANGED <<wizards, wizard, inWizard, doing>>
  PROVE  WInv'
  <1>0. /\ st \in Phases
        /\ WellEnded(jobs[j]) => st = "done" \/ WasStopped(st)
    <2>1. jobs[j] \in Runs
      BY DEF WInv
    <2>2. jobs[j].state \in Phases
      BY <2>1 DEF Runs
    <2>. QED
      BY <2>2, RunsOn DEF WellEnded
  <1>1. /\ wizards \in Seq(Stages) /\ wizard \in 0..Len(wizards) /\ (inWizard => wizard # 0)
        /\ jobs \in Seq(Runs) /\ Followed(wizards, jobs) /\ Len(wizards) \in Nat
        /\ doing \in [Wizard!Busy -> Handlers]
    BY DEF WInv
  <1>2. jobs' \in Seq(Runs) /\ Len(jobs') = Len(jobs)
    <2> DEFINE r == [jobs[j] EXCEPT !.state = st]
    <2>1. jobs' = [jobs EXCEPT ![j] = r]
      OBVIOUS
    <2>2. r \in Runs
      <3>1. jobs[j] \in Runs
        BY <1>1
      <3>. QED
        BY <1>0, <3>1 DEF Runs
    <2>. HIDE DEF r
    <2>. QED
      BY <1>1, <2>1, <2>2
  <1>3. \A k \in 1..Len(jobs) : /\ jobs'[k].wizard = jobs[k].wizard
                                /\ jobs'[k].state = IF k = j THEN st ELSE jobs[k].state
    BY <1>1 DEF Runs
  <1>6. \A k \in 1..Len(jobs) : WellEnded(jobs[k]) => WellEnded(jobs'[k])
    BY <1>0, <1>3 DEF WellEnded
  <1>4. Kept(jobs, jobs')
    BY <1>2, <1>3, <1>6 DEF Kept
  <1>5. Followed(wizards', jobs')
    <2>1. SUFFICES ASSUME NEW w \in 1..Len(wizards), wizards[w].stage = "review"
                   PROVE  \E k \in 1..Len(jobs) : jobs'[k].wizard = w /\ WellEnded(jobs'[k])
      BY <1>2 DEF Followed
    <2>2. PICK k \in 1..Len(jobs) : jobs[k].wizard = w /\ WellEnded(jobs[k])
      BY <1>1, <2>1 DEF Followed
    <2>3. jobs'[k].wizard = w /\ WellEnded(jobs'[k])
      BY <1>3, <1>6, <2>2
    <2>. QED
      BY <2>3
  <1>. QED
    BY <1>1, <1>2, <1>4, <1>5, WizardKeeps

LEMMA PlannerSteps ==
  ASSUME WInv,
         \/ Wizard!StartWizard \/ Wizard!Turn \/ Wizard!LeaveWizard \/ Wizard!ChangeLanguage
         \/ Wizard!SignedOut \/ Wizard!SignedIn
         \/ Wizard!Check \/ Wizard!PickFile \/ Wizard!Run \/ Wizard!CancelRun \/ Wizard!Reload
  PROVE  WInv'
  <1>0. /\ wizards \in Seq(Stages) /\ wizard \in 0..Len(wizards) /\ (inWizard => wizard # 0)
        /\ jobs \in Seq(Runs) /\ Followed(wizards, jobs) /\ Len(wizards) \in Nat
        /\ doing \in [Wizard!Busy -> Handlers]
    BY DEF WInv
  <1>1. CASE Wizard!StartWizard
    <2>1. /\ wizards' = Append(wizards, [stage |-> "upload", ok |-> FALSE, job |-> 0])
          /\ wizard' = Len(wizards) + 1 /\ Wizard!Draw
      BY <1>1 DEF Wizard!StartWizard
    <2>2. wizards' \in Seq(Stages) /\ Len(wizards') = Len(wizards) + 1
      BY <1>0, <2>1 DEF Stages
    <2>3. \A w \in 1..Len(wizards') : wizards'[w].stage = "review" =>
            w \in 1..Len(wizards) /\ wizards[w].stage = "review"
      BY <1>0, <2>1, <2>2
    <2>4. Followed(wizards', jobs)
      BY <1>0, <2>3 DEF Followed
    <2>. QED
      BY <1>0, <2>1, <2>2, <2>4, Redrawn
  <1>2. CASE Wizard!Turn
    <2>1. PICK to \in {"upload", "generate"}, from \in {"check", "review"} : Wizard!GoTo(from, to)
      BY <1>2 DEF Wizard!Turn
    <2>2. /\ inWizard /\ wizards' = [wizards EXCEPT ![wizard] = [wizards[wizard] EXCEPT !.stage = to]]
          /\ wizard' = wizard /\ Wizard!Draw
      BY <2>1 DEF Wizard!GoTo, Wizard!AtStage
    <2>3. wizard \in 1..Len(wizards)
      BY <1>0, <2>2
    <2>4. /\ [wizards[wizard] EXCEPT !.stage = to] \in Stages
          /\ [wizards[wizard] EXCEPT !.stage = to].stage # "review"
      <3>1. wizards[wizard] \in Stages
        BY <1>0, <2>3
      <3>. QED
        BY <3>1 DEF Stages
    <2>5. wizards' \in Seq(Stages) /\ Len(wizards') = Len(wizards) /\ Followed(wizards', jobs)
      BY <2>2, <2>3, <2>4, StageSet
    <2>. QED
      BY <1>0, <2>2, <2>3, <2>5, Redrawn
  <1>3. CASE Wizard!LeaveWizard
    <2>1. wizards' = wizards /\ wizard' \in {0, wizard} /\ inWizard' = FALSE /\ Wizard!Draw
      BY <1>3 DEF Wizard!LeaveWizard
    <2>. QED
      BY <1>0, <2>1, Redrawn
  <1>4. CASE Wizard!ChangeLanguage
    BY <1>0, <1>4, Redrawn DEF Wizard!ChangeLanguage
  <1>5. CASE Wizard!SignedOut
    BY <1>0, <1>5, OnlyHandlers DEF Wizard!SignedOut
  <1>6. CASE Wizard!SignedIn
    BY <1>0, <1>6, Redrawn DEF Wizard!SignedIn
  <1>7. CASE Wizard!Check \/ Wizard!Run \/ Wizard!Reload
    <2>1. PICK do \in {"check", "run", "reload"}, at \in {"upload", "job", "versions"} :
            /\ do # "reload" => inWizard
            /\ do = "run" => at = "job"
            /\ doing' = [doing EXCEPT ![Wizard!Least] = Wizard!Doing(do, at)]
            /\ UNCHANGED <<wizards, wizard, inWizard, jobs>>
      BY <1>7 DEF Wizard!Check, Wizard!Run, Wizard!Reload, Wizard!Press, Wizard!AtStage
    <2>2. /\ doing' \in [Wizard!Busy -> Handlers]
          /\ \A k \in Wizard!Busy : doing'[k] = doing[k] \/ Bound(doing'[k], Len(wizards), jobs)
      BY <2>1, StartedHandlers
    <2>. QED
      BY <2>1, <2>2, OnlyHandlers
  <1>8. CASE Wizard!CancelRun
    <2> DEFINE j == wizards[doing[pressed].wizard].job
    <2>1. /\ jobs' = [jobs EXCEPT ![j].state = Wizard!Stopped(jobs[j].state)]
          /\ UNCHANGED <<wizards, wizard, inWizard, doing>>
      BY <1>8 DEF Wizard!CancelRun
    <2>. HIDE DEF j
    <2>2. CASE j \in 1..Len(jobs)
      BY <2>1, <2>2, JobMoved
    <2>3. CASE j \notin 1..Len(jobs)
      <3>1. jobs' = jobs
        BY <1>0, <2>1, <2>3
      <3>. QED
        BY <1>0, <2>1, <3>1, OnlyHandlers
    <2>. QED
      BY <2>2, <2>3
  <1>9. CASE Wizard!PickFile
    BY <1>0, <1>9, OnlyHandlers DEF Wizard!PickFile
  <1>. QED
    BY <1>1, <1>2, <1>3, <1>4, <1>5, <1>6, <1>7, <1>8, <1>9

LEMMA RunSteps ==
  ASSUME WInv, NEW i \in Wizard!Busy, Wizard!Running(i)
  PROVE  WInv'
  <1>0. /\ wizards \in Seq(Stages) /\ wizard \in 0..Len(wizards) /\ (inWizard => wizard # 0)
        /\ jobs \in Seq(Runs) /\ Followed(wizards, jobs) /\ Len(wizards) \in Nat
        /\ doing \in [Wizard!Busy -> Handlers] /\ doing[i] \in Handlers
        /\ Bound(doing[i], Len(wizards), jobs)
    BY DEF WInv
  <1>a. ASSUME Wizard!Reviewed(i), doing[i].do = "run", doing[i].at # "job",
               WellEnded(jobs[doing[i].job])
        PROVE  WInv'
    <2>1. /\ doing[i].wizard \in 1..Len(wizards) /\ doing[i].job \in 1..Len(jobs)
          /\ jobs[doing[i].job].wizard = doing[i].wizard
      BY <1>0, <1>a DEF Bound
    <2>2. wizards[doing[i].wizard].ok \in BOOLEAN
      <3>1. wizards[doing[i].wizard] \in Stages
        BY <1>0, <2>1
      <3>. QED
        BY <3>1 DEF Stages
    <2>. QED
      BY <1>a, <2>1, <2>2, MovedOn DEF Wizard!Reviewed
  <1>b. ASSUME Wizard!GivesUp(i) PROVE WInv'
    BY <1>b, Resting DEF Wizard!GivesUp
  <1>1. CASE Wizard!Created(i)
    <2> DEFINE w == doing[i].wizard
               v == [wizards[w] EXCEPT !.job = Len(jobs) + 1]
    <2>1. /\ doing[i].do = "run" /\ doing[i].at = "job" /\ UNCHANGED <<wizard, inWizard>>
          /\ w \in 1..Len(wizards) /\ wizards' = [wizards EXCEPT ![w] = v]
          /\ jobs' = Append(jobs, [wizard |-> doing[i].wizard, state |-> "queued"])
          /\ doing' = [doing EXCEPT ![i] = [doing[i] EXCEPT !.at = "poll", !.job = Len(jobs) + 1]]
      BY <1>0, <1>1 DEF Wizard!Created, Wizard!Good, Bound
    <2>v. v \in Stages /\ v.stage = wizards[w].stage
      <3>1. wizards[w] \in Stages
        BY <1>0, <2>1
      <3>2. Len(jobs) + 1 \in Nat
        BY <1>0
      <3>. QED
        BY <3>1, <3>2 DEF Stages
    <2>w. v.stage = "review" =>
            \E j \in 1..Len(jobs) : jobs[j].wizard = w /\ WellEnded(jobs[j])
      BY <1>0, <2>1, <2>v DEF Followed
    <2>. HIDE DEF v
    <2>s. wizards' \in Seq(Stages) /\ Len(wizards') = Len(wizards) /\ Followed(wizards', jobs)
      BY <2>1, <2>v, <2>w, StageSet
    <2>2. /\ jobs' \in Seq(Runs) /\ Len(jobs') = Len(jobs) + 1
          /\ \A j \in 1..Len(jobs) : jobs'[j] = jobs[j]
          /\ jobs'[Len(jobs) + 1] = [wizard |-> doing[i].wizard, state |-> "queued"]
      BY <1>0, <2>1 DEF Runs, Phases, Handlers
    <2>3. Kept(jobs, jobs') /\ Followed(wizards', jobs')
      <3>1. Len(jobs) \in Nat /\ 1..Len(jobs) \subseteq 1..Len(jobs')
        BY <1>0, <2>2
      <3>2. Kept(jobs, jobs')
        BY <2>2, <3>1 DEF Kept
      <3>3. Followed(wizards', jobs')
        BY <2>2, <2>s, <3>1 DEF Followed
      <3>. QED
        BY <3>2, <3>3
    <2>4. [doing[i] EXCEPT !.at = "poll", !.job = Len(jobs) + 1] \in Handlers
      <3>1. Len(jobs) + 1 \in Nat
        BY <1>0
      <3>. QED
        BY <1>0, <3>1 DEF Handlers
    <2>5. Bound([doing[i] EXCEPT !.at = "poll", !.job = Len(jobs) + 1], Len(wizards'), jobs')
      <3>1. doing[i].wizard \in 1..Len(wizards)
        BY <1>0, <2>1 DEF Bound
      <3>2. Len(jobs) + 1 \in 1..Len(jobs') /\ jobs'[Len(jobs) + 1].wizard = doing[i].wizard
        BY <1>0, <2>2
      <3>. QED
        BY <1>0, <2>1, <2>s, <3>1, <3>2 DEF Bound, Handlers
    <2>. QED
      BY <1>0, <2>1, <2>2, <2>3, <2>4, <2>5, <2>s, WizardKeeps
  <1>2. CASE Wizard!JobPolled(i)
    <2> DEFINE state == Wizard!Said(jobs[doing[i].job].state)
    <2>1. doing[i].do = "run" /\ doing[i].at = "poll" /\ jobs[doing[i].job] \in Runs
      BY <1>0, <1>2 DEF Wizard!JobPolled, Wizard!Good, Bound
    <2>2. CASE ~Wizard!LineShown \/ (Wizard!StopsFor(state) /\ Wizard!ThrowsFor(state))
      BY <1>2, <1>b, <2>2 DEF Wizard!JobPolled
    <2>3. CASE /\ ~(~Wizard!LineShown \/ (Wizard!StopsFor(state) /\ Wizard!ThrowsFor(state)))
               /\ Wizard!StopsFor(state)
      <3>1. WellEnded(jobs[doing[i].job])
        BY <2>1, <2>3, ToldWell DEF Wizard!StopsFor, Wizard!ThrowsFor
      <3>2. CASE ~signedIn
        BY <1>2, <1>a, <2>1, <2>3, <3>1, <3>2 DEF Wizard!JobPolled
      <3>3. CASE signedIn
        BY <1>2, <2>1, <2>3, <3>1, <3>3, Awaiting DEF Wizard!JobPolled
      <3>. QED
        BY <3>2, <3>3
    <2>4. CASE /\ ~(~Wizard!LineShown \/ (Wizard!StopsFor(state) /\ Wizard!ThrowsFor(state)))
               /\ ~Wizard!StopsFor(state)
      <3>1. Wizard!Awaits(i, "timer") /\ UNCHANGED <<wizards, wizard, inWizard, jobs>>
        BY <1>2, <2>4 DEF Wizard!JobPolled
      <3>. QED
        BY <2>1, <3>1, Awaiting
    <2>. QED
      BY <2>2, <2>3, <2>4
  <1>3. CASE /\ Wizard!Good(i, "run", "timer") /\ Wizard!Awaits(i, "poll")
             /\ UNCHANGED <<wizards, wizard, inWizard, pressed, jobs>>
    BY <1>3, Awaiting DEF Wizard!Good
  <1>4. CASE Wizard!Good(i, "run", "versions") /\ IF signedIn THEN Wizard!Reviewed(i) ELSE Wizard!GivesUp(i)
    <2>1. doing[i].do = "run" /\ doing[i].at = "versions" /\ WellEnded(jobs[doing[i].job])
      BY <1>0, <1>4 DEF Wizard!Good, Bound
    <2>. QED
      BY <1>4, <1>a, <1>b, <2>1
  <1>5. CASE Wizard!Bad(i, "run") /\ Wizard!GivesUp(i)
    BY <1>5, <1>b
  <1>. QED
    BY <1>1, <1>2, <1>3, <1>4, <1>5 DEF Wizard!Running

LEMMA OtherSteps ==
  ASSUME WInv, NEW i \in Wizard!Busy,
         Wizard!Checking(i) \/ Wizard!Reviewing(i) \/ Wizard!Reloading(i)
  PROVE  WInv'
  <1>0. /\ wizards \in Seq(Stages) /\ wizard \in 0..Len(wizards) /\ (inWizard => wizard # 0)
        /\ jobs \in Seq(Runs) /\ Followed(wizards, jobs) /\ Len(wizards) \in Nat
        /\ doing \in [Wizard!Busy -> Handlers] /\ doing[i] \in Handlers
        /\ Bound(doing[i], Len(wizards), jobs)
    BY DEF WInv
  <1>1. CASE Wizard!Checking(i)
    <2>0. doing[i].do = "check" /\ jobs' = jobs /\ doing[i].wizard \in 1..Len(wizards)
      BY <1>0, <1>1 DEF Wizard!Checking, Wizard!Good, Wizard!Bad, Bound
    <2>1. CASE \E ok \in BOOLEAN : Wizard!MovesOn(i, "check", ok)
      BY <2>0, <2>1, MovedOn
    <2>2. CASE \E at \in {"detail", "instances"} :
                 Wizard!Awaits(i, at) /\ UNCHANGED <<wizards, wizard, inWizard>>
      <3>1. PICK at \in {"detail", "instances"} : Wizard!Awaits(i, at)
        BY <2>2
      <3>. QED
        BY <2>0, <2>2, <3>1, Awaiting
    <2>. QED
      BY <1>1, <2>1, <2>2 DEF Wizard!Checking
  <1>2. CASE Wizard!Reviewing(i)
    BY <1>2, Resting DEF Wizard!Reviewing
  <1>3. CASE Wizard!Reloading(i)
    <2>1. CASE Wizard!Ends(i) /\ UNCHANGED <<wizards, wizard, inWizard, pressed, jobs>>
      BY <2>1, Resting
    <2>2. CASE UNCHANGED <<wizards, wizard, inWizard, jobs>> /\ Wizard!Drawn(i)
      <3>1. /\ doing' \in [Wizard!Busy -> Handlers]
            /\ \A k \in Wizard!Busy : doing'[k] = doing[k] \/ Bound(doing'[k], Len(wizards), jobs)
        BY <1>0, <2>2, DrawnHandlers
      <3>. QED
        BY <2>2, <3>1, OnlyHandlers
    <2>. QED
      BY <1>3, <2>1, <2>2 DEF Wizard!Reloading
  <1>. QED
    BY <1>1, <1>2, <1>3

LEMMA WInvStep == WInv /\ [Wizard!WizardNext]_wizardVars => WInv'
  <1> SUFFICES ASSUME WInv, [Wizard!WizardNext]_wizardVars PROVE WInv'
    OBVIOUS
  <1>1. ASSUME NEW i \in Wizard!Busy, Wizard!Step(i) PROVE WInv'
    BY <1>1, RunSteps, OtherSteps DEF Wizard!Step
  <1>2. ASSUME NEW j \in 1..MaxJobs, Wizard!Work(j) PROVE WInv'
    <2>1. j \in 1..Len(jobs)
      BY <1>2 DEF Wizard!Work, WInv
    <2>. QED
      BY <1>2, <2>1, JobMoved DEF Wizard!Work
  <1>3. CASE UNCHANGED wizardVars
    BY <1>3, OnlyHandlers DEF wizardVars, WInv
  <1>. QED
    BY <1>1, <1>2, <1>3, PlannerSteps DEF Wizard!WizardNext

(* A wizard gets to its review only by a run of its own that ended well or  *)
(* was cancelled, though views are drawn and wizards begun meanwhile        *)
(* (app.js:4-6).                                                            *)
THEOREM ReviewFollows == Spec => []ReviewFollowsRun
  <1>1. WInv => ReviewFollowsRun
    BY DEF WInv, Followed, WellEnded, WasStopped, ReviewFollowsRun, Wizard!ReviewFollowsRun, Wizard!WasStopped
  <1>2. Init => WInv
    BY WInvInit DEF Init
  <1>3. WInv /\ [Next]_pages => WInv'
    <2>1. [Next]_pages => [Wizard!WizardNext]_wizardVars
      BY DEF Next, pages, wizardVars
    <2>. QED
      BY <2>1, WInvStep
  <1>. QED
    BY <1>1, <1>2, <1>3, PTL DEF Spec

-----------------------------------------------------------------------------
(* LegacyClient *)

AnyProject == Projects \cup {None}
Globals == [token : {"none", "live", "dead"}, user : BOOLEAN,
            view : Legacy!ProjectViews \cup {"projects", "settings"},
            project : AnyProject, detail : AnyProject, versions : AnyProject]
Servers == [admin : BOOLEAN, made : SUBSET AnyProject, installed : SUBSET AnyProject, planned : SUBSET AnyProject]
Tasks == [do : {"idle", "boot", "signin", "enter", "signout", "open", "create", "view", "publish",
                "account", "ask", "check", "run"},
          at : {"idle", "health", "me", "projects", "bootstrap", "outrun", "login", "logout", "versions",
                "instances", "detail", "create", "audit", "files", "users", "approve", "account",
                "analysis", "upload", "job"},
          of : AnyProject, auth : {"none", "live", "dead"}]

(* What a handler waits for is of the project that is open; only one that   *)
(* creates a project waits for what is not open yet.                        *)
OfOpen(t, p) == t.of = None \/ t.do = "create" \/ t.of = p

LInv ==
  /\ S \in Globals /\ server \in Servers /\ crossed \in BOOLEAN
  /\ task \in [Legacy!Handler -> Tasks]
  /\ \A i, j \in Legacy!Handler : task[i].do = "signin" /\ task[j].do = "signin" => i = j
  /\ \A i \in Legacy!Handler : task[i].at = "bootstrap" => task[i].do = "signin" /\ ~server.admin
  /\ ~crossed =>
       /\ \A i \in Legacy!Handler : OfOpen(task[i], S.project)
       /\ S.project # None => {S.versions, S.detail} \subseteq {S.project, None}

LEMMA LInvInit == Legacy!LegacyInit => LInv
  <1> SUFFICES ASSUME Legacy!LegacyInit PROVE LInv
    OBVIOUS
  <1>1. PICK left \in {"none", "live", "dead"} :
          /\ S = [token |-> left, user |-> FALSE, view |-> "projects", project |-> None,
                  detail |-> None, versions |-> None]
          /\ server = [admin |-> left # "none", made |-> {}, installed |-> {}, planned |-> {}]
          /\ crossed = FALSE
          /\ task = [i \in Legacy!Handler |->
                       IF i = 1 THEN Legacy!Task("boot", "health", None, left) ELSE Legacy!Idle]
    BY DEF Legacy!LegacyInit
  <1>2. S \in Globals /\ server \in Servers
    BY <1>1 DEF Globals, Servers, AnyProject
  <1>3. /\ Legacy!Task("boot", "health", None, left) \in Tasks /\ Legacy!Idle \in Tasks
        /\ \A t \in {Legacy!Task("boot", "health", None, left), Legacy!Idle} :
             t.do # "signin" /\ t.at # "bootstrap" /\ t.of = None
    BY DEF Legacy!Task, Legacy!Idle, Tasks, AnyProject
  <1>4. task \in [Legacy!Handler -> Tasks]
        /\ \A i \in Legacy!Handler :
             task[i].do # "signin" /\ task[i].at # "bootstrap" /\ task[i].of = None
    BY <1>1, <1>3
  <1>. QED
    BY <1>1, <1>2, <1>4 DEF LInv, OfOpen

(* One handler becomes t: it keeps to the one form there is, it asks for an *)
(* administrator only when there is none, and it is of the project open,    *)
(* unless the project is another one and nothing else is under way.         *)
LEMMA HandlerWritten ==
  ASSUME LInv, NEW i, NEW t \in Tasks, task' = [task EXCEPT ![i] = t],
         S' \in Globals, server' \in Servers, crossed' \in BOOLEAN,
         t.do = "signin" => (i \in Legacy!Handler /\ task[i].do = "signin") \/ ~Legacy!InFlight,
         t.at = "bootstrap" => t.do = "signin" /\ ~server'.admin,
         server'.admin = server.admin \/ (i \in Legacy!Handler /\ task[i].at = "bootstrap"),
         ~crossed' =>
           \/ /\ ~crossed /\ S'.project = S.project /\ OfOpen(t, S.project)
              /\ {S'.versions, S'.detail} \subseteq {S.versions, S.detail, S.project, None}
           \/ ~Legacy!Crosses(i) /\ OfOpen(t, S'.project) /\ S'.versions = None /\ S'.detail = None
  PROVE  LInv'
  <1>1. /\ task' \in [Legacy!Handler -> Tasks]
        /\ \A j \in Legacy!Handler : task'[j] = IF j = i THEN t ELSE task[j]
    BY DEF LInv
  <1>2. Legacy!Handler' = Legacy!Handler
    BY DEF Legacy!Handler
  <1>3. \A j, k \in Legacy!Handler : task'[j].do = "signin" /\ task'[k].do = "signin" => j = k
    BY <1>1 DEF LInv, Legacy!InFlight
  <1>4. ASSUME NEW j \in Legacy!Handler, task'[j].at = "bootstrap"
        PROVE  task'[j].do = "signin" /\ ~server'.admin
    <2>1. CASE j = i
      BY <1>1, <1>4, <2>1
    <2>2. CASE j # i
      <3>1. task[j].at = "bootstrap" /\ task[j].do = "signin" /\ ~server.admin /\ task'[j] = task[j]
        BY <1>1, <1>4, <2>2 DEF LInv
      <3>2. server'.admin = server.admin
        BY <2>2, <3>1 DEF LInv
      <3>. QED
        BY <3>1, <3>2
    <2>. QED
      BY <2>1, <2>2
  <1>5. ASSUME ~crossed'
        PROVE  /\ \A j \in Legacy!Handler : OfOpen(task'[j], S'.project)
               /\ S'.project # None => {S'.versions, S'.detail} \subseteq {S'.project, None}
    <2>1. CASE /\ ~crossed /\ S'.project = S.project /\ OfOpen(t, S.project)
               /\ {S'.versions, S'.detail} \subseteq {S.versions, S.detail, S.project, None}
      BY <1>1, <2>1 DEF LInv
    <2>2. CASE ~Legacy!Crosses(i) /\ OfOpen(t, S'.project) /\ S'.versions = None /\ S'.detail = None
      <3>1. \A j \in Legacy!Handler : j # i => task[j].of = None
        BY <2>2 DEF Legacy!Crosses
      <3>. QED
        BY <1>1, <2>2, <3>1 DEF OfOpen
    <2>. QED
      BY <1>5, <2>1, <2>2
  <1>. QED
    BY <1>1, <1>2, <1>3, <1>4, <1>5 DEF LInv

(* A handler goes on, or another starts; S keeps its project.               *)
LEMMA GoesOn ==
  ASSUME LInv, NEW i, NEW t \in Tasks, task' = [task EXCEPT ![i] = t],
         S' \in Globals, S'.project = S.project,
         {S'.versions, S'.detail} \subseteq {S.versions, S.detail, S.project, None},
         server' \in Servers, crossed' = crossed,
         t.do = "signin" => (i \in Legacy!Handler /\ task[i].do = "signin") \/ ~Legacy!InFlight,
         t.at = "bootstrap" => t.do = "signin" /\ ~server'.admin,
         server'.admin = server.admin \/ (i \in Legacy!Handler /\ task[i].at = "bootstrap"),
         ~crossed => OfOpen(t, S.project)
  PROVE  LInv'
  <1>1. crossed' \in BOOLEAN
    BY DEF LInv
  <1>. QED
    BY <1>1, HandlerWritten

(* What a request does on the server, whichever it is. *)
LEMMA CarriedOut ==
  ASSUME LInv, NEW i \in Legacy!Handler
  PROVE  /\ Legacy!Carried(task[i]) \in Servers
         /\ task[i].at = "bootstrap" \/ Legacy!Carried(task[i]).admin = server.admin
  <1>1. server \in Servers /\ task[i] \in Tasks
    BY DEF LInv
  <1>. QED
    BY <1>1 DEF Legacy!Carried, Servers, Tasks

LEMMA IdleTask ==
  /\ Legacy!Idle \in Tasks /\ Legacy!Idle.do = "idle" /\ Legacy!Idle.at = "idle" /\ Legacy!Idle.of = None
  BY DEF Legacy!Idle, Legacy!Task, Tasks, AnyProject

LEMMA GoodAnswer ==
  ASSUME LInv, NEW i \in Legacy!Handler, NEW do, NEW at, Legacy!Good(i, do, at)
  PROVE  /\ task[i].do = do /\ task[i].at = at /\ task[i] \in Tasks /\ server' \in Servers
         /\ server'.admin = server.admin \/ task[i].at = "bootstrap"
         /\ at # "bootstrap" => server'.admin = server.admin
  BY CarriedOut DEF Legacy!Good, LInv

(* A view that is drawn asks for nothing but what is of the project open.   *)
LEMMA Rendered ==
  ASSUME NEW s \in Globals
  PROVE  /\ Legacy!Shown(s) \in Globals
         /\ Legacy!Shown(s).project = s.project /\ Legacy!Shown(s).versions = s.versions
         /\ Legacy!Shown(s).detail = s.detail
         /\ Legacy!Load(Legacy!Shown(s)) \in Tasks
         /\ Legacy!Load(Legacy!Shown(s)).do \in {"idle", "view"}
         /\ Legacy!Load(Legacy!Shown(s)).at # "bootstrap"
         /\ Legacy!Load(Legacy!Shown(s)).of \in {None, s.project}
  <1>1. /\ Legacy!Shown(s) \in Globals
        /\ Legacy!Shown(s).project = s.project /\ Legacy!Shown(s).versions = s.versions
        /\ Legacy!Shown(s).detail = s.detail
    BY DEF Legacy!Shown, Globals, Legacy!ProjectViews
  <1>2. ASSUME NEW r \in Globals
        PROVE  /\ Legacy!Load(r) \in Tasks /\ Legacy!Load(r).do \in {"idle", "view"}
               /\ Legacy!Load(r).at # "bootstrap" /\ Legacy!Load(r).of \in {None, r.project}
    <2>1. r.token \in {"none", "live", "dead"} /\ r.project \in AnyProject /\ None \in AnyProject
      BY DEF Globals, AnyProject
    <2>2. /\ Legacy!Task("view", "versions", r.project, r.token) \in Tasks
          /\ Legacy!Task("view", "files", None, r.token) \in Tasks
          /\ Legacy!Task("view", "users", None, r.token) \in Tasks
      BY <2>1 DEF Legacy!Task, Tasks
    <2>. QED
      BY <2>1, <2>2, IdleTask DEF Legacy!Load, Legacy!Task
  <1>. QED
    BY <1>1, <1>2

(* S drawn, with nothing of the project but what is its own. *)
LEMMA Drawn ==
  ASSUME LInv, NEW i, NEW s \in Globals, Legacy!Render(i, s), s.project = S.project,
         {s.versions, s.detail} \subseteq {S.versions, S.detail, S.project, None},
         crossed' = crossed, server' \in Servers,
         server'.admin = server.admin \/ (i \in Legacy!Handler /\ task[i].at = "bootstrap")
  PROVE  LInv'
  <1>1. S' = Legacy!Shown(s) /\ task' = [task EXCEPT ![i] = Legacy!Load(Legacy!Shown(s))]
    BY DEF Legacy!Render
  <1> DEFINE t == Legacy!Load(Legacy!Shown(s))
  <1>2. /\ t \in Tasks /\ t.do # "signin" /\ t.at # "bootstrap" /\ OfOpen(t, S.project)
        /\ S' \in Globals /\ S'.project = S.project
        /\ {S'.versions, S'.detail} \subseteq {S.versions, S.detail, S.project, None}
    BY <1>1, Rendered DEF OfOpen
  <1>. HIDE DEF t
  <1>3. task' = [task EXCEPT ![i] = t]
    BY <1>1 DEF t
  <1>. QED
    BY <1>2, <1>3, GoesOn

(* What a failure comes to: nothing of S, or all of it that is open.        *)
LEMMA Failure ==
  ASSUME LInv, NEW i \in Legacy!Handler, NEW do, NEW e \in Legacy!Errors(i), Legacy!Bad(i, do, e)
  PROVE  /\ server' \in Servers
         /\ server'.admin = server.admin \/ task[i].at = "bootstrap"
         /\ crossed' = (crossed \/ (e.out /\ Legacy!Crosses(i)))
         /\ \/ e.out /\ e.s = Legacy!SignedOut(S)
            \/ ~e.out /\ e.s = S
  <1>1. /\ e.server \in {server, Legacy!Carried(task[i])}
        /\ \/ e.out /\ e.s = Legacy!SignedOut(S)
           \/ ~e.out /\ e.s = S
    <2>1. CASE e = [s |-> IF S.token # "none" THEN Legacy!SignedOut(S) ELSE S,
                    out |-> S.token # "none", server |-> server]
      BY <2>1
    <2>2. CASE \E v \in {server, Legacy!Carried(task[i])} : e = [s |-> S, out |-> FALSE, server |-> v]
      BY <2>2
    <2>. QED
      BY <2>1, <2>2 DEF Legacy!Errors
  <1>. QED
    BY <1>1, CarriedOut DEF Legacy!Bad, LInv

LEMMA LeavesNothing ==
  ASSUME LInv
  PROVE  /\ Legacy!SignedOut(S) \in Globals /\ Legacy!SignedOut(S).project = None
         /\ Legacy!SignedOut(S).versions = None /\ Legacy!SignedOut(S).detail = None
  BY DEF Legacy!SignedOut, Legacy!Cleared, LInv, Globals, AnyProject

(* Most handlers end with it. *)
LEMMA Failing ==
  ASSUME LInv, NEW i \in Legacy!Handler, NEW do, NEW e \in Legacy!Errors(i), Legacy!Bad(i, do, e),
         S' = e.s, Legacy!End(i)
  PROVE  LInv'
  <1>1. task' = [task EXCEPT ![i] = Legacy!Idle]
    BY DEF Legacy!End
  <1>2. CASE ~e.out /\ e.s = S
    <2>1. crossed' = crossed /\ S' = S /\ S \in Globals
      BY <1>2, Failure DEF LInv
    <2>. QED
      BY <1>1, <2>1, Failure, IdleTask, GoesOn DEF OfOpen
  <1>3. CASE e.out /\ e.s = Legacy!SignedOut(S)
    <2>1. crossed' \in BOOLEAN /\ (~crossed' => ~Legacy!Crosses(i))
      BY <1>3, Failure DEF LInv
    <2>. QED
      BY <1>1, <1>3, <2>1, Failure, LeavesNothing, IdleTask, HandlerWritten DEF OfOpen
  <1>. QED
    BY <1>2, <1>3, Failure

(* A check draws the view. *)
LEMMA FailingDrawn ==
  ASSUME LInv, NEW i \in Legacy!Handler, NEW do, NEW e \in Legacy!Errors(i), Legacy!Bad(i, do, e),
         Legacy!Render(i, e.s)
  PROVE  LInv'
  <1>1. CASE ~e.out /\ e.s = S
    <2>1. crossed' = crossed /\ S \in Globals /\ Legacy!Render(i, S)
      BY <1>1, Failure DEF LInv
    <2>. QED
      BY <2>1, Failure, Drawn
  <1>2. CASE e.out /\ e.s = Legacy!SignedOut(S)
    <2> DEFINE s == Legacy!SignedOut(S)
               t == Legacy!Load(Legacy!Shown(s))
    <2>1. S' = Legacy!Shown(s) /\ task' = [task EXCEPT ![i] = t]
      BY <1>2 DEF Legacy!Render
    <2>2. s \in Globals /\ s.project = None /\ s.versions = None /\ s.detail = None
      BY LeavesNothing
    <2>. HIDE DEF s
    <2>3. /\ t \in Tasks /\ t.do # "signin" /\ t.at # "bootstrap" /\ OfOpen(t, S'.project)
          /\ S' \in Globals /\ S'.versions = None /\ S'.detail = None
      BY <2>1, <2>2, Rendered DEF OfOpen
    <2>. HIDE DEF t
    <2>4. crossed' \in BOOLEAN /\ (~crossed' => ~Legacy!Crosses(i))
      BY <1>2, Failure DEF LInv
    <2>. QED
      BY <2>1, <2>3, <2>4, Failure, HandlerWritten
  <1>. QED
    BY <1>1, <1>2, Failure

LEMMA Noting ==
  ASSUME LInv, NEW i \in Legacy!Handler, NEW do, Legacy!Noted(i, do)
  PROVE  LInv'
  BY Failing DEF Legacy!Noted

(* A handler waits for its next request, of what it was of or what is open. *)
LEMMA Waiting ==
  ASSUME LInv, NEW i \in Legacy!Handler, NEW do, NEW from, Legacy!Good(i, do, from),
         NEW at, NEW of \in AnyProject, Legacy!Then(i, at, of),
         at \in {"me", "projects", "login", "versions", "instances", "detail", "audit"},
         of \in {None, task[i].of, S.project},
         S' \in Globals, S'.project = S.project, S.token = S'.token,
         {S'.versions, S'.detail} \subseteq {S.versions, S.detail, S.project, None},
         crossed' = crossed
  PROVE  LInv'
  <1> DEFINE t == [task[i] EXCEPT !.at = at, !.of = of, !.auth = S.token]
  <1>0. task[i] \in Tasks /\ S \in Globals
    BY DEF LInv
  <1>1. t \in Tasks /\ t.at = at /\ t.of = of /\ t.do = task[i].do
    BY <1>0 DEF Tasks, Globals
  <1>2. task' = [task EXCEPT ![i] = t]
    BY DEF Legacy!Then
  <1>3. ~crossed => OfOpen(t, S.project)
    BY <1>1 DEF LInv, OfOpen
  <1>. HIDE DEF t
  <1>. QED
    BY <1>1, <1>2, <1>3, GoodAnswer, GoesOn

(* A handler comes to its end, or starts, with S as it is. *)
LEMMA Ending ==
  ASSUME LInv, NEW i \in Legacy!Handler, NEW do, NEW from, Legacy!Good(i, do, from), Legacy!End(i),
         S' \in Globals, S'.project = S.project,
         {S'.versions, S'.detail} \subseteq {S.versions, S.detail, S.project, None},
         crossed' = crossed
  PROVE  LInv'
  BY IdleTask, GoodAnswer, GoesOn DEF Legacy!End, OfOpen

LEMMA Starting ==
  ASSUME LInv, NEW do, NEW at, NEW of \in AnyProject, Legacy!Starts(do, at, of),
         [do |-> do, at |-> at] \in
           {[do |-> "signin", at |-> "health"], [do |-> "signout", at |-> "logout"],
            [do |-> "create", at |-> "create"], [do |-> "publish", at |-> "approve"],
            [do |-> "account", at |-> "account"], [do |-> "ask", at |-> "analysis"],
            [do |-> "view", at |-> "files"], [do |-> "check", at |-> "upload"],
            [do |-> "run", at |-> "job"], [do |-> "run", at |-> "versions"]},
         do = "signin" => ~Legacy!InFlight,
         of \in {None, S.project} \/ do = "create"
  PROVE  LInv'
  <1> DEFINE t == Legacy!Task(do, at, of, S.token)
  <1>0. S \in Globals /\ server \in Servers
    BY DEF LInv
  <1>1. t \in Tasks /\ t.do = do /\ t.at = at /\ t.of = of /\ at # "bootstrap"
    BY <1>0 DEF Tasks, Globals, Legacy!Task
  <1>2. PICK i : task' = [task EXCEPT ![i] = t]
    BY DEF Legacy!Starts
  <1>3. S' = S /\ crossed' = crossed /\ server' = server
    BY DEF Legacy!Starts
  <1>4. OfOpen(t, S.project)
    BY <1>1 DEF OfOpen
  <1>. HIDE DEF t
  <1>. QED
    BY <1>0, <1>1, <1>2, <1>3, <1>4, GoesOn

(* A project is opened. *)
LEMMA OpenedIn ==
  ASSUME LInv, NEW i, NEW p \in AnyProject, Legacy!OpenIn(i, p), server' \in Servers,
         server'.admin = server.admin \/ (i \in Legacy!Handler /\ task[i].at = "bootstrap")
  PROVE  LInv'
  <1> DEFINE t == Legacy!Task("open", "versions", p, S.token)
  <1>0. S \in Globals
    BY DEF LInv
  <1>1. t \in Tasks /\ t.do = "open" /\ t.at = "versions" /\ t.of = p
    BY <1>0 DEF Tasks, Globals, Legacy!Task
  <1>2. task' = [task EXCEPT ![i] = t] /\ crossed' = Legacy!Crosses(i)
    BY DEF Legacy!OpenIn
  <1>3. S' \in Globals /\ S'.project = p /\ S'.versions = None /\ S'.detail = None
    BY <1>0 DEF Legacy!OpenIn, Legacy!Cleared, Globals, AnyProject
  <1>4. crossed' \in BOOLEAN /\ OfOpen(t, p)
    BY <1>1, <1>2 DEF Legacy!Crosses, OfOpen
  <1>. HIDE DEF t
  <1>. QED
    BY <1>1, <1>2, <1>3, <1>4, HandlerWritten

(* The versions read are of the project that is open, or nothing tells.     *)
LEMMA RefreshedIs ==
  ASSUME LInv, NEW i \in Legacy!Handler
  PROVE  /\ Legacy!Refreshed(i) \in Globals /\ Legacy!Refreshed(i).project = S.project
         /\ Legacy!Refreshed(i).token = S.token /\ Legacy!Refreshed(i).detail = S.detail
         /\ Legacy!Refreshed(i).versions \in {None, task[i].of}
  BY DEF Legacy!Refreshed, LInv, Globals, Tasks, AnyProject

-----------------------------------------------------------------------------
(* The handlers of LegacyClient, one by one *)

LEMMA BootSteps == ASSUME LInv, NEW i \in Legacy!Handler, Legacy!Boot(i) PROVE LInv'
  <1>0. S \in Globals /\ server \in Servers /\ task[i] \in Tasks /\ None \in AnyProject
    BY DEF LInv, AnyProject
  <1>1. CASE /\ Legacy!Good(i, "boot", "health")
             /\ \/ Legacy!Then(i, "me", None)
                \/ Legacy!End(i)
             /\ UNCHANGED <<S, crossed>>
    BY <1>0, <1>1, Waiting, Ending
  <1>2. CASE /\ Legacy!Good(i, "boot", "me") /\ S' = [S EXCEPT !.user = TRUE]
             /\ Legacy!Then(i, "projects", None) /\ UNCHANGED crossed
    <2>1. /\ S' \in Globals /\ S'.project = S.project /\ S'.token = S.token
          /\ S'.versions = S.versions /\ S'.detail = S.detail
      BY <1>0, <1>2 DEF Globals
    <2>. QED
      BY <1>0, <1>2, <2>1, Waiting
  <1>3. CASE /\ Legacy!Good(i, "boot", "projects")
             /\ Legacy!Render(i, [S EXCEPT !.view = "projects"]) /\ UNCHANGED crossed
    <2> DEFINE s == [S EXCEPT !.view = "projects"]
    <2>1. s \in Globals /\ s.project = S.project /\ s.versions = S.versions /\ s.detail = S.detail
      BY <1>0 DEF Globals
    <2>. HIDE DEF s
    <2>2. Legacy!Render(i, s)
      BY <1>3 DEF s
    <2>. QED
      BY <1>3, <2>1, <2>2, GoodAnswer, Drawn
  <1>4. CASE \E e \in Legacy!Errors(i) :
               Legacy!Bad(i, "boot", e) /\ S' = e.s /\ Legacy!SignInAgain(i)
    BY <1>4, Failing DEF Legacy!SignInAgain
  <1>. QED
    BY <1>1, <1>2, <1>3, <1>4 DEF Legacy!Boot, Legacy!SignInAgain

LEMMA SignInSteps == ASSUME LInv, NEW i \in Legacy!Handler, Legacy!SignIn(i) PROVE LInv'
  <1>0. S \in Globals /\ server \in Servers /\ task[i] \in Tasks /\ None \in AnyProject
    BY DEF LInv, AnyProject
  <1>1. CASE /\ Legacy!Good(i, "signin", "health")
             /\ Legacy!Then(i, IF Legacy!FirstRun THEN "bootstrap" ELSE "login", None)
             /\ UNCHANGED <<S, shown, crossed>>
    <2>1. CASE ~Legacy!FirstRun
      BY <1>0, <1>1, <2>1, Waiting
    <2>2. CASE Legacy!FirstRun
      <3> DEFINE t == [task[i] EXCEPT !.at = "bootstrap", !.of = None, !.auth = S.token]
      <3>1. t \in Tasks /\ t.at = "bootstrap" /\ t.do = "signin" /\ t.of = None
        BY <1>0, <1>1 DEF Tasks, Globals, Legacy!Good
      <3>2. task' = [task EXCEPT ![i] = t]
        BY <1>1, <2>2 DEF Legacy!Then
      <3>3. server' \in Servers /\ server'.admin = server.admin /\ task[i].do = "signin"
        BY <1>1, GoodAnswer
      <3>4. ~server'.admin /\ OfOpen(t, S.project)
        BY <2>2, <3>1, <3>3 DEF Legacy!FirstRun, OfOpen
      <3>. HIDE DEF t
      <3>. QED
        BY <1>0, <1>1, <3>1, <3>2, <3>3, <3>4, GoesOn
    <2>. QED
      BY <2>1, <2>2
  <1>2. CASE Legacy!Good(i, "signin", "bootstrap") /\ Legacy!Then(i, "login", None)
             /\ UNCHANGED <<S, shown, crossed>>
    BY <1>0, <1>2, Waiting
  <1>3. CASE /\ Legacy!Good(i, "signin", "login")
             /\ S' = [S EXCEPT !.token = "live", !.user = TRUE]
             /\ task' = [task EXCEPT ![i] = Legacy!Task("enter", "projects", None, "live")]
             /\ UNCHANGED crossed
    <2>1. /\ S' \in Globals /\ S'.project = S.project
          /\ S'.versions = S.versions /\ S'.detail = S.detail
      BY <1>0, <1>3 DEF Globals
    <2> DEFINE t == Legacy!Task("enter", "projects", None, "live")
    <2>2. t \in Tasks /\ t.at = "projects" /\ t.do = "enter" /\ OfOpen(t, S.project)
      BY <1>0 DEF Tasks, Legacy!Task, OfOpen
    <2>. HIDE DEF t
    <2>3. task' = [task EXCEPT ![i] = t]
      BY <1>3 DEF t
    <2>4. server' \in Servers /\ server'.admin = server.admin /\ crossed' = crossed
      BY <1>3, GoodAnswer
    <2>. QED
      BY <2>1, <2>2, <2>3, <2>4, GoesOn
  <1>4. CASE \E e \in Legacy!Errors(i) :
               Legacy!Bad(i, "signin", e) /\ S' = e.s /\ Legacy!SignInAgain(i)
    BY <1>4, Failing DEF Legacy!SignInAgain
  <1>. QED
    BY <1>1, <1>2, <1>3, <1>4 DEF Legacy!SignIn

LEMMA EnterSteps == ASSUME LInv, NEW i \in Legacy!Handler, Legacy!Enter(i) PROVE LInv'
  <1>1. CASE Legacy!Noted(i, "enter")
    BY <1>1, Noting
  <1>2. CASE /\ Legacy!Good(i, "enter", "projects")
             /\ Legacy!Render(i, [S EXCEPT !.view = "projects"]) /\ UNCHANGED crossed
    <2> DEFINE s == [S EXCEPT !.view = "projects"]
    <2>1. s \in Globals /\ s.project = S.project /\ s.versions = S.versions /\ s.detail = S.detail
      BY DEF LInv, Globals
    <2>. HIDE DEF s
    <2>2. Legacy!Render(i, s)
      BY <1>2 DEF s
    <2>. QED
      BY <1>2, <2>1, <2>2, GoodAnswer, Drawn
  <1>. QED
    BY <1>1, <1>2 DEF Legacy!Enter

LEMMA LeaveSteps == ASSUME LInv, NEW i \in Legacy!Handler, Legacy!Leave(i) PROVE LInv'
  <1>1. /\ task' = [task EXCEPT ![i] = Legacy!Idle] /\ S' = Legacy!SignedOut(S) /\ server' = server
        /\ crossed' = (crossed \/ Legacy!Crosses(i))
    BY DEF Legacy!Leave, Legacy!SignInAgain, Legacy!End
  <1>2. S' \in Globals /\ S'.project = None /\ S'.versions = None /\ S'.detail = None
    BY <1>1 DEF Legacy!SignedOut, Legacy!Cleared, LInv, Globals, AnyProject
  <1>3. crossed' \in BOOLEAN /\ (~crossed' => ~Legacy!Crosses(i)) /\ server' \in Servers
    BY <1>1 DEF LInv, Legacy!Crosses
  <1>. QED
    BY <1>1, <1>2, <1>3, IdleTask, HandlerWritten DEF OfOpen

(* Versions are read, and the handler ends, goes on, or draws them.         *)
LEMMA ReadVersions ==
  ASSUME LInv, NEW i \in Legacy!Handler, NEW do \in {"open", "view", "publish", "run"},
         Legacy!Good(i, do, "versions"), UNCHANGED crossed,
         \/ S' = Legacy!Refreshed(i) /\ Legacy!End(i)
         \/ /\ S' = Legacy!Refreshed(i)
            /\ \E at \in {"instances", "audit"}, of \in {None, task[i].of} : Legacy!Then(i, at, of)
         \/ Legacy!Render(i, Legacy!Refreshed(i))
  PROVE  LInv'
  <1> DEFINE s == Legacy!Refreshed(i)
  <1>0. task[i] \in Tasks /\ task[i].of \in AnyProject /\ None \in AnyProject /\ S \in Globals
    BY DEF LInv, Tasks, AnyProject
  <1>1. /\ s \in Globals /\ s.project = S.project /\ s.token = S.token /\ s.detail = S.detail
        /\ s.versions \in {None, task[i].of}
    BY RefreshedIs
  <1>2. task[i].do = do /\ task[i].do # "create"
    BY DEF Legacy!Good
  <1>3. crossed \/ task[i].of \in {None, S.project}
    BY <1>2 DEF LInv, OfOpen
  <1>. HIDE DEF s
  <1>4. CASE ~crossed
    <2>1. {s.versions, s.detail} \subseteq {S.versions, S.detail, S.project, None}
      BY <1>1, <1>3, <1>4
    <2>2. CASE S' = s /\ Legacy!End(i)
      BY <1>1, <2>1, <2>2, Ending
    <2>3. CASE S' = s /\ \E at \in {"instances", "audit"}, of \in {None, task[i].of} : Legacy!Then(i, at, of)
      BY <1>0, <1>1, <2>1, <2>3, Waiting
    <2>4. CASE Legacy!Render(i, s)
      BY <1>0, <1>1, <2>1, <2>4, GoodAnswer, Drawn
    <2>. QED
      BY <2>2, <2>3, <2>4 DEF s
  <1>5. CASE crossed
    <2>1. PICK t \in Tasks : /\ task' = [task EXCEPT ![i] = t] /\ t.at # "bootstrap"
                             /\ t.do = "signin" => task[i].do = "signin"
      <3>1. CASE Legacy!End(i)
        BY <3>1, IdleTask DEF Legacy!End
      <3>2. CASE \E at \in {"instances", "audit"}, of \in {None, task[i].of} : Legacy!Then(i, at, of)
        <4>0. PICK at \in {"instances", "audit"}, of \in {None, task[i].of} : Legacy!Then(i, at, of)
          BY <3>2
        <4>1. task' = [task EXCEPT ![i] = [task[i] EXCEPT !.at = at, !.of = of, !.auth = S.token]]
          BY <4>0 DEF Legacy!Then
        <4> DEFINE t == [task[i] EXCEPT !.at = at, !.of = of, !.auth = S.token]
        <4>2. of \in AnyProject /\ S.token \in {"none", "live", "dead"}
          BY <1>0 DEF Globals
        <4>3. t \in Tasks /\ t.at # "bootstrap" /\ t.do = task[i].do
          BY <1>0, <4>2 DEF Tasks
        <4>. HIDE DEF t
        <4>4. task' = [task EXCEPT ![i] = t]
          BY <4>1 DEF t
        <4>. QED
          BY <4>3, <4>4
      <3>3. CASE Legacy!Render(i, s)
        BY <1>1, <3>3, Rendered DEF Legacy!Render
      <3>. QED
        BY <3>1, <3>2, <3>3 DEF s
    <2>2. S' \in Globals
      BY <1>1, Rendered DEF Legacy!Render, s
    <2>. QED
      BY <1>5, <2>1, <2>2, GoodAnswer, HandlerWritten DEF LInv
  <1>. QED
    BY <1>4, <1>5

(* The detail of a project is read, and drawn, or the rest waited for.      *)
LEMMA ReadDetail ==
  ASSUME LInv, NEW i \in Legacy!Handler, NEW do \in {"open", "check"},
         Legacy!Good(i, do, "detail"), UNCHANGED crossed,
         NEW v \in {"overview", S.view},
         \/ Legacy!Render(i, [S EXCEPT !.detail = task[i].of, !.view = v])
         \/ S' = [S EXCEPT !.detail = task[i].of, !.view = v] /\ Legacy!Then(i, "instances", None)
  PROVE  LInv'
  <1> DEFINE s == [S EXCEPT !.detail = task[i].of, !.view = v]
  <1>0. task[i] \in Tasks /\ task[i].of \in AnyProject /\ S \in Globals /\ None \in AnyProject
    BY DEF LInv, Tasks, AnyProject
  <1>1. /\ s \in Globals /\ s.project = S.project /\ s.detail = task[i].of
        /\ s.versions = S.versions /\ s.token = S.token
    BY <1>0 DEF Globals, Legacy!ProjectViews
  <1>2. task[i].do = do /\ task[i].do # "create"
    BY DEF Legacy!Good
  <1>3. crossed \/ task[i].of \in {None, S.project}
    BY <1>2 DEF LInv, OfOpen
  <1>. HIDE DEF s
  <1>4. Legacy!Render(i, s) \/ (S' = s /\ Legacy!Then(i, "instances", None))
    BY DEF s
  <1>5. CASE ~crossed
    <2>1. {s.versions, s.detail} \subseteq {S.versions, S.detail, S.project, None}
      BY <1>1, <1>3, <1>5
    <2>2. CASE Legacy!Render(i, s)
      BY <1>1, <2>1, <2>2, GoodAnswer, Drawn
    <2>3. CASE S' = s /\ Legacy!Then(i, "instances", None)
      BY <1>0, <1>1, <2>1, <2>3, Waiting
    <2>. QED
      BY <1>4, <2>2, <2>3
  <1>6. CASE crossed
    <2>1. PICK t \in Tasks : /\ task' = [task EXCEPT ![i] = t] /\ t.at # "bootstrap"
                             /\ t.do # "signin" /\ S' \in Globals
      <3>1. CASE Legacy!Render(i, s)
        BY <1>1, <3>1, Rendered DEF Legacy!Render
      <3>2. CASE S' = s /\ Legacy!Then(i, "instances", None)
        <4> DEFINE t == [task[i] EXCEPT !.at = "instances", !.of = None, !.auth = S.token]
        <4>1. task' = [task EXCEPT ![i] = t]
          BY <3>2 DEF Legacy!Then
        <4>2. t \in Tasks /\ t.at # "bootstrap" /\ t.do # "signin"
          BY <1>0, <1>2 DEF Tasks, Globals
        <4>. HIDE DEF t
        <4>. QED
          BY <1>1, <3>2, <4>1, <4>2
      <3>. QED
        BY <1>4, <3>1, <3>2
    <2>. QED
      BY <1>6, <2>1, GoodAnswer, HandlerWritten DEF LInv
  <1>. QED
    BY <1>5, <1>6

(* S as it is, drawn. *)
LEMMA DrawnAsIs ==
  ASSUME LInv, NEW i, NEW v \in Legacy!ProjectViews \cup {"projects", "settings", S.view},
         Legacy!Render(i, [S EXCEPT !.view = v]), crossed' = crossed, server' \in Servers,
         server'.admin = server.admin
  PROVE  LInv'
  <1> DEFINE s == [S EXCEPT !.view = v]
  <1>1. s \in Globals /\ s.project = S.project /\ s.versions = S.versions /\ s.detail = S.detail
    BY DEF LInv, Globals
  <1>. HIDE DEF s
  <1>2. Legacy!Render(i, s)
    BY DEF s
  <1>. QED
    BY <1>1, <1>2, Drawn

LEMMA OpeningSteps == ASSUME LInv, NEW i \in Legacy!Handler, Legacy!Opening(i) PROVE LInv'
  <1>0. S \in Globals /\ task[i] \in Tasks /\ task[i].of \in AnyProject
    BY DEF LInv, Tasks
  <1>1. CASE /\ Legacy!Good(i, "open", "versions") /\ S' = Legacy!Refreshed(i)
             /\ IF S.project = None THEN Legacy!End(i)
                ELSE Legacy!Then(i, "instances", task[i].of)
             /\ UNCHANGED <<shown, crossed>>
    BY <1>1, ReadVersions
  <1>2. CASE /\ Legacy!Good(i, "open", "instances") /\ UNCHANGED <<shown, crossed>>
             /\ IF task[i].of \in server.installed
                THEN Legacy!Then(i, "detail", task[i].of) /\ UNCHANGED S
                ELSE Legacy!Render(i, [S EXCEPT !.view = "overview"])
    <2>1. CASE Legacy!Then(i, "detail", task[i].of) /\ UNCHANGED S
      BY <1>0, <1>2, <2>1, Waiting
    <2>2. CASE Legacy!Render(i, [S EXCEPT !.view = "overview"])
      BY <1>2, <2>2, GoodAnswer, DrawnAsIs DEF Legacy!ProjectViews
    <2>. QED
      BY <1>2, <2>1, <2>2
  <1>3. CASE /\ Legacy!Good(i, "open", "detail") /\ UNCHANGED <<shown, crossed>>
             /\ Legacy!Render(i, [S EXCEPT !.detail = task[i].of, !.view = "overview"])
    BY <1>3, ReadDetail
  <1>4. CASE Legacy!Noted(i, "open")
    BY <1>4, Noting
  <1>. QED
    BY <1>1, <1>2, <1>3, <1>4 DEF Legacy!Opening

LEMMA CreatingSteps == ASSUME LInv, NEW i \in Legacy!Handler, Legacy!Creating(i) PROVE LInv'
  <1>0. S \in Globals /\ task[i] \in Tasks /\ task[i].of \in AnyProject
    BY DEF LInv, Tasks
  <1>1. CASE /\ Legacy!Good(i, "create", "create") /\ Legacy!Then(i, "projects", task[i].of)
             /\ UNCHANGED <<S, shown, crossed>>
    BY <1>0, <1>1, Waiting
  <1>2. CASE Legacy!Good(i, "create", "projects") /\ Legacy!OpenIn(i, task[i].of)
    BY <1>0, <1>2, GoodAnswer, OpenedIn
  <1>3. CASE Legacy!Good(i, "create", "projects") /\ Legacy!End(i) /\ UNCHANGED <<S, crossed>>
    BY <1>0, <1>3, Ending
  <1>4. CASE Legacy!Noted(i, "create")
    BY <1>4, Noting
  <1>. QED
    BY <1>1, <1>2, <1>3, <1>4 DEF Legacy!Creating

LEMMA ViewingSteps == ASSUME LInv, NEW i \in Legacy!Handler, Legacy!Viewing(i) PROVE LInv'
  <1>0. S \in Globals /\ task[i] \in Tasks
    BY DEF LInv
  <1>1. CASE /\ Legacy!Good(i, "view", "versions") /\ S' = Legacy!Refreshed(i)
             /\ IF S.project = None THEN Legacy!End(i) ELSE Legacy!Then(i, "audit", None)
             /\ UNCHANGED <<shown, crossed>>
    BY <1>1, ReadVersions
  <1>2. CASE \E at \in {"audit", "files", "users"} :
               Legacy!Good(i, "view", at) /\ Legacy!End(i) /\ UNCHANGED <<S, shown, crossed>>
    BY <1>0, <1>2, Ending
  <1>3. CASE Legacy!Noted(i, "view")
    BY <1>3, Noting
  <1>. QED
    BY <1>1, <1>2, <1>3
    DEF Legacy!Viewing, Legacy!ViewHistory, Legacy!ViewPlan, Legacy!ViewAccounts

LEMMA DrawnSame ==
  ASSUME LInv, NEW i, Legacy!Render(i, S), crossed' = crossed, server' \in Servers,
         server'.admin = server.admin
  PROVE  LInv'
  BY Drawn DEF LInv

LEMMA PublishingSteps == ASSUME LInv, NEW i \in Legacy!Handler, Legacy!Publishing(i) PROVE LInv'
  <1>0. S \in Globals /\ task[i] \in Tasks /\ S.project \in AnyProject
    BY DEF LInv, Globals
  <1>1. CASE /\ Legacy!Good(i, "publish", "approve") /\ UNCHANGED <<shown, crossed>>
             /\ IF S.project = None THEN Legacy!Render(i, S)
                ELSE Legacy!Then(i, "versions", S.project) /\ UNCHANGED S
    <2>1. CASE Legacy!Render(i, S)
      BY <1>1, <2>1, GoodAnswer, DrawnSame
    <2>2. CASE Legacy!Then(i, "versions", S.project) /\ UNCHANGED S
      BY <1>0, <1>1, <2>2, Waiting
    <2>. QED
      BY <1>1, <2>1, <2>2
  <1>2. CASE /\ Legacy!Good(i, "publish", "versions") /\ UNCHANGED <<shown, crossed>>
             /\ IF S.project = None THEN S' = Legacy!Refreshed(i) /\ Legacy!End(i)
                ELSE Legacy!Render(i, Legacy!Refreshed(i))
    BY <1>2, ReadVersions
  <1>3. CASE Legacy!Noted(i, "publish")
    BY <1>3, Noting
  <1>. QED
    BY <1>1, <1>2, <1>3 DEF Legacy!Publishing

LEMMA CheckSteps == ASSUME LInv, NEW i \in Legacy!Handler, Legacy!WizardChecks(i) PROVE LInv'
  <1>0. S \in Globals /\ task[i] \in Tasks /\ task[i].of \in AnyProject
    BY DEF LInv, Tasks
  <1>a. [S EXCEPT !.detail = task[i].of] = [S EXCEPT !.detail = task[i].of, !.view = S.view]
    BY <1>0 DEF Globals
  <1>1. CASE /\ Legacy!Good(i, "check", "upload") /\ Legacy!Then(i, "detail", task[i].of)
             /\ UNCHANGED <<S, shown, crossed>>
    BY <1>0, <1>1, Waiting
  <1>2. CASE /\ Legacy!Good(i, "check", "detail") /\ UNCHANGED <<shown, crossed>>
             /\ IF S.project = None THEN Legacy!Render(i, [S EXCEPT !.detail = task[i].of])
                ELSE S' = [S EXCEPT !.detail = task[i].of] /\ Legacy!Then(i, "instances", None)
    BY <1>2, <1>a, ReadDetail
  <1>3. CASE /\ Legacy!Good(i, "check", "instances") /\ Legacy!Render(i, S)
             /\ UNCHANGED <<shown, crossed>>
    BY <1>3, GoodAnswer, DrawnSame
  <1>4. CASE \E e \in Legacy!Errors(i) : Legacy!Bad(i, "check", e) /\ Legacy!Render(i, e.s)
    BY <1>4, FailingDrawn
  <1>. QED
    BY <1>1, <1>2, <1>3, <1>4 DEF Legacy!WizardChecks

LEMMA RunningSteps == ASSUME LInv, NEW i \in Legacy!Handler, Legacy!WizardRuns(i) PROVE LInv'
  <1>0. S \in Globals /\ task[i] \in Tasks /\ S.project \in AnyProject
    BY DEF LInv, Globals
  <1>1. CASE /\ Legacy!Good(i, "run", "job") /\ UNCHANGED <<shown, crossed>>
             /\ IF S.project = None THEN Legacy!Render(i, S)
                ELSE Legacy!Then(i, "versions", S.project) /\ UNCHANGED S
    <2>1. CASE Legacy!Render(i, S)
      BY <1>1, <2>1, GoodAnswer, DrawnSame
    <2>2. CASE Legacy!Then(i, "versions", S.project) /\ UNCHANGED S
      BY <1>0, <1>1, <2>2, Waiting
    <2>. QED
      BY <1>1, <2>1, <2>2
  <1>2. CASE /\ Legacy!Good(i, "run", "versions") /\ UNCHANGED <<shown, crossed>>
             /\ IF S.project = None THEN S' = Legacy!Refreshed(i) /\ Legacy!End(i)
                ELSE Legacy!Render(i, Legacy!Refreshed(i))
    BY <1>2, ReadVersions
  <1>3. CASE Legacy!Noted(i, "run")
    BY <1>3, Noting
  <1>. QED
    BY <1>1, <1>2, <1>3 DEF Legacy!WizardRuns

LEMMA RemainingSteps ==
  ASSUME LInv, NEW i \in Legacy!Handler,
         Legacy!Asking(i) \/ Legacy!ChangingAccount(i) \/ Legacy!UsingWizard(i)
  PROVE  LInv'
  <1>0. S \in Globals /\ task[i] \in Tasks
    BY DEF LInv
  <1>1. CASE Legacy!Good(i, "ask", "analysis") /\ Legacy!End(i) /\ UNCHANGED <<S, shown, crossed>>
    BY <1>0, <1>1, Ending
  <1>2. CASE Legacy!Good(i, "account", "account") /\ Legacy!Render(i, S) /\ UNCHANGED <<shown, crossed>>
    BY <1>2, GoodAnswer, DrawnSame
  <1>3. CASE Legacy!WizardChecks(i)
    BY <1>3, CheckSteps
  <1>4. CASE Legacy!WizardRuns(i)
    BY <1>4, RunningSteps
  <1>5. CASE \E do \in {"ask", "account"} : Legacy!Noted(i, do)
    BY <1>5, Noting
  <1>. QED
    BY <1>1, <1>2, <1>3, <1>4, <1>5 DEF Legacy!Asking, Legacy!ChangingAccount, Legacy!UsingWizard

LEMMA UserSteps ==
  ASSUME LInv,
         \/ \E p \in Projects : Legacy!OpenProject(p) \/ Legacy!CreateProject(p)
         \/ \E v \in Legacy!ProjectViews \cup {"projects", "settings"} : Legacy!Go(v)
         \/ Legacy!Submit \/ Legacy!SignOut \/ Legacy!ChangeLanguage \/ Legacy!Publish
         \/ Legacy!ChangeAccount \/ Legacy!Explain \/ Legacy!Repair
         \/ Legacy!Download \/ Legacy!UseWizard
  PROVE  LInv'
  <1>0. /\ S \in Globals /\ server \in Servers /\ None \in AnyProject
        /\ S.project \in AnyProject /\ Projects \subseteq AnyProject
    BY DEF LInv, Globals, AnyProject
  <1>1. ASSUME NEW p \in Projects, Legacy!OpenProject(p) PROVE LInv'
    <2>1. PICK i : Legacy!OpenIn(i, p) /\ server' = server
      BY <1>1 DEF Legacy!OpenProject
    <2>. QED
      BY <1>0, <2>1, OpenedIn
  <1>2. ASSUME NEW p \in Projects, Legacy!CreateProject(p) PROVE LInv'
    BY <1>0, <1>2, Starting DEF Legacy!CreateProject
  <1>3. ASSUME NEW v \in Legacy!ProjectViews \cup {"projects", "settings"}, Legacy!Go(v) PROVE LInv'
    <2>1. PICK i : /\ Legacy!Render(i, [S EXCEPT !.view = v]) /\ UNCHANGED <<shown, crossed, server>>
      BY <1>3 DEF Legacy!Go, Legacy!Draw
    <2>. QED
      BY <1>0, <2>1, DrawnAsIs
  <1>4. CASE Legacy!ChangeLanguage
    <2>1. PICK i : Legacy!Render(i, S) /\ UNCHANGED <<shown, crossed, server>>
      BY <1>4 DEF Legacy!ChangeLanguage, Legacy!Draw
    <2>. QED
      BY <1>0, <2>1, DrawnSame
  <1>5. CASE Legacy!Submit
    BY <1>0, <1>5, Starting DEF Legacy!Submit
  <1>6. CASE Legacy!SignOut
    BY <1>0, <1>6, Starting DEF Legacy!SignOut
  <1>7. CASE Legacy!Publish
    BY <1>0, <1>7, Starting DEF Legacy!Publish
  <1>8. CASE Legacy!ChangeAccount
    BY <1>0, <1>8, Starting DEF Legacy!ChangeAccount
  <1>9. CASE Legacy!Explain \/ Legacy!Repair
    BY <1>0, <1>9, Starting DEF Legacy!Explain, Legacy!Repair
  <1>10. CASE Legacy!Download
    BY <1>0, <1>10, Starting DEF Legacy!Download
  <1>11. CASE Legacy!UseWizard
    BY <1>0, <1>11, Starting DEF Legacy!UseWizard
  <1>. QED
    BY <1>1, <1>2, <1>3, <1>4, <1>5, <1>6, <1>7, <1>8, <1>9, <1>10, <1>11

LEMMA AroundSteps ==
  ASSUME LInv, Legacy!Expire \/ Legacy!AnotherBootstraps \/ \E p \in Projects : Legacy!Around(p)
  PROVE  LInv'
  <1>0. S \in Globals /\ server \in Servers /\ task \in [Legacy!Handler -> Tasks] /\ crossed \in BOOLEAN
    BY DEF LInv
  <1>1. ASSUME NEW p \in Projects, Legacy!Around(p) PROVE LInv'
    <2>1. server' \in Servers /\ server'.admin = server.admin
      <3>1. p \in AnyProject
        BY DEF AnyProject
      <3>. QED
        BY <1>0, <1>1, <3>1 DEF Legacy!Around, Servers
    <2>2. UNCHANGED <<S, task, crossed>>
      BY <1>1 DEF Legacy!Around
    <2>. QED
      BY <2>1, <2>2 DEF LInv, Legacy!Handler
  <1>2. CASE Legacy!Expire
    <2>1. /\ S' \in Globals /\ S'.project = S.project /\ S'.versions = S.versions
          /\ S'.detail = S.detail
      BY <1>0, <1>2 DEF Legacy!Expire, Legacy!Ended, Globals
    <2>2. task' = [i \in Legacy!Handler |-> [task[i] EXCEPT !.auth = Legacy!Ended(task[i].auth)]]
          /\ crossed' = crossed /\ server' = server
      BY <1>2 DEF Legacy!Expire
    <2>3. ASSUME NEW i \in Legacy!Handler
          PROVE  /\ task'[i] \in Tasks /\ task'[i].do = task[i].do /\ task'[i].at = task[i].at
                 /\ task'[i].of = task[i].of
      <3>1. task[i] \in Tasks /\ Legacy!Ended(task[i].auth) \in {"none", "live", "dead"}
        BY <1>0 DEF Tasks, Legacy!Ended
      <3>. QED
        BY <2>2, <3>1 DEF Tasks
    <2>4. task' \in [Legacy!Handler -> Tasks]
      BY <2>2, <2>3
    <2>5. Legacy!Handler' = Legacy!Handler
      BY DEF Legacy!Handler
    <2>. QED
      BY <1>0, <2>1, <2>2, <2>3, <2>4, <2>5 DEF LInv, OfOpen
  <1>3. CASE Legacy!AnotherBootstraps
    <2>1. server' \in Servers /\ UNCHANGED <<S, crossed>>
      BY <1>0, <1>3 DEF Legacy!AnotherBootstraps, Servers
    <2>2. task' = [i \in Legacy!Handler |-> IF task[i].at = "bootstrap"
                                            THEN [task[i] EXCEPT !.at = "outrun"] ELSE task[i]]
      BY <1>3 DEF Legacy!AnotherBootstraps
    <2>3. ASSUME NEW i \in Legacy!Handler
          PROVE  /\ task'[i] \in Tasks /\ task'[i].do = task[i].do /\ task'[i].of = task[i].of
                 /\ task'[i].at # "bootstrap"
      <3>1. task[i] \in Tasks
        BY <1>0
      <3>. QED
        BY <2>2, <3>1 DEF Tasks
    <2>4. task' \in [Legacy!Handler -> Tasks]
      BY <2>2, <2>3
    <2>5. Legacy!Handler' = Legacy!Handler
      BY DEF Legacy!Handler
    <2>. QED
      BY <1>0, <2>1, <2>3, <2>4, <2>5 DEF LInv, OfOpen
  <1>. QED
    BY <1>1, <1>2, <1>3

LEMMA LInvStep == LInv /\ [Legacy!LegacyNext]_legacy => LInv'
  <1> SUFFICES ASSUME LInv, [Legacy!LegacyNext]_legacy PROVE LInv'
    OBVIOUS
  <1>1. ASSUME NEW i \in Legacy!Handler, Legacy!Answer(i) PROVE LInv'
    BY <1>1, BootSteps, SignInSteps, EnterSteps, LeaveSteps, OpeningSteps, CreatingSteps, ViewingSteps,
       PublishingSteps, RemainingSteps DEF Legacy!Answer
  <1>2. CASE UNCHANGED legacy
    BY <1>2 DEF legacy, LInv, Legacy!Handler
  <1>. QED
    BY <1>1, <1>2, UserSteps, AroundSteps DEF Legacy!LegacyNext

LEMMA LInvAlways == Spec => []LInv
  <1>1. Init => LInv
    BY LInvInit DEF Init
  <1>2. LInv /\ [Next]_pages => LInv'
    <2>1. [Next]_pages => [Legacy!LegacyNext]_legacy
      BY DEF Next, pages, legacy
    <2>. QED
      BY <2>1, LInvStep
  <1>. QED
    BY <1>1, <1>2, PTL DEF Spec

(* No form asks for a first administrator once there is one, though it is   *)
(* submitted twice, or again after an answer was lost (app.js:262, 281).    *)
THEOREM AdministratorOnce == Spec => []BootstrapsOnce
  <1>1. LInv => BootstrapsOnce
    BY DEF LInv, BootstrapsOnce, Legacy!BootstrapsOnce
  <1>. QED
    BY <1>1, LInvAlways, PTL

(* A project that was opened while nothing of another was under way is not  *)
(* shown with the plans or the input of that one (app.js:355-374).          *)
THEOREM ProjectIsItsOwn == Spec => []ProjectAgrees
  <1>1. LInv => ProjectAgrees
    BY DEF LInv, ProjectAgrees, Legacy!ProjectAgrees
  <1>. QED
    BY <1>1, LInvAlways, PTL

-----------------------------------------------------------------------------
(* ScheduleTables: lines and pages *)

(* A non-empty set of naturals has a smallest element. *)
LEMMA SmallestExists ==
  ASSUME NEW N \in SUBSET Nat, N # {}
  PROVE  \E n \in N : \A m \in N : n <= m
  <1>1. PICK n \in N : \A m \in N : ~(<<m, n>> \in {r \in Nat \X Nat : r[1] < r[2]})
    <2>1. IsWellFoundedOn({r \in Nat \X Nat : r[1] < r[2]}, Nat)
      BY NatLessThanWellFounded, ZenonT(60) DEF OpToRel
    <2>. QED
      BY <2>1, WFMin, ZenonT(60)
  <1>2. ASSUME NEW m \in N PROVE n <= m
    <2>1. m \in Nat /\ n \in Nat /\ <<m, n>> \in Nat \X Nat
      OBVIOUS
    <2>2. ~(<<m, n>>[1] < <<m, n>>[2])
      BY <1>1, <2>1
    <2>. QED
      BY <2>1, <2>2
  <1>. QED
    BY <1>1, <1>2

LEMMA MinOfTwo ==
  ASSUME NEW a \in Int, NEW b \in Int
  PROVE  Min({a, b}) = IF a <= b THEN a ELSE b
  <1>1. \E x \in {a, b} : \A y \in {a, b} : x =< y
    OBVIOUS
  <1>2. Min({a, b}) \in {a, b} /\ \A y \in {a, b} : Min({a, b}) =< y
    BY <1>1 DEF Min
  <1>. QED
    BY <1>2

(* What division gives the number of pages. *)
LEMMA Divided ==
  ASSUME NEW P \in Nat \ {0}, NEW n \in Nat, n # 0, NEW q, q = (n + P - 1) \div P
  PROVE  q \in Nat \ {0} /\ (q - 1) * P < n /\ n <= q * P
  <1>1. q \in Nat
    BY SMT
  <1>2. (q - 1) * P < n
    BY <1>1, SMT
  <1>3. n <= q * P
    BY <1>1, SMT
  <1>4. q # 0
    BY <1>3
  <1>. QED
    BY <1>1, <1>2, <1>3, <1>4

LEMMA ProductsGrow ==
  ASSUME NEW P \in Nat \ {0}, NEW a \in Nat, NEW b \in Nat, a <= b
  PROVE  /\ a * P \in Nat /\ b * P \in Nat /\ a * P <= b * P
         /\ (a + 1) * P = a * P + P
  <1>1. a * P \in Nat /\ b * P \in Nat
    BY SMT
  <1>2. a * P <= b * P
    BY SMT
  <1>3. (a + 1) * P = a * P + P
    BY SMT
  <1>. QED
    BY <1>1, <1>2, <1>3

(* Where the pages up to p end among n lines, and that a page begins where  *)
(* the one before it ended, with lines left if there are any.               *)
PageEnd(n, p) == Min({p * PageSize, n})

LEMMA PagesCount ==
  ASSUME NEW n \in Nat
  PROVE  /\ Tables!PagesFor(n) \in Nat \ {0}
         /\ n <= Tables!PagesFor(n) * PageSize
         /\ n # 0 => (Tables!PagesFor(n) - 1) * PageSize < n
  <1>0. PageSize \in Nat \ {0}
    BY PagesAssumption
  <1>1. CASE n = 0
    <2>1. Tables!PagesFor(n) = 1
      BY <1>1 DEF Tables!PagesFor
    <2>. QED
      BY <1>0, <1>1, <2>1
  <1>2. CASE n # 0
    <2>1. Tables!PagesFor(n) = (n + PageSize - 1) \div PageSize
      BY <1>2 DEF Tables!PagesFor
    <2>. QED
      BY <1>0, <1>2, <2>1, Divided
  <1>. QED
    BY <1>1, <1>2

LEMMA PageEnds ==
  ASSUME NEW n \in Nat, NEW p \in 1..Tables!PagesFor(n)
  PROVE  /\ p - 1 \in Nat /\ (p - 1) * PageSize \in Nat
         /\ (p - 1) * PageSize <= n /\ (n # 0 => (p - 1) * PageSize < n)
         /\ PageEnd(n, p) \in Nat /\ PageEnd(n, p) <= n
         /\ (p - 1) * PageSize <= PageEnd(n, p)
         /\ n # 0 => (p - 1) * PageSize < PageEnd(n, p)
         /\ p # 1 => PageEnd(n, p - 1) = (p - 1) * PageSize
         /\ p = Tables!PagesFor(n) => PageEnd(n, p) = n
  <1>0. PageSize \in Nat \ {0} /\ p \in Nat /\ p - 1 \in Nat
    BY PagesAssumption, PagesCount
  <1> DEFINE q == Tables!PagesFor(n)
  <1>1. q \in Nat \ {0} /\ n <= q * PageSize /\ (n # 0 => (q - 1) * PageSize < n)
    BY PagesCount
  <1> HIDE DEF q
  <1>p. p \in 1..q
    BY DEF q
  <1>2. /\ (p - 1) * PageSize \in Nat /\ (q - 1) * PageSize \in Nat
        /\ (p - 1) * PageSize <= (q - 1) * PageSize
        /\ p * PageSize = (p - 1) * PageSize + PageSize
    <2>1. q - 1 \in Nat /\ p - 1 <= q - 1 /\ (p - 1) + 1 = p
      BY <1>0, <1>1, <1>p
    <2>. QED
      BY <1>0, <2>1, ProductsGrow
  <1>3. (p - 1) * PageSize <= n /\ (n # 0 => (p - 1) * PageSize < n)
    <2>1. CASE n # 0
      BY <1>1, <1>2, <2>1
    <2>2. CASE n = 0
      <3>1. q = 1
        BY <2>2 DEF q, Tables!PagesFor
      <3>2. p - 1 = 0
        BY <3>1, <1>p
      <3>3. 0 * PageSize = 0
        BY <1>0
      <3>. QED
        BY <2>2, <3>2, <3>3
    <2>. QED
      BY <2>1, <2>2
  <1>4. PageEnd(n, p) = IF p * PageSize <= n THEN p * PageSize ELSE n
    BY <1>0, <1>2, MinOfTwo DEF PageEnd
  <1>5. PageEnd(n, p - 1) = (p - 1) * PageSize
    BY <1>0, <1>2, <1>3, MinOfTwo DEF PageEnd
  <1>6. p = q => PageEnd(n, p) = n
    BY <1>0, <1>1, <1>2, <1>4
  <1>7. /\ PageEnd(n, p) \in Nat /\ PageEnd(n, p) <= n
        /\ (p - 1) * PageSize <= PageEnd(n, p)
        /\ n # 0 => (p - 1) * PageSize < PageEnd(n, p)
    BY <1>0, <1>2, <1>3, <1>4
  <1>. QED
    BY <1>0, <1>2, <1>3, <1>5, <1>6, <1>7 DEF q

LEMMA PageOfIs ==
  ASSUME NEW T, NEW s \in Seq(T), NEW p \in 1..Tables!PagesFor(Len(s))
  PROVE  /\ Tables!PageOf(s, p - 1) = SubSeq(s, (p - 1) * PageSize + 1, PageEnd(Len(s), p))
         /\ Tables!PageOf(s, p - 1) \in Seq(T)
         /\ s # <<>> => Tables!PageOf(s, p - 1) # <<>>
  <1> DEFINE a == (p - 1) * PageSize
             b == PageEnd(Len(s), p)
  <1>0. Len(s) \in Nat /\ DOMAIN s = 1..Len(s) /\ s \in [1..Len(s) -> T]
    BY LenProperties
  <1>1. a \in Nat /\ b \in Nat /\ a <= b /\ b <= Len(s) /\ (Len(s) # 0 => a < b)
    BY <1>0, PageEnds
  <1>2. Tables!PageOf(s, p - 1) = SubSeq(s, a + 1, b)
    <2>1. p \in Nat /\ (p - 1) + 1 = p
      BY <1>0, PagesCount
    <2>. QED
      BY <2>1 DEF Tables!PageOf, Tables!Min, PageEnd, Min
  <1> HIDE DEF a, b
  <1>3. \A i \in (a + 1)..b : s[i] \in T
    <2>1. \A i \in (a + 1)..b : i \in 1..Len(s)
      BY <1>0, <1>1
    <2>. QED
      BY <1>0, <2>1
  <1>4. SubSeq(s, a + 1, b) \in Seq(T) /\ Len(SubSeq(s, a + 1, b)) = IF a + 1 <= b THEN b - (a + 1) + 1 ELSE 0
    <2>1. a + 1 \in Int /\ b \in Int
      BY <1>1
    <2>. QED
      BY <1>3, <2>1, SubSeqProperties
  <1>5. s # <<>> => SubSeq(s, a + 1, b) # <<>>
    <2> SUFFICES ASSUME s # <<>> PROVE Len(SubSeq(s, a + 1, b)) # 0
      BY EmptySeq
    <2>1. Len(s) # 0
      BY EmptySeq
    <2>. QED
      BY <1>1, <1>4, <2>1
  <1>. QED
    BY <1>2, <1>4, <1>5 DEF a, b

(* How FlattenSeq joins the sequences of t. *)
Joins(t, f) == f = [i \in 1..Len(t) |-> IF i = 1 THEN t[i] ELSE f[i - 1] \o t[i]]

(* A sequence cut into pages and joined again is the sequence: what is      *)
(* joined up to a page is all of it up to where the page ends.              *)
LEMMA PagesJoined ==
  ASSUME NEW T, NEW s \in Seq(T)
  PROVE  Tables!Pages(s) = s
  <1> DEFINE n == Len(s)
             m == Tables!PagesFor(n)
             t == [p \in 1..m |-> Tables!PageOf(s, p - 1)]
             g == [i \in 1..m |-> SubSeq(s, 1, PageEnd(n, i))]
  <1>0. n \in Nat /\ m \in Nat \ {0}
    BY LenProperties, PagesCount
  <1>1. Len(t) = m
    <2>1. t \in [1..m -> Seq(T)]
      <3>1. \A p \in 1..m : Tables!PageOf(s, p - 1) \in Seq(T)
        BY PageOfIs
      <3> HIDE DEF m
      <3>. QED
        BY <3>1
    <2> HIDE DEF t, m
    <2>2. t \in Seq(Seq(T))
      BY <1>0, <2>1, SeqDef
    <2>3. DOMAIN t = 1..Len(t) /\ Len(t) \in Nat
      BY <2>2, LenProperties
    <2>. QED
      BY <1>0, <2>1, <2>3
  <1>2. ASSUME NEW i \in 1..m, i # 1 PROVE i - 1 \in 1..m /\ g[i - 1] \o t[i] = g[i]
    <2>0. i - 1 \in 1..m
      BY <1>0, <1>2
    <2>1. g[i - 1] = SubSeq(s, 1, (i - 1) * PageSize)
      <3>1. PageEnd(n, i - 1) = (i - 1) * PageSize
        BY <1>0, <1>2, PageEnds
      <3>. QED
        BY <2>0, <3>1
    <2>2. t[i] = SubSeq(s, (i - 1) * PageSize + 1, PageEnd(n, i))
      BY PageOfIs
    <2>3. /\ 1 \in 1..(n + 1)
          /\ (i - 1) * PageSize \in (1 - 1)..n
          /\ PageEnd(n, i) \in ((i - 1) * PageSize)..n
      <3>1. /\ (i - 1) * PageSize \in Nat /\ (i - 1) * PageSize <= n
            /\ PageEnd(n, i) \in Nat /\ PageEnd(n, i) <= n
            /\ (i - 1) * PageSize <= PageEnd(n, i)
        BY <1>0, PageEnds
      <3> HIDE DEF n
      <3>. QED
        BY <1>0, <3>1
    <2>4. SubSeq(s, 1, (i - 1) * PageSize) \o SubSeq(s, (i - 1) * PageSize + 1, PageEnd(n, i))
            = SubSeq(s, 1, PageEnd(n, i))
      BY <2>3, ConcatAdjacentSubSeq
    <2>5. g[i] = SubSeq(s, 1, PageEnd(n, i))
      OBVIOUS
    <2> HIDE DEF g, t
    <2>. QED
      BY <2>0, <2>1, <2>2, <2>4, <2>5
  <1>3. g[1] = t[1]
    <2>1. 1 \in 1..m
      BY <1>0
    <2>2. t[1] = SubSeq(s, (1 - 1) * PageSize + 1, PageEnd(n, 1))
      BY <2>1, PageOfIs
    <2>3. (1 - 1) * PageSize + 1 = 1
      BY PagesAssumption
    <2>. QED
      BY <2>1, <2>2, <2>3
  <1>4. g[m] = s
    <2>1. m \in 1..m
      BY <1>0
    <2>2. PageEnd(n, m) = n
      BY <1>0, <2>1, PageEnds
    <2>. QED
      BY <2>1, <2>2, SubSeqFull
  <1> DEFINE F == CHOOSE f : Joins(t, f)
  <1>5. Tables!Pages(s) = F[m]
    <2>1. Tables!Pages(s) = Tables!FlattenSeq(t)
      BY DEF Tables!Pages
    <2>2. Len(t) # 0
      BY <1>0, <1>1
    <2> HIDE DEF t
    <2>3. Tables!FlattenSeq(t) = F[Len(t)]
      BY <2>2 DEF Tables!FlattenSeq, Joins
    <2>. QED
      BY <1>1, <2>1, <2>3
  <1>g. DOMAIN g = 1..m
    OBVIOUS
  <1>e. g = [i \in DOMAIN g |-> g[i]]
    OBVIOUS
  <1> HIDE DEF m, t, g
  <1>6. Joins(t, g)
    <2> DEFINE h == [i \in 1..m |-> IF i = 1 THEN t[i] ELSE g[i - 1] \o t[i]]
    <2>1. ASSUME NEW i \in 1..m PROVE g[i] = h[i]
      BY <1>2, <1>3
    <2>2. g = h
      BY <1>g, <1>e, <2>1
    <2>. QED
      BY <1>1, <2>2 DEF Joins
  <1>7. Joins(t, F)
    BY <1>6
  <1> HIDE DEF F
  <1>8. \A i \in 1..m : F[i] = IF i = 1 THEN t[i] ELSE F[i - 1] \o t[i]
    <2> DEFINE h == [i \in 1..m |-> IF i = 1 THEN t[i] ELSE F[i - 1] \o t[i]]
    <2>1. F = h
      BY <1>1, <1>7 DEF Joins
    <2>2. \A i \in 1..m : h[i] = IF i = 1 THEN t[i] ELSE F[i - 1] \o t[i]
      OBVIOUS
    <2> HIDE DEF h
    <2>. QED
      BY <2>1, <2>2
  <1>9. \A i \in 1..m : F[i] = g[i]
    <2> DEFINE N == {i \in 1..m : F[i] # g[i]}
    <2> SUFFICES ASSUME N # {} PROVE FALSE
      OBVIOUS
    <2>1. N \in SUBSET Nat
      BY <1>0
    <2>2. PICK i \in N : \A j \in N : i <= j
      <3> HIDE DEF N
      <3>. QED
        BY <2>1, SmallestExists
    <2>3. i \in 1..m /\ F[i] # g[i]
      OBVIOUS
    <2>4. i # 1
      BY <1>3, <1>8, <2>3
    <2>5. i - 1 \in 1..m /\ g[i - 1] \o t[i] = g[i]
      BY <1>2, <2>3, <2>4
    <2>6. F[i - 1] = g[i - 1]
      <3>1. ~(i <= i - 1)
        BY <1>0, <2>3
      <3>. QED
        BY <2>2, <2>5, <3>1
    <2>. QED
      BY <1>8, <2>3, <2>4, <2>5, <2>6
  <1>. QED
    <2>1. m \in 1..m
      BY <1>0
    <2>. QED
      BY <1>4, <1>5, <1>9, <2>1

-----------------------------------------------------------------------------
(* ScheduleTables: groups *)

LEMMA PlanIs ==
  ASSUME rows \in Plans
  PROVE  /\ rows \in Seq(Tables!Access) /\ Len(rows) \in Nat /\ DOMAIN rows = 1..Len(rows)
         /\ \A i \in 1..Len(rows) : rows[i] \in Tables!Access
         /\ \A i, j \in 1..Len(rows) : rows[i] = rows[j] => i = j
  <1>1. rows \in Seq(Tables!Access) /\ Tables!IsInjective(rows)
    BY PlansAssumption DEF Tables!PlanRows
  <1>2. Len(rows) \in Nat /\ DOMAIN rows = 1..Len(rows)
    BY <1>1, LenProperties
  <1>. QED
    BY <1>1, <1>2, ElementOfSeq DEF Tables!IsInjective

NoGroups == [k \in {} |-> <<>>]
More(n, g) == IF Tables!Kept(rows[n]) THEN Tables!AddToGroup(g, rows[n]) ELSE g
FilledUpTo(k, f) == f = [n \in 0..k |-> IF n = 0 THEN NoGroups ELSE More(n, f[n - 1])]

(* The recursion defines a function: the smallest bound up to which it did *)
(* not would follow one up to which it does.                               *)
LEMMA FilledExists == \A k \in Nat : \E f : FilledUpTo(k, f)
  <1> DEFINE N == {k \in Nat : ~\E f : FilledUpTo(k, f)}
  <1>. SUFFICES ASSUME N # {} PROVE FALSE
    OBVIOUS
  <1>1. PICK k \in N : \A m \in N : k <= m
    <2>1. N \in SUBSET Nat
      OBVIOUS
    <2>. HIDE DEF N
    <2>. QED
      BY <2>1, SmallestExists
  <1>2. k \in Nat /\ ~\E f : FilledUpTo(k, f)
    BY <1>1
  <1>3. CASE k = 0
    <2> DEFINE f == [n \in 0..0 |-> NoGroups]
    <2>1. \A n \in 0..0 : n = 0
      OBVIOUS
    <2>2. f = [n \in 0..0 |-> IF n = 0 THEN NoGroups ELSE More(n, f[n - 1])]
      BY <2>1
    <2>3. FilledUpTo(0, f)
      BY <2>2 DEF FilledUpTo
    <2>. QED
      BY <1>2, <1>3, <2>3
  <1>4. CASE k # 0
    <2>1. k - 1 \in Nat /\ ~(k <= k - 1)
      BY <1>2, <1>4
    <2>2. k - 1 \notin N
      BY <1>1, <2>1
    <2>3. PICK f : FilledUpTo(k - 1, f)
      BY <2>1, <2>2
    <2> DEFINE g == [n \in 0..k |-> IF n = 0 THEN NoGroups ELSE More(n, f[n - 1])]
               h == [n \in 0..k |-> IF n = 0 THEN NoGroups ELSE More(n, g[n - 1])]
    <2>4. ASSUME NEW n \in 0..(k - 1) PROVE g[n] = f[n]
      <3>1. n \in 0..k
        BY <1>2
      <3>2. f[n] = IF n = 0 THEN NoGroups ELSE More(n, f[n - 1])
        BY <2>3 DEF FilledUpTo
      <3>. QED
        BY <3>1, <3>2
    <2>5. ASSUME NEW n \in 0..k PROVE g[n] = h[n]
      <3>1. CASE n = 0
        BY <3>1
      <3>2. CASE n # 0
        <4>1. n - 1 \in 0..(k - 1)
          BY <1>2, <3>2
        <4>2. g[n] = More(n, f[n - 1]) /\ h[n] = More(n, g[n - 1])
          BY <3>2
        <4>. QED
          BY <2>4, <4>1, <4>2
      <3>. QED
        BY <3>1, <3>2
    <2>6. g = h
      BY <2>5
    <2>7. FilledUpTo(k, g)
      BY <2>6 DEF FilledUpTo
    <2>. QED
      BY <1>2, <2>7
  <1>. QED
    BY <1>3, <1>4

LEMMA FilledIs ==
  ASSUME rows \in Plans
  PROVE  /\ Tables!Filled[0] = NoGroups
         /\ \A n \in 1..Len(rows) : Tables!Filled[n] = More(n, Tables!Filled[n - 1])
  <1>1. Len(rows) \in Nat
    BY PlanIs
  <1>2. FilledUpTo(Len(rows), Tables!Filled)
    <2>1. Tables!Filled = CHOOSE f : FilledUpTo(Len(rows), f)
      BY DEF Tables!Filled, FilledUpTo, NoGroups, More
    <2>. QED
      BY <1>1, <2>1, FilledExists
  <1> DEFINE h == [n \in 0..Len(rows) |-> IF n = 0 THEN NoGroups ELSE More(n, Tables!Filled[n - 1])]
  <1>3. Tables!Filled = h
    BY <1>2 DEF FilledUpTo
  <1>4. h[0] = NoGroups /\ \A n \in 1..Len(rows) : h[n] = More(n, Tables!Filled[n - 1])
    BY <1>1
  <1> HIDE DEF h
  <1>. QED
    BY <1>3, <1>4

(* What the groups of the first n rows hold: of each label rows that the    *)
(* filters keep, at least one, none twice, and every such row.              *)
Grouped(n, f) ==
  /\ \A l \in DOMAIN f : f[l] \in Seq(Tables!Access) /\ f[l] # <<>>
  /\ \A l \in DOMAIN f : \A j \in 1..Len(f[l]) :
       \E i \in 1..n : f[l][j] = rows[i] /\ Tables!Kept(rows[i]) /\ Tables!GroupKey(rows[i]) = l
  /\ \A i \in 1..n : Tables!Kept(rows[i]) =>
       /\ Tables!GroupKey(rows[i]) \in DOMAIN f
       /\ \E j \in 1..Len(f[Tables!GroupKey(rows[i])]) : f[Tables!GroupKey(rows[i])][j] = rows[i]
  /\ \A l \in DOMAIN f : \A j, k \in 1..Len(f[l]) : f[l][j] = f[l][k] => j = k

LEMMA GroupedMore ==
  ASSUME rows \in Plans, NEW n \in 1..Len(rows), NEW f, Grouped(n - 1, f)
  PROVE  Grouped(n, More(n, f))
  <1>0. /\ Len(rows) \in Nat /\ n \in Nat /\ n - 1 \in Nat
        /\ \A i \in 1..n : i \in 1..(n - 1) \/ i = n
        /\ \A i \in 1..(n - 1) : i \in 1..n /\ i \in 1..Len(rows) /\ i # n
        /\ n \in 1..n
    BY PlanIs
  <1>1. CASE ~Tables!Kept(rows[n])
    <2>1. More(n, f) = f
      BY <1>1 DEF More
    <2>. QED
      BY <1>0, <1>1, <2>1 DEF Grouped
  <1>2. CASE Tables!Kept(rows[n])
    <2> DEFINE r == rows[n]
               key == Tables!GroupKey(rows[n])
               g == More(n, f)
               old == IF key \in DOMAIN f THEN f[key] ELSE <<>>
    <2>0. r \in Tables!Access
      BY PlanIs
    <2>1. /\ DOMAIN g = DOMAIN f \cup {key}
          /\ \A l \in DOMAIN f : l # key => g[l] = f[l]
          /\ g[key] = IF key \in DOMAIN f THEN Append(f[key], r) ELSE <<r>>
      BY <1>2 DEF More, Tables!AddToGroup
    <2>2. old \in Seq(Tables!Access) /\ g[key] = Append(old, r)
      <3>1. CASE key \in DOMAIN f
        BY <2>1, <3>1 DEF Grouped
      <3>2. CASE key \notin DOMAIN f
        <4>1. old = <<>> /\ g[key] = <<r>>
          BY <2>1, <3>2
        <4>2. <<>> \in Seq(Tables!Access) /\ Append(<<>>, r) = <<r>>
          OBVIOUS
        <4> HIDE DEF old, g, r
        <4>. QED
          BY <4>1, <4>2
      <3>. QED
        BY <3>1, <3>2
    <2> DEFINE m == Len(old)
    <2>3. /\ g[key] \in Seq(Tables!Access) /\ g[key] # <<>>
          /\ m \in Nat /\ Len(g[key]) = m + 1
          /\ \A j \in 1..m : g[key][j] = old[j]
          /\ g[key][m + 1] = r
      <3> HIDE DEF g, old, r
      <3>. QED
        BY <2>0, <2>2, AppendProperties, LenProperties
    <2>4. /\ \A j \in 1..m : key \in DOMAIN f /\ old = f[key]
          /\ key \in DOMAIN f => old = f[key]
      <3>1. key \notin DOMAIN f => m = 0
        OBVIOUS
      <3> HIDE DEF m
      <3>. QED
        BY <2>3, <3>1
    <2>5. \A j \in 1..(m + 1) : j \in 1..m \/ j = m + 1
      BY <2>3
    <2> HIDE DEF g, old, m, r, key
    <2>6. \A l \in DOMAIN g : g[l] \in Seq(Tables!Access) /\ g[l] # <<>>
      BY <2>1, <2>3 DEF Grouped
    <2>7. ASSUME NEW l \in DOMAIN g, NEW j \in 1..Len(g[l])
          PROVE  \E i \in 1..n : g[l][j] = rows[i] /\ Tables!Kept(rows[i]) /\ Tables!GroupKey(rows[i]) = l
      <3>1. CASE l # key
        <4>1. l \in DOMAIN f /\ g[l] = f[l]
          BY <2>1, <3>1
        <4>2. PICK i \in 1..(n - 1) : f[l][j] = rows[i] /\ Tables!Kept(rows[i])
                                     /\ Tables!GroupKey(rows[i]) = l
          BY <2>7, <4>1 DEF Grouped
        <4>. QED
          BY <1>0, <4>1, <4>2
      <3>2. CASE l = key /\ j = m + 1
        BY <1>0, <1>2, <2>3, <3>2 DEF r, key
      <3>3. CASE l = key /\ j \in 1..m
        <4>1. key \in DOMAIN f /\ g[l][j] = f[key][j] /\ j \in 1..Len(f[key])
          BY <2>3, <2>4, <3>3 DEF m
        <4>2. PICK i \in 1..(n - 1) : f[key][j] = rows[i] /\ Tables!Kept(rows[i])
                                     /\ Tables!GroupKey(rows[i]) = key
          BY <4>1 DEF Grouped
        <4>. QED
          BY <1>0, <3>3, <4>1, <4>2
      <3>. QED
        BY <2>3, <2>5, <2>7, <3>1, <3>2, <3>3
    <2>8. ASSUME NEW i \in 1..n, Tables!Kept(rows[i])
          PROVE  /\ Tables!GroupKey(rows[i]) \in DOMAIN g
                 /\ \E j \in 1..Len(g[Tables!GroupKey(rows[i])]) :
                      g[Tables!GroupKey(rows[i])][j] = rows[i]
      <3>1. CASE i = n
        <4>1. Tables!GroupKey(rows[i]) = key /\ rows[i] = r
          BY <3>1 DEF key, r
        <4>2. m + 1 \in 1..Len(g[key])
          BY <2>3
        <4>. QED
          BY <2>1, <2>3, <4>1, <4>2
      <3>2. CASE i \in 1..(n - 1)
        <4> DEFINE l == Tables!GroupKey(rows[i])
        <4>1. l \in DOMAIN f
          BY <2>8, <3>2 DEF Grouped
        <4>2. PICK j \in 1..Len(f[l]) : f[l][j] = rows[i]
          BY <2>8, <3>2 DEF Grouped
        <4> HIDE DEF l
        <4>3. CASE l # key
          BY <2>1, <4>1, <4>2, <4>3 DEF l
        <4>4. CASE l = key
          <5>1. j \in 1..m /\ old = f[l]
            BY <2>4, <4>1, <4>2, <4>4 DEF m
          <5>2. g[l][j] = rows[i] /\ j \in 1..Len(g[l])
            BY <2>3, <4>2, <4>4, <5>1
          <5>3. l \in DOMAIN g
            BY <2>1, <4>1
          <5>. QED
            BY <5>2, <5>3 DEF l
        <4>. QED
          BY <4>3, <4>4
      <3>3. i = n \/ i \in 1..(n - 1)
        BY <1>0, <2>8
      <3>. QED
        BY <3>1, <3>2, <3>3
    <2>9. ASSUME NEW l \in DOMAIN g, NEW j \in 1..Len(g[l]), NEW k \in 1..Len(g[l]), g[l][j] = g[l][k]
          PROVE  j = k
      <3>1. CASE l # key
        BY <2>1, <2>9, <3>1 DEF Grouped
      <3>2. CASE l = key
        <4>1. ASSUME NEW i \in 1..m PROVE g[key][i] # r
          <5>1. key \in DOMAIN f /\ g[key][i] = f[key][i] /\ i \in 1..Len(f[key])
            BY <2>3, <2>4 DEF m
          <5>2. PICK x \in 1..(n - 1) : f[key][i] = rows[x]
            BY <5>1 DEF Grouped
          <5>. QED
            BY <1>0, <5>1, <5>2, PlanIs DEF r
        <4>2. j \in 1..m \/ j = m + 1
          BY <2>3, <2>5, <3>2
        <4>3. k \in 1..m \/ k = m + 1
          BY <2>3, <2>5, <3>2
        <4>4. CASE j \in 1..m /\ k \in 1..m
          <5>1. key \in DOMAIN f /\ old = f[key] /\ old[j] = old[k]
            BY <2>3, <2>4, <2>9, <3>2, <4>4
          <5>. QED
            BY <4>4, <5>1 DEF Grouped, m
        <4>. QED
          BY <2>3, <2>9, <3>2, <4>1, <4>2, <4>3, <4>4
      <3>. QED
        BY <3>1, <3>2
    <2>. QED
      BY <2>6, <2>7, <2>8, <2>9 DEF Grouped, g
  <1>. QED
    BY <1>1, <1>2

LEMMA GroupsAre == ASSUME rows \in Plans PROVE Grouped(Len(rows), Tables!Groups)
  <1> DEFINE N == {n \in 0..Len(rows) : ~Grouped(n, Tables!Filled[n])}
  <1>0. Len(rows) \in Nat
    BY PlanIs
  <1> SUFFICES N = {}
    BY <1>0 DEF Tables!Groups
  <1> SUFFICES ASSUME N # {} PROVE FALSE
    OBVIOUS
  <1>1. PICK n \in N : \A m \in N : n <= m
    <2>1. N \in SUBSET Nat
      BY <1>0
    <2> HIDE DEF N
    <2>. QED
      BY <2>1, SmallestExists
  <1>2. n \in 0..Len(rows) /\ ~Grouped(n, Tables!Filled[n])
    BY <1>1
  <1>3. CASE n = 0
    <2>1. Tables!Filled[n] = NoGroups /\ DOMAIN NoGroups = {}
      BY <1>3, FilledIs DEF NoGroups
    <2>2. 1..n = {}
      BY <1>3
    <2>. QED
      BY <1>2, <2>1, <2>2 DEF Grouped
  <1>4. CASE n # 0
    <2>1. n \in 1..Len(rows) /\ n - 1 \in 0..Len(rows) /\ ~(n <= n - 1)
      BY <1>0, <1>2, <1>4
    <2>2. Grouped(n - 1, Tables!Filled[n - 1])
      BY <1>1, <2>1
    <2>3. Tables!Filled[n] = More(n, Tables!Filled[n - 1])
      BY <2>1, FilledIs
    <2>. QED
      BY <1>2, <2>1, <2>2, <2>3, GroupedMore
  <1>. QED
    BY <1>3, <1>4

(* Each row that the filters keep is in one group, once; no other is in any. *)
LEMMA PlacedOnce ==
  ASSUME rows \in Plans, NEW i \in DOMAIN rows
  PROVE  Cardinality(Tables!Places(rows[i])) = IF Tables!Kept(rows[i]) THEN 1 ELSE 0
  <1> DEFINE G == Tables!Groups
             r == rows[i]
             P == Tables!Places(r)
  <1>0. /\ Grouped(Len(rows), G) /\ i \in 1..Len(rows)
        /\ \A l \in DOMAIN G : DOMAIN G[l] = 1..Len(G[l])
        /\ \A l \in DOMAIN G : \A j \in 1..Len(G[l]) :
             \E x \in 1..Len(rows) :
               G[l][j] = rows[x] /\ Tables!Kept(rows[x]) /\ Tables!GroupKey(rows[x]) = l
    BY GroupsAre, PlanIs, LenProperties DEF Grouped
  <1>1. \A x : x \in P <=> \E l \in DOMAIN G : \E j \in DOMAIN G[l] : G[l][j] = r /\ x = <<l, j>>
    BY DEF Tables!Places
  <1> HIDE DEF G, P
  <1>2. CASE ~Tables!Kept(r)
    <2>1. ASSUME NEW l \in DOMAIN G, NEW j \in DOMAIN G[l], G[l][j] = r PROVE FALSE
      <3>1. PICK k \in 1..Len(rows) : G[l][j] = rows[k] /\ Tables!Kept(rows[k])
        BY <1>0
      <3>. QED
        BY <1>2, <2>1, <3>1
    <2>2. P = {}
      BY <1>1, <2>1
    <2>. QED
      BY <1>2, <2>2, FS_EmptySet DEF P
  <1>3. CASE Tables!Kept(r)
    <2> DEFINE key == Tables!GroupKey(r)
    <2>1. key \in DOMAIN G
      BY <1>0, <1>3 DEF Grouped
    <2>2. PICK j \in 1..Len(G[key]) : G[key][j] = r
      BY <1>0, <1>3 DEF Grouped
    <2>3. ASSUME NEW l \in DOMAIN G, NEW k \in DOMAIN G[l], G[l][k] = r
          PROVE  l = key /\ k = j
      <3>0. k \in 1..Len(G[l])
        BY <1>0
      <3>1. PICK x \in 1..Len(rows) : G[l][k] = rows[x] /\ Tables!GroupKey(rows[x]) = l
        BY <1>0, <3>0
      <3>2. l = key
        BY <2>3, <3>1
      <3>3. k \in 1..Len(G[key]) /\ G[key][k] = G[key][j]
        BY <1>0, <2>2, <2>3, <3>2
      <3>. QED
        BY <1>0, <2>1, <3>2, <3>3 DEF Grouped
    <2>4. j \in DOMAIN G[key]
      BY <1>0, <2>1
    <2> HIDE DEF key
    <2>5. P = {<<key, j>>}
      <3>1. ASSUME NEW x \in P PROVE x = <<key, j>>
        BY <1>1, <2>3
      <3>2. <<key, j>> \in P
        BY <1>1, <2>1, <2>2, <2>4
      <3>. QED
        BY <3>1, <3>2
    <2>. QED
      BY <1>3, <2>5, FS_Singleton DEF P
  <1>. QED
    BY <1>2, <1>3

-----------------------------------------------------------------------------
(* ScheduleTables: the order of the lines *)

LEMMA FiniteInterval ==
  ASSUME NEW n \in Nat
  PROVE  IsFiniteSet(1..n) /\ Cardinality(1..n) = n
  <1>1. /\ IsFiniteSet(1..n)
        /\ Cardinality(1..n) = IF 1 > n THEN 0 ELSE n - 1 + 1
    BY FS_Interval
  <1>. QED
    BY <1>1

(* In a strict total order of a finite set no two elements have as many     *)
(* below them, and fewer than all are below one.                            *)
LEMMA RanksDiffer ==
  ASSUME NEW D, IsFiniteSet(D), NEW R,
         \A x \in D : <<x, x>> \notin R,
         \A x, y \in D : x # y => <<x, y>> \in R \/ <<y, x>> \in R,
         \A x, y, z \in D : <<x, y>> \in R /\ <<y, z>> \in R => <<x, z>> \in R
  PROVE  \A x \in D : LET below == {y \in D : <<y, x>> \in R} IN
           /\ Cardinality(below) \in Nat /\ Cardinality(below) + 1 \in 1..Cardinality(D)
           /\ \A y \in D : Cardinality({z \in D : <<z, y>> \in R}) = Cardinality(below) => y = x
  <1> DEFINE B(x) == {y \in D : <<y, x>> \in R}
  <1>0. Cardinality(D) \in Nat
    BY FS_CardinalityType
  <1>1. ASSUME NEW x \in D
        PROVE  /\ IsFiniteSet(B(x)) /\ Cardinality(B(x)) \in Nat
               /\ Cardinality(B(x)) + 1 \in 1..Cardinality(D)
    <2>1. B(x) \in SUBSET D /\ x \notin B(x)
      OBVIOUS
    <2> HIDE DEF B
    <2>2. IsFiniteSet(B(x)) /\ Cardinality(B(x)) <= Cardinality(D) /\ Cardinality(B(x)) # Cardinality(D)
      BY <2>1, FS_Subset
    <2>3. Cardinality(B(x)) \in Nat
      BY <2>2, FS_CardinalityType
    <2>. QED
      BY <1>0, <2>2, <2>3
  <1>2. ASSUME NEW x \in D, NEW y \in D, <<x, y>> \in R PROVE Cardinality(B(x)) # Cardinality(B(y))
    <2>1. B(x) \in SUBSET B(y)
      BY <1>2
    <2>2. x \in B(y) /\ x \notin B(x)
      BY <1>2
    <2>3. IsFiniteSet(B(y))
      BY <1>1
    <2> HIDE DEF B
    <2>. QED
      BY <2>1, <2>2, <2>3, FS_Subset
  <1>3. ASSUME NEW x \in D, NEW y \in D, Cardinality(B(y)) = Cardinality(B(x)) PROVE y = x
    <2> HIDE DEF B
    <2>. QED
      BY <1>2, <1>3
  <1>. QED
    BY <1>1, <1>3

WorkIs ==
  /\ Tables!Work \in Seq(Tables!Access) /\ Len(Tables!Work) \in Nat \ {0}
  /\ DOMAIN Tables!Work = 1..Len(Tables!Work)
  /\ \A i \in DOMAIN Tables!Work : Tables!Work[i].activity \in Nat /\ Tables!Work[i].week \in Nat \ {0}

LEMMA WorkTyped == ASSUME rows \in Plans, Tables!OnScreen PROVE WorkIs
  <1>1. Tables!Work \in Seq(Tables!Access) /\ Tables!Work # <<>>
    BY GroupsAre DEF Grouped, Tables!OnScreen, Tables!Work
  <1>2. Len(Tables!Work) \in Nat \ {0} /\ DOMAIN Tables!Work = 1..Len(Tables!Work)
    BY <1>1, LenProperties, EmptySeq
  <1>3. \A i \in DOMAIN Tables!Work : Tables!Work[i] \in Tables!Access
    BY <1>1, <1>2, ElementOfSeq
  <1>. QED
    BY <1>1, <1>2, <1>3 DEF WorkIs, Tables!Access

Sorting == display.field \in {"week", "activity"} /\ display.down \in BOOLEAN

LEMMA SortedIs ==
  ASSUME WorkIs, Sorting
  PROVE  /\ DOMAIN Tables!Sorted = 1..Len(Tables!Work)
         /\ \A i \in DOMAIN Tables!Work : \E j \in DOMAIN Tables!Sorted : Tables!Sorted[j] = Tables!Work[i]
  <1> DEFINE W == Tables!Work
             D == DOMAIN W
             R == {p \in D \X D : Tables!Before(p[1], p[2])}
             key(i) == W[i][display.field]
  <1>0. D = 1..Len(W) /\ Len(W) \in Nat
    BY DEF WorkIs
  <1>1. IsFiniteSet(D) /\ Cardinality(D) = Len(W)
    BY <1>0, FiniteInterval
  <1>2. \A i \in D : key(i) \in Nat /\ W[i].activity \in Nat /\ i \in Nat
    <2>1. CASE display.field = "week"
      BY <1>0, <2>1 DEF WorkIs
    <2>2. CASE display.field = "activity"
      BY <1>0, <2>2 DEF WorkIs
    <2>. QED
      BY <2>1, <2>2 DEF Sorting
  <1>3. \A i, j \in D : Tables!Before(i, j) <=>
          IF key(i) # key(j) THEN (IF display.down THEN key(i) > key(j) ELSE key(i) < key(j))
          ELSE \/ W[i].activity < W[j].activity
               \/ W[i].activity = W[j].activity /\ i < j
    BY DEF Tables!Before
  <1>4. \A i, j \in D : <<i, j>> \in R <=> Tables!Before(i, j)
    OBVIOUS
  <1>5. \A i \in D : \A j \in D : {k \in D : <<k, i>> \in R} = {k \in D : Tables!Before(k, i)}
    BY <1>4
  <1>6. \A n \in D : Tables!Sorted[n] = W[CHOOSE i \in D : Cardinality({k \in D : Tables!Before(k, i)}) = n - 1]
    BY DEF Tables!Sorted, Tables!Cardinality, Cardinality
  <1>7. DOMAIN Tables!Sorted = D
    BY DEF Tables!Sorted
  <1> DEFINE act(i) == W[i].activity
  <1> HIDE DEF W, D, R, key, act
  <1>8. /\ \A x \in D : <<x, x>> \notin R
        /\ \A x, y \in D : x # y => <<x, y>> \in R \/ <<y, x>> \in R
        /\ \A x, y, z \in D : <<x, y>> \in R /\ <<y, z>> \in R => <<x, z>> \in R
    <2>1. \A i \in D : key(i) \in Nat /\ act(i) \in Nat /\ i \in Nat
      BY <1>2 DEF act
    <2>2. \A i, j \in D : <<i, j>> \in R <=>
            IF key(i) # key(j) THEN (IF display.down THEN key(i) > key(j) ELSE key(i) < key(j))
            ELSE act(i) < act(j) \/ (act(i) = act(j) /\ i < j)
      BY <1>3, <1>4 DEF act
    <2>. QED
      BY <2>1, <2>2, SMTT(30)
  <1>9. ASSUME NEW i \in D PROVE \E j \in D : Tables!Sorted[j] = W[i]
    <2> DEFINE c == Cardinality({k \in D : <<k, i>> \in R})
    <2>0. \A x \in D : LET below == {y \in D : <<y, x>> \in R} IN
            /\ Cardinality(below) \in Nat /\ Cardinality(below) + 1 \in 1..Cardinality(D)
            /\ \A y \in D : Cardinality({z \in D : <<z, y>> \in R}) = Cardinality(below) => y = x
      BY <1>1, <1>8, RanksDiffer
    <2>1. /\ c \in Nat /\ c + 1 \in 1..Len(W)
          /\ \A y \in D : Cardinality({z \in D : <<z, y>> \in R}) = c => y = i
      BY <1>1, <2>0
    <2>2. \A y \in D : Cardinality({k \in D : Tables!Before(k, y)}) = c <=> y = i
      BY <1>5, <2>1
    <2> HIDE DEF c
    <2>3. (c + 1) - 1 = c
      BY <2>1
    <2>4. Tables!Sorted[c + 1] = W[i]
      BY <1>0, <1>6, <2>1, <2>2, <2>3 DEF D, W
    <2>. QED
      BY <1>0, <2>1, <2>4 DEF D, W
  <1>. QED
    BY <1>0, <1>7, <1>9 DEF D, W

LEMMA ActivitiesAre ==
  ASSUME WorkIs
  PROVE  /\ Cardinality(Tables!ActivityIds) \in Nat \ {0}
         /\ DOMAIN Tables!Activities = 1..Cardinality(Tables!ActivityIds)
         /\ \A i \in DOMAIN Tables!Work :
              \E j \in DOMAIN Tables!Activities : Tables!Activities[j] = Tables!Work[i].activity
  <1> DEFINE D == DOMAIN Tables!Work
             I == Tables!ActivityIds
             R == {p \in I \X I : p[1] < p[2]}
             f == [i \in D |-> Tables!Work[i].activity]
  <1>0. /\ D = 1..Len(Tables!Work) /\ Len(Tables!Work) \in Nat \ {0}
        /\ I = {f[i] : i \in D} /\ \A a \in I : a \in Nat
    BY DEF WorkIs, Tables!ActivityIds
  <1>1. f \in Surjection(D, I)
    BY DEF Surjection, Tables!ActivityIds
  <1>2. IsFiniteSet(D)
    <2> HIDE DEF D
    <2>. QED
      BY <1>0, FiniteInterval
  <1>3. \A n \in 1..Tables!Cardinality(I) :
          Tables!Activities[n] = CHOOSE a \in I : Tables!Cardinality({b \in I : b < a}) = n - 1
    BY DEF Tables!Activities
  <1>4. DOMAIN Tables!Activities = 1..Tables!Cardinality(I)
    BY DEF Tables!Activities
  <1>5. \A T : Tables!Cardinality(T) = Cardinality(T)
    BY DEF Tables!Cardinality, Cardinality
  <1>6. \A i \in D : Tables!Work[i].activity = f[i]
    OBVIOUS
  <1>7. \A a, b \in I : <<a, b>> \in R <=> a < b
    OBVIOUS
  <1> HIDE DEF D, I, R, f
  <1>8. IsFiniteSet(I) /\ I # {}
    <2>1. 1 \in D
      BY <1>0
    <2>. QED
      BY <1>0, <1>1, <1>2, <2>1, FS_Surjection
  <1>9. Cardinality(I) \in Nat \ {0}
    BY <1>8, FS_CardinalityType, FS_EmptySet
  <1>10. /\ \A x \in I : <<x, x>> \notin R
         /\ \A x, y \in I : x # y => <<x, y>> \in R \/ <<y, x>> \in R
         /\ \A x, y, z \in I : <<x, y>> \in R /\ <<y, z>> \in R => <<x, z>> \in R
    <2>1. \A x \in I : x \in Nat
      BY <1>0
    <2>2. \A x, y \in I : x # y => x < y \/ y < x
      BY <2>1
    <2>3. \A x, y, z \in I : x < y /\ y < z => x < z
      BY <2>1
    <2>4. \A x \in I : ~(x < x)
      BY <2>1
    <2>. QED
      BY <1>7, <2>2, <2>3, <2>4
  <1>11. ASSUME NEW a \in I PROVE \E j \in 1..Cardinality(I) : Tables!Activities[j] = a
    <2> DEFINE c == Cardinality({b \in I : <<b, a>> \in R})
    <2>0. \A x \in I : LET below == {y \in I : <<y, x>> \in R} IN
            /\ Cardinality(below) \in Nat /\ Cardinality(below) + 1 \in 1..Cardinality(I)
            /\ \A y \in I : Cardinality({z \in I : <<z, y>> \in R}) = Cardinality(below) => y = x
      BY <1>8, <1>10, RanksDiffer
    <2>1. /\ c \in Nat /\ c + 1 \in 1..Cardinality(I)
          /\ \A y \in I : Cardinality({z \in I : <<z, y>> \in R}) = c => y = a
      BY <2>0
    <2>2. \A y \in I : {z \in I : <<z, y>> \in R} = {z \in I : z < y}
      BY <1>7
    <2>3. \A y \in I : Cardinality({z \in I : z < y}) = c <=> y = a
      BY <2>1, <2>2
    <2> HIDE DEF c
    <2>4. (c + 1) - 1 = c
      BY <2>1
    <2>5. Tables!Activities[c + 1] = a
      BY <1>3, <1>5, <2>1, <2>3, <2>4
    <2>. QED
      BY <2>1, <2>5
  <1>12. \A i \in D : f[i] \in I
    BY <1>0
  <1>. QED
    BY <1>4, <1>5, <1>6, <1>9, <1>11, <1>12 DEF D, I

(* A function on 1..n is a sequence of its values. *)
LEMMA ValuesInOrder ==
  ASSUME NEW n \in Nat, NEW f, f = [i \in 1..n |-> f[i]]
  PROVE  /\ f \in Seq({f[i] : i \in 1..n}) /\ Len(f) = n
         /\ n # 0 => f # <<>>
  <1> DEFINE T == {f[i] : i \in 1..n}
  <1>1. f \in [1..n -> T]
    OBVIOUS
  <1> HIDE DEF T
  <1>2. f \in Seq(T)
    BY <1>1, SeqDef
  <1>3. Len(f) \in Nat /\ DOMAIN f = 1..Len(f)
    BY <1>2, LenProperties
  <1>4. DOMAIN f = 1..n
    BY <1>1
  <1>5. Len(f) = n
    BY <1>3, <1>4
  <1>6. n # 0 => f # <<>>
    BY <1>2, <1>5, EmptySeq
  <1>. QED
    BY <1>2, <1>5, <1>6 DEF T

-----------------------------------------------------------------------------
(* ScheduleTables: pages and weeks in sight *)

LEMMA LargestExists ==
  ASSUME NEW N \in SUBSET Nat, N # {}, NEW b \in Nat, \A n \in N : n <= b
  PROVE  \E n \in N : \A m \in N : n >= m
  <1> DEFINE U == {u \in Nat : \A n \in N : n <= u}
  <1>1. PICK u \in U : \A w \in U : u <= w
    <2>1. U \in SUBSET Nat /\ U # {}
      OBVIOUS
    <2> HIDE DEF U
    <2>. QED
      BY <2>1, SmallestExists
  <1>2. u \in Nat /\ \A n \in N : n <= u
    BY <1>1
  <1>3. u \in N
    <2> SUFFICES ASSUME u \notin N PROVE FALSE
      OBVIOUS
    <2>1. PICK n \in N : TRUE
      OBVIOUS
    <2>2. n <= u /\ n # u /\ n \in Nat
      BY <1>2, <2>1
    <2>3. u - 1 \in U
      BY <1>2, <2>2
    <2>4. ~(u <= u - 1)
      BY <1>2
    <2>. QED
      BY <1>1, <2>3, <2>4
  <1>. QED
    BY <1>2, <1>3

LEMMA Bounded ==
  ASSUME NEW n \in Nat, NEW w \in [1..n -> Nat]
  PROVE  \E b \in Nat : \A i \in 1..n : w[i] <= b
  <1> DEFINE Bounds(k, b) == \A i \in 1..k : w[i] <= b
             N == {k \in 0..n : ~\E b \in Nat : Bounds(k, b)}
  <1>0. \A i \in 1..n : w[i] \in Nat
    OBVIOUS
  <1>1. N = {} => \E b \in Nat : Bounds(n, b)
    <2>1. n \in 0..n
      OBVIOUS
    <2> HIDE DEF Bounds
    <2>. QED
      BY <2>1
  <1> SUFFICES ASSUME N # {} PROVE FALSE
    BY <1>1
  <1>2. PICK k \in N : \A m \in N : k <= m
    <2>1. N \in SUBSET Nat
      OBVIOUS
    <2> HIDE DEF N
    <2>. QED
      BY <2>1, SmallestExists
  <1>3. k \in 0..n /\ \A b \in Nat : ~Bounds(k, b)
    <2> HIDE DEF Bounds
    <2>. QED
      BY <1>2
  <1>4. k # 0
    <2>1. k = 0 => Bounds(k, 0)
      OBVIOUS
    <2> HIDE DEF Bounds
    <2>. QED
      BY <1>3, <2>1
  <1>5. k - 1 \in 0..n /\ ~(k <= k - 1) /\ k \in 1..n
    BY <1>3, <1>4
  <1>6. PICK b \in Nat : Bounds(k - 1, b)
    <2> HIDE DEF Bounds
    <2>. QED
      BY <1>2, <1>5
  <1> DEFINE c == b + w[k]
  <1>7. c \in Nat /\ b <= c /\ w[k] <= c
    <2> HIDE DEF N, Bounds
    <2>1. w[k] \in Nat
      BY <1>0, <1>5
    <2>. QED
      BY <2>1
  <1>8. ASSUME NEW i \in 1..k PROVE w[i] <= c
    <2>1. w[i] \in Nat /\ i \in 1..k
      <3> HIDE DEF N, Bounds
      <3>. QED
        BY <1>0, <1>5
    <2>2. CASE i = k
      BY <1>7, <2>2
    <2>3. CASE i # k
      <3>1. i \in 1..(k - 1)
        BY <1>5, <2>3
      <3>2. w[i] <= b
        BY <1>6, <3>1
      <3> HIDE DEF c
      <3>. QED
        BY <1>7, <2>1, <3>2
    <2>. QED
      BY <2>2, <2>3
  <1>9. Bounds(k, c)
    BY <1>8
  <1>. QED
    BY <1>3, <1>7, <1>9

LEMMA LastWeekIs ==
  ASSUME WorkIs
  PROVE  /\ Tables!LastWeek \in Nat \ {0}
         /\ \A i \in DOMAIN Tables!Work : Tables!Work[i].week \in 1..Tables!LastWeek
  <1> DEFINE W == {Tables!Work[i].week : i \in DOMAIN Tables!Work}
             N == {Horizon, 1} \cup W
  <1>1. PICK b \in Nat : \A i \in DOMAIN Tables!Work : Tables!Work[i].week <= b
    <2> DEFINE w == [i \in 1..Len(Tables!Work) |-> Tables!Work[i].week]
    <2>1. /\ w \in [1..Len(Tables!Work) -> Nat] /\ Len(Tables!Work) \in Nat
          /\ \A i \in DOMAIN Tables!Work : Tables!Work[i].week = w[i] /\ i \in 1..Len(Tables!Work)
      BY DEF WorkIs
    <2> HIDE DEF w, W, N
    <2>2. PICK b \in Nat : \A i \in 1..Len(Tables!Work) : w[i] <= b
      BY <2>1, Bounded
    <2>. QED
      BY <2>1, <2>2
  <1>2. \A w \in W : w \in Nat \ {0} /\ w <= b
    BY <1>1 DEF WorkIs
  <1>3. Tables!LastWeek = Tables!Max(N)
    BY DEF Tables!LastWeek
  <1>4. \A i \in DOMAIN Tables!Work : Tables!Work[i].week \in W
    OBVIOUS
  <1> HIDE DEF W
  <1>5. N \in SUBSET Nat /\ 1 \in N
    BY <1>2, PagesAssumption
  <1>6. b + Horizon + 1 \in Nat /\ \A n \in N : n <= b + Horizon + 1
    BY <1>2, PagesAssumption
  <1>7. \A w \in W : w \in N
    OBVIOUS
  <1> HIDE DEF N
  <1>8. \E n \in N : \A m \in N : n >= m
    BY <1>5, <1>6, LargestExists
  <1>9. Tables!LastWeek \in N /\ \A m \in N : Tables!LastWeek >= m
    BY <1>3, <1>8 DEF Tables!Max
  <1>10. Tables!LastWeek \in Nat \ {0}
    BY <1>5, <1>9
  <1>11. \A w \in W : w \in 1..Tables!LastWeek
    BY <1>2, <1>7, <1>9, <1>10
  <1>. QED
    BY <1>4, <1>10, <1>11

LEMMA WindowIs ==
  ASSUME WorkIs, display.start \in Nat \ {0}, display.room \in Nat \ {0}
  PROVE  /\ Tables!First \in Nat \ {0}
         /\ Tables!Weeks # {}
         /\ Cardinality(Tables!Weeks) = Tables!Min({display.room, Tables!LastWeek})
  <1> DEFINE last == Tables!LastWeek
             room == display.room
             fit == IF last >= room THEN last - room + 1 ELSE 1
             first == Tables!First
             end == first + room - 1
  <1>0. last \in Nat \ {0} /\ room \in Nat \ {0} /\ fit \in Nat \ {0}
    BY LastWeekIs
  <1>1. \A a, b \in Int : Tables!Min({a, b}) = IF a <= b THEN a ELSE b
    BY MinOfTwo DEF Tables!Min, Min
  <1>2. first = Tables!Min({display.start, fit})
    BY DEF Tables!First
  <1>3. Tables!Weeks = first..Tables!Min({end, last})
    BY DEF Tables!Weeks
  <1> HIDE DEF last, room, first
  <1>4. first \in Nat \ {0} /\ first <= fit
    <2> HIDE DEF fit
    <2>. QED
      BY <1>0, <1>1, <1>2
  <1>5. first <= last
    BY <1>0, <1>4
  <1>6. Tables!Min({end, last}) = IF end <= last THEN end ELSE last
    BY <1>0, <1>1, <1>4
  <1>7. Tables!Min({room, last}) = IF room <= last THEN room ELSE last
    BY <1>0, <1>1
  <1>8. CASE room <= last
    <2>1. end <= last
      BY <1>0, <1>4, <1>8
    <2>2. Tables!Weeks = first..end /\ end \in Int /\ ~(first > end) /\ end - first + 1 = room
      BY <1>0, <1>3, <1>4, <1>6, <2>1
    <2> HIDE DEF end
    <2>3. Cardinality(first..end) = end - first + 1
      BY <1>4, <2>2, FS_Interval
    <2>4. first \in first..end
      BY <1>4, <2>2
    <2>. QED
      BY <1>4, <1>7, <1>8, <2>2, <2>3, <2>4 DEF first, room, last
  <1>9. CASE ~(room <= last)
    <2>1. first = 1
      BY <1>0, <1>4, <1>9
    <2>2. Tables!Min({end, last}) = last
      BY <1>0, <1>6, <1>9, <2>1
    <2>3. Tables!Weeks = 1..last
      BY <1>3, <2>1, <2>2
    <2>4. Cardinality(1..last) = last /\ 1 \in 1..last
      BY <1>0, FiniteInterval
    <2>. QED
      BY <1>4, <1>7, <1>9, <2>3, <2>4 DEF first, room, last
  <1>. QED
    BY <1>8, <1>9

LEMMA CurrentIs ==
  ASSUME NEW n \in Nat, display.page \in Nat
  PROVE  Tables!Current(n) \in Nat /\ Tables!Current(n) + 1 \in 1..Tables!PagesFor(n)
  <1> DEFINE q == Tables!PagesFor(n)
             p == display.page
  <1>1. q \in Nat \ {0}
    BY PagesCount
  <1>2. Tables!Current(n) = Tables!Min({p, q - 1})
    BY DEF Tables!Current
  <1> HIDE DEF q, p
  <1>3. Tables!Min({p, q - 1}) = IF p <= q - 1 THEN p ELSE q - 1
    BY <1>1, MinOfTwo DEF Tables!Min, Min, p
  <1>. QED
    BY <1>1, <1>2, <1>3 DEF p, q

-----------------------------------------------------------------------------
(* ScheduleTables: every access is shown *)

Tabled ==
  /\ rows \in Plans
  /\ display \in [field : {"week", "activity"}, down : BOOLEAN, page : Nat, start : Nat \ {0},
                  room : Windows]

LEMMA FreshTyped == \A n \in Windows :
  Tables!Fresh(n) \in [field : {"week", "activity"}, down : BOOLEAN, page : Nat, start : Nat \ {0},
                       room : Windows]
  BY DEF Tables!Fresh

LEMMA LinesTyped == ASSUME Tabled, Tables!OnScreen PROVE WorkIs /\ Tables!Lines \in Nat
  <1>1. WorkIs
    BY WorkTyped DEF Tabled
  <1>2. Len(Tables!Activities) \in Nat
    <2> DEFINE n == Cardinality(Tables!ActivityIds)
               f == Tables!Activities
    <2>1. n \in Nat /\ DOMAIN f = 1..n
      BY <1>1, ActivitiesAre
    <2>2. f = [i \in DOMAIN f |-> f[i]]
      BY DEF Tables!Activities
    <2> HIDE DEF n, f
    <2>3. f = [i \in 1..n |-> f[i]]
      BY <2>1, <2>2
    <2>4. Len(f) = n
      BY <2>1, <2>3, ValuesInOrder
    <2>. QED
      BY <2>1, <2>4 DEF f
  <1>. QED
    BY <1>1, <1>2 DEF WorkIs, Tables!Lines

LEMMA TabledInit == Tables!TablesInit => Tabled
  BY FreshTyped DEF Tables!TablesInit, Tabled

LEMMA TabledStep == Tabled /\ [Tables!TablesNext]_tables => Tabled'
  <1> SUFFICES ASSUME Tabled, [Tables!TablesNext]_tables PROVE Tabled'
    OBVIOUS
  <1>1. ASSUME rows' \in Plans, Tables!Rendered PROVE Tabled'
    BY <1>1, FreshTyped DEF Tabled, Tables!Rendered
  <1>2. ASSUME NEW key, NEW value, Tables!SetParam(key, value) PROVE Tabled'
    BY <1>1, <1>2 DEF Tabled, Tables!SetParam
  <1>3. CASE Tables!ClearFilters
    BY <1>1, <1>3 DEF Tabled, Tables!ClearFilters
  <1>4. CASE Tables!NewRows
    BY <1>1, <1>4 DEF Tables!NewRows
  <1>5. ASSUME NEW f \in {"week", "activity"}, Tables!ChangeSort(f) PROVE Tabled'
    BY <1>5 DEF Tabled, Tables!ChangeSort, Tables!Turn
  <1>6. ASSUME NEW f \in {"week", "activity"}, NEW down \in BOOLEAN, Tables!PickSort(f, down)
        PROVE  Tabled'
    BY <1>6 DEF Tabled, Tables!PickSort, Tables!Turn
  <1>7. ASSUME Tables!OnScreen
        PROVE  Tables!Current(Tables!Lines) \in Nat
    BY <1>7, LinesTyped, CurrentIs DEF Tabled
  <1>8. CASE Tables!PreviousPage
    <2>1. Tables!Current(Tables!Lines) - 1 \in Nat
      BY <1>7, <1>8 DEF Tables!PreviousPage
    <2>. QED
      BY <1>8, <2>1 DEF Tabled, Tables!PreviousPage, Tables!Turn
  <1>9. CASE Tables!NextPage
    <2>1. Tables!Current(Tables!Lines) + 1 \in Nat
      BY <1>7, <1>9 DEF Tables!NextPage
    <2>. QED
      BY <1>9, <2>1 DEF Tabled, Tables!NextPage, Tables!Turn
  <1>10. ASSUME Tables!OnScreen
         PROVE  Tables!First \in Nat \ {0} /\ display.room \in Nat \ {0}
    BY <1>10, LinesTyped, WindowIs, PagesAssumption DEF Tabled
  <1>11. CASE Tables!Earlier
    <2> DEFINE start == IF Tables!First > display.room THEN Tables!First - display.room ELSE 1
    <2>1. start \in Nat \ {0}
      BY <1>10, <1>11 DEF Tables!Earlier, Tables!TimelineShown
    <2>2. display' = [display EXCEPT !.start = start] /\ rows' = rows
      BY <1>11 DEF Tables!Earlier, Tables!Turn
    <2> HIDE DEF start
    <2>. QED
      BY <2>1, <2>2 DEF Tabled
  <1>12. CASE Tables!Later
    <2>1. Tables!First + display.room \in Nat \ {0}
      BY <1>10, <1>12 DEF Tables!Later, Tables!TimelineShown
    <2>. QED
      BY <1>12, <2>1 DEF Tabled, Tables!Later, Tables!Turn
  <1>13. CASE Tables!Resize
    BY <1>13 DEF Tabled, Tables!Resize, Tables!Turn
  <1>14. CASE UNCHANGED tables
    BY <1>14 DEF tables, Tabled
  <1>. QED
    BY <1>2, <1>3, <1>4, <1>5, <1>6, <1>8, <1>9, <1>11, <1>12, <1>13, <1>14 DEF Tables!TablesNext

(* The pages of lines that are not empty join to the lines, and the one in  *)
(* sight is not empty.                                                      *)
LEMMA PagesShown ==
  ASSUME Tabled, NEW n \in Nat \ {0}, NEW f, f = [i \in 1..n |-> f[i]]
  PROVE  Tables!Pages(f) = f /\ Tables!PageOf(f, Tables!Current(Len(f))) # <<>>
  <1>1. f \in Seq({f[i] : i \in 1..n}) /\ Len(f) = n /\ f # <<>>
    BY ValuesInOrder
  <1> DEFINE p == Tables!Current(n) + 1
  <1>2. p \in 1..Tables!PagesFor(n) /\ p - 1 = Tables!Current(n)
    BY CurrentIs DEF Tabled
  <1> HIDE DEF p
  <1>3. Tables!PageOf(f, p - 1) # <<>>
    BY <1>1, <1>2, PageOfIs
  <1>. QED
    BY <1>1, <1>2, <1>3, PagesJoined

LEMMA AllShown == Tabled => Tables!EveryAccessShown
  <1> SUFFICES ASSUME Tabled PROVE Tables!EveryAccessShown
    OBVIOUS
  <1>0. \A T : Tables!Cardinality(T) = Cardinality(T)
    BY DEF Tables!Cardinality, Cardinality
  <1>1. \A i \in DOMAIN rows :
          Tables!Cardinality(Tables!Places(rows[i])) = IF Tables!Kept(rows[i]) THEN 1 ELSE 0
    BY <1>0, PlacedOnce DEF Tabled
  <1>2. ASSUME Tables!OnScreen
        PROVE  /\ Tables!Pages(Tables!Sorted) = Tables!Sorted
               /\ Tables!Pages(Tables!Activities) = Tables!Activities
               /\ \A i \in DOMAIN Tables!Work :
                    /\ \E j \in DOMAIN Tables!Sorted : Tables!Sorted[j] = Tables!Work[i]
                    /\ \E j \in DOMAIN Tables!Activities : Tables!Activities[j] = Tables!Work[i].activity
               /\ Tables!PageOf(Tables!Sorted, Tables!Current(Len(Tables!Sorted))) # <<>>
               /\ Tables!PageOf(Tables!Activities, Tables!Current(Len(Tables!Activities))) # <<>>
               /\ Tables!Weeks # {}
               /\ Tables!Cardinality(Tables!Weeks) = Tables!Min({display.room, Tables!LastWeek})
               /\ \A i \in DOMAIN Tables!Work : Tables!Work[i].week \in 1..Tables!LastWeek
    <2>1. WorkIs
      BY <1>2, LinesTyped
    <2>2. /\ Sorting /\ display.start \in Nat \ {0} /\ display.room \in Nat \ {0}
      BY PagesAssumption DEF Tabled, Sorting
    <2>3. /\ Tables!Pages(Tables!Sorted) = Tables!Sorted
          /\ Tables!PageOf(Tables!Sorted, Tables!Current(Len(Tables!Sorted))) # <<>>
      <3> DEFINE f == Tables!Sorted
                 n == Len(Tables!Work)
      <3>1. n \in Nat \ {0} /\ DOMAIN f = 1..n
        BY <2>1, <2>2, SortedIs DEF WorkIs
      <3>2. f = [i \in DOMAIN f |-> f[i]]
        BY DEF Tables!Sorted
      <3> HIDE DEF n, f
      <3>3. f = [i \in 1..n |-> f[i]]
        BY <3>1, <3>2
      <3>4. Tables!Pages(f) = f /\ Tables!PageOf(f, Tables!Current(Len(f))) # <<>>
        BY <3>1, <3>3, PagesShown
      <3>. QED
        BY <3>4 DEF f
    <2>4. /\ Tables!Pages(Tables!Activities) = Tables!Activities
          /\ Tables!PageOf(Tables!Activities, Tables!Current(Len(Tables!Activities))) # <<>>
      <3> DEFINE f == Tables!Activities
                 n == Cardinality(Tables!ActivityIds)
      <3>1. n \in Nat \ {0} /\ DOMAIN f = 1..n
        BY <2>1, ActivitiesAre
      <3>2. f = [i \in DOMAIN f |-> f[i]]
        BY DEF Tables!Activities
      <3> HIDE DEF n, f
      <3>3. f = [i \in 1..n |-> f[i]]
        BY <3>1, <3>2
      <3>4. Tables!Pages(f) = f /\ Tables!PageOf(f, Tables!Current(Len(f))) # <<>>
        BY <3>1, <3>3, PagesShown
      <3>. QED
        BY <3>4 DEF f
    <2>5. \A i \in DOMAIN Tables!Work :
            /\ \E j \in DOMAIN Tables!Sorted : Tables!Sorted[j] = Tables!Work[i]
            /\ \E j \in DOMAIN Tables!Activities : Tables!Activities[j] = Tables!Work[i].activity
      BY <2>1, <2>2, SortedIs, ActivitiesAre
    <2>6. /\ Tables!Weeks # {}
          /\ Tables!Cardinality(Tables!Weeks) = Tables!Min({display.room, Tables!LastWeek})
      BY <1>0, <2>1, <2>2, WindowIs
    <2>7. \A i \in DOMAIN Tables!Work : Tables!Work[i].week \in 1..Tables!LastWeek
      BY <2>1, LastWeekIs
    <2>. QED
      BY <2>3, <2>4, <2>5, <2>6, <2>7
  <1>. QED
    BY <1>1, <1>2 DEF Tables!EveryAccessShown

(* No access is lost between a plan's rows and the screen: it is in one     *)
(* group, on one page, in a week that can be brought into sight, whatever   *)
(* was filtered, sorted or resized before (scheduleModel.js:1,              *)
(* Schedules.jsx:145-231).                                                  *)
THEOREM AccessShown == Spec => []EveryAccessShown
  <1>1. Init => Tabled
    BY TabledInit DEF Init
  <1>2. Tabled /\ [Next]_pages => Tabled'
    <2>1. [Next]_pages => [Tables!TablesNext]_tables
      BY DEF Next, pages, tables
    <2>. QED
      BY <2>1, TabledStep
  <1>3. Tabled => EveryAccessShown
    BY AllShown DEF EveryAccessShown
  <1>. QED
    BY <1>1, <1>2, <1>3, PTL DEF Spec

-----------------------------------------------------------------------------
(* The React client's parts, where they are shown *)

(* What each part promises of itself it keeps where the pages show it.      *)
THEOREM PagesKeep == Spec => [](EndedAsReported /\ PhotosFresh /\ ShownWasSaved /\ OnePlanShown)
  <1>1. Spec => GenerateSpec /\ PhotosSpec /\ FormsSpec /\ ScheduleSpec
    <2>1. Init => GenerateInit /\ PhotosInit /\ FormsInit /\ ScheduleInit
      BY DEF Init
    <2>2. [Next]_pages => /\ [GenerateNext]_generate /\ [PhotosNext]_photoVars
                          /\ [FormsNext]_formVars /\ [ScheduleNext]_scheduleVars
      BY DEF Next, pages, generate, photoVars, formVars, scheduleVars
    <2>. QED
      BY <2>1, <2>2, PTL DEF Spec, GenerateSpec, PhotosSpec, FormsSpec, ScheduleSpec
  <1>. QED
    BY <1>1, Reported, Fresh, Coordinator, OnePlan, PTL
=============================================================================
