------------------------------- MODULE Photos -------------------------------
(***************************************************************************)
(* Profile photos in the React client: the cache of lib/photos.js, one     *)
(* Avatar, whose person may change while it is on screen, and the form of  *)
(* Settings.jsx that replaces one's own photo.  A photo is the number of   *)
(* the change that put it in place; 0 stands for the initials.             *)
(***************************************************************************)
EXTENDS Naturals, FiniteSets

CONSTANTS People, Self,  \* ids, and the id of the person signed in
          MaxChanges,    \* bound: how often the photo is replaced
          MaxSessions    \* bound: sessions

ASSUME PhotosAssumption ==
  Self \in People /\ MaxChanges \in Nat /\ MaxSessions \in Nat \ {0}

VARIABLES photos,      \* `cache`: pairs of an id and what is known of it
          loading,     \* fetches, with the id, the generation and the token
          arriving,    \* those of them that are answered, with the picture
          known,       \* `inflight`: ids whose fetch can be shared
          generation,
          sessions,    \* how many there were, each with a token of its own
          token,       \* of the session there is, 0 if none
          avatar,      \* its person, what it shows and whose, the fetch awaited
          writing,     \* Settings: the change whose answer is awaited, 0 if none
          current,     \* server: the latest change of every photo
          seen         \* the change forgetPhotos last heard of

photoVars == <<photos, loading, arriving, known, generation, sessions, token, avatar, writing, current, seen>>

-----------------------------------------------------------------------------

Blank == [id |-> Self, of |-> Self, src |-> 0, awaits |-> {}]

PhotosInit ==
  /\ photos = {} /\ loading = {} /\ arriving = {} /\ known = {} /\ generation = 0
  /\ sessions = 1 /\ token = 1 /\ avatar = Blank /\ writing = 0 /\ seen = 0
  /\ current = [p \in People |-> 1]

Cached(id) == {e \in photos : e.id = id}
Fetch(id, scope) == [id |-> id, scope |-> scope, token |-> token]

(* loadPhoto: an answer that is known, a fetch in flight, or one more.      *)
(* `a` is the avatar as it asks.                                            *)
Load(a) ==
  IF Cached(a.id) # {}
  THEN /\ avatar' = [a EXCEPT !.src = (CHOOSE e \in Cached(a.id) : TRUE).src, !.of = a.id]
       /\ UNCHANGED <<loading, known>>
  ELSE LET l == Fetch(a.id, generation) IN \* shared while in flight
       /\ avatar' = [a EXCEPT !.awaits = {l}]
       /\ loading' = loading \cup {l} /\ known' = known \cup {a.id}

(* The effect of an avatar that comes to show p: `none` when the row says   *)
(* that p has no photo, which counts unless a picture is kept.  Until the   *)
(* effect's load is answered the picture of the person before stays.        *)
ShowPerson(p, none) ==
  /\ token # 0
  /\ IF none /\ \A e \in Cached(p) : e.src = 0 THEN avatar' = [Blank EXCEPT !.id = p, !.of = p] /\ UNCHANGED <<loading, known>>
     ELSE Load([avatar EXCEPT !.id = p, !.awaits = {}])
  /\ UNCHANGED <<photos, arriving, generation, sessions, token, writing, current, seen>>

-----------------------------------------------------------------------------
(* The fetch of loadPhoto *)

(* The answer sets out: the picture of this moment, or an error status.     *)
Serve(l) ==
  /\ \A g \in arriving : g.fetch # l
  /\ \E src \in {0, current[l.id]} : arriving' = arriving \cup {[fetch |-> l, src |-> src]}
  /\ UNCHANGED <<photos, loading, known, generation, sessions, token, avatar, writing, current, seen>>

(* Whether its answer still counts.  The mutated form forgets that a photo  *)
(* may have been replaced since it was asked for.                           *)
InScopeAlways(l) == l.token = token
InScope(l) == l.scope = generation /\ l.token = token

(* Who waits is told, null when the answer does not count.                  *)
ToldTo(l, src) ==
  IF l \in avatar.awaits THEN [avatar EXCEPT !.awaits = {}, !.of = l.id, !.src = src] ELSE avatar

(* An error status is kept like the answer that there is no photo.          *)
Fetched(l, src) ==
  /\ photos' = IF InScope(l) THEN (photos \ Cached(l.id)) \cup {[id |-> l.id, src |-> src]}
               ELSE photos
  /\ avatar' = ToldTo(l, IF InScope(l) THEN src ELSE 0)

(* No answer at all: nothing is kept. *)
Unfetched(l) == photos' = photos /\ avatar' = ToldTo(l, 0)

Answered(l) ==
  /\ \/ \E g \in arriving : g.fetch = l /\ Fetched(l, g.src)
     \/ Unfetched(l)
  /\ loading' = loading \ {l} /\ arriving' = {g \in arriving : g.fetch # l}
  /\ known' = IF l.scope = generation THEN known \ {l.id} ELSE known
  /\ UNCHANGED <<generation, sessions, token, writing, current, seen>>

-----------------------------------------------------------------------------
(* Settings: replacing or removing one's own photo *)

Replace ==
  /\ token # 0 /\ writing = 0 /\ current[Self] < MaxChanges
  /\ writing' = current[Self] + 1
  /\ UNCHANGED <<photos, loading, arriving, known, generation, sessions, token, avatar, current, seen>>

(* The server stores it. *)
Store ==
  /\ writing > current[Self] /\ current' = [current EXCEPT ![Self] = writing]
  /\ UNCHANGED <<photos, loading, arriving, known, generation, sessions, token, avatar, writing, seen>>

(* The answer: forgetPhotos(id), and the avatar of the form starts afresh.  *)
Replaced ==
  /\ writing # 0 /\ writing = current[Self] /\ writing' = 0
  /\ seen' = writing /\ generation' = generation + 1
  /\ photos' = photos \ Cached(Self)
  /\ known' = {Self} /\ loading' = loading \cup {Fetch(Self, generation + 1)}
  /\ avatar' = [Blank EXCEPT !.awaits = {Fetch(Self, generation + 1)}]
  /\ UNCHANGED <<arriving, sessions, token, current>>

(* An error is shown, though the photo may have been stored. *)
NotReplaced == /\ writing # 0 /\ writing' = 0
               /\ UNCHANGED <<photos, loading, arriving, known, generation, sessions, token, avatar, current, seen>>

-----------------------------------------------------------------------------
(* The session: see ClientSession *)

(* Signing out and expiry: forgetPhotos(), and the pages go.  A change that *)
(* is under way is given up, stored by now or never.                        *)
SignOut ==
  /\ token # 0 /\ token' = 0 /\ generation' = generation + 1
  /\ photos' = {} /\ known' = {} /\ avatar' = Blank /\ writing' = 0
  /\ UNCHANGED <<loading, arriving, sessions, current, seen>>

SignIn == /\ token = 0 /\ sessions < MaxSessions
          /\ sessions' = sessions + 1 /\ token' = sessions + 1
          /\ UNCHANGED <<photos, loading, arriving, known, generation, avatar, writing, current, seen>>

PhotosNext ==
  \/ \E p \in People, none \in BOOLEAN : ShowPerson(p, none)
  \/ \E l \in loading : Serve(l) \/ Answered(l)
  \/ Replace \/ Store \/ Replaced \/ NotReplaced \/ SignOut \/ SignIn

PhotosSpec == PhotosInit /\ [][PhotosNext]_photoVars

-----------------------------------------------------------------------------
(* Properties *)

(* A picture that is kept is never one the person has been told is          *)
(* replaced, whatever fetches were out meanwhile and in whichever session   *)
(* they set out, nothing is kept when nobody is signed in, and an avatar    *)
(* that awaits nothing shows its own person (photos.js:23-60,               *)
(* Avatar.jsx:21-32).                                                       *)
PhotosFresh ==
  /\ \A e \in Cached(Self) : e.src # 0 => e.src >= seen
  /\ token = 0 => photos = {}
  /\ avatar.awaits = {} => avatar.of = avatar.id
=============================================================================
