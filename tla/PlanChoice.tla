----------------------------- MODULE PlanChoice -----------------------------
(***************************************************************************)
(* Which plan the client shows for a project, and what it calls it         *)
(* (client/src/lib/planChoice.js), over whatever the plan store answers.   *)
(* The client keeps no state of its own here: the choice is a function of  *)
(* the listed versions and of the version the viewer asked for, 0 if none. *)
(***************************************************************************)
EXTENDS PlanStore

Listed(p) == {v \in DOMAIN versions : versions[v].project_id = p}

(* The order of both sorts: by version_no, newest first, then by id (the   *)
(* listing is in that order and the first sort is stable).                 *)
Before(v, w) == \/ versions[v].version_no > versions[w].version_no
                \/ versions[v].version_no = versions[w].version_no /\ v > w

First(S) == CHOOSE v \in S : \A w \in S \ {v} : Before(v, w)

(* Both functions take an approval date for an approval.  The mutated form *)
(* takes whatever is no longer a draft for one.                            *)
PublishedOnceSettled(v) == versions[v].status # "draft"
Published(v) == versions[v].status = "approved" \/ versions[v].approved_at

(* null, here 0, when there is nothing to show.  The mutated form prefers  *)
(* the newest version throughout.                                          *)
choosePlanNewest(p, prefer) ==
  IF Listed(p) = {} THEN 0
  ELSE IF prefer \in Listed(p) THEN prefer
  ELSE First(Listed(p))

choosePlan(p, prefer) ==
  LET published == {v \in Listed(p) : Published(v)} IN
  IF Listed(p) = {} THEN 0
  ELSE IF prefer \in Listed(p) THEN prefer
  ELSE IF published # {} THEN First(published)
  ELSE First(Listed(p))

(* planState(choosePlan(...)) *)
planState(p, prefer) ==
  LET v == choosePlan(p, prefer) IN
  [published |-> v # 0 /\ Published(v),
   failed |-> v # 0 /\ (~versions[v].feasible \/ versions[v].violated)]

-----------------------------------------------------------------------------
(* Properties *)

Choices == Projects \X (0..MaxVersions)

(* "A newer solve never silently replaces an approved plan"                *)
(* (planChoice.js:9-10): recording a version changes neither what is shown *)
(* as published nor its label, whatever the viewer prefers.                *)
SolveNeverReplaces ==
  [][\A c \in Choices :
       /\ planState(c[1], c[2]).published
       /\ c[2] \in Listed(c[1]) \cup {0}
       /\ Len(versions') > Len(versions)
       => /\ choosePlan(c[1], c[2])' = choosePlan(c[1], c[2])
          /\ planState(c[1], c[2])' = planState(c[1], c[2])]_vars

(* What is labelled published passed the independent check and is no       *)
(* fallback, whatever became of its approval since (planChoice.js:36-38).  *)
PublishedIsUsable ==
  \A c \in Choices :
    planState(c[1], c[2]).published =>
      /\ ~planState(c[1], c[2]).failed
      /\ ~versions[choosePlan(c[1], c[2])].is_fallback

(* "An approved version is the shared, published answer and wins"          *)
(* (planChoice.js:8).                                                      *)
ApprovedWins ==
  \A p \in Projects :
    (\E v \in Listed(p) : versions[v].status = "approved")
      => versions[choosePlan(p, 0)].status = "approved"
=============================================================================
