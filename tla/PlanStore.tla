----------------------------- MODULE PlanStore -----------------------------
(***************************************************************************)
(* The plan tables of the SQLite store (src/src/service/store.cpp) and the *)
(* upload handler that drives them (main.cpp): uploaded instances, the     *)
(* plan versions solved from them, and the approvals given to versions.    *)
(*                                                                         *)
(* Every Store method holds one process-wide mutex, so a method is one     *)
(* action -- except InvalidateApprovalsForChangedInput, whose two UPDATE   *)
(* statements are committed one after the other.  It is two actions, with  *)
(* the mutex held in between: nothing but a crash can come between them.   *)
(*                                                                         *)
(* A table is a sequence and a row id a position in it (the tables grow    *)
(* and nothing is ever deleted).  Content and validation hashes never      *)
(* change once a row is inserted and are left out.                         *)
(***************************************************************************)
EXTENDS Naturals, Sequences, FiniteSets

CONSTANTS Projects, Scenarios, Hashes, Users, Handlers, NoUser,
          Verdicts,          \* what a solve may report of its plan
          MaxInstances, MaxVersions, MaxApprovals   \* bounds on the tables

ASSUME StoreAssumption ==
  /\ NoUser \notin Users
  /\ Verdicts \subseteq [feasible : BOOLEAN, violated : BOOLEAN, is_fallback : BOOLEAN]
  /\ \A r \in Verdicts : r.violated => ~r.feasible \* validator.cpp: feasible means none
  /\ MaxInstances \in Nat /\ MaxVersions \in Nat /\ MaxApprovals \in Nat

VARIABLES instances, versions, approvals,   \* the tables, durable
          upload                            \* upload handlers, lost in a crash

vars == <<instances, versions, approvals, upload>>

-----------------------------------------------------------------------------
(* Rows *)

InstanceRec == [project_id : Projects, input_hash : Hashes]

Status == {"draft", "approved", "superseded", "invalidated"}

(* violated says whether `violations' is positive, approved_at whether that *)
(* column is non-empty.                                                     *)
PlanVersion ==
  [project_id : Projects, scenario : Scenarios, version_no : Nat \ {0},
   feasible : BOOLEAN, violated : BOOLEAN, is_fallback : BOOLEAN, input_hash : Hashes,
   status : Status, approved_by : Users \cup {NoUser}, approved_at : BOOLEAN]

Approval == [plan_version_id : Nat \ {0}, approved_by : Users, revoked : BOOLEAN]

(* An upload handler between AddInstance and the end of invalidation:      *)
(* "added" has inserted row `instance`, "marked" has also run the first    *)
(* UPDATE and still holds the store mutex.                                 *)
Idle == [at |-> "idle", instance |-> 0]
Upload == [at : {"idle", "added", "marked"}, instance : Nat]

TypeOK == /\ instances \in Seq(InstanceRec)
          /\ versions \in Seq(PlanVersion)
          /\ approvals \in Seq(Approval)
          /\ upload \in [Handlers -> Upload]

Init == /\ instances = <<>>
        /\ versions = <<>>
        /\ approvals = <<>>
        /\ upload = [h \in Handlers |-> Idle]

-----------------------------------------------------------------------------
(* Reading the tables *)

Group(v) == <<versions[v].project_id, versions[v].scenario>>

(* The mutex is held across the two statements of an invalidation. *)
StoreFree == \A h \in Handlers : upload[h].at # "marked"

(* COALESCE(MAX(version_no),0)+1 over the rows of a project and scenario.   *)
(* Two mutated forms come first: without the +1, and counting per project. *)
NextVersionNoUnbumped(p, s) ==
  LET taken == {versions[v].version_no : v \in
                  {w \in DOMAIN versions : Group(w) = <<p, s>>}}
  IN  IF taken = {} THEN 0 ELSE CHOOSE n \in taken : \A m \in taken : m <= n

NextVersionNoPerProject(p, s) ==
  1 + Cardinality({v \in DOMAIN versions : versions[v].project_id = p})

NextVersionNo(p, s) ==
  LET taken == {versions[v].version_no : v \in
                  {w \in DOMAIN versions : Group(w) = <<p, s>>}}
  IN  IF taken = {} THEN 1
      ELSE 1 + CHOOSE n \in taken : \A m \in taken : m <= n

(* The versions of instance i's project that were solved from another input. *)
OfReplacedInput(i) ==
  {v \in DOMAIN versions : /\ versions[v].project_id = instances[i].project_id
                           /\ versions[v].input_hash # instances[i].input_hash}

-----------------------------------------------------------------------------
(* Uploading an instance *)

(* The upload handler inserts the instance row: one statement, and one     *)
(* call of the store.                                                      *)
AddInstance(h, p, x) ==
  /\ upload[h] = Idle
  /\ StoreFree
  /\ Len(instances) < MaxInstances
  /\ instances' = Append(instances, [project_id |-> p, input_hash |-> x])
  /\ upload' = [upload EXCEPT ![h] = [at |-> "added", instance |-> Len(instances) + 1]]
  /\ UNCHANGED <<versions, approvals>>

(* InvalidateApprovalsForChangedInput, first statement.  The second one is *)
(* skipped when this one changed no row.                                   *)
Outdated(h) == {v \in OfReplacedInput(upload[h].instance) :
                  versions[v].status \in {"approved", "draft"}}

InvalidateVersions(h) ==
  /\ upload[h].at = "added"
  /\ StoreFree
  /\ versions' = [v \in DOMAIN versions |->
                    IF v \in Outdated(h)
                    THEN [versions[v] EXCEPT !.status = "invalidated"]
                    ELSE versions[v]]
  /\ upload' = [upload EXCEPT ![h] = IF Outdated(h) = {} THEN Idle
                                     ELSE [@ EXCEPT !.at = "marked"]]
  /\ UNCHANGED <<instances, approvals>>

(* InvalidateApprovalsForChangedInput, second statement: every approval    *)
(* still open on a version of the replaced inputs is revoked.              *)
RevokeStaleApprovals(h) ==
  /\ upload[h].at = "marked"
  /\ approvals' = [a \in DOMAIN approvals |->
                     IF approvals[a].plan_version_id
                          \in OfReplacedInput(upload[h].instance)
                     THEN [approvals[a] EXCEPT !.revoked = TRUE]
                     ELSE approvals[a]]
  /\ upload' = [upload EXCEPT ![h] = Idle]
  /\ UNCHANGED <<instances, versions>>

-----------------------------------------------------------------------------
(* Recording and approving plan versions *)

(* A finished solve of instance i records the plan it produced for         *)
(* scenario s.  The input hash is read back from the instance row.         *)
AddPlanVersion(i, s, verdict) ==
  /\ StoreFree
  /\ Len(versions) < MaxVersions
  /\ versions' = Append(versions,
       [project_id |-> instances[i].project_id, scenario |-> s,
        version_no |-> NextVersionNo(instances[i].project_id, s),
        feasible |-> verdict.feasible, violated |-> verdict.violated,
        is_fallback |-> verdict.is_fallback,
        input_hash |-> instances[i].input_hash,
        status |-> "draft", approved_by |-> NoUser, approved_at |-> FALSE])
  /\ UNCHANGED <<instances, approvals, upload>>

(* ApprovePlan's refusals, the last of them the UPDATE's own WHERE clause. *)
ApprovableUnlessApproved(v) ==
  /\ versions[v].feasible
  /\ ~versions[v].is_fallback
  /\ versions[v].status \notin {"invalidated", "approved"}

Approvable(v) ==
  /\ versions[v].feasible
  /\ ~versions[v].is_fallback
  /\ versions[v].status = "draft"

Approved(t, v, u) ==
  [t EXCEPT ![v].status = "approved", ![v].approved_by = u, ![v].approved_at = TRUE]

(* Only one version per scenario may stand approved. *)
SupersedeNone(t, v) == t
SupersedeAllScenarios(t, v) ==
  [w \in DOMAIN t |-> IF /\ t[w].project_id = t[v].project_id
                         /\ w # v
                         /\ t[w].status \in {"approved", "draft"}
                      THEN [t[w] EXCEPT !.status = "superseded"] ELSE t[w]]

Supersede(t, v) ==
  [w \in DOMAIN t |-> IF /\ t[w].project_id = t[v].project_id
                         /\ t[w].scenario = t[v].scenario
                         /\ w # v
                         /\ t[w].status = "approved"
                      THEN [t[w] EXCEPT !.status = "superseded"] ELSE t[w]]

(* One transaction: the version, its approval row, and the one it replaces. *)
ApprovePlan(v, u) ==
  /\ StoreFree
  /\ Approvable(v)
  /\ Len(approvals) < MaxApprovals
  /\ versions' = Supersede(Approved(versions, v, u), v)
  /\ approvals' = Append(approvals,
                    [plan_version_id |-> v, approved_by |-> u, revoked |-> FALSE])
  /\ UNCHANGED <<instances, upload>>

(* One transaction: back to draft, and the open approval is marked revoked. *)
(* The mutated form forgets the approval row.                              *)
RevokeKeepingRow(v) ==
  /\ StoreFree
  /\ versions[v].status = "approved"
  /\ versions' = [versions EXCEPT ![v].status = "draft", ![v].approved_by = NoUser,
                                  ![v].approved_at = FALSE]
  /\ UNCHANGED <<instances, approvals, upload>>

RevokeApproval(v) ==
  /\ StoreFree
  /\ versions[v].status = "approved"
  /\ versions' = [versions EXCEPT ![v].status = "draft", ![v].approved_by = NoUser,
                                  ![v].approved_at = FALSE]
  /\ approvals' = [a \in DOMAIN approvals |->
                     IF approvals[a].plan_version_id = v
                     THEN [approvals[a] EXCEPT !.revoked = TRUE]
                     ELSE approvals[a]]
  /\ UNCHANGED <<instances, upload>>

(* The process dies and is restarted: committed rows stay, handlers do not. *)
Crash == /\ upload # [h \in Handlers |-> Idle]
         /\ upload' = [h \in Handlers |-> Idle]
         /\ UNCHANGED <<instances, versions, approvals>>

UploadStep(h) == \/ \E p \in Projects, x \in Hashes : AddInstance(h, p, x)
                 \/ InvalidateVersions(h)
                 \/ RevokeStaleApprovals(h)

Serve == \/ \E h \in Handlers : UploadStep(h)
         \/ \E i \in DOMAIN instances, s \in Scenarios, r \in Verdicts :
              AddPlanVersion(i, s, r)
         \/ \E v \in DOMAIN versions, u \in Users : ApprovePlan(v, u)
         \/ \E v \in DOMAIN versions : RevokeApproval(v)

Next == Serve \/ Crash

Spec == Init /\ [][Next]_vars

(* A process that never dies: what goes wrong all the same is no crash's    *)
(* doing.                                                                   *)
UncrashedSpec == Init /\ [][Serve]_vars

-----------------------------------------------------------------------------
(* Properties *)

SameGroup(v, w) == Group(v) = Group(w)

OpenRows(v) == {a \in DOMAIN approvals : /\ approvals[a].plan_version_id = v
                                         /\ ~approvals[a].revoked}

(* No approval was written after row a for the project and scenario of v.  *)
LastOfGroup(a, v) ==
  \A b \in DOMAIN approvals :
    b > a => ~SameGroup(approvals[b].plan_version_id, v)

(* At most one version of a project and scenario stands approved, whatever *)
(* the order of approvals, revocations, uploads and crashes                *)
(* (Store::ApprovePlan supersedes in the transaction that approves).       *)
OneApproved ==
  \A v, w \in DOMAIN versions :
    /\ versions[v].status = "approved"
    /\ versions[w].status = "approved"
    /\ SameGroup(v, w)
    => v = w

(* The version table and the approval history agree: an approved version   *)
(* has an open approval by the approver it names, and that row is the last *)
(* one written for its project and scenario; a draft has no open approval, *)
(* names nobody and carries no date; no version has two open approvals.    *)
LedgerAgrees ==
  \A v \in DOMAIN versions :
    /\ versions[v].status = "approved" =>
         \E a \in OpenRows(v) : /\ approvals[a].approved_by = versions[v].approved_by
                                /\ LastOfGroup(a, v)
    /\ versions[v].status = "draft" =>
         /\ OpenRows(v) = {}
         /\ versions[v].approved_by = NoUser
         /\ ~versions[v].approved_at
    /\ \A a, b \in OpenRows(v) : a = b

(* The converse: the last approval written for a project and scenario, if  *)
(* still open, is on the version that stands approved there -- unless that *)
(* version's input was replaced (and a crash may have kept the row open).  *)
OpenRowStands ==
  \A v \in DOMAIN versions : \A a \in OpenRows(v) :
    LastOfGroup(a, v) => versions[v].status \in {"approved", "invalidated"}

(* Table and history agree in both directions, after any order of          *)
(* approvals, revocations, uploads and crashes (store.cpp:648-781).        *)
HistoryAgrees == LedgerAgrees /\ OpenRowStands

(* Whatever carries an approval date was feasible and not a fallback plan, *)
(* also after it was superseded or invalidated.                            *)
PublishedWasChecked ==
  \A v \in DOMAIN versions :
    versions[v].approved_at => versions[v].feasible /\ ~versions[v].is_fallback

(* Versions are numbered 1, 2, 3, ... in row order per project and         *)
(* scenario, although several workers record at once (AddPlanVersion).     *)
NumberedInOrder ==
  \A v \in DOMAIN versions :
    versions[v].version_no =
      1 + Cardinality({w \in DOMAIN versions : w < v /\ SameGroup(v, w)})

(* A version's status only ever moves along these edges; superseded and    *)
(* invalidated are final, so an old plan cannot come back without a run.   *)
StatusEdges == {<<"draft", "approved">>, <<"draft", "invalidated">>,
                <<"approved", "draft">>, <<"approved", "superseded">>,
                <<"approved", "invalidated">>}

StatusMoves ==
  [][\A v \in DOMAIN versions :
       \/ versions'[v].status = versions[v].status
       \/ <<versions[v].status, versions'[v].status>> \in StatusEdges]_vars

(* Every approved, superseded or invalidated row maps to the register that *)
(* callers of the store rely on.                                           *)
Register == INSTANCE ApprovalRegister WITH
  Plans <- 1..MaxVersions,
  standing <- [g \in Projects \X Scenarios |->
                 {v \in DOMAIN versions : versions[v].status = "approved" /\ Group(v) = g}],
  retired <- {v \in DOMAIN versions : versions[v].status \in {"superseded", "invalidated"}}

(* The store implements the approval register. *)
ImplementsRegister == Register!RSpec

(* An invalidated version has no open approval: invalidation is one        *)
(* transaction, as store.h says of every mutating call.                    *)
InvalidationIsWhole ==
  StoreFree => \A v \in DOMAIN versions :
                 versions[v].status = "invalidated" => OpenRows(v) = {}

(* With no upload under way, what stands approved was solved from the      *)
(* project's latest instance (docs/API.md: an approval is refused when the *)
(* plan was "produced from an input that is no longer current").  A solve  *)
(* that ends after the upload of another input breaks it, with no crash:   *)
(* what it records is a draft, and a draft can be approved.                *)
LatestInstance(p) ==
  CHOOSE i \in DOMAIN instances :
    /\ instances[i].project_id = p
    /\ \A j \in DOMAIN instances : instances[j].project_id = p => j <= i

ApprovedIsCurrent ==
  upload = [h \in Handlers |-> Idle] =>
    \A v \in DOMAIN versions :
      versions[v].status = "approved" =>
        versions[v].input_hash = instances[LatestInstance(versions[v].project_id)].input_hash
=============================================================================
