-------------------------- MODULE PlanStoreProofs --------------------------
(***************************************************************************)
(* Proofs about PlanStore and PlanChoice, for every set of projects,       *)
(* scenarios, inputs, approvers and upload handlers, and every bound on    *)
(* the tables.                                                             *)
(***************************************************************************)
EXTENDS PlanChoice, SequenceTheorems, FiniteSetTheorems, WellFoundedInduction,
        TLAPS

-----------------------------------------------------------------------------
(* Tables *)

(* Rewriting the rows of a table gives a table of the same length. *)
LEMMA RewrittenTable ==
  ASSUME NEW S, NEW T, NEW s \in Seq(S), NEW f \in [DOMAIN s -> T]
  PROVE  /\ f \in Seq(T)
         /\ Len(f) = Len(s)
         /\ DOMAIN f = DOMAIN s
  <1>1. /\ DOMAIN s = 1..Len(s)
        /\ Len(s) \in Nat
    BY LenProperties
  <1>2. f \in [1..Len(s) -> T]
    BY <1>1
  <1>3. f \in Seq(T)
    BY <1>1, <1>2
  <1>4. DOMAIN f = 1..Len(f) /\ Len(f) \in Nat
    BY <1>3, LenProperties
  <1>5. Len(f) = Len(s)
    BY <1>1, <1>2, <1>4
  <1>. QED
    BY <1>1, <1>3, <1>4, <1>5

(* Inserting a row keeps the other rows and their ids. *)
LEMMA InsertedRow ==
  ASSUME NEW S, NEW s \in Seq(S), NEW e \in S
  PROVE  /\ Append(s, e) \in Seq(S)
         /\ Len(Append(s, e)) = Len(s) + 1
         /\ DOMAIN Append(s, e) = DOMAIN s \cup {Len(s) + 1}
         /\ Len(s) + 1 \notin DOMAIN s
         /\ \A i \in DOMAIN s : Append(s, e)[i] = s[i]
         /\ Append(s, e)[Len(s) + 1] = e
  <1>1. Len(s) \in Nat /\ DOMAIN s = 1..Len(s)
    BY LenProperties
  <1>2. Append(s, e) \in Seq(S) /\ Len(Append(s, e)) = Len(s) + 1
    OBVIOUS
  <1>3. DOMAIN Append(s, e) = 1..(Len(s) + 1)
    BY <1>2, LenProperties
  <1>. QED
    BY <1>1, <1>2, <1>3

(* A non-empty set of naturals with an upper bound has a largest element.  *)
LEMMA LargestExists ==
  ASSUME NEW N \in SUBSET Nat, N # {}, NEW b \in Nat, \A n \in N : n <= b
  PROVE  \E n \in N : \A m \in N : m <= n
  <1> DEFINE U == {u \in Nat : \A n \in N : n <= u}
  <1>1. U \subseteq Nat /\ U # {}
    OBVIOUS
  <1>2. PICK u \in U : \A w \in U : ~(<<w, u>> \in {r \in Nat \X Nat : r[1] < r[2]})
    <2> HIDE DEF U
    <2>1. IsWellFoundedOn({r \in Nat \X Nat : r[1] < r[2]}, Nat)
      BY NatLessThanWellFounded, ZenonT(60) DEF OpToRel
    <2>. QED
      BY <1>1, <2>1, WFMin, ZenonT(60)
  <1>3. \A w \in U : ~(w < u)
    BY <1>2
  <1>4. u \in N
    <2> SUFFICES ASSUME u \notin N PROVE FALSE
      OBVIOUS
    <2>1. PICK n \in N : TRUE
      OBVIOUS
    <2>2. n <= u /\ n # u
      BY <2>1
    <2>3. u - 1 \in U
      BY <2>2
    <2>. QED
      BY <2>3, <1>3
  <1>. QED
    BY <1>4

-----------------------------------------------------------------------------
(* Types and numbers *)

(* A typed store numbers the next version of a project and scenario as it  *)
(* should when the versions so far are numbered by their rank.             *)
LEMMA NextNumber ==
  ASSUME TypeOK, NumberedInOrder, NEW p, NEW s
  PROVE  /\ NextVersionNo(p, s) \in Nat \ {0}
         /\ NextVersionNo(p, s)
              = 1 + Cardinality({w \in DOMAIN versions : Group(w) = <<p, s>>})
  <1> DEFINE G == {w \in DOMAIN versions : Group(w) = <<p, s>>}
             T == {versions[v].version_no : v \in G}
             Rank(v) == {w \in DOMAIN versions : w < v /\ SameGroup(v, w)}
  <1>1. /\ Len(versions) \in Nat
        /\ DOMAIN versions = 1..Len(versions)
        /\ \A v \in DOMAIN versions : versions[v] \in PlanVersion
    BY LenProperties DEF TypeOK
  <1>2. IsFiniteSet(DOMAIN versions)
    BY <1>1, FS_Interval
  <1>3. IsFiniteSet(G) /\ Cardinality(G) \in Nat
    BY <1>2, FS_Subset, FS_CardinalityType
  <1>4. \A v \in G : Rank(v) = {w \in G : w < v}
    BY DEF SameGroup
  <1>5. CASE G = {}
    <2>1. T = {}
      BY <1>5
    <2>2. NextVersionNo(p, s) = 1
      BY <2>1 DEF NextVersionNo
    <2>3. Cardinality(G) = 0
      BY <1>5, FS_EmptySet
    <2>. QED
      BY <2>2, <2>3
  <1>6. CASE G # {}
    <2>1. PICK l \in G : \A w \in G : w <= l
      <3>1. G \in SUBSET Nat /\ \A w \in G : w <= Len(versions)
        BY <1>1
      <3>. HIDE DEF G
      <3>. QED
        BY <1>1, <1>6, <3>1, LargestExists
    <2>2. Rank(l) = G \ {l}
      BY <2>1, <1>1, <1>4
    <2>3. versions[l].version_no = 1 + Cardinality(G \ {l})
      BY <2>1, <2>2 DEF NumberedInOrder
    <2>4. /\ Cardinality(G \ {l}) = Cardinality(G) - 1
          /\ Cardinality(G) > 0
      <3>. HIDE DEF G
      <3>1. Cardinality(G \ {l}) = Cardinality(G) - 1
        BY <1>3, <2>1, FS_RemoveElement
      <3>2. Cardinality(G) # 0
        BY <1>3, <1>6, FS_EmptySet
      <3>. QED
        BY <1>3, <3>1, <3>2
    <2>5. versions[l].version_no = Cardinality(G)
      BY <2>3, <2>4, <1>3
    <2>6. ASSUME NEW v \in G PROVE versions[v].version_no <= Cardinality(G)
      <3>1. Rank(v) \subseteq G \ {v}
        BY <1>4, <1>1
      <3>2. /\ IsFiniteSet(G \ {v})
            /\ Cardinality(G \ {v}) = Cardinality(G) - 1
        BY <1>3, <2>6, FS_RemoveElement
      <3>3. /\ Cardinality(Rank(v)) \in Nat
            /\ Cardinality(Rank(v)) <= Cardinality(G \ {v})
        BY <3>1, <3>2, FS_Subset, FS_CardinalityType
      <3>4. versions[v].version_no = 1 + Cardinality(Rank(v))
        BY <2>6 DEF NumberedInOrder
      <3>. HIDE DEF G, Rank
      <3>. QED
        BY <3>2, <3>3, <3>4, <1>3
    <2>7. /\ T # {}
          /\ Cardinality(G) \in T
          /\ \A n \in T : n \in Nat /\ n <= Cardinality(G)
      <3>1. \A v \in G : versions[v].version_no \in Nat
        BY <1>1 DEF PlanVersion
      <3>. QED
        BY <2>1, <2>5, <2>6, <3>1
    <2>8. (CHOOSE n \in T : \A m \in T : m <= n) = Cardinality(G)
      <3>. HIDE DEF T, G
      <3>1. \A n \in T : (\A m \in T : m <= n) => n = Cardinality(G)
        BY <2>7, <1>3
      <3>. QED
        BY <2>7, <3>1
    <2>9. NextVersionNo(p, s) = 1 + Cardinality(G)
      BY <2>7, <2>8 DEF NextVersionNo
    <2>. QED
      BY <2>9, <1>3
  <1>. QED
    BY <1>5, <1>6

(* Approving a version, and superseding the one it replaces. *)
LEMMA ApprovedTable ==
  ASSUME TypeOK, NEW v \in DOMAIN versions, NEW u \in Users,
         ApprovePlan(v, u)
  PROVE  /\ versions' \in [DOMAIN versions -> PlanVersion]
         /\ versions'[v] = [versions[v] EXCEPT !.status = "approved", !.approved_by = u,
                                       !.approved_at = TRUE]
         /\ \A w \in DOMAIN versions : w # v =>
              versions'[w] = IF SameGroup(v, w) /\ versions[w].status = "approved"
                     THEN [versions[w] EXCEPT !.status = "superseded"]
                     ELSE versions[w]
  <1>1. /\ DOMAIN versions = 1..Len(versions)
        /\ \A w \in DOMAIN versions : versions[w] \in PlanVersion
    BY LenProperties DEF TypeOK
  <1> DEFINE a == Approved(versions, v, u)
  <1>2. /\ DOMAIN a = DOMAIN versions
        /\ a[v] = [versions[v] EXCEPT !.status = "approved", !.approved_by = u,
                                      !.approved_at = TRUE]
        /\ \A w \in DOMAIN versions : w # v => a[w] = versions[w]
    BY DEF Approved
  <1>3. versions' = [w \in DOMAIN a |-> IF /\ a[w].project_id = a[v].project_id
                                   /\ a[w].scenario = a[v].scenario
                                   /\ w # v
                                   /\ a[w].status = "approved"
                                THEN [a[w] EXCEPT !.status = "superseded"]
                                ELSE a[w]]
    BY DEF ApprovePlan, Supersede
  <1>. HIDE DEF a
  <1>4. versions'[v] = [versions[v] EXCEPT !.status = "approved", !.approved_by = u,
                                   !.approved_at = TRUE]
    BY <1>2, <1>3
  <1>5. a[v].project_id = versions[v].project_id /\ a[v].scenario = versions[v].scenario
    BY <1>1, <1>2 DEF PlanVersion
  <1>6. ASSUME NEW w \in DOMAIN versions, w # v
        PROVE  versions'[w] = IF SameGroup(v, w) /\ versions[w].status = "approved"
                      THEN [versions[w] EXCEPT !.status = "superseded"]
                      ELSE versions[w]
    BY <1>2, <1>3, <1>5, <1>6 DEF SameGroup, Group
  <1>7. versions'[v] \in PlanVersion
    BY <1>1, <1>4 DEF PlanVersion, Status
  <1>8. ASSUME NEW w \in DOMAIN versions, w # v
        PROVE  versions'[w] \in PlanVersion
    <2>1. [versions[w] EXCEPT !.status = "superseded"] \in PlanVersion
      BY <1>1 DEF PlanVersion, Status
    <2>. QED
      BY <1>1, <1>6, <1>8, <2>1
  <1>. QED
    BY <1>2, <1>3, <1>4, <1>6, <1>7, <1>8

(* A version row as AddPlanVersion inserts it. *)
NewRow(i, s, verdict) ==
  [project_id |-> instances[i].project_id, scenario |-> s,
   version_no |-> NextVersionNo(instances[i].project_id, s),
   feasible |-> verdict.feasible, violated |-> verdict.violated,
   is_fallback |-> verdict.is_fallback,
   input_hash |-> instances[i].input_hash,
   status |-> "draft", approved_by |-> NoUser, approved_at |-> FALSE]

LEMMA NewRowType ==
  ASSUME TypeOK, NumberedInOrder,
         NEW i \in DOMAIN instances, NEW s \in Scenarios, NEW r \in Verdicts
  PROVE  NewRow(i, s, r) \in PlanVersion
  <1>1. instances[i] \in InstanceRec
    BY LenProperties DEF TypeOK
  <1>2. NextVersionNo(instances[i].project_id, s) \in Nat \ {0}
    BY NextNumber
  <1>3. r \in [feasible : BOOLEAN, violated : BOOLEAN, is_fallback : BOOLEAN]
    BY StoreAssumption DEF StoreAssumption
  <1>. QED
    BY <1>1, <1>2, <1>3 DEF NewRow, PlanVersion, InstanceRec, Status

(* The typed store's rows. *)
LEMMA Rows ==
  ASSUME TypeOK
  PROVE  /\ Len(versions) \in Nat /\ DOMAIN versions = 1..Len(versions)
         /\ Len(approvals) \in Nat /\ DOMAIN approvals = 1..Len(approvals)
         /\ Len(instances) \in Nat /\ DOMAIN instances = 1..Len(instances)
         /\ \A v \in DOMAIN versions : versions[v] \in PlanVersion
         /\ \A a \in DOMAIN approvals : approvals[a] \in Approval
         /\ \A i \in DOMAIN instances : instances[i] \in InstanceRec
         /\ \A h \in Handlers : upload[h] \in Upload
  BY LenProperties DEF TypeOK

LEMMA TypeStep ==
  ASSUME TypeOK, NumberedInOrder, [Next]_vars
  PROVE  TypeOK'
  <1>. USE Rows
  <1>1. ASSUME NEW h \in Handlers, NEW p \in Projects, NEW x \in Hashes,
               AddInstance(h, p, x)
        PROVE  TypeOK'
    <2>1. [project_id |-> p, input_hash |-> x] \in InstanceRec
      BY DEF InstanceRec
    <2>2. instances' \in Seq(InstanceRec)
      BY <1>1, <2>1 DEF AddInstance, TypeOK
    <2>3. upload' \in [Handlers -> Upload]
      BY <1>1 DEF AddInstance, TypeOK, Upload
    <2>. QED
      BY <1>1, <2>2, <2>3 DEF AddInstance, TypeOK
  <1>2. ASSUME NEW h \in Handlers, InvalidateVersions(h)
        PROVE  TypeOK'
    <2>1. versions' \in [DOMAIN versions -> PlanVersion]
      BY <1>2 DEF InvalidateVersions, PlanVersion, Status
    <2>2. versions' \in Seq(PlanVersion)
      BY <2>1, RewrittenTable DEF TypeOK
    <2>3. upload' \in [Handlers -> Upload]
      BY <1>2 DEF InvalidateVersions, TypeOK, Upload, Idle
    <2>. QED
      BY <1>2, <2>2, <2>3 DEF InvalidateVersions, TypeOK
  <1>3. ASSUME NEW h \in Handlers, RevokeStaleApprovals(h)
        PROVE  TypeOK'
    <2>1. approvals' \in [DOMAIN approvals -> Approval]
      BY <1>3 DEF RevokeStaleApprovals, Approval
    <2>2. approvals' \in Seq(Approval)
      BY <2>1, RewrittenTable DEF TypeOK
    <2>3. upload' \in [Handlers -> Upload]
      BY <1>3 DEF RevokeStaleApprovals, TypeOK, Upload, Idle
    <2>. QED
      BY <1>3, <2>2, <2>3 DEF RevokeStaleApprovals, TypeOK
  <1>4. ASSUME NEW i \in DOMAIN instances, NEW s \in Scenarios, NEW r \in Verdicts,
               AddPlanVersion(i, s, r)
        PROVE  TypeOK'
    <2>1. versions' = Append(versions, NewRow(i, s, r))
      BY <1>4 DEF AddPlanVersion, NewRow
    <2>2. versions' \in Seq(PlanVersion)
      BY <2>1, NewRowType DEF TypeOK
    <2>. QED
      BY <1>4, <2>2 DEF AddPlanVersion, TypeOK
  <1>5. ASSUME NEW v \in DOMAIN versions, NEW u \in Users, ApprovePlan(v, u)
        PROVE  TypeOK'
    <2>1. versions' \in [DOMAIN versions -> PlanVersion]
      BY <1>5, ApprovedTable
    <2>2. versions' \in Seq(PlanVersion)
      BY <2>1, RewrittenTable DEF TypeOK
    <2>3. [plan_version_id |-> v, approved_by |-> u, revoked |-> FALSE] \in Approval
      BY DEF Approval
    <2>4. approvals' \in Seq(Approval)
      BY <1>5, <2>3 DEF ApprovePlan, TypeOK
    <2>. QED
      BY <1>5, <2>2, <2>4 DEF ApprovePlan, TypeOK
  <1>6. ASSUME NEW v \in DOMAIN versions, RevokeApproval(v)
        PROVE  TypeOK'
    <2>1. versions' \in [DOMAIN versions -> PlanVersion]
      <3>1. versions[v] \in PlanVersion
        OBVIOUS
      <3>2. [versions[v] EXCEPT !.status = "draft", !.approved_by = NoUser,
                                !.approved_at = FALSE] \in PlanVersion
        BY <3>1 DEF PlanVersion, Status
      <3>3. versions' = [versions EXCEPT ![v] =
                           [versions[v] EXCEPT !.status = "draft", !.approved_by = NoUser,
                                               !.approved_at = FALSE]]
        BY <1>6, <3>1 DEF RevokeApproval, PlanVersion
      <3>. QED
        BY <3>2, <3>3
    <2>2. versions' \in Seq(PlanVersion)
      BY <2>1, RewrittenTable DEF TypeOK
    <2>3. approvals' \in [DOMAIN approvals -> Approval]
      BY <1>6 DEF RevokeApproval, Approval
    <2>4. approvals' \in Seq(Approval)
      BY <2>3, RewrittenTable DEF TypeOK
    <2>. QED
      BY <1>6, <2>2, <2>4 DEF RevokeApproval, TypeOK
  <1>7. CASE Crash
    BY <1>7 DEF Crash, TypeOK, Upload, Idle
  <1>8. CASE UNCHANGED vars
    BY <1>8 DEF vars, TypeOK
  <1>. QED
    BY <1>1, <1>2, <1>3, <1>4, <1>5, <1>6, <1>7, <1>8 DEF Next, Serve, UploadStep

-----------------------------------------------------------------------------
(* Steps *)

(* No step removes a version or changes what identifies it, and only       *)
(* AddPlanVersion brings in a new one.                                     *)
LEMMA RowsStay ==
  ASSUME TypeOK, [Next]_vars
  PROVE  /\ DOMAIN versions \subseteq DOMAIN versions'
         /\ \A v \in DOMAIN versions :
              /\ versions'[v].project_id = versions[v].project_id
              /\ versions'[v].scenario = versions[v].scenario
              /\ versions'[v].version_no = versions[v].version_no
              /\ versions'[v].feasible = versions[v].feasible
              /\ versions'[v].violated = versions[v].violated
              /\ versions'[v].is_fallback = versions[v].is_fallback
              /\ versions'[v].input_hash = versions[v].input_hash
         /\ \/ DOMAIN versions' = DOMAIN versions
            \/ \E i \in DOMAIN instances, s \in Scenarios, r \in Verdicts :
                 AddPlanVersion(i, s, r)
  <1>. USE Rows
  <1> DEFINE Same(r, q) == /\ r.project_id = q.project_id
                           /\ r.scenario = q.scenario
                           /\ r.version_no = q.version_no
                           /\ r.feasible = q.feasible
                           /\ r.violated = q.violated
                           /\ r.is_fallback = q.is_fallback
                           /\ r.input_hash = q.input_hash
             Kept == \A v \in DOMAIN versions : Same(versions'[v], versions[v])
  <1>1. ASSUME NEW q \in PlanVersion, NEW u
        PROVE  /\ Same([q EXCEPT !.status = "invalidated"], q)
               /\ Same([q EXCEPT !.status = "superseded"], q)
               /\ Same([q EXCEPT !.status = "approved", !.approved_by = u,
                                 !.approved_at = TRUE], q)
               /\ Same([q EXCEPT !.status = "draft", !.approved_by = NoUser,
                                 !.approved_at = FALSE], q)
               /\ Same(q, q)
    BY DEF PlanVersion
  <1>. HIDE DEF Same
  <1>2. ASSUME NEW h \in Handlers, InvalidateVersions(h)
        PROVE  DOMAIN versions' = DOMAIN versions /\ Kept
    <2>1. /\ DOMAIN versions' = DOMAIN versions
          /\ \A v \in DOMAIN versions :
               \/ versions'[v] = versions[v]
               \/ versions'[v] = [versions[v] EXCEPT !.status = "invalidated"]
      BY <1>2 DEF InvalidateVersions
    <2>. QED
      BY <1>1, <2>1
  <1>3. ASSUME NEW v \in DOMAIN versions, NEW u \in Users, ApprovePlan(v, u)
        PROVE  DOMAIN versions' = DOMAIN versions /\ Kept
    <2>1. versions' \in [DOMAIN versions -> PlanVersion]
      BY <1>3, ApprovedTable
    <2>2. versions'[v] = [versions[v] EXCEPT !.status = "approved",
                                !.approved_by = u, !.approved_at = TRUE]
      BY <1>3, ApprovedTable
    <2>3. \A w \in DOMAIN versions : w # v =>
            \/ versions'[w] = [versions[w] EXCEPT !.status = "superseded"]
            \/ versions'[w] = versions[w]
      BY <1>3, ApprovedTable
    <2>4. Same(versions'[v], versions[v])
      BY <2>2 DEF Same, PlanVersion
    <2>5. \A w \in DOMAIN versions : w # v => Same(versions'[w], versions[w])
      BY <1>1, <2>3
    <2>. QED
      BY <2>1, <2>4, <2>5
  <1>4. ASSUME NEW v \in DOMAIN versions, RevokeApproval(v)
        PROVE  DOMAIN versions' = DOMAIN versions /\ Kept
    <2>1. /\ DOMAIN versions' = DOMAIN versions
          /\ \A w \in DOMAIN versions :
               \/ versions'[w] = versions[w]
               \/ versions'[w] = [versions[w] EXCEPT !.status = "draft",
                                    !.approved_by = NoUser, !.approved_at = FALSE]
      BY <1>4 DEF RevokeApproval
    <2>. QED
      BY <1>1, <2>1
  <1>5. ASSUME NEW i \in DOMAIN instances, NEW s \in Scenarios, NEW r \in Verdicts,
               AddPlanVersion(i, s, r)
        PROVE  DOMAIN versions \subseteq DOMAIN versions' /\ Kept
    <2>1. /\ DOMAIN versions \subseteq DOMAIN versions'
          /\ \A v \in DOMAIN versions : versions'[v] = versions[v]
      BY <1>5 DEF AddPlanVersion, TypeOK
    <2>. QED
      BY <1>1, <2>1
  <1>6. \/ UNCHANGED versions
        \/ \E h \in Handlers : InvalidateVersions(h)
        \/ \E v \in DOMAIN versions, u \in Users : ApprovePlan(v, u)
        \/ \E v \in DOMAIN versions : RevokeApproval(v)
        \/ \E i \in DOMAIN instances, s \in Scenarios, r \in Verdicts :
             AddPlanVersion(i, s, r)
    BY DEF Next, Serve, UploadStep, AddInstance, RevokeStaleApprovals, Crash, vars
  <1>7. CASE UNCHANGED versions
    BY <1>1, <1>7 DEF Same
  <1>8. DOMAIN versions \subseteq DOMAIN versions' /\ Kept
    BY <1>2, <1>3, <1>4, <1>5, <1>6, <1>7 DEF Same
  <1>9. \/ DOMAIN versions' = DOMAIN versions
        \/ \E i \in DOMAIN instances, s \in Scenarios, r \in Verdicts :
             AddPlanVersion(i, s, r)
    BY <1>2, <1>3, <1>4, <1>6
  <1>. QED
    BY <1>8, <1>9 DEF Same

(* What each operation writes into the columns of the tables. *)
LEMMA InvalidateWrites ==
  ASSUME TypeOK, NEW h \in Handlers, InvalidateVersions(h)
  PROVE  /\ DOMAIN versions' = DOMAIN versions
         /\ \A v \in DOMAIN versions :
              /\ versions'[v].status = IF v \in Outdated(h) THEN "invalidated"
                                       ELSE versions[v].status
              /\ versions'[v].approved_by = versions[v].approved_by
              /\ versions'[v].approved_at = versions[v].approved_at
              /\ v \notin Outdated(h) => versions'[v] = versions[v]
  <1>1. DOMAIN versions' = DOMAIN versions
    BY DEF InvalidateVersions
  <1>2. ASSUME NEW v \in DOMAIN versions, v \in Outdated(h)
        PROVE  /\ versions'[v].status = "invalidated"
               /\ versions'[v].approved_by = versions[v].approved_by
               /\ versions'[v].approved_at = versions[v].approved_at
    <2>1. versions'[v] = [versions[v] EXCEPT !.status = "invalidated"]
      BY <1>2 DEF InvalidateVersions
    <2>. QED
      BY <2>1, Rows DEF PlanVersion
  <1>3. \A v \in DOMAIN versions : v \notin Outdated(h) => versions'[v] = versions[v]
    BY DEF InvalidateVersions
  <1>. QED
    BY <1>1, <1>2, <1>3

LEMMA ApproveWrites ==
  ASSUME TypeOK, NEW v \in DOMAIN versions, NEW u \in Users, ApprovePlan(v, u)
  PROVE  /\ DOMAIN versions' = DOMAIN versions
         /\ versions'[v].status = "approved"
         /\ versions'[v].approved_by = u
         /\ versions'[v].approved_at = TRUE
         /\ \A w \in DOMAIN versions : w # v =>
              /\ versions'[w].status =
                   IF SameGroup(v, w) /\ versions[w].status = "approved"
                   THEN "superseded" ELSE versions[w].status
              /\ versions'[w].approved_by = versions[w].approved_by
              /\ versions'[w].approved_at = versions[w].approved_at
  <1>1. versions' \in [DOMAIN versions -> PlanVersion]
    BY ApprovedTable
  <1>2. /\ versions'[v].status = "approved"
        /\ versions'[v].approved_by = u
        /\ versions'[v].approved_at = TRUE
    <2>1. versions'[v] = [versions[v] EXCEPT !.status = "approved", !.approved_by = u,
                                             !.approved_at = TRUE]
      BY ApprovedTable
    <2>. QED
      BY <2>1, Rows DEF PlanVersion
  <1>3. ASSUME NEW w \in DOMAIN versions, w # v
        PROVE  /\ versions'[w].status =
                    IF SameGroup(v, w) /\ versions[w].status = "approved"
                    THEN "superseded" ELSE versions[w].status
               /\ versions'[w].approved_by = versions[w].approved_by
               /\ versions'[w].approved_at = versions[w].approved_at
    <2>1. versions'[w] = IF SameGroup(v, w) /\ versions[w].status = "approved"
                         THEN [versions[w] EXCEPT !.status = "superseded"]
                         ELSE versions[w]
      BY <1>3, ApprovedTable
    <2>. QED
      BY <2>1, Rows DEF PlanVersion
  <1>. QED
    BY <1>1, <1>2, <1>3

LEMMA ApprovalRow ==
  ASSUME TypeOK, NEW y \in DOMAIN versions, NEW u \in Users, ApprovePlan(y, u)
  PROVE  \E e \in Nat :
           /\ DOMAIN approvals' = DOMAIN approvals \cup {e}
           /\ e \notin DOMAIN approvals
           /\ \A b \in DOMAIN approvals : b \in Nat /\ b < e
           /\ \A b \in DOMAIN approvals : approvals'[b] = approvals[b]
           /\ approvals'[e].plan_version_id = y
           /\ approvals'[e].approved_by = u
           /\ approvals'[e].revoked = FALSE
  <1> DEFINE row == [plan_version_id |-> y, approved_by |-> u, revoked |-> FALSE]
  <1>1. row \in Approval
    BY Rows DEF Approval
  <1>2. approvals' = Append(approvals, row) /\ approvals \in Seq(Approval)
    BY DEF ApprovePlan, TypeOK
  <1>3. row.plan_version_id = y /\ row.approved_by = u /\ row.revoked = FALSE
    OBVIOUS
  <1>. HIDE DEF row
  <1>4. /\ DOMAIN approvals' = DOMAIN approvals \cup {Len(approvals) + 1}
        /\ Len(approvals) + 1 \notin DOMAIN approvals
        /\ \A a \in DOMAIN approvals : approvals'[a] = approvals[a]
        /\ approvals'[Len(approvals) + 1] = row
    BY <1>1, <1>2, InsertedRow
  <1>5. /\ Len(approvals) + 1 \in Nat
        /\ \A a \in DOMAIN approvals : a \in Nat /\ a < Len(approvals) + 1
    BY Rows
  <1>. QED
    BY <1>3, <1>4, <1>5

LEMMA RevokeWrites ==
  ASSUME TypeOK, NEW v \in DOMAIN versions, RevokeApproval(v)
  PROVE  /\ DOMAIN versions' = DOMAIN versions
         /\ versions'[v].status = "draft"
         /\ versions'[v].approved_by = NoUser
         /\ versions'[v].approved_at = FALSE
         /\ \A w \in DOMAIN versions : w # v => versions'[w] = versions[w]
  BY Rows DEF RevokeApproval, PlanVersion

LEMMA RevokedRows ==
  ASSUME TypeOK, NEW v \in DOMAIN versions, RevokeApproval(v)
  PROVE  /\ DOMAIN approvals' = DOMAIN approvals
         /\ \A a \in DOMAIN approvals :
              /\ approvals'[a].plan_version_id = approvals[a].plan_version_id
              /\ approvals'[a].approved_by = approvals[a].approved_by
              /\ approvals'[a].revoked =
                   IF approvals[a].plan_version_id = v THEN TRUE
                   ELSE approvals[a].revoked
  BY Rows DEF RevokeApproval, Approval

LEMMA RevokeStaleWrites ==
  ASSUME TypeOK, NEW h \in Handlers, RevokeStaleApprovals(h)
  PROVE  /\ UNCHANGED versions
         /\ DOMAIN approvals' = DOMAIN approvals
         /\ \A a \in DOMAIN approvals :
              /\ approvals'[a].plan_version_id = approvals[a].plan_version_id
              /\ approvals'[a].approved_by = approvals[a].approved_by
              /\ approvals'[a].revoked =
                   IF approvals[a].plan_version_id
                        \in OfReplacedInput(upload[h].instance) THEN TRUE
                   ELSE approvals[a].revoked
  BY Rows DEF RevokeStaleApprovals, Approval

(* A version inserted by AddPlanVersion. *)
LEMMA InsertedVersion ==
  ASSUME TypeOK, NumberedInOrder,
         NEW i \in DOMAIN instances, NEW s \in Scenarios, NEW r \in Verdicts,
         AddPlanVersion(i, s, r)
  PROVE  /\ DOMAIN versions' = DOMAIN versions \cup {Len(versions) + 1}
         /\ Len(versions) + 1 \notin DOMAIN versions
         /\ \A v \in DOMAIN versions : versions'[v] = versions[v] /\ v < Len(versions) + 1
         /\ versions'[Len(versions) + 1] = NewRow(i, s, r)
         /\ versions'[Len(versions) + 1].status = "draft"
         /\ versions'[Len(versions) + 1].approved_by = NoUser
         /\ versions'[Len(versions) + 1].approved_at = FALSE
  <1>1. versions' = Append(versions, NewRow(i, s, r))
    BY DEF AddPlanVersion, NewRow
  <1>2. NewRow(i, s, r) \in PlanVersion /\ versions \in Seq(PlanVersion)
    BY NewRowType DEF TypeOK
  <1>3. /\ NewRow(i, s, r).status = "draft"
        /\ NewRow(i, s, r).approved_by = NoUser
        /\ NewRow(i, s, r).approved_at = FALSE
    BY DEF NewRow
  <1>. QED
    BY <1>1, <1>2, <1>3, InsertedRow, Rows

LEMMA NumberStep ==
  ASSUME TypeOK, NumberedInOrder, [Next]_vars
  PROVE  NumberedInOrder'
  <1> DEFINE Rank(v) == {w \in DOMAIN versions : w < v /\ SameGroup(v, w)}
             NewRank(v) == {w \in DOMAIN versions' :
                              /\ w < v
                              /\ <<versions'[v].project_id, versions'[v].scenario>>
                                   = <<versions'[w].project_id, versions'[w].scenario>>}
  <1>1. SUFFICES ASSUME NEW v \in DOMAIN versions'
                 PROVE  versions'[v].version_no = 1 + Cardinality(NewRank(v))
    BY DEF NumberedInOrder, SameGroup, Group
  <1>2. TypeOK'
    BY TypeStep
  <1>3. DOMAIN versions' = 1..Len(versions') /\ Len(versions') \in Nat
    BY <1>2, LenProperties DEF TypeOK
  <1>4. CASE v \in DOMAIN versions
    <2>1. \A w \in DOMAIN versions' : w < v => w \in DOMAIN versions
      BY <1>3, <1>4, Rows
    <2>2. NewRank(v) = Rank(v)
      BY <1>4, <2>1, RowsStay DEF SameGroup, Group
    <2>3. versions[v].version_no = 1 + Cardinality(Rank(v))
      BY <1>4 DEF NumberedInOrder
    <2>. QED
      BY <1>4, <2>2, <2>3, RowsStay
  <1>5. CASE v \notin DOMAIN versions
    <2>1. PICK i \in DOMAIN instances, s \in Scenarios, r \in Verdicts :
            AddPlanVersion(i, s, r)
      BY <1>5, RowsStay
    <2>2. /\ DOMAIN versions' = DOMAIN versions \cup {Len(versions) + 1}
          /\ \A w \in DOMAIN versions : versions'[w] = versions[w] /\ w < Len(versions) + 1
          /\ versions'[Len(versions) + 1] = NewRow(i, s, r)
          /\ Len(versions) \in Nat
      BY <2>1, InsertedVersion, Rows
    <2>3. v = Len(versions) + 1
      BY <1>5, <2>2
    <2> DEFINE p == instances[i].project_id
               G == {w \in DOMAIN versions : Group(w) = <<p, s>>}
    <2>4. /\ versions'[v].project_id = p
          /\ versions'[v].scenario = s
          /\ versions'[v].version_no = NextVersionNo(p, s)
      BY <2>2, <2>3 DEF NewRow
    <2>5. NewRank(v) = G
      <3>1. \A w \in DOMAIN versions' : w < v <=> w \in DOMAIN versions
        BY <2>2, <2>3
      <3>2. \A w \in DOMAIN versions : Group(w) = <<versions'[w].project_id, versions'[w].scenario>>
        BY <2>2 DEF Group
      <3>. QED
        BY <2>2, <2>4, <3>1, <3>2
    <2>6. NextVersionNo(p, s) = 1 + Cardinality(G)
      BY NextNumber
    <2>. QED
      BY <2>4, <2>5, <2>6
  <1>. QED
    BY <1>4, <1>5

(* The tables keep their types (TypeOK), and versions are numbered in row  *)
(* order per project and scenario (NumberedInOrder): the second makes the  *)
(* maximum that AddPlanVersion reads exist.                                *)
THEOREM Numbering == Spec => [](TypeOK /\ NumberedInOrder)
  <1>1. Init => TypeOK /\ NumberedInOrder
    <2>. SUFFICES ASSUME Init PROVE TypeOK /\ NumberedInOrder
      OBVIOUS
    <2>1. /\ <<>> \in Seq(InstanceRec) /\ <<>> \in Seq(PlanVersion)
          /\ <<>> \in Seq(Approval) /\ DOMAIN <<>> = {}
      OBVIOUS
    <2>2. TypeOK
      BY <2>1 DEF Init, TypeOK, Upload, Idle
    <2>3. NumberedInOrder
      BY DEF Init, NumberedInOrder
    <2>. QED
      BY <2>2, <2>3
  <1>2. TypeOK /\ NumberedInOrder /\ [Next]_vars => (TypeOK /\ NumberedInOrder)'
    BY TypeStep, NumberStep
  <1>. QED
    BY <1>1, <1>2, PTL DEF Spec

(* Every row of the store keeps its type, whatever is uploaded, recorded,  *)
(* approved, superseded or lost in a crash.                                *)
THEOREM StoreTyped == Spec => []TypeOK
  BY Numbering, PTL

-----------------------------------------------------------------------------
(* One approved version per project and scenario *)

LEMMA OneApprovedStep ==
  ASSUME TypeOK, NumberedInOrder, OneApproved, [Next]_vars
  PROVE  OneApproved'
  <1>1. SUFFICES ASSUME NEW v \in DOMAIN versions', NEW w \in DOMAIN versions',
                        versions'[v].status = "approved",
                        versions'[w].status = "approved",
                        versions'[v].project_id = versions'[w].project_id,
                        versions'[v].scenario = versions'[w].scenario,
                        v # w
                 PROVE  FALSE
    BY DEF OneApproved, SameGroup, Group
  <1>2. ASSUME v \in DOMAIN versions, w \in DOMAIN versions
        PROVE  SameGroup(v, w) /\ SameGroup(w, v)
    BY <1>1, <1>2, RowsStay DEF SameGroup, Group
  <1>3. ASSUME NEW h \in Handlers, InvalidateVersions(h) PROVE FALSE
    BY <1>1, <1>2, <1>3, InvalidateWrites DEF OneApproved
  <1>4. ASSUME NEW x \in DOMAIN versions, NEW u \in Users, ApprovePlan(x, u)
        PROVE  FALSE
    BY <1>1, <1>2, <1>4, ApproveWrites DEF OneApproved
  <1>5. ASSUME NEW x \in DOMAIN versions, RevokeApproval(x) PROVE FALSE
    BY <1>1, <1>2, <1>5, RevokeWrites DEF OneApproved
  <1>6. ASSUME NEW i \in DOMAIN instances, NEW s \in Scenarios, NEW r \in Verdicts,
               AddPlanVersion(i, s, r)
        PROVE  FALSE
    <2>1. versions'[Len(versions) + 1].status = "draft"
      BY <1>6, InsertedVersion
    <2>. QED
      BY <1>1, <1>2, <1>6, <2>1, InsertedVersion DEF OneApproved
  <1>7. ASSUME UNCHANGED versions PROVE FALSE
    BY <1>1, <1>2, <1>7 DEF OneApproved
  <1>. QED
    BY <1>3, <1>4, <1>5, <1>6, <1>7
    DEF Next, Serve, UploadStep, AddInstance, RevokeStaleApprovals, Crash, vars

(* At most one version of a project and scenario stands approved           *)
(* (OneApproved), for any number of projects, approvers and uploads.       *)
THEOREM Exclusive == Spec => []OneApproved
  <1>1. Init => OneApproved
    BY DEF Init, OneApproved
  <1>2. TypeOK /\ NumberedInOrder /\ OneApproved /\ [Next]_vars => OneApproved'
    BY OneApprovedStep
  <1>. QED
    BY <1>1, <1>2, Numbering, PTL DEF Spec

-----------------------------------------------------------------------------
(* What approval dates and status changes mean *)

LEMMA CheckedStep ==
  ASSUME TypeOK, NumberedInOrder, PublishedWasChecked, [Next]_vars
  PROVE  PublishedWasChecked'
  <1>1. SUFFICES ASSUME NEW v \in DOMAIN versions', versions'[v].approved_at
                 PROVE  versions'[v].feasible /\ ~versions'[v].is_fallback
    BY DEF PublishedWasChecked
  <1>2. ASSUME v \in DOMAIN versions, versions[v].approved_at
        PROVE  versions'[v].feasible /\ ~versions'[v].is_fallback
    BY <1>2, RowsStay DEF PublishedWasChecked
  <1>3. ASSUME NEW h \in Handlers, InvalidateVersions(h)
        PROVE  versions'[v].feasible /\ ~versions'[v].is_fallback
    BY <1>1, <1>2, <1>3, InvalidateWrites
  <1>4. ASSUME NEW x \in DOMAIN versions, NEW u \in Users, ApprovePlan(x, u)
        PROVE  versions'[v].feasible /\ ~versions'[v].is_fallback
    <2>1. versions[x].feasible /\ ~versions[x].is_fallback
      BY <1>4 DEF ApprovePlan, Approvable
    <2>2. v \in DOMAIN versions
      BY <1>4, ApproveWrites
    <2>3. CASE v = x
      BY <2>1, <2>3, RowsStay
    <2>4. CASE v # x
      BY <1>1, <1>2, <1>4, <2>2, <2>4, ApproveWrites
    <2>. QED
      BY <2>3, <2>4
  <1>5. ASSUME NEW x \in DOMAIN versions, RevokeApproval(x)
        PROVE  versions'[v].feasible /\ ~versions'[v].is_fallback
    BY <1>1, <1>2, <1>5, RevokeWrites
  <1>6. ASSUME NEW i \in DOMAIN instances, NEW s \in Scenarios, NEW r \in Verdicts,
               AddPlanVersion(i, s, r)
        PROVE  versions'[v].feasible /\ ~versions'[v].is_fallback
    <2>1. versions'[Len(versions) + 1].approved_at = FALSE
      BY <1>6, InsertedVersion
    <2>. QED
      BY <1>1, <1>2, <1>6, <2>1, InsertedVersion
  <1>7. ASSUME UNCHANGED versions
        PROVE  versions'[v].feasible /\ ~versions'[v].is_fallback
    BY <1>1, <1>2, <1>7
  <1>. QED
    BY <1>3, <1>4, <1>5, <1>6, <1>7
    DEF Next, Serve, UploadStep, AddInstance, RevokeStaleApprovals, Crash, vars

(* Whatever carries an approval date was feasible and not a fallback plan  *)
(* (PublishedWasChecked).                                                  *)
THEOREM Checked == Spec => []PublishedWasChecked
  <1>1. Init => PublishedWasChecked
    BY DEF Init, PublishedWasChecked
  <1>2. TypeOK /\ NumberedInOrder /\ PublishedWasChecked /\ [Next]_vars
          => PublishedWasChecked'
    BY CheckedStep
  <1>. QED
    BY <1>1, <1>2, Numbering, PTL DEF Spec

(* What the validator found to break a rule is not called feasible: rows    *)
(* keep what their solve reported.                                         *)
ViolatedIsTold == \A v \in DOMAIN versions : versions[v].violated => ~versions[v].feasible

LEMMA Told == Spec => []ViolatedIsTold
  <1>1. Init => ViolatedIsTold
    BY DEF Init, ViolatedIsTold
  <1>2. ASSUME TypeOK, NumberedInOrder, ViolatedIsTold, [Next]_vars
        PROVE  ViolatedIsTold'
    <2>1. SUFFICES ASSUME NEW v \in DOMAIN versions', versions'[v].violated
                   PROVE  ~versions'[v].feasible
      BY DEF ViolatedIsTold
    <2>2. CASE v \in DOMAIN versions
      BY <1>2, <2>1, <2>2, RowsStay DEF ViolatedIsTold
    <2>3. CASE v \notin DOMAIN versions
      <3>1. PICK i \in DOMAIN instances, s \in Scenarios, r \in Verdicts :
              AddPlanVersion(i, s, r)
        BY <1>2, <2>1, <2>3, RowsStay
      <3>2. v = Len(versions) + 1 /\ versions'[v] = NewRow(i, s, r)
        BY <1>2, <2>1, <2>3, <3>1, InsertedVersion
      <3>3. r.violated => ~r.feasible
        BY StoreAssumption
      <3>. QED
        BY <2>1, <3>2, <3>3 DEF NewRow
    <2>. QED
      BY <2>2, <2>3
  <1>. QED
    BY <1>1, <1>2, Numbering, PTL DEF Spec

LEMMA StatusStep ==
  ASSUME TypeOK, NumberedInOrder, [Next]_vars
  PROVE  [\A v \in DOMAIN versions :
            \/ versions'[v].status = versions[v].status
            \/ <<versions[v].status, versions'[v].status>> \in StatusEdges]_vars
  <1>1. SUFFICES ASSUME NEW v \in DOMAIN versions
                 PROVE  \/ versions'[v].status = versions[v].status
                        \/ <<versions[v].status, versions'[v].status>> \in StatusEdges
    OBVIOUS
  <1>2. ASSUME NEW h \in Handlers, InvalidateVersions(h)
        PROVE  \/ versions'[v].status = versions[v].status
               \/ <<versions[v].status, versions'[v].status>> \in StatusEdges
    BY <1>2, InvalidateWrites DEF Outdated, StatusEdges
  <1>3. ASSUME NEW x \in DOMAIN versions, NEW u \in Users, ApprovePlan(x, u)
        PROVE  \/ versions'[v].status = versions[v].status
               \/ <<versions[v].status, versions'[v].status>> \in StatusEdges
    <2>1. versions[x].status = "draft"
      BY <1>3 DEF ApprovePlan, Approvable
    <2>2. CASE v = x
      BY <1>3, <2>1, <2>2, ApproveWrites DEF StatusEdges
    <2>3. CASE v # x
      <3>1. versions'[v].status = IF SameGroup(x, v) /\ versions[v].status = "approved"
                                  THEN "superseded" ELSE versions[v].status
        BY <1>3, <2>3, ApproveWrites
      <3>. QED
        BY <3>1 DEF StatusEdges
    <2>. QED
      BY <2>2, <2>3
  <1>4. ASSUME NEW x \in DOMAIN versions, RevokeApproval(x)
        PROVE  \/ versions'[v].status = versions[v].status
               \/ <<versions[v].status, versions'[v].status>> \in StatusEdges
    <2>1. versions[x].status = "approved"
      BY <1>4 DEF RevokeApproval
    <2>. QED
      BY <1>4, <2>1, RevokeWrites DEF StatusEdges
  <1>5. ASSUME NEW i \in DOMAIN instances, NEW s \in Scenarios, NEW r \in Verdicts,
               AddPlanVersion(i, s, r)
        PROVE  versions'[v].status = versions[v].status
    BY <1>5, InsertedVersion
  <1>. QED
    BY <1>2, <1>3, <1>4, <1>5
    DEF Next, Serve, UploadStep, AddInstance, RevokeStaleApprovals, Crash, vars

(* Superseded and invalidated are final, and nothing is approved but a     *)
(* draft (StatusMoves).                                                    *)
THEOREM StatusMovesAlways == Spec => StatusMoves
  <1>1. TypeOK /\ NumberedInOrder /\ [Next]_vars
          => [\A v \in DOMAIN versions :
                \/ versions'[v].status = versions[v].status
                \/ <<versions[v].status, versions'[v].status>> \in StatusEdges]_vars
    BY StatusStep
  <1>. QED
    BY <1>1, Numbering, PTL DEF Spec, StatusMoves

-----------------------------------------------------------------------------
(* The version table and the approval history *)

(* Two facts without which neither half of the agreement is inductive: an  *)
(* approval row names an existing version, and once the first statement of *)
(* an invalidation has run, no plan of the replaced inputs is left that    *)
(* stands approved or could be.                                            *)
RowsPoint == \A a \in DOMAIN approvals : approvals[a].plan_version_id \in DOMAIN versions

MarkedDone ==
  \A h \in Handlers : upload[h].at = "marked" =>
    \A v \in OfReplacedInput(upload[h].instance) :
      versions[v].status \notin {"approved", "draft"}

LEMMA RowsPointStep ==
  ASSUME TypeOK, RowsPoint, [Next]_vars
  PROVE  RowsPoint'
  <1>1. SUFFICES ASSUME NEW a \in DOMAIN approvals'
                 PROVE  approvals'[a].plan_version_id \in DOMAIN versions
    BY RowsStay DEF RowsPoint
  <1>2. ASSUME UNCHANGED approvals
        PROVE  approvals'[a].plan_version_id \in DOMAIN versions
    BY <1>1, <1>2 DEF RowsPoint
  <1>3. ASSUME NEW h \in Handlers, RevokeStaleApprovals(h)
        PROVE  approvals'[a].plan_version_id \in DOMAIN versions
    BY <1>1, <1>3, RevokeStaleWrites DEF RowsPoint
  <1>4. ASSUME NEW x \in DOMAIN versions, NEW u \in Users, ApprovePlan(x, u)
        PROVE  approvals'[a].plan_version_id \in DOMAIN versions
    <2>1. PICK e \in Nat :
            /\ DOMAIN approvals' = DOMAIN approvals \cup {e}
            /\ e \notin DOMAIN approvals
            /\ \A b \in DOMAIN approvals : b \in Nat /\ b < e
            /\ \A b \in DOMAIN approvals : approvals'[b] = approvals[b]
            /\ approvals'[e].plan_version_id = x
            /\ approvals'[e].approved_by = u
            /\ approvals'[e].revoked = FALSE
      BY <1>4, ApprovalRow, ZenonT(60)
    <2>. QED
      BY <1>1, <2>1 DEF RowsPoint
  <1>5. ASSUME NEW x \in DOMAIN versions, RevokeApproval(x)
        PROVE  approvals'[a].plan_version_id \in DOMAIN versions
    BY <1>1, <1>5, RevokedRows DEF RowsPoint
  <1>. QED
    BY <1>2, <1>3, <1>4, <1>5
    DEF Next, Serve, UploadStep, AddInstance, InvalidateVersions, AddPlanVersion, Crash, vars

LEMMA MarkedStep ==
  ASSUME TypeOK, MarkedDone, [Next]_vars
  PROVE  MarkedDone'
  <1>1. SUFFICES ASSUME NEW h \in Handlers, upload'[h].at = "marked",
                        NEW v \in DOMAIN versions',
                        versions'[v].project_id = instances'[upload'[h].instance].project_id,
                        versions'[v].input_hash # instances'[upload'[h].instance].input_hash
                 PROVE  versions'[v].status \notin {"approved", "draft"}
    BY DEF MarkedDone, OfReplacedInput
  <1>2. CASE StoreFree
    <2>1. upload[h].at # "marked"
      BY <1>2 DEF StoreFree
    <2>2. ASSUME NEW g \in Handlers, InvalidateVersions(g)
          PROVE  versions'[v].status \notin {"approved", "draft"}
      <3>1. /\ g = h
            /\ upload'[h].instance = upload[h].instance
        <4>1. upload \in [Handlers -> Upload]
          BY DEF TypeOK
        <4>2. upload' = [upload EXCEPT ![g] = IF Outdated(g) = {} THEN Idle
                                              ELSE [@ EXCEPT !.at = "marked"]]
          BY <2>2 DEF InvalidateVersions
        <4>3. g = h
          BY <1>1, <2>1, <4>1, <4>2
        <4>4. upload'[h] = Idle \/ upload'[h] = [upload[h] EXCEPT !.at = "marked"]
          BY <4>1, <4>2, <4>3
        <4>5. upload'[h] = [upload[h] EXCEPT !.at = "marked"]
          BY <1>1, <4>4 DEF Idle
        <4>. QED
          BY <4>1, <4>3, <4>5 DEF Upload
      <3>2. v \in DOMAIN versions /\ instances' = instances
        BY <1>1, <2>2, InvalidateWrites DEF InvalidateVersions
      <3>3. v \in OfReplacedInput(upload[h].instance)
        BY <1>1, <3>1, <3>2, RowsStay DEF OfReplacedInput
      <3>. QED
        BY <2>2, <3>1, <3>2, <3>3, InvalidateWrites DEF Outdated
    <2>3. ASSUME NEW g \in Handlers, NEW p \in Projects, NEW x \in Hashes,
                 AddInstance(g, p, x)
          PROVE  FALSE
      BY <1>1, <2>1, <2>3 DEF AddInstance, TypeOK
    <2>4. ASSUME NEW g \in Handlers, RevokeStaleApprovals(g)
          PROVE  FALSE
      BY <1>2, <2>4 DEF RevokeStaleApprovals, StoreFree
    <2>5. CASE Crash
      BY <1>1, <2>5 DEF Crash, Idle
    <2>6. ASSUME UNCHANGED upload
          PROVE  FALSE
      BY <1>1, <2>1, <2>6
    <2>. QED
      BY <2>2, <2>3, <2>4, <2>5, <2>6
      DEF Next, Serve, UploadStep, AddPlanVersion, ApprovePlan, RevokeApproval, vars
  <1>3. CASE ~StoreFree
    <2>1. UNCHANGED <<instances, versions>>
      BY <1>3 DEF Next, Serve, UploadStep, AddInstance, InvalidateVersions, AddPlanVersion,
                  ApprovePlan, RevokeApproval, RevokeStaleApprovals, Crash, vars
    <2>2. upload'[h] = upload[h] \/ upload'[h] = Idle
      BY <1>3 DEF Next, Serve, UploadStep, AddInstance, InvalidateVersions, AddPlanVersion,
                  ApprovePlan, RevokeApproval, RevokeStaleApprovals, Crash, vars, TypeOK
    <2>3. upload'[h] = upload[h]
      BY <1>1, <2>2 DEF Idle
    <2>. QED
      BY <1>1, <2>1, <2>3 DEF MarkedDone, OfReplacedInput
  <1>. QED
    BY <1>2, <1>3

(* What is the last approval of a project and scenario stays so while no   *)
(* approval is written.                                                    *)
LEMMA LastKept ==
  ASSUME TypeOK, RowsPoint, [Next]_vars,
         DOMAIN approvals' = DOMAIN approvals,
         \A a \in DOMAIN approvals :
           approvals'[a].plan_version_id = approvals[a].plan_version_id,
         NEW a \in DOMAIN approvals, NEW v \in DOMAIN versions
  PROVE  LastOfGroup(a, v)' <=> LastOfGroup(a, v)
  <1>1. ASSUME NEW b \in DOMAIN approvals
        PROVE  SameGroup(approvals[b].plan_version_id, v)'
                 <=> SameGroup(approvals[b].plan_version_id, v)
    <2> DEFINE w == approvals[b].plan_version_id
    <2>1. w \in DOMAIN versions
      BY DEF RowsPoint
    <2>2. approvals'[b].plan_version_id = w
      OBVIOUS
    <2>3. /\ versions'[v].project_id = versions[v].project_id
          /\ versions'[v].scenario = versions[v].scenario
          /\ versions'[w].project_id = versions[w].project_id
          /\ versions'[w].scenario = versions[w].scenario
      BY <2>1, RowsStay
    <2>. QED
      BY <2>2, <2>3 DEF SameGroup, Group
  <1>. QED
    BY <1>1 DEF LastOfGroup

(* The part of LedgerAgrees that concerns one version, and of OpenRowStands. *)
Agrees(v) ==
  /\ versions[v].status = "approved" =>
       \E a \in OpenRows(v) : /\ approvals[a].approved_by = versions[v].approved_by
                              /\ LastOfGroup(a, v)
  /\ versions[v].status = "draft" =>
       /\ OpenRows(v) = {}
       /\ versions[v].approved_by = NoUser
       /\ ~versions[v].approved_at
  /\ \A a, b \in OpenRows(v) : a = b

(* A version whose row is not rewritten keeps its agreement while the      *)
(* history is.                                                             *)
LEMMA AgreesKept ==
  ASSUME TypeOK, RowsPoint, [Next]_vars,
         UNCHANGED approvals,
         NEW v \in DOMAIN versions, Agrees(v),
         \/ versions'[v].status = versions[v].status
         \/ versions'[v].status \notin {"approved", "draft"},
         versions'[v].approved_by = versions[v].approved_by,
         versions'[v].approved_at = versions[v].approved_at
  PROVE  Agrees(v)'
  <1>1. OpenRows(v)' = OpenRows(v)
    BY DEF OpenRows
  <1>2. \A a \in OpenRows(v) : LastOfGroup(a, v)' <=> LastOfGroup(a, v)
    BY LastKept DEF OpenRows
  <1>. QED
    BY <1>1, <1>2 DEF Agrees

LEMMA AgreesApproving ==
  ASSUME TypeOK, RowsPoint, [Next]_vars,
         NEW x \in DOMAIN versions, NEW u \in Users, ApprovePlan(x, u), Agrees(x),
         NEW v \in DOMAIN versions, Agrees(v)
  PROVE  Agrees(v)'
  <1>2. versions[x].status = "draft"
    BY DEF ApprovePlan, Approvable
  <1>3. PICK e \in Nat :
          /\ DOMAIN approvals' = DOMAIN approvals \cup {e}
          /\ e \notin DOMAIN approvals
          /\ \A b \in DOMAIN approvals : b \in Nat /\ b < e
          /\ \A b \in DOMAIN approvals : approvals'[b] = approvals[b]
          /\ approvals'[e].plan_version_id = x
          /\ approvals'[e].approved_by = u
          /\ approvals'[e].revoked = FALSE
    BY ApprovalRow, ZenonT(60)
  <1>4. \A a \in DOMAIN approvals' : a \in DOMAIN approvals \/ a = e
    BY <1>3
  <1>5. \A a \in DOMAIN approvals : approvals'[a] = approvals[a]
    BY <1>3
  <1>6. CASE v = x
    <2>1. OpenRows(x) = {}
      BY <1>2 DEF Agrees
    <2>2. OpenRows(v)' = {e}
      BY <1>3, <1>6, <2>1 DEF OpenRows
    <2>3. LastOfGroup(e, v)'
      <3>1. \A b \in DOMAIN approvals' : ~(b > e)
        BY <1>3
      <3>. QED
        BY <3>1 DEF LastOfGroup
    <2>4. versions'[v].status = "approved" /\ versions'[v].approved_by = u
      BY <1>6, ApproveWrites
    <2>. QED
      BY <1>3, <2>2, <2>3, <2>4 DEF Agrees
  <1>7. CASE v # x
    <2>1. OpenRows(v)' = OpenRows(v)
      BY <1>3, <1>7 DEF OpenRows
    <2>2. versions'[v].status =
            IF SameGroup(x, v) /\ versions[v].status = "approved"
            THEN "superseded" ELSE versions[v].status
      BY <1>7, ApproveWrites
    <2>3. /\ versions'[v].approved_by = versions[v].approved_by
          /\ versions'[v].approved_at = versions[v].approved_at
      BY <1>7, ApproveWrites
    <2>4. CASE versions'[v].status = "approved"
      <3>1. versions[v].status = "approved" /\ ~SameGroup(x, v)
        BY <2>2, <2>4
      <3>2. PICK a \in OpenRows(v) : /\ approvals[a].approved_by = versions[v].approved_by
                                     /\ LastOfGroup(a, v)
        BY <3>1 DEF Agrees
      <3>3. ASSUME NEW b \in DOMAIN approvals', b > a
            PROVE  ~SameGroup(approvals[b].plan_version_id, v)'
        <4>1. CASE b = e
          <5>1. ~SameGroup(x, v)'
            BY <3>1, RowsStay DEF SameGroup, Group
          <5>. QED
            BY <1>3, <4>1, <5>1 DEF SameGroup, Group
        <4>2. CASE b \in DOMAIN approvals
          <5>1. ~SameGroup(approvals[b].plan_version_id, v)
            BY <3>2, <3>3, <4>2 DEF LastOfGroup
          <5>2. approvals[b].plan_version_id \in DOMAIN versions
            BY <4>2 DEF RowsPoint
          <5>. QED
            BY <1>5, <4>2, <5>1, <5>2, RowsStay DEF SameGroup, Group
        <4>. QED
          BY <1>4, <4>1, <4>2
      <3>4. LastOfGroup(a, v)'
        BY <3>3 DEF LastOfGroup
      <3>5. approvals'[a] = approvals[a]
        BY <1>5, <3>2 DEF OpenRows
      <3>. QED
        BY <2>1, <2>3, <2>4, <3>2, <3>4, <3>5 DEF Agrees
    <2>5. CASE versions'[v].status # "approved"
      <3>1. versions'[v].status = "draft" => versions[v].status = "draft"
        BY <2>2
      <3>. QED
        BY <2>1, <2>3, <2>5, <3>1 DEF Agrees
    <2>. QED
      BY <2>4, <2>5
  <1>. QED
    BY <1>6, <1>7

LEMMA AgreesRevoking ==
  ASSUME TypeOK, RowsPoint, [Next]_vars,
         NEW x \in DOMAIN versions, RevokeApproval(x),
         NEW v \in DOMAIN versions, Agrees(v)
  PROVE  Agrees(v)'
  <1>1. DOMAIN approvals' = DOMAIN approvals
    BY RevokedRows
  <1>2. CASE v = x
    <2>1. OpenRows(v)' = {}
      <3>1. \A a \in DOMAIN approvals' :
              approvals'[a].plan_version_id = v => approvals'[a].revoked
        BY <1>1, <1>2, RevokedRows
      <3>. QED
        BY <3>1 DEF OpenRows
    <2>. QED
      BY <1>2, <2>1, RevokeWrites DEF Agrees
  <1>3. CASE v # x
    <2>1. versions'[v] = versions[v]
      BY <1>3, RevokeWrites
    <2>2. OpenRows(v)' = OpenRows(v)
      BY <1>3, RevokedRows DEF OpenRows
    <2>3. \A a \in OpenRows(v) : LastOfGroup(a, v)' <=> LastOfGroup(a, v)
      BY RevokedRows, LastKept DEF OpenRows
    <2>4. \A a \in OpenRows(v) : approvals'[a].approved_by = approvals[a].approved_by
      BY RevokedRows DEF OpenRows
    <2>. QED
      BY <2>1, <2>2, <2>3, <2>4 DEF Agrees
  <1>. QED
    BY <1>2, <1>3

LEMMA AgreesStep ==
  ASSUME TypeOK, NumberedInOrder, OneApproved, RowsPoint, MarkedDone, LedgerAgrees,
         [Next]_vars
  PROVE  LedgerAgrees'
  <1>1. SUFFICES ASSUME NEW v \in DOMAIN versions' PROVE Agrees(v)'
    BY DEF LedgerAgrees, Agrees
  <1>2. \A w \in DOMAIN versions : Agrees(w)
    BY DEF LedgerAgrees, Agrees
  <1>3. ASSUME UNCHANGED <<versions, approvals>> PROVE Agrees(v)'
    BY <1>1, <1>2, <1>3, AgreesKept
  <1>4. ASSUME NEW h \in Handlers, InvalidateVersions(h) PROVE Agrees(v)'
    <2>1. UNCHANGED approvals
      BY <1>4 DEF InvalidateVersions
    <2>2. v \in DOMAIN versions
      BY <1>4, InvalidateWrites
    <2>3. /\ \/ versions'[v].status = versions[v].status
             \/ versions'[v].status = "invalidated"
          /\ versions'[v].approved_by = versions[v].approved_by
          /\ versions'[v].approved_at = versions[v].approved_at
      BY <1>4, <2>2, InvalidateWrites
    <2>. QED
      BY <1>2, <2>1, <2>2, <2>3, AgreesKept
  <1>5. ASSUME NEW h \in Handlers, RevokeStaleApprovals(h) PROVE Agrees(v)'
    <2> DEFINE i == upload[h].instance
    <2>1. versions' = versions /\ v \in DOMAIN versions
      BY <1>5, RevokeStaleWrites
    <2>2. OpenRows(v)' \subseteq OpenRows(v)
      BY <1>5, RevokeStaleWrites, Rows DEF OpenRows, Approval
    <2>3. upload[h].at = "marked"
      BY <1>5 DEF RevokeStaleApprovals
    <2>4. CASE versions[v].status = "approved"
      <3>1. v \notin OfReplacedInput(i)
        BY <2>3, <2>4 DEF MarkedDone
      <3>2. PICK a \in OpenRows(v) : /\ approvals[a].approved_by = versions[v].approved_by
                                     /\ LastOfGroup(a, v)
        BY <1>2, <2>1, <2>4 DEF Agrees
      <3>3. a \in DOMAIN approvals /\ approvals[a].plan_version_id = v /\ ~approvals[a].revoked
        BY <3>2 DEF OpenRows
      <3>4. a \in OpenRows(v)' /\ approvals'[a].approved_by = versions[v].approved_by
        BY <1>5, <3>1, <3>2, <3>3, RevokeStaleWrites DEF OpenRows
      <3>5. LastOfGroup(a, v)'
        BY <1>5, <2>1, <3>2, <3>3, RevokeStaleWrites, LastKept
      <3>. QED
        BY <1>2, <2>1, <2>2, <2>4, <3>4, <3>5 DEF Agrees
    <2>5. CASE versions[v].status # "approved"
      BY <1>2, <2>1, <2>2, <2>5 DEF Agrees
    <2>. QED
      BY <2>4, <2>5
  <1>6. ASSUME NEW x \in DOMAIN versions, NEW u \in Users, ApprovePlan(x, u)
        PROVE  Agrees(v)'
    <2>1. v \in DOMAIN versions
      BY <1>1, <1>6, ApproveWrites
    <2>. QED
      BY <1>2, <1>6, <2>1, AgreesApproving
  <1>7. ASSUME NEW x \in DOMAIN versions, RevokeApproval(x)
        PROVE  Agrees(v)'
    <2>1. v \in DOMAIN versions
      BY <1>1, <1>7, RevokeWrites
    <2>. QED
      BY <1>2, <1>7, <2>1, AgreesRevoking
  <1>8. ASSUME NEW i \in DOMAIN instances, NEW s \in Scenarios, NEW r \in Verdicts,
               AddPlanVersion(i, s, r)
        PROVE  Agrees(v)'
    <2>1. UNCHANGED approvals
      BY <1>8 DEF AddPlanVersion
    <2>2. CASE v \in DOMAIN versions
      <3>1. versions'[v] = versions[v]
        BY <1>8, <2>2, InsertedVersion
      <3>. QED
        BY <1>2, <2>1, <2>2, <3>1, AgreesKept
    <2>3. CASE v \notin DOMAIN versions
      <3>1. v = Len(versions) + 1
        BY <1>1, <1>8, <2>3, InsertedVersion
      <3>2. OpenRows(v)' = {}
        <4>1. \A a \in DOMAIN approvals : approvals[a].plan_version_id # v
          BY <2>3 DEF RowsPoint
        <4>2. OpenRows(v) = {}
          BY <4>1 DEF OpenRows
        <4>. QED
          BY <2>1, <4>2 DEF OpenRows
      <3>3. /\ versions'[v].status = "draft"
            /\ versions'[v].approved_by = NoUser
            /\ versions'[v].approved_at = FALSE
        BY <1>8, <3>1, InsertedVersion
      <3>. QED
        BY <3>2, <3>3 DEF Agrees
    <2>. QED
      BY <2>2, <2>3
  <1>. QED
    BY <1>3, <1>4, <1>5, <1>6, <1>7, <1>8
    DEF Next, Serve, UploadStep, AddInstance, Crash, vars

(* A fresh approval: its own version stands, and any other open row keeps *)
(* its place only in a group the new row does not belong to.              *)
LEMMA StandsApproving ==
  ASSUME TypeOK, RowsPoint, OpenRowStands, [Next]_vars,
         NEW x \in DOMAIN versions, NEW u \in Users, ApprovePlan(x, u),
         NEW v \in DOMAIN versions
  PROVE  \A a \in OpenRows(v)' :
           LastOfGroup(a, v)' => versions'[v].status \in {"approved", "invalidated"}
  <1>1. PICK e \in Nat :
          /\ DOMAIN approvals' = DOMAIN approvals \cup {e}
          /\ e \notin DOMAIN approvals
          /\ \A b \in DOMAIN approvals : b \in Nat /\ b < e
          /\ \A b \in DOMAIN approvals : approvals'[b] = approvals[b]
          /\ approvals'[e].plan_version_id = x
          /\ approvals'[e].approved_by = u
          /\ approvals'[e].revoked = FALSE
    BY ApprovalRow, ZenonT(60)
  <1>. SUFFICES ASSUME NEW a \in OpenRows(v)', LastOfGroup(a, v)'
                PROVE  versions'[v].status \in {"approved", "invalidated"}
    OBVIOUS
  <1>2. CASE v = x
    BY <1>2, ApproveWrites
  <1>3. CASE v # x
    <2>1. a \in DOMAIN approvals /\ a \in OpenRows(v)
      BY <1>1, <1>3 DEF OpenRows
    <2>2. ~SameGroup(x, v)
      <3>1. ~SameGroup(approvals[e].plan_version_id, v)'
        BY <1>1, <2>1 DEF LastOfGroup
      <3>. QED
        BY <1>1, <3>1, RowsStay DEF SameGroup, Group
    <2>3. ASSUME NEW b \in DOMAIN approvals, b > a
          PROVE  ~SameGroup(approvals[b].plan_version_id, v)
      <3>1. ~SameGroup(approvals[b].plan_version_id, v)'
        BY <1>1, <2>3 DEF LastOfGroup
      <3>2. approvals[b].plan_version_id \in DOMAIN versions
        BY <2>3 DEF RowsPoint
      <3>. QED
        BY <1>1, <2>3, <3>1, <3>2, RowsStay DEF SameGroup, Group
    <2>4. LastOfGroup(a, v)
      BY <2>3 DEF LastOfGroup
    <2>5. versions'[v].status = versions[v].status
      BY <1>3, <2>2, ApproveWrites
    <2>. QED
      BY <2>1, <2>4, <2>5 DEF OpenRowStands
  <1>. QED
    BY <1>2, <1>3

LEMMA StandsStep ==
  ASSUME TypeOK, NumberedInOrder, RowsPoint, OpenRowStands, [Next]_vars
  PROVE  OpenRowStands'
  <1>1. SUFFICES ASSUME NEW v \in DOMAIN versions', NEW a \in OpenRows(v)',
                        LastOfGroup(a, v)'
                 PROVE  versions'[v].status \in {"approved", "invalidated"}
    BY DEF OpenRowStands
  <1>2. ASSUME v \in DOMAIN versions, a \in OpenRows(v), LastOfGroup(a, v)
        PROVE  versions[v].status \in {"approved", "invalidated"}
    BY <1>2 DEF OpenRowStands
  <1>3. ASSUME UNCHANGED <<versions, approvals>>
        PROVE  versions'[v].status \in {"approved", "invalidated"}
    BY <1>1, <1>3 DEF OpenRowStands, OpenRows, LastOfGroup, SameGroup, Group
  <1>4. ASSUME NEW h \in Handlers, InvalidateVersions(h)
        PROVE  versions'[v].status \in {"approved", "invalidated"}
    <2>1. v \in DOMAIN versions /\ UNCHANGED approvals
      BY <1>1, <1>4, InvalidateWrites DEF InvalidateVersions
    <2>2. a \in OpenRows(v) /\ a \in DOMAIN approvals
      BY <1>1, <2>1 DEF OpenRows
    <2>3. LastOfGroup(a, v)
      BY <1>1, <2>1, <2>2, LastKept
    <2>. QED
      BY <1>2, <1>4, <2>1, <2>2, <2>3, InvalidateWrites
  <1>5. ASSUME NEW h \in Handlers, RevokeStaleApprovals(h)
        PROVE  versions'[v].status \in {"approved", "invalidated"}
    <2>1. versions' = versions /\ v \in DOMAIN versions
      BY <1>1, <1>5, RevokeStaleWrites
    <2>2. a \in OpenRows(v) /\ a \in DOMAIN approvals
      BY <1>1, <1>5, RevokeStaleWrites, Rows DEF OpenRows, Approval
    <2>3. LastOfGroup(a, v)
      BY <1>1, <1>5, <2>1, <2>2, RevokeStaleWrites, LastKept
    <2>. QED
      BY <1>2, <2>1, <2>2, <2>3
  <1>6. ASSUME NEW x \in DOMAIN versions, NEW u \in Users, ApprovePlan(x, u)
        PROVE  versions'[v].status \in {"approved", "invalidated"}
    <2>1. v \in DOMAIN versions
      BY <1>1, <1>6, ApproveWrites
    <2>. QED
      BY <1>1, <1>6, <2>1, StandsApproving
  <1>7. ASSUME NEW x \in DOMAIN versions, RevokeApproval(x)
        PROVE  versions'[v].status \in {"approved", "invalidated"}
    <2>1. v \in DOMAIN versions
      BY <1>1, <1>7, RevokeWrites
    <2>2. /\ a \in DOMAIN approvals
          /\ approvals[a].plan_version_id = v
          /\ v # x
          /\ ~approvals[a].revoked
      <3>1. /\ a \in DOMAIN approvals'
            /\ approvals'[a].plan_version_id = v
            /\ ~approvals'[a].revoked
        BY <1>1 DEF OpenRows
      <3>2. a \in DOMAIN approvals
        BY <1>7, <3>1, RevokedRows
      <3>3. /\ approvals'[a].plan_version_id = approvals[a].plan_version_id
            /\ approvals'[a].revoked = IF approvals[a].plan_version_id = x THEN TRUE
                                       ELSE approvals[a].revoked
        BY <1>7, <3>2, RevokedRows
      <3>. QED
        BY <3>1, <3>2, <3>3
    <2>3. LastOfGroup(a, v)
      BY <1>1, <1>7, <2>1, <2>2, RevokedRows, LastKept
    <2>. QED
      BY <1>2, <1>7, <2>1, <2>2, <2>3, RevokeWrites DEF OpenRows
  <1>8. ASSUME NEW i \in DOMAIN instances, NEW s \in Scenarios, NEW r \in Verdicts,
               AddPlanVersion(i, s, r)
        PROVE  versions'[v].status \in {"approved", "invalidated"}
    <2>1. UNCHANGED approvals
      BY <1>8 DEF AddPlanVersion
    <2>2. a \in OpenRows(v) /\ a \in DOMAIN approvals /\ approvals[a].plan_version_id = v
      BY <1>1, <2>1 DEF OpenRows
    <2>3. v \in DOMAIN versions
      BY <2>2 DEF RowsPoint
    <2>4. LastOfGroup(a, v)
      BY <1>1, <2>1, <2>2, <2>3, LastKept
    <2>. QED
      BY <1>2, <1>8, <2>2, <2>3, <2>4, InsertedVersion
  <1>. QED
    BY <1>3, <1>4, <1>5, <1>6, <1>7, <1>8
    DEF Next, Serve, UploadStep, AddInstance, Crash, vars

(* The version table and the approval history agree in both directions     *)
(* (LedgerAgrees, OpenRowStands), whatever crashes come between the two    *)
(* statements of an invalidation.                                          *)
THEOREM Ledger == Spec => []HistoryAgrees
  <1> DEFINE IInv == RowsPoint /\ MarkedDone /\ LedgerAgrees /\ OpenRowStands
  <1>1. Init => IInv
    BY DEF Init, RowsPoint, MarkedDone, LedgerAgrees, OpenRowStands, Idle
  <1>2. TypeOK /\ NumberedInOrder /\ OneApproved /\ IInv /\ [Next]_vars => IInv'
    BY RowsPointStep, MarkedStep, AgreesStep, StandsStep
  <1>3. IInv => HistoryAgrees
    BY DEF HistoryAgrees
  <1>. QED
    BY <1>1, <1>2, <1>3, Numbering, Exclusive, PTL DEF Spec

-----------------------------------------------------------------------------
(* The store implements the approval register *)

(* AddPlanVersion stops at the bound, so a version is one of the plans of  *)
(* the register.                                                           *)
Bounded == DOMAIN versions \subseteq 1..MaxVersions

LEMMA BoundedStep ==
  ASSUME TypeOK, NumberedInOrder, Bounded, [Next]_vars
  PROVE  Bounded'
  <1>1. CASE DOMAIN versions' = DOMAIN versions
    BY <1>1 DEF Bounded
  <1>2. ASSUME NEW i \in DOMAIN instances, NEW s \in Scenarios, NEW r \in Verdicts,
               AddPlanVersion(i, s, r)
        PROVE  Bounded'
    <2>1. Len(versions) < MaxVersions /\ MaxVersions \in Nat
      BY <1>2, StoreAssumption DEF AddPlanVersion
    <2>2. /\ DOMAIN versions' = DOMAIN versions \cup {Len(versions) + 1}
          /\ Len(versions) \in Nat
      BY <1>2, InsertedVersion, Rows
    <2>. QED
      BY <2>1, <2>2 DEF Bounded
  <1>. QED
    BY <1>1, <1>2, RowsStay

(* What the refinement mapping gives the register. *)
Standing == [g \in Projects \X Scenarios |->
               {v \in DOMAIN versions : versions[v].status = "approved" /\ Group(v) = g}]
Retired == {v \in DOMAIN versions : versions[v].status \in {"superseded", "invalidated"}}

(* A step that changes no status of a version, and brings in drafts only,  *)
(* is invisible in the register.                                           *)
LEMMA Invisible ==
  ASSUME DOMAIN versions \subseteq DOMAIN versions',
         \A v \in DOMAIN versions : /\ versions'[v].status = versions[v].status
                                    /\ versions'[v].project_id = versions[v].project_id
                                    /\ versions'[v].scenario = versions[v].scenario,
         \A v \in DOMAIN versions' \ DOMAIN versions : versions'[v].status = "draft"
  PROVE  Standing' = Standing /\ Retired' = Retired
  <1>1. \A v \in DOMAIN versions : Group(v)' = Group(v)
    BY DEF Group
  <1>2. Retired' = Retired
    BY DEF Retired
  <1>3. ASSUME NEW g \in Projects \X Scenarios
        PROVE  {v \in DOMAIN versions' : versions'[v].status = "approved" /\ Group(v)' = g}
                 = {v \in DOMAIN versions : versions[v].status = "approved" /\ Group(v) = g}
    BY <1>1
  <1>4. Standing' = [g \in Projects \X Scenarios |->
          {v \in DOMAIN versions' : versions'[v].status = "approved" /\ Group(v)' = g}]
    BY DEF Standing
  <1>. QED
    BY <1>2, <1>3, <1>4 DEF Standing

LEMMA GroupStays ==
  ASSUME TypeOK, [Next]_vars, NEW v \in DOMAIN versions
  PROVE  Group(v)' = Group(v) /\ Group(v) \in Projects \X Scenarios
  BY RowsStay, Rows DEF Group, PlanVersion

(* The members of a register, before and after a step. *)
LEMMA Members ==
  ASSUME NEW g \in Projects \X Scenarios
  PROVE  /\ Standing[g] = {v \in DOMAIN versions :
                             versions[v].status = "approved" /\ Group(v) = g}
         /\ Standing'[g] = {v \in DOMAIN versions' :
                              versions'[v].status = "approved" /\ Group(v)' = g}
         /\ Standing' = [q \in Projects \X Scenarios |-> Standing'[q]]
  BY DEF Standing

(* Approving a version publishes it in its register. *)
LEMMA ApprovePublishes ==
  ASSUME TypeOK, [Next]_vars, NEW v \in DOMAIN versions, NEW u \in Users, ApprovePlan(v, u)
  PROVE  /\ v \notin Retired /\ v \notin Standing[Group(v)]
         /\ Retired' = Retired \cup Standing[Group(v)]
         /\ Standing' = [Standing EXCEPT ![Group(v)] = {v}]
  <1> DEFINE g == Group(v)
  <1>1. versions[v].status = "draft"
    BY DEF ApprovePlan, Approvable
  <1>2. \A w \in DOMAIN versions : Group(w)' = Group(w)
    BY GroupStays
  <1>3. g \in Projects \X Scenarios
    BY GroupStays
  <1>4. /\ DOMAIN versions' = DOMAIN versions
        /\ versions'[v].status = "approved"
        /\ \A w \in DOMAIN versions : w # v =>
             versions'[w].status =
               IF Group(w) = Group(v) /\ versions[w].status = "approved"
               THEN "superseded" ELSE versions[w].status
    BY ApproveWrites DEF SameGroup
  <1>5. Retired' = Retired \cup Standing[g]
    BY <1>1, <1>3, <1>4, Members DEF Retired
  <1>6. Standing'[g] = {v}
    BY <1>2, <1>3, <1>4, Members
  <1>7. ASSUME NEW q \in Projects \X Scenarios, q # g PROVE Standing'[q] = Standing[q]
    <2>1. \A w \in DOMAIN versions :
            versions'[w].status = "approved" /\ Group(w)' = q
              <=> versions[w].status = "approved" /\ Group(w) = q
      BY <1>2, <1>4, <1>7
    <2>2. {w \in DOMAIN versions' : versions'[w].status = "approved" /\ Group(w)' = q}
            = {w \in DOMAIN versions : versions[w].status = "approved" /\ Group(w) = q}
      BY <1>4, <2>1
    <2>. QED
      BY <2>2, Members
  <1>8. /\ Standing = [q \in Projects \X Scenarios |-> Standing[q]]
        /\ Standing' = [q \in Projects \X Scenarios |-> Standing'[q]]
    BY DEF Standing
  <1>9. v \notin Retired /\ v \notin Standing[g]
    BY <1>1, <1>3, Members DEF Retired
  <1>. HIDE DEF g
  <1>10. Standing' = [Standing EXCEPT ![g] = {v}]
    BY <1>3, <1>6, <1>7, <1>8
  <1>. QED
    BY <1>5, <1>9, <1>10 DEF g

(* Revoking an approval empties its register. *)
LEMMA RevokeWithdraws ==
  ASSUME TypeOK, OneApproved, [Next]_vars, NEW v \in DOMAIN versions, RevokeApproval(v)
  PROVE  /\ Standing[Group(v)] = {v}
         /\ Retired' = Retired
         /\ Standing' = [Standing EXCEPT ![Group(v)] = {}]
  <1> DEFINE g == Group(v)
  <1>1. versions[v].status = "approved"
    BY DEF RevokeApproval
  <1>2. \A w \in DOMAIN versions : Group(w)' = Group(w)
    BY GroupStays
  <1>3. g \in Projects \X Scenarios
    BY GroupStays
  <1>4. Standing[g] = {v}
    BY <1>1, <1>3, Members DEF OneApproved, SameGroup
  <1>5. Retired' = Retired
    BY <1>1, RevokeWrites DEF Retired
  <1>. /\ DOMAIN versions' = DOMAIN versions
       /\ versions'[v].status = "draft"
       /\ \A w \in DOMAIN versions : w # v => versions'[w].status = versions[w].status
    BY RevokeWrites
  <1>6. Standing'[g] = {}
    <2>1. \A w \in DOMAIN versions : ~(versions'[w].status = "approved" /\ Group(w)' = g)
      BY <1>2, <1>3, <1>4, Members
    <2>. QED
      BY <1>3, <2>1, Members
  <1>7. ASSUME NEW q \in Projects \X Scenarios, q # g PROVE Standing'[q] = Standing[q]
    <2>1. \A w \in DOMAIN versions :
            versions'[w].status = "approved" /\ Group(w)' = q
              <=> versions[w].status = "approved" /\ Group(w) = q
      BY <1>2, <1>7
    <2>2. {w \in DOMAIN versions' : versions'[w].status = "approved" /\ Group(w)' = q}
            = {w \in DOMAIN versions : versions[w].status = "approved" /\ Group(w) = q}
      BY <2>1
    <2>. QED
      <3>1. /\ Standing'[q] = {w \in DOMAIN versions' :
                                versions'[w].status = "approved" /\ Group(w)' = q}
            /\ Standing[q] = {w \in DOMAIN versions :
                                versions[w].status = "approved" /\ Group(w) = q}
        BY Members
      <3>. QED
        BY <2>2, <3>1, Zenon
  <1>8. /\ Standing = [q \in Projects \X Scenarios |-> Standing[q]]
        /\ Standing' = [q \in Projects \X Scenarios |-> Standing'[q]]
    BY DEF Standing
  <1>. HIDE DEF g
  <1>9. Standing' = [Standing EXCEPT ![g] = {}]
    BY <1>3, <1>6, <1>7, <1>8
  <1>. QED
    BY <1>4, <1>5, <1>9 DEF g

(* The first statement of an invalidation expires the outdated versions of *)
(* one project, in the registers of that project only.                     *)
LEMMA InvalidateExpires ==
  ASSUME TypeOK, [Next]_vars, NEW h \in Handlers, InvalidateVersions(h)
  PROVE  LET p == instances[upload[h].instance].project_id   S == Outdated(h) IN
         /\ S # {} => p \in Projects
         /\ S \subseteq DOMAIN versions
         /\ S \cap Retired = {}
         /\ Retired' = Retired \cup S
         /\ \A g \in Projects \X Scenarios : g[1] # p => Standing[g] \cap S = {}
         /\ Standing' = [g \in Projects \X Scenarios |-> Standing[g] \ S]
  <1> DEFINE p == instances[upload[h].instance].project_id
             S == Outdated(h)
  <1>1. \A v \in S : /\ v \in DOMAIN versions /\ versions[v].project_id = p
                     /\ versions[v].status \in {"approved", "draft"}
    BY DEF Outdated, OfReplacedInput
  <1>2. \A v \in DOMAIN versions : Group(v)' = Group(v) /\ Group(v)[1] = versions[v].project_id
    BY GroupStays DEF Group
  <1>3. /\ DOMAIN versions' = DOMAIN versions
        /\ \A v \in DOMAIN versions :
             versions'[v].status = IF v \in S THEN "invalidated" ELSE versions[v].status
    BY InvalidateWrites
  <1>. HIDE DEF S, p
  <1>4. S # {} => p \in Projects
    BY <1>1, Rows DEF PlanVersion
  <1>5. S \cap Retired = {} /\ Retired' = Retired \cup S
    BY <1>1, <1>3 DEF Retired
  <1>6. \A g \in Projects \X Scenarios : g[1] # p => Standing[g] \cap S = {}
    BY <1>1, <1>2, Members
  <1>7. ASSUME NEW g \in Projects \X Scenarios PROVE Standing'[g] = Standing[g] \ S
    BY <1>2, <1>3, Members
  <1>8. Standing' = [g \in Projects \X Scenarios |-> Standing'[g]]
    BY DEF Standing
  <1>. QED
    BY <1>1, <1>4, <1>5, <1>6, <1>7, <1>8 DEF S, p

(* Every step of the store is a step of the register, or none. *)
LEMMA StepOfRegister ==
  ASSUME TypeOK, NumberedInOrder, OneApproved, Bounded, [Next]_vars
  PROVE  [Register!RNext]_<<Standing, Retired>>
  <1>1. ASSUME NEW v \in DOMAIN versions, NEW u \in Users, ApprovePlan(v, u)
        PROVE  Register!RNext
    <2>1. PICK g \in Register!Registers, n \in 1..MaxVersions : g = Group(v) /\ n = v
      BY GroupStays DEF Register!Registers, Bounded
    <2>2. Register!Publish(g, n)
      BY <1>1, <2>1, ApprovePublishes DEF Register!Publish, Standing, Retired
    <2>. QED
      BY <2>2 DEF Register!RNext
  <1>2. ASSUME NEW v \in DOMAIN versions, RevokeApproval(v)
        PROVE  Register!RNext
    <2>1. PICK g \in Register!Registers, n \in 1..MaxVersions : g = Group(v) /\ n = v
      BY GroupStays DEF Register!Registers, Bounded
    <2>2. Register!Withdraw(g, n)
      BY <1>2, <2>1, RevokeWithdraws DEF Register!Withdraw, Standing, Retired
    <2>. QED
      BY <2>2 DEF Register!RNext
  <1>3. ASSUME NEW h \in Handlers, InvalidateVersions(h), Outdated(h) # {}
        PROVE  Register!RNext
    <2>1. PICK p \in Projects, S \in SUBSET (1..MaxVersions) :
            p = instances[upload[h].instance].project_id /\ S = Outdated(h)
      BY <1>3, InvalidateExpires DEF Bounded
    <2>2. Register!Expire(p, S)
      BY <1>3, <2>1, InvalidateExpires
      DEF Register!Expire, Register!Registers, Standing, Retired
    <2>. QED
      BY <2>2 DEF Register!RNext
  <1>4. ASSUME NEW h \in Handlers, InvalidateVersions(h), Outdated(h) = {}
        PROVE  Standing' = Standing /\ Retired' = Retired
    BY <1>4, InvalidateWrites, RowsStay, Invisible
  <1>5. ASSUME NEW i \in DOMAIN instances, NEW s \in Scenarios, NEW r \in Verdicts,
               AddPlanVersion(i, s, r)
        PROVE  Standing' = Standing /\ Retired' = Retired
    BY <1>5, InsertedVersion, Invisible
  <1>6. ASSUME UNCHANGED versions PROVE Standing' = Standing /\ Retired' = Retired
    BY <1>6, Invisible
  <1>7. \/ Register!RNext
        \/ Standing' = Standing /\ Retired' = Retired
    BY <1>1, <1>2, <1>3, <1>4, <1>5, <1>6
    DEF Next, Serve, UploadStep, AddInstance, RevokeStaleApprovals, Crash, vars
  <1>. QED
    BY <1>7

(* The tables, whatever crashes and however uploads, solves and approvals  *)
(* interleave, implement the register (ImplementsRegister): one standing   *)
(* version, and none that was replaced comes back.                         *)
THEOREM Implements == Spec => ImplementsRegister
  <1>1. Init => Bounded /\ Register!RInit
    BY DEF Init, Bounded, Register!RInit, Register!Registers
  <1>2. TypeOK /\ NumberedInOrder /\ Bounded /\ [Next]_vars => Bounded'
    BY BoundedStep
  <1>3. TypeOK /\ NumberedInOrder /\ OneApproved /\ Bounded /\ [Next]_vars
          => [Register!RNext]_(Register!rvars)
    BY StepOfRegister DEF Register!rvars, Standing, Retired
  <1>. QED
    BY <1>1, <1>2, <1>3, Numbering, Exclusive, PTL
    DEF Spec, ImplementsRegister, Register!RSpec

(***************************************************************************)
(* PlanChoice: what the client shows as published is usable, and a newer   *)
(* solve does not displace it, for every content of the store.             *)
(***************************************************************************)
-----------------------------------------------------------------------------
(* What is first *)

(* No version is numbered beyond the number of rows. *)
LEMMA NumbersBounded ==
  ASSUME TypeOK, NumberedInOrder, NEW v \in DOMAIN versions
  PROVE  versions[v].version_no \in Nat /\ versions[v].version_no <= 1 + Len(versions)
  <1> DEFINE Rank == {w \in DOMAIN versions : w < v /\ SameGroup(v, w)}
  <1>1. PICK l \in Nat : l = Len(versions) /\ DOMAIN versions = 1..l
    BY Rows
  <1>2. IsFiniteSet(1..l) /\ Cardinality(1..l) = l
    <2>1. /\ IsFiniteSet(1..l)
          /\ Cardinality(1..l) = IF 1 > l THEN 0 ELSE l - 1 + 1
      BY FS_Interval
    <2>. QED
      BY <2>1
  <1>3. Rank \subseteq 1..l
    BY <1>1
  <1>4. Cardinality(Rank) \in Nat /\ Cardinality(Rank) <= l
    <2>. HIDE DEF Rank
    <2>1. IsFiniteSet(Rank) /\ Cardinality(Rank) <= Cardinality(1..l)
      BY <1>2, <1>3, FS_Subset
    <2>. QED
      BY <1>2, <2>1, FS_CardinalityType
  <1>5. versions[v].version_no = 1 + Cardinality(Rank)
    BY DEF NumberedInOrder
  <1>. HIDE DEF Rank
  <1>. QED
    BY <1>1, <1>4, <1>5

(* The order of the sorts has a first element in every set of versions. *)
LEMMA FirstIsFirst ==
  ASSUME TypeOK, NumberedInOrder, NEW S \in SUBSET DOMAIN versions, S # {}
  PROVE  First(S) \in S /\ \A w \in S \ {First(S)} : Before(First(S), w)
  <1> DEFINE N == {versions[v].version_no : v \in S}
  <1>1. N \in SUBSET Nat /\ N # {} /\ \A n \in N : n <= 1 + Len(versions)
    BY NumbersBounded
  <1>2. PICK n \in N : \A m \in N : m <= n
    <2>1. 1 + Len(versions) \in Nat
      BY Rows
    <2>. HIDE DEF N
    <2>. QED
      BY <1>1, <2>1, LargestExists
  <1> DEFINE T == {v \in S : versions[v].version_no = n}
  <1>3. T \in SUBSET Nat /\ T # {} /\ \A v \in T : v <= Len(versions)
    BY <1>2, Rows
  <1>4. PICK l \in T : \A v \in T : v <= l
    <2>. HIDE DEF T
    <2>. QED
      BY <1>3, Rows, LargestExists
  <1>5. l \in S /\ \A w \in S \ {l} : Before(l, w)
    <2>1. SUFFICES ASSUME NEW w \in S \ {l} PROVE Before(l, w)
      BY <1>4
    <2>2. /\ versions[w].version_no \in Nat /\ versions[l].version_no \in Nat
          /\ versions[l].version_no = n /\ versions[w].version_no <= n
      BY <1>2, <1>4, NumbersBounded
    <2>3. versions[w].version_no = n => w < l
      BY <1>4, Rows
    <2>. QED
      BY <2>2, <2>3 DEF Before
  <1>. QED
    BY <1>5, Zenon DEF First

(* Before orders: nothing is before what is before it. *)
LEMMA OneFirst ==
  ASSUME TypeOK, NEW v \in DOMAIN versions, NEW w \in DOMAIN versions,
         Before(v, w), Before(w, v)
  PROVE  FALSE
  BY Rows DEF Before, PlanVersion

-----------------------------------------------------------------------------
(* What is chosen *)

(* With no preference, the choice is a listed version, and the newest      *)
(* published one if there is one.                                          *)
WellChosen ==
  \A p \in Projects : LET shown == choosePlan(p, 0) IN
    /\ Listed(p) # {} => shown \in Listed(p)
    /\ \A v \in Listed(p) : Published(v) =>
         Published(shown) /\ (v # shown => Before(shown, v))

LEMMA ChoosesWell ==
  ASSUME TypeOK, NumberedInOrder
  PROVE  WellChosen
  <1>1. SUFFICES ASSUME NEW p \in Projects, Listed(p) # {}
                 PROVE  /\ choosePlan(p, 0) \in Listed(p)
                        /\ \A v \in Listed(p) : Published(v) =>
                             /\ Published(choosePlan(p, 0))
                             /\ v # choosePlan(p, 0) => Before(choosePlan(p, 0), v)
    BY DEF WellChosen
  <1>2. Listed(p) \subseteq DOMAIN versions /\ 0 \notin Listed(p)
    BY Rows DEF Listed
  <1> DEFINE P == {v \in Listed(p) : Published(v)}
  <1>3. CASE P = {}
    <2>1. choosePlan(p, 0) = First(Listed(p))
      BY <1>1, <1>2, <1>3 DEF choosePlan
    <2>2. First(Listed(p)) \in Listed(p)
      BY <1>1, <1>2, FirstIsFirst
    <2>. QED
      BY <1>3, <2>1, <2>2
  <1>4. CASE P # {}
    <2>1. choosePlan(p, 0) = First(P)
      BY <1>1, <1>2, <1>4 DEF choosePlan
    <2>2. P \subseteq DOMAIN versions
      BY <1>2
    <2>3. First(P) \in P /\ \A w \in P \ {First(P)} : Before(First(P), w)
      <3>. HIDE DEF P
      <3>. QED
        BY <1>4, <2>2, FirstIsFirst
    <2>. QED
      BY <2>1, <2>3
  <1>. QED
    BY <1>3, <1>4

(* What is chosen is listed, or nothing is. *)
LEMMA ChosenIsListed ==
  ASSUME WellChosen, NEW c \in Choices, choosePlan(c[1], c[2]) # 0,
         c[2] \in Listed(c[1]) \cup {0}
  PROVE  choosePlan(c[1], c[2]) \in Listed(c[1])
  <1>1. c[1] \in Projects
    BY DEF Choices
  <1>. QED
    BY <1>1 DEF WellChosen, choosePlan

(* A preference for a version that is not listed is no preference. *)
LEMMA Preference ==
  ASSUME TypeOK, NEW p \in Projects, NEW n
  PROVE  /\ n \in Listed(p) => choosePlan(p, n) = n
         /\ n \notin Listed(p) => choosePlan(p, n) = choosePlan(p, 0)
  BY Rows DEF choosePlan, Listed

-----------------------------------------------------------------------------
(* The published plan is usable *)

(* ApprovePlan writes the date with the status, and nothing takes the date *)
(* alone away: an approved version has its approval date.                  *)
ApprovedIsDated ==
  \A v \in DOMAIN versions : versions[v].status = "approved" => versions[v].approved_at

LEMMA DatedStep ==
  ASSUME TypeOK, NumberedInOrder, ApprovedIsDated, [Next]_vars
  PROVE  ApprovedIsDated'
  <1>1. ASSUME NEW h \in Handlers, InvalidateVersions(h) PROVE ApprovedIsDated'
    BY <1>1, InvalidateWrites DEF ApprovedIsDated
  <1>2. ASSUME NEW x \in DOMAIN versions, NEW u \in Users, ApprovePlan(x, u)
        PROVE  ApprovedIsDated'
    BY <1>2, ApproveWrites DEF ApprovedIsDated
  <1>3. ASSUME NEW x \in DOMAIN versions, RevokeApproval(x) PROVE ApprovedIsDated'
    BY <1>3, RevokeWrites DEF ApprovedIsDated
  <1>4. ASSUME NEW i \in DOMAIN instances, NEW s \in Scenarios, NEW r \in Verdicts,
               AddPlanVersion(i, s, r)
        PROVE  ApprovedIsDated'
    BY <1>4, InsertedVersion DEF ApprovedIsDated
  <1>5. ASSUME UNCHANGED versions PROVE ApprovedIsDated'
    BY <1>5 DEF ApprovedIsDated
  <1>. QED
    BY <1>1, <1>2, <1>3, <1>4, <1>5
    DEF Next, Serve, UploadStep, AddInstance, RevokeStaleApprovals, Crash, vars

LEMMA Dated == Spec => []ApprovedIsDated
  <1>1. Init => ApprovedIsDated
    BY DEF Init, ApprovedIsDated
  <1>. QED
    BY <1>1, DatedStep, Numbering, PTL DEF Spec

(* What the client labels published passed the independent check and is no *)
(* fallback (PublishedIsUsable), although the label reads the status and   *)
(* the date where the store guards only the approval.                      *)
THEOREM Usable == Spec => []PublishedIsUsable
  <1>1. ASSUME TypeOK, NumberedInOrder, PublishedWasChecked, ApprovedIsDated,
               ViolatedIsTold
        PROVE  PublishedIsUsable
    <2>1. SUFFICES ASSUME NEW c \in Choices, planState(c[1], c[2]).published
                   PROVE  /\ ~planState(c[1], c[2]).failed
                          /\ ~versions[choosePlan(c[1], c[2])].is_fallback
      BY DEF PublishedIsUsable
    <2>2. PICK v : v = choosePlan(c[1], c[2])
      OBVIOUS
    <2>3. v # 0 /\ Published(v)
      BY <2>1, <2>2 DEF planState
    <2>4. c[1] \in Projects /\ WellChosen
      BY <1>1, ChoosesWell DEF Choices
    <2>5. v \in DOMAIN versions
      BY <1>1, <2>2, <2>3, <2>4, Preference DEF WellChosen, Listed, choosePlan
    <2>6. versions[v].feasible /\ ~versions[v].is_fallback /\ ~versions[v].violated
      BY <1>1, <2>3, <2>5 DEF Published, PublishedWasChecked, ApprovedIsDated, ViolatedIsTold
    <2>. QED
      BY <2>2, <2>6 DEF planState
  <1>. QED
    BY <1>1, Numbering, Checked, Dated, Told, PTL

-----------------------------------------------------------------------------
(* A newer solve replaces nothing *)

(* Recording a version lists it, and publishes nothing. *)
LEMMA Recorded ==
  ASSUME TypeOK, NumberedInOrder, [Next]_vars, Len(versions') > Len(versions)
  PROVE  /\ DOMAIN versions' = DOMAIN versions \cup {Len(versions) + 1}
         /\ \A v \in DOMAIN versions : /\ versions'[v] = versions[v]
                                       /\ Published(v)' <=> Published(v)
         /\ \A v \in DOMAIN versions' : v \in DOMAIN versions \/ ~Published(v)'
         /\ 0 \notin DOMAIN versions' /\ TypeOK'
  <1>1. TypeOK'
    BY TypeStep
  <1>2. Len(versions') \in Nat /\ DOMAIN versions' = 1..Len(versions')
    BY <1>1, LenProperties DEF TypeOK
  <1>3. DOMAIN versions' # DOMAIN versions
    <2>1. Len(versions') \in DOMAIN versions'
      BY <1>2, Rows
    <2>2. Len(versions') \notin DOMAIN versions
      BY <1>2, Rows
    <2>. QED
      BY <2>1, <2>2
  <1>4. PICK i \in DOMAIN instances, s \in Scenarios, r \in Verdicts : AddPlanVersion(i, s, r)
    BY <1>3, RowsStay
  <1>5. \A v \in DOMAIN versions : Published(v)' <=> Published(v)
    BY <1>4, InsertedVersion DEF Published
  <1>6. \A v \in DOMAIN versions' : v \in DOMAIN versions \/ ~Published(v)'
    BY <1>4, InsertedVersion DEF Published
  <1>. QED
    <2>1. /\ DOMAIN versions' = DOMAIN versions \cup {Len(versions) + 1}
          /\ \A v \in DOMAIN versions : versions'[v] = versions[v]
      BY <1>4, InsertedVersion
    <2>2. 0 \notin DOMAIN versions'
      BY <1>2
    <2>. QED
      BY <1>1, <1>5, <1>6, <2>1, <2>2, Zenon

LEMMA ChoiceStays ==
  ASSUME TypeOK, NumberedInOrder, WellChosen, WellChosen', [Next]_vars,
         Len(versions') > Len(versions),
         NEW p \in Projects, NEW n \in 0..MaxVersions,
         n \in Listed(p) \cup {0}, planState(p, n).published
  PROVE  /\ choosePlan(p, n)' = choosePlan(p, n)
         /\ planState(p, n)' = planState(p, n)
  <1>1. PICK v : v = choosePlan(p, n)
    OBVIOUS
  <1>2. v # 0 /\ Published(v)
    BY <1>1 DEF planState
  <1>3. /\ Listed(p) \subseteq DOMAIN versions
        /\ Listed(p)' \subseteq DOMAIN versions'
        /\ Listed(p) \subseteq Listed(p)'
        /\ Listed(p)' \cap DOMAIN versions = Listed(p)
    BY Recorded DEF Listed
  <1>4. v \in Listed(p)
    BY <1>1, <1>2, <1>3 DEF WellChosen, choosePlan
  <1>5. ASSUME n \in Listed(p) PROVE choosePlan(p, n)' = v
    <2>1. n \in Listed(p)' /\ Listed(p)' # {} /\ v = n
      BY <1>1, <1>3, <1>5, Preference
    <2>. QED
      BY <2>1 DEF choosePlan
  <1>6. ASSUME n = 0 PROVE choosePlan(p, n)' = v
    <2>1. PICK w : w = choosePlan(p, 0)'
      OBVIOUS
    <2>2. /\ w \in Listed(p)' /\ Published(w)'
          /\ v # w => Before(w, v)'
      <3>1. v \in Listed(p)' /\ Published(v)'
        BY <1>2, <1>3, <1>4, Recorded
      <3>. QED
        BY <2>1, <3>1 DEF WellChosen
    <2>3. w \in Listed(p) /\ Published(w)
      BY <1>3, <2>2, Recorded
    <2>4. v # w => Before(v, w)
      BY <1>1, <1>6, <2>3 DEF WellChosen
    <2>5. v # w => Before(w, v)
      BY <1>3, <1>4, <2>2, <2>3, Recorded DEF Before
    <2>6. v = w
      BY <1>3, <1>4, <2>3, <2>4, <2>5, OneFirst
    <2>. QED
      BY <1>6, <2>1, <2>6
  <1>7. choosePlan(p, n)' = v
    BY <1>5, <1>6
  <1>8. /\ Published(v)' <=> Published(v)
        /\ versions'[v] = versions[v]
    BY <1>3, <1>4, Recorded
  <1>. QED
    BY <1>1, <1>7, <1>8 DEF planState, Published

(* A newer solve never silently replaces a published plan                  *)
(* (SolveNeverReplaces): recording a version changes neither what is shown *)
(* as published nor its label, whatever was approved or withdrawn before.  *)
THEOREM NeverReplaced == Spec => SolveNeverReplaces
  <1> DEFINE Stays(c) ==
        /\ planState(c[1], c[2]).published
        /\ c[2] \in Listed(c[1]) \cup {0}
        /\ Len(versions') > Len(versions)
        => /\ choosePlan(c[1], c[2])' = choosePlan(c[1], c[2])
           /\ planState(c[1], c[2])' = planState(c[1], c[2])
  <1>1. Spec => [](TypeOK /\ NumberedInOrder /\ WellChosen)
    <2>1. TypeOK /\ NumberedInOrder => WellChosen
      BY ChoosesWell
    <2>. QED
      BY <2>1, Numbering, PTL
  <1>2. TypeOK /\ NumberedInOrder /\ WellChosen /\ WellChosen' /\ [Next]_vars
          => [\A c \in Choices : Stays(c)]_vars
    BY ChoiceStays DEF Choices
  <1>. QED
    BY <1>1, <1>2, PTL DEF Spec, SolveNeverReplaces
=============================================================================
