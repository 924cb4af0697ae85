--------------------------- MODULE ScheduleTables ---------------------------
(***************************************************************************)
(* What the schedules page of the React client shows of a plan's rows      *)
(* (client/src/lib/scheduleModel.js, WorkTable and Timeline in             *)
(* routes/Schedules.jsx): filtered, grouped, sorted and a page or a window *)
(* of weeks at a time.  The page, the order and the window are kept while  *)
(* the rows change under them: the filters, another plan, a coordinator.   *)
(* One group is followed; its table goes when its label is gone.           *)
(***************************************************************************)
EXTENDS Naturals, FiniteSets, FiniteSetsExt, SequencesExt

CONSTANTS Plans,      \* the row sequences of the plans the block may show
          Horizon,    \* horizonWeeks, 0 if the instance gives none
          PageSize,   \* LIST_PAGE_SIZE, and the timeline's 40
          Windows     \* weeks the window has room for, by its width

VARIABLES rows,    \* the rows of the chosen plan
          params,  \* the address: [person, week, access, group, view]
          label,   \* the group followed
          display    \* its WorkTable or Timeline: [field, down, page, start, room]

tableVars == <<rows, params, label, display>>

-----------------------------------------------------------------------------

(* A row of a plan.  seq counts the accesses of an activity, so that no two *)
(* rows of a plan are equal; weeks count from 1.  All: no filter.           *)
Access == [activity : Nat, seq : Nat, week : Nat \ {0}, eclo : BOOLEAN,
           owner : STRING, contract : STRING]
PlanRows == {s \in Seq(Access) : IsInjective(s)}
All == "all"

Kept(r) == /\ params.person \in {All, r.owner}
           /\ params.week \in {0, r.week}
           /\ params.access \in {All, IF r.eclo THEN "eclo" ELSE "standard"}

GroupKey(r) == CASE params.group = "person" -> r.owner
                 [] params.group = "contract" -> r.contract
                 [] OTHER -> "all scheduled work"

(* filterRows, and groupRows of what it keeps: a map from label to its rows, *)
(* filled row by row.                                                       *)
AddToGroup(groups, r) ==
  [k \in DOMAIN groups \cup {GroupKey(r)} |->
     IF k # GroupKey(r) THEN groups[k]
     ELSE IF k \in DOMAIN groups THEN Append(groups[k], r) ELSE <<r>>]

Filled[n \in 0..Len(rows)] ==
  IF n = 0 THEN [k \in {} |-> <<>>]
  ELSE IF Kept(rows[n]) THEN AddToGroup(Filled[n - 1], rows[n]) ELSE Filled[n - 1]

Groups == Filled[Len(rows)]
Work == Groups[label]

(* sortRows: stable, ties broken by activity in either direction.           *)
Before(i, j) ==
  LET a == Work[i][display.field] b == Work[j][display.field] IN
  IF a # b THEN (IF display.down THEN a > b ELSE a < b)
  ELSE \/ Work[i].activity < Work[j].activity
       \/ Work[i].activity = Work[j].activity /\ i < j

Sorted == [n \in DOMAIN Work |->
             Work[CHOOSE i \in DOMAIN Work :
                    Cardinality({j \in DOMAIN Work : Before(j, i)}) = n - 1]]

(* The page kept may be beyond the last one.  The mutated form shows it.    *)
PagesFor(n) == IF n = 0 THEN 1 ELSE (n + PageSize - 1) \div PageSize
CurrentUnclamped(n) == display.page
Current(n) == Min({display.page, PagesFor(n) - 1})

PageOf(s, p) == SubSeq(s, p * PageSize + 1, Min({(p + 1) * PageSize, Len(s)}))

(* activityRows: one line per activity, in order. *)
ActivityIds == {Work[i].activity : i \in DOMAIN Work}
Activities == [n \in 1..Cardinality(ActivityIds) |->
                 CHOOSE a \in ActivityIds : Cardinality({b \in ActivityIds : b < a}) = n - 1]

(* The weeks in sight.                                                      *)
LastWeek == Max({Horizon, 1} \cup {Work[i].week : i \in DOMAIN Work})
First == Min({display.start, IF LastWeek >= display.room THEN LastWeek - display.room + 1 ELSE 1})
Weeks == First..Min({First + display.room - 1, LastWeek})

-----------------------------------------------------------------------------

Fresh(room) == [field |-> "week", down |-> FALSE, page |-> 0, start |-> 1, room |-> room]

TablesInit ==
  /\ rows \in Plans
  /\ params = [person |-> All, week |-> 0, access |-> All, group |-> "contract",
                view |-> "list"]
  /\ label \in DOMAIN Groups
  /\ display \in {Fresh(n) : n \in Windows}

(* The rest of a change of the rows or the address: the tables that stay    *)
(* keep their state, a group that is new or another view starts afresh.     *)
Rendered ==
  IF label \in DOMAIN Groups' /\ params'.view = params.view
  THEN UNCHANGED <<label, display>>
  ELSE /\ \/ label' \in DOMAIN Groups'
          \/ DOMAIN Groups' = {} /\ UNCHANGED label
       /\ display' \in {Fresh(n) : n \in Windows}

SetParam(key, value) ==
  /\ params[key] # value /\ params' = [params EXCEPT ![key] = value]
  /\ UNCHANGED rows /\ Rendered

ClearFilters == /\ params' = [params EXCEPT !.person = All, !.week = 0, !.access = All]
                /\ UNCHANGED rows /\ Rendered

NewRows == rows' \in Plans /\ UNCHANGED params /\ Rendered

OnScreen == label \in DOMAIN Groups
Turn(t) == /\ OnScreen /\ display' = t /\ UNCHANGED <<rows, params, label>>

Listing == OnScreen /\ params.view = "list"
TimelineShown == OnScreen /\ params.view = "timeline"

(* A heading pressed again turns the order round. *)
ChangeSort(f) ==
  /\ Listing
  /\ Turn([display EXCEPT !.field = f, !.down = (display.field = f /\ ~display.down), !.page = 0])

PickSort(f, down) ==
  Listing /\ Turn([display EXCEPT !.field = f, !.down = down, !.page = 0])

Lines == IF params.view = "list" THEN Len(Work) ELSE Len(Activities)

PreviousPage == /\ OnScreen /\ Current(Lines) > 0
                /\ Turn([display EXCEPT !.page = Current(Lines) - 1])
NextPage == /\ OnScreen /\ Current(Lines) < PagesFor(Lines) - 1
            /\ Turn([display EXCEPT !.page = Current(Lines) + 1])

Earlier == /\ TimelineShown /\ First > 1
           /\ Turn([display EXCEPT !.start = IF First > display.room THEN First - display.room ELSE 1])
Later == /\ TimelineShown /\ Max(Weeks) < LastWeek
         /\ Turn([display EXCEPT !.start = First + display.room])

Resize == TimelineShown /\ \E n \in Windows : Turn([display EXCEPT !.room = n])

TablesNext ==
  \/ \E p \in {All, "unassigned"} \cup {rows[i].owner : i \in DOMAIN rows} : SetParam("person", p)
  \/ \E w \in 0..3 : SetParam("week", w)
  \/ \E a \in {All, "eclo", "standard"} : SetParam("access", a)
  \/ \E g \in {"contract", "person", "project"} : SetParam("group", g)
  \/ \E v \in {"list", "timeline"} : SetParam("view", v)
  \/ ClearFilters \/ NewRows
  \/ \E f \in {"week", "activity"} : ChangeSort(f) \/ \E down \in BOOLEAN : PickSort(f, down)
  \/ PreviousPage \/ NextPage \/ Earlier \/ Later \/ Resize

-----------------------------------------------------------------------------
(* Properties *)

(* Where a row is, over all groups. *)
Places(r) ==
  UNION {{<<g, i>> : i \in {j \in DOMAIN Groups[g] : Groups[g][j] = r}} : g \in DOMAIN Groups}

(* A table's pages, one after the other. *)
Pages(s) == FlattenSeq([p \in 1..PagesFor(Len(s)) |-> PageOf(s, p - 1)])

(* "Keep every access" (scheduleModel.js:1): each access that matches the   *)
(* filters is in one group once; the pages of a table are its lines cut up, *)
(* and its lines miss no access or activity of the group; and the page and  *)
(* the window in sight, though chosen before the rows changed, are never    *)
(* empty while there is something to show, with every access of the group   *)
(* in a week that can be brought into sight.                                *)
EveryAccessShown ==
  /\ \A i \in DOMAIN rows : Cardinality(Places(rows[i])) = IF Kept(rows[i]) THEN 1 ELSE 0
  /\ OnScreen =>
       /\ Pages(Sorted) = Sorted /\ Pages(Activities) = Activities
       /\ \A i \in DOMAIN Work : /\ \E j \in DOMAIN Sorted : Sorted[j] = Work[i]
                                 /\ \E j \in DOMAIN Activities : Activities[j] = Work[i].activity
       /\ PageOf(Sorted, Current(Len(Sorted))) # <<>>
       /\ PageOf(Activities, Current(Len(Activities))) # <<>>
       /\ Weeks # {} /\ Cardinality(Weeks) = Min({display.room, LastWeek})
       /\ \A i \in DOMAIN Work : Work[i].week \in 1..LastWeek
=============================================================================
