---------------------------- MODULE ProjectIndex ----------------------------
(***************************************************************************)
(* The list of projects in the React client, a page at a time              *)
(* (client/src/lib/useProjectIndex.js, components/ProjectPages.jsx), while *)
(* projects are created.  The service lists the newest first; a page       *)
(* starts below the cursor that the page before it gave.                   *)
(***************************************************************************)
EXTENDS Naturals, FiniteSets, FiniteSetsExt, Sequences

CONSTANTS PageLimit,    \* projects on a page
          MaxProjects   \* bound: how many there are, with ids from 1

ASSUME IndexAssumption == PageLimit \in Nat \ {0} /\ MaxProjects \in Nat

VARIABLES projects,  \* server: how many there are
          cursors,   \* for each page met so far, what it lies below
          position,  \* the page shown, from 0
          index      \* the resource: [ids, loading]

indexVars == <<projects, cursors, position, index>>

-----------------------------------------------------------------------------

(* null, the cursor of the first page, as a number above every id.          *)
Top == MaxProjects + 1

IndexInit == /\ projects \in 0..MaxProjects
             /\ cursors = <<Top>> /\ position = 0
             /\ index = [ids |-> {}, loading |-> TRUE, next |-> 0]

Below(cursor) == {p \in 1..projects : p < cursor}

(* GET /projects: the newest of those below, and where to go on, 0 for null.*)
Listing(cursor) ==
  LET least == CHOOSE p \in Below(cursor) : Cardinality({q \in Below(cursor) : q >= p}) = PageLimit IN
  IF Cardinality(Below(cursor)) > PageLimit
  THEN [ids |-> {p \in Below(cursor) : p >= least}, loading |-> FALSE, next |-> least]
  ELSE [ids |-> Below(cursor), loading |-> FALSE, next |-> 0]

Listed == /\ index.loading /\ index' = Listing(cursors[position + 1])
          /\ UNCHANGED <<projects, cursors, position>>

NotListed == /\ index.loading /\ index' = [ids |-> {}, loading |-> FALSE, next |-> 0]
             /\ UNCHANGED <<projects, cursors, position>>

(* The page's own reload, after an error. *)
ListAgain == /\ ~index.loading /\ index' = [index EXCEPT !.loading = TRUE]
             /\ UNCHANGED <<projects, cursors, position>>

(* The buttons.  What is shown stays until the answer, so a press then      *)
(* would go on from the page before.  The mutated form lets it.             *)
CanMoveAlways == TRUE
CanMove == ~index.loading

Asked == index' = [index EXCEPT !.loading = (cursors'[position' + 1] # cursors[position + 1])]

PreviousProjects ==
  /\ CanMove /\ position > 0 /\ position' = position - 1
  /\ UNCHANGED <<projects, cursors>> /\ Asked

NextProjects ==
  /\ CanMove /\ index.next # 0
  /\ cursors' = Append(SubSeq(cursors, 1, position + 1), index.next)
  /\ position' = position + 1
  /\ Asked /\ UNCHANGED projects

(* Someone creates a project. *)
AnotherProject == /\ projects < MaxProjects /\ projects' = projects + 1
                  /\ UNCHANGED <<cursors, position, index>>

IndexNext == Listed \/ NotListed \/ ListAgain \/ PreviousProjects \/ NextProjects \/ AnotherProject

-----------------------------------------------------------------------------
(* Properties *)

(* Turning the pages skips no project and shows none twice, whatever is     *)
(* created meanwhile: each page but the first holds the PageLimit projects  *)
(* between its cursor and the next one's (useProjectIndex.js:5-11).         *)
IndexInOrder ==
  /\ \A k \in 2..position :
       Cardinality({p \in 1..projects : cursors[k + 1] <= p /\ p < cursors[k]}) = PageLimit
  /\ ~index.loading => \A p \in index.ids : p < cursors[position + 1]
=============================================================================
