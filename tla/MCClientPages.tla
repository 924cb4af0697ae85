---------------------------- MODULE MCClientPages ----------------------------
(* The model-checking instance of ClientPages: three plans whose rows share *)
(* weeks, owners and contracts in different ways, one of them empty.        *)
EXTENDS ClientPages

Row(a, w, e, o, c) ==
  [activity |-> a, seq |-> w, week |-> w, eclo |-> e, owner |-> o, contract |-> c]

MCPlans ==
  {<<>>,
   <<Row(1, 1, FALSE, "unassigned", "c1"), Row(1, 3, TRUE, "ann", "c1"),
     Row(2, 2, FALSE, "ann", "c2"), Row(3, 3, FALSE, "ann", "c1")>>,
   <<Row(1, 2, FALSE, "ann", "c1"), Row(1, 3, TRUE, "ann", "c1")>>}
=============================================================================
