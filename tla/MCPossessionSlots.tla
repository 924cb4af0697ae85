------------------------ MODULE MCPossessionSlots ------------------------
(* The model-checking instance of Planning.  One location-week: up to      *)
(* eight activities, enough for two hosts with all their guests, or a host *)
(* and a shared slot both full, and every supply from none to more than    *)
(* they need.  Whole plans: two lines of two tunnels each that meet in     *)
(* their first tunnel, and two or three activities in two or three weeks.  *)
EXTENDS Planning

Network(n) == [l \in {"alp", "bet"} \X {"EB", "WB"} \X (0..4) |-> n]

Instance(weeks, n, contracts, activities) ==
  [weeks |-> weeks, lines |-> {"alp", "bet"}, crossings |-> {[alp |-> 0..2, bet |-> 0..2]},
   supply |-> Network(n),
   buffer |-> [Live |-> [sectors |-> 1, opposite |-> TRUE],
               Consist |-> [sectors |-> 1, opposite |-> FALSE],
               Others |-> [sectors |-> 0, opposite |-> FALSE]],
   contract |-> contracts, activity |-> activities]

C(nature, type, allowance, fronts, due) ==
  [nature |-> nature, type |-> type, allowance |-> allowance, fronts |-> fronts, due |-> due,
   priority |-> 2]
A(contract, line, bound, from, to, need, earliest, pred) ==
  [contract |-> contract, line |-> line, bound |-> bound, from |-> from, to |-> to,
   need |-> need, earliest |-> earliest, pred |-> pred, priority |-> 2]

(* Live work at the hub, work on the other line of the hub, and work of    *)
(* the other bound: closures mirrored and crossed.                         *)
AtHub == Instance(2, 1,
  <<C("Live", "PM", 1, 1, 14), C("Others", "C", 1, 1, 7), C("Consist", "PC", 1, 1, 14)>>,
  <<A(1, "alp", "EB", 1, 1, 1, 1, 0), A(2, "bet", "WB", 1, 1, 1, 1, 0),
    A(3, "alp", "WB", 3, 3, 1, 1, 0)>>)

(* The same work where the lines meet again in their second tunnel, and     *)
(* one has no platform between them.                                        *)
AtHubs ==
  [AtHub EXCEPT !.crossings = @ \cup {[alp |-> 2..4, bet |-> 2..4]},
                !.supply = [l \in DOMAIN @ \ {<<"alp", "EB", 2>>} |-> 1]]

(* Two activities of one contract, on one night or two, beside a host.     *)
Fronts(type, allowance, fronts) == Instance(2, 1,
  <<C("Others", type, allowance, fronts, 14), C("Others", "PC", 1, 1, 14)>>,
  <<A(1, "alp", "EB", 1, 1, 1, 1, 0), A(1, "alp", "EB", 3, 1, 2, 1, 0),
    A(2, "alp", "EB", 1, 1, 1, 1, 0)>>)

(* A chain, with a start in the second week.                               *)
Chain == Instance(3, 1, <<C("Consist", "C", 1, 1, 14)>>,
  <<A(1, "alp", "EB", 1, 1, 2, 1, 0), A(1, "alp", "EB", 3, 3, 1, 2, 1)>>)

(* A chain that begins in the last week: its start or its order must give. *)
LateChain == Instance(2, 1, <<C("Others", "C", 2, 1, 14)>>,
  <<A(1, "alp", "EB", 1, 1, 1, 2, 0), A(1, "alp", "EB", 3, 3, 1, 1, 1)>>)

(* More activities of one contract than its nights.                        *)
Overloaded == Instance(2, 1, <<C("Others", "C", 1, 1, 14)>>,
  <<A(1, "alp", "EB", 1, 1, 1, 1, 0), A(1, "alp", "EB", 1, 1, 1, 1, 0),
    A(1, "bet", "EB", 1, 3, 1, 1, 0)>>)

(* Two that must not meet, with more work than weeks.                      *)
Buffered == Instance(3, 1, <<C("Consist", "C", 1, 1, 21), C("Live", "PC", 1, 1, 21)>>,
  <<A(1, "alp", "EB", 1, 1, 2, 1, 0), A(2, "alp", "EB", 3, 3, 2, 1, 0)>>)

(* Work that only early closures get done, on two lines of one window.     *)
Closures == Instance(2, 1, <<C("Others", "C", 1, 1, 14), C("Live", "PC", 1, 2, 14)>>,
  <<A(1, "alp", "EB", 1, 1, 3, 1, 0), A(2, "bet", "EB", 1, 1, 2, 1, 0),
    A(2, "bet", "WB", 3, 3, 1, 2, 2)>>)
LongClosures == Instance(3, 1, <<C("Others", "C", 1, 1, 21), C("Live", "PC", 1, 2, 21)>>,
  <<A(1, "alp", "EB", 1, 1, 4, 1, 0), A(2, "bet", "EB", 3, 3, 4, 1, 0)>>)

(* An activity without work, of a contract due before the horizon.         *)
Overdue == Instance(2, 1, <<C("Others", "C", 1, 1, -3), C("Others", "PC", 1, 1, 14)>>,
  <<A(1, "alp", "EB", 1, 1, 0, 1, 0), A(2, "alp", "EB", 1, 1, 1, 1, 0)>>)

(* Two masters that share a platform in one of two weeks, or in both.      *)
Masters(n, due, first, second) ==
  Instance(2, n, <<C("Others", "PM", 1, 1, 14), C("Others", "PM", 1, 1, due)>>,
           <<A(1, "alp", "EB", 1, 1, first, 1, 0), A(2, "alp", "EB", 3, 3, second, 1, 0)>>)

MCRepaired == {Masters(1, 7, 1, 1), Masters(1, 14, 2, 1), Chain}
MCInstances == MCRepaired \cup
  {Masters(0, 14, 2, 2), AtHub, AtHubs, Fronts("C", 1, 2), Fronts("PM", 2, 1), LateChain, Overloaded,
   Buffered, Closures, LongClosures, Overdue}
MCCells == {<<<<"alp", "EB", 2>>, 1>>, <<<<"alp", "EB", 2>>, 2>>}
=============================================================================
