------------------------------ MODULE PlanRules ------------------------------
(***************************************************************************)
(* A whole plan: the network and the zones that loading derives from it    *)
(* (instance.cpp), the solver's model of the rules (solver.cpp), the       *)
(* assignment of nights to what the search found (schedule.cpp), and the   *)
(* validator's own reading of the same rules (validator.cpp); and the      *)
(* commands that draw conclusions from an answer: solve with its fallback, *)
(* diagnose and explain, which lift one group of rules at a time.          *)
(*                                                                         *)
(* A location is <<line, bound, position>>.  Along a line platforms have   *)
(* even positions and tunnel sectors odd ones, and there may be gaps: a    *)
(* location without a supply does not exist.                               *)
(***************************************************************************)
EXTENDS Integers, Sequences, FiniteSets, FiniteSetsExt, PossessionMix

CONSTANT Instances   \* weeks, lines, crossings, supply, buffer, contract, activity

(* What LoadInstance lets through, so far as the rules need it: the bounds *)
(* of its columns, a start within the horizon, a predecessor and a         *)
(* contract that exist, and sectors to work in that have a supply.  A      *)
(* crossing gives each line that the tunnel between two interchange        *)
(* stations is on the positions of that tunnel and both platforms.         *)
Loaded(i) ==
  /\ i.weeks \in Nat \ {0}
  /\ i.contract \in Seq([nature : DOMAIN i.buffer, type : {"PM", "PC", "C"}, allowance : Nat,
                         fronts : Nat \ {0}, due : Int, priority : 1..3])
  /\ i.activity \in Seq([contract : DOMAIN i.contract, line : i.lines,
                         bound : {"EB", "WB"}, from : Nat, to : Nat, need : Nat,
                         earliest : 1..i.weeks, pred : 0..Len(i.activity), priority : 1..3])
  /\ IsFiniteSet(DOMAIN i.supply) /\ DOMAIN i.supply \subseteq i.lines \X {"EB", "WB"} \X Nat
  /\ \A l \in DOMAIN i.supply : i.supply[l] \in Nat
  /\ \A a \in DOMAIN i.activity :
       LET act == i.activity[a]
       IN \A k \in {act.from, act.to} : <<act.line, act.bound, k>> \in DOMAIN i.supply

ASSUME InstancesAssumption == \A i \in Instances : Loaded(i)

VARIABLES inst,      \* the loaded instance
          zones,     \* what BuildTopology derived for each activity
          command,   \* "solve", "diagnose", "explain" or "repair"
          opts,      \* SolveOptions
          phase,     \* whether a search is out or has answered
          answer,
          plan       \* the yield of each activity's night in each week

loaded == <<inst, zones, command>>
rulesVars == <<inst, zones, command, opts, phase, answer, plan>>

Acts == DOMAIN inst.activity
Weeks == 1..inst.weeks
Contract(a) == inst.contract[inst.activity[a].contract]

-----------------------------------------------------------------------------
(* BuildTopology *)

(* The chain of a line and bound: what of it has a supply.                  *)
ChainOf(line, bound) == {l \in DOMAIN inst.supply : l[1] = line /\ l[2] = bound}

(* What of a chain lies strictly between location l and positions lo to hi. *)
Between(chain, l, lo, hi) ==
  {m \in chain : (l[3] < m[3] /\ m[3] < lo) \/ (hi < m[3] /\ m[3] < l[3])}

(* The sectors worked in, and the next location of the chain at either end: *)
(* the platforms there, unless they have no supply.                         *)
Span(a) ==
  LET act == inst.activity[a]
      chain == ChainOf(act.line, act.bound)
  IN {l \in chain : Between(chain, l, Min({act.from, act.to}), Max({act.from, act.to})) = {}}

Opposite(bound) == IF bound = "EB" THEN "WB" ELSE "EB"

Mirrored(L) ==
  L \cup ({<<l[1], Opposite(l[2]), l[3]>> : l \in L} \cap DOMAIN inst.supply)

(* On every chain that it touches, grown to the n-th sector beyond either   *)
(* end, or to the end of the line.                                          *)
Grown(L, n) ==
  L \cup {l \in DOMAIN inst.supply :
           LET chain == ChainOf(l[1], l[2])
               ends == {m[3] : m \in L \cap chain}
           IN /\ ends # {}
              /\ l[3] < Min(ends) \/ l[3] > Max(ends)
              /\ n > Cardinality({m \in Between(chain, l, Min(ends), Max(ends)) : m[3] % 2 = 1})}

(* The other lines' locations of the crossings that l is in.                *)
Peers(l) ==
  {m \in DOMAIN inst.supply :
     \E c \in inst.crossings : /\ l[1] \in DOMAIN c /\ l[3] \in c[l[1]]
                               /\ m[1] \in DOMAIN c \ {l[1]} /\ m[3] \in c[m[1]]}

Zone(a) ==
  LET nature == Contract(a).nature
      rule == inst.buffer[nature]
      base == IF rule.opposite THEN Mirrored(Span(a)) ELSE Span(a)
      cross == IF nature = "Live" THEN UNION {Peers(l) : l \in base} ELSE {}
  IN [occupied |-> Span(a),
      closure |-> base \cup cross,
      buffer |-> Grown(base, rule.sectors) \cup cross,
      carries |-> rule.sectors > 0]

Meet(L, K) == L \cap K # {}
ShareLocation(a, b) == Meet(zones[a].occupied, zones[b].occupied)
BothBuffered(a, b) == zones[a].carries /\ zones[b].carries

Clash(a, b) ==
  \/ Meet(zones[a].closure, zones[b].occupied)
  \/ Meet(zones[b].closure, zones[a].occupied)
  \/ /\ BothBuffered(a, b)
     /\ \/ Meet(zones[a].buffer, zones[b].occupied)
        \/ Meet(zones[b].buffer, zones[a].occupied)

(* The part of a zone outside its owner's worksite. *)
Beyond(zone, a, b) == Meet(zone \ zones[a].occupied, zones[b].occupied)

Intrudes(a, b) ==
  \/ Beyond(zones[a].closure, a, b)
  \/ Beyond(zones[b].closure, b, a)
  \/ BothBuffered(a, b) /\ (Beyond(zones[a].buffer, a, b) \/ Beyond(zones[b].buffer, b, a))

(* exclusive_pairs and exclusive_pairs_strict. *)
Excluded(a, b) ==
  Clash(a, b) /\ (IF opts.reading = "strict" THEN Intrudes(a, b) ELSE ~ShareLocation(a, b))

-----------------------------------------------------------------------------
(* The plan, as both sides read it *)

Nights == {0, 10, 15}      \* none, standard, early closure or late opening
Taken(p, a) == {w \in Weeks : p[a][w] > 0}
Eclo(p, a) == {w \in Weeks : p[a][w] = 15}
Yield(row) == 10 * Cardinality({w \in Weeks : row[w] > 0}) + 5 * Cardinality({w \in Weeks : row[w] = 15})
Need(a) == 10 * inst.activity[a].need
Last(p, a) == Max(Taken(p, a) \cup {0})

At(l, w, p) == {a \in Acts : l \in zones[a].occupied /\ p[a][w] > 0}
MixOf(A) == LET Of(type) == Cardinality({a \in A : Contract(a).type = type})
            IN [pm |-> Of("PM"), pc |-> Of("PC"), co |-> Of("C")]
Locations == UNION {zones[a].occupied : a \in Acts}
LinesOf(a) == {l[1] : l \in zones[a].closure}

-----------------------------------------------------------------------------
(* The solver's model *)

Enforced(group) == opts.relax # group

(* What it says of one activity by itself. *)
Rows(a) ==
  {row \in [Weeks -> Nights] :
     /\ Yield(row) >= Need(a)
     /\ Yield(row) <= Need(a) + 9
     /\ Enforced("start") => \A w \in Weeks : row[w] > 0 => w >= inst.activity[a].earliest
     /\ opts.scenario = "A" => \A w \in Weeks : row[w] # 15}

First(p, a) == Min(Taken(p, a) \cup {inst.weeks + 1})

Follows(p, a) ==
  LET before == inst.activity[a].pred IN before # 0 => First(p, a) >= Last(p, before) + 1

(* What one contract does in a week.  All its activities have its type. *)
Bucket(p, c, w) == {a \in Acts : inst.activity[a].contract = c /\ p[a][w] > 0}
Load(c) == inst.contract[c].allowance * inst.contract[c].fronts
WithinLoad(p) ==
  \A c \in DOMAIN inst.contract, w \in Weeks : Cardinality(Bucket(p, c, w)) <= Load(c)

(* A disruption replaces the nominal supply, the last one given first. *)
Disruptions(l, w) == {n \in DOMAIN opts.overrides : opts.overrides[n].cell = <<l, w>>}
SolverSupply(l, w) ==
  IF Disruptions(l, w) = {} THEN inst.supply[l] ELSE opts.overrides[Max(Disruptions(l, w))].supply

ExcessAllowed(l) ==
  LET all == Cardinality({a \in Acts : l \in zones[a].occupied})
  IN IF opts.soft \/ opts.scenario = "B" THEN all ELSE IF opts.scenario = "C" THEN 1 ELSE 0

WithinSupply(p) ==
  \A l \in Locations, w \in Weeks :
    \E ex \in 0..ExcessAllowed(l) : Fits(MixOf(At(l, w, p)), SolverSupply(l, w) + ex)

KeptApart(p) ==
  \A a, b \in Acts : a < b /\ Excluded(a, b) => Taken(p, a) \cap Taken(p, b) = {}

(* Mutated form: one week instead of two. *)
WindowsOfOneWeek(p) ==
  \A line \in inst.lines : \E start \in Weeks :
    \A a \in Acts : line \in LinesOf(a) => Eclo(p, a) \subseteq {start}

Windows(p) ==
  \A line \in inst.lines : \E start \in Weeks :
    \A a \in Acts : line \in LinesOf(a) => Eclo(p, a) \subseteq {start, start + 1}

(* `due' is the day of the horizon on which the contract is planned to end. *)
InTime(p, a) == 7 * Last(p, a) <= Contract(a).due

Admitted(p) ==
  /\ Enforced("precedence") => \A a \in Acts : Follows(p, a)
  /\ Enforced("weekly") => WithinLoad(p)
  /\ Enforced("capacity") => WithinSupply(p)
  /\ \A r \in opts.require : p[r[1]][r[2]] > 0
  /\ Enforced("buffers") => KeptApart(p)
  /\ opts.scenario = "C" => Windows(p)
  /\ opts.scenario = "B" /\ ~opts.soft => \A a \in Acts : InTime(p, a)

Solutions == LET each == [a \in Acts |-> Rows(a)]
             IN {p \in [Acts -> UNION {each[a] : a \in Acts}] :
                   (\A a \in Acts : p[a] \in each[a]) /\ Admitted(p)}

-----------------------------------------------------------------------------
(* AssignAccessNights: night 1 to its workfronts, then night 2, ...        *)

(* Mutated form: one activity too few on the first night. *)
NightEarly(p, a, w) ==
  LET c == inst.activity[a].contract
  IN (Cardinality({b \in Bucket(p, c, w) : b < a}) + 1) \div inst.contract[c].fronts + 1

Night(p, a, w) ==
  LET c == inst.activity[a].contract
  IN Cardinality({b \in Bucket(p, c, w) : b < a}) \div inst.contract[c].fronts + 1

-----------------------------------------------------------------------------
(* Validate.  How slots are packed, and their mixes, are PossessionSlots;  *)
(* here a location-week takes the number of slots the packing loops leave. *)

SlotsUsed(mix) == mix.pm + mix.pc + (Max({0, mix.co - 3 * mix.pc}) + 3) \div 4

EffectiveSupply(l, w) ==
  IF Disruptions(l, w) = {} THEN inst.supply[l] ELSE opts.overrides[Min(Disruptions(l, w))].supply

Tolerated(excess) == CASE opts.scenario = "A" -> excess <= 0
                       [] opts.scenario = "B" -> TRUE
                       [] opts.scenario = "C" -> excess <= 1

OnNight(p, c, w, night) == {a \in Bucket(p, c, w) : Night(p, a, w) = night}
NightsOf(p, c, w) == {Night(p, a, w) : a \in Bucket(p, c, w)}

TooLate(p, c) ==
  LET ends == {Last(p, a) : a \in {b \in Acts : inst.activity[b].contract = c}} \ {0}
  IN ends # {} /\ inst.contract[c].due < 7 * Max(ends)

Spread(p, line) == UNION {Eclo(p, a) : a \in {b \in Acts : line \in LinesOf(b)}}

Breaks(p, rule) ==
  CASE rule = "workload" -> \E a \in Acts : Yield(p[a]) < Need(a)
    [] rule = "planned_start" ->
         \E a \in Acts : \E w \in Taken(p, a) : w < inst.activity[a].earliest
    [] rule = "precedence" ->
         \E a \in Acts :
            LET before == inst.activity[a].pred
            IN /\ before # 0 /\ Taken(p, a) # {}
               /\ Taken(p, before) # {}
               /\ Min(Taken(p, a)) <= Last(p, before)
    [] rule = "capacity" ->
         \E l \in Locations, w \in Weeks :
            ~Tolerated(SlotsUsed(MixOf(At(l, w, p))) - EffectiveSupply(l, w))
    [] rule = "allocation" ->
         \E c \in DOMAIN inst.contract, w \in Weeks :
            ~(NightsOf(p, c, w) \subseteq 1..inst.contract[c].allowance)
    [] rule = "workfront" ->
         \E c \in DOMAIN inst.contract, w \in Weeks : \E night \in NightsOf(p, c, w) :
            Cardinality(OnNight(p, c, w, night)) > inst.contract[c].fronts
    [] rule = "closure" ->
         \E a, b \in Acts :
            /\ a < b /\ Taken(p, a) \cap Taken(p, b) # {}
            /\ ~ShareLocation(a, b)
            /\ Intrudes(a, b)
    [] rule = "eclo" ->
         \/ opts.scenario = "A" /\ \E a \in Acts : Eclo(p, a) # {}
         \/ /\ opts.scenario = "C"
            /\ \E line \in inst.lines : Spread(p, line) # {} /\
                 Max(Spread(p, line)) - Min(Spread(p, line)) + 1 > 2
    [] rule = "planned_date" ->
         opts.scenario = "B" /\ \E c \in DOMAIN inst.contract : TooLate(p, c)

Rules == {"workload", "planned_start", "precedence", "capacity", "allocation", "workfront",
          "closure", "eclo", "planned_date"}

PassesBut(p, lifted) == \A rule \in Rules \ lifted : ~Breaks(p, rule)

-----------------------------------------------------------------------------
(* The commands *)

NoPlan == <<>>

RulesInit ==
  /\ inst \in Instances
  /\ zones = [a \in Acts |-> Zone(a)]
  /\ command \in {"solve", "diagnose", "explain"}
  /\ opts \in [scenario : {"A", "B", "C"}, soft : {FALSE}, relax : {"none"}, require : {{}},
               overrides : {<<>>},
               reading : IF command = "solve" THEN {"adopted", "strict"} ELSE {"adopted"}]
  /\ phase = "search"
  /\ answer = "none"
  /\ plan = NoPlan

Answered(what, p) == /\ phase' = "answered"
                     /\ answer' = what
                     /\ plan' = p
                     /\ UNCHANGED <<loaded, opts>>

(* The search ends with any plan of the model, or with the proof that there *)
(* is none, or out of time.  A plan whose nights cannot be assigned is an   *)
(* internal error.                                                          *)
Search ==
  /\ phase = "search"
  /\ LET found == Solutions
     IN \/ \E p \in found : IF WithinLoad(p) THEN Answered("found", p)
                                             ELSE Answered("internal_error", NoPlan)
        \/ found = {} /\ Answered("infeasible", NoPlan)
        \/ Answered("timeout", NoPlan)

Ask(changed) == /\ opts' = changed
                /\ phase' = "search"
                /\ answer' = "none"
                /\ plan' = NoPlan
                /\ UNCHANGED loaded

(* --fallback: the scenario's policy is priced instead of forbidden. *)
Fallback ==
  /\ phase = "answered" /\ command = "solve"
  /\ answer = "infeasible" /\ ~opts.soft
  /\ Ask([opts EXCEPT !.soft = TRUE])

(* explain: could this activity work in this week? *)
Require(a, w) ==
  /\ phase = "answered" /\ command = "explain"
  /\ answer = "found" /\ opts.require = {}
  /\ Ask([opts EXCEPT !.require = {<<a, w>>}])

(* The groups in the order in which they are lifted. *)
After == [none |-> "buffers", buffers |-> "capacity", capacity |-> "weekly",
          weekly |-> "precedence", precedence |-> "start"]

Lift ==
  /\ phase = "answered"
  /\ \/ command = "diagnose"
     \/ command = "explain" /\ opts.require # {}
  /\ opts.relax = "none" => answer = "infeasible"
  /\ opts.relax \in DOMAIN After
  /\ Ask([opts EXCEPT !.relax = After[opts.relax]])

RulesNext == \/ command # "repair" /\ Search
             \/ Fallback
             \/ \E a \in Acts, w \in Weeks : Require(a, w)
             \/ Lift

-----------------------------------------------------------------------------
(* Properties *)

(* The validator's rules that what was lifted stands for. *)
Lifted ==
  IF opts.soft THEN {"capacity", "planned_date"}
  ELSE CASE opts.relax = "none" -> {}
         [] opts.relax = "buffers" -> {"closure"}
         [] opts.relax = "capacity" -> {"capacity"}
         [] opts.relax = "weekly" -> {"allocation", "workfront"}
         [] opts.relax = "precedence" -> {"precedence"}
         [] opts.relax = "start" -> {"planned_start"}

Unambiguous == \A m, n \in DOMAIN opts.overrides :
                 opts.overrides[m].cell = opts.overrides[n].cell => m = n

(* An activity without work of a contract due before the horizon counts as  *)
(* late in the solver's Scenario B, where the validator skips it.           *)
Unworked == opts.scenario = "B" /\ \E a \in Acts : Need(a) = 0 /\ Contract(a).due < 0

(* What holds of every answer is asked where both sides read the same.      *)
Comparable == Unambiguous /\ ~Unworked

(* A plan that is found passes the independent check; after a group of      *)
(* rules was lifted, or the policy priced, it fails for that and nothing    *)
(* else -- and does fail, so a plan marked not ready for submission never   *)
(* is (main.cpp:174-177), and a group named as binding is (main.cpp:218-220).*)
OnlyLiftedBroken ==
  answer = "found" /\ Comparable =>
    /\ PassesBut(plan, Lifted)
    /\ Lifted # {} => ~PassesBut(plan, {})

(* An infeasible answer is true of the validator's rules, which share no    *)
(* code with the model: what the model forbids beyond them, redundant       *)
(* nights (solver.cpp:90-96), costs no feasibility.  (A night asked for an  *)
(* activity without work is itself redundant.)                              *)
ProofsAreRight ==
  /\ answer = "infeasible" /\ opts.reading = "adopted" /\ Comparable
  /\ \A r \in opts.require : Need(r[1]) > 0
  =>
    ~\E p \in [Acts -> [Weeks -> Nights]] :
       /\ \A r \in opts.require : p[r[1]][r[2]] > 0
       /\ PassesBut(p, Lifted)
=============================================================================
