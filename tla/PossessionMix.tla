---------------------------- MODULE PossessionMix ----------------------------
(***************************************************************************)
(* What a possession slot holds.  Activities matter by access type only: a *)
(* PM is alone in its slot, a PC hosts up to three C, and four C may share.*)
(***************************************************************************)
EXTENDS Integers

Mix == [pm : Nat, pc : Nat, co : Nat]
Nobody == [pm |-> 0, pc |-> 0, co |-> 0]
Total(p) == p.pm + p.pc + p.co

(* The validator's rule for one slot (validator.cpp:214-215). *)
LegalMix(mix) == \/ mix.pm = 1 /\ mix.pc = 0 /\ mix.co = 0
                 \/ mix.pm = 0 /\ mix.pc <= 1 /\ mix.pc + mix.co <= 4

(* The solver's two inequalities for n slots (solver.cpp:143-187).  The    *)
(* mutated form forgets that a PC takes a quarter of its slot.             *)
FitsWithoutHosts(p, n) == /\ p.pm + p.pc <= n
                          /\ 4 * p.pm + p.co <= 4 * n

Fits(p, n) == /\ p.pm + p.pc <= n
              /\ 4 * p.pm + p.pc + p.co <= 4 * n
=============================================================================
