----------------------- MODULE PossessionSlotsProofs -----------------------
(***************************************************************************)
(* For any number of activities and any supplies: the solver's closed form *)
(* for the possession slots of a location-week (solver.cpp:143-187) and    *)
(* the packing the exporter makes (schedule.cpp:21-46) agree to the slot.  *)
(*                                                                         *)
(* None of the three properties is inductive.  What the packing keeps true *)
(* at every step is that its slots are no more than the two inequalities   *)
(* ask of the activities packed so far: `Packing' below.                   *)
(***************************************************************************)
EXTENDS PossessionSlots, WellFoundedInduction, TLAPS

(* The activities packed so far, as the two inequalities weigh them. *)
Heads == (present.pm - left.pm) + (present.pc - left.pc)
Quarters == 4 * (present.pm - left.pm) + (present.pc - left.pc) + (present.co - left.co)

Within == left.pm <= present.pm /\ left.pc <= present.pc /\ left.co <= present.co

Enough == Heads <= Len(slots) /\ Quarters <= 4 * Len(slots)

(* While a C waits every slot is full; while a PM or PC waits each slot has *)
(* one of them at its head; and a slot without a head follows full ones.    *)
Packing == /\ Within
           /\ Enough
           /\ left.pm > 0 \/ left.pc > 0 => Len(slots) = Heads
           /\ left.co > 0 => Quarters = 4 * Len(slots)
           /\ Len(slots) = Heads \/ 4 * Len(slots) < Quarters + 4

Legal == \A n \in DOMAIN slots : LegalMix(slots[n])

Unstarted == stage = "solve" => slots = <<>> /\ left = Nobody /\ present = Nobody
WasAdmitted == stage # "solve" => Admits(present)
Finished == Judged => left = Nobody
RefusedOnlySoft == stage = "refused" => soft

IInv == /\ TypeOK
        /\ Unstarted
        /\ WasAdmitted
        /\ Finished
        /\ Packing
        /\ Legal
        /\ RefusedOnlySoft

-----------------------------------------------------------------------------
(* What one Pack does, whichever activities it takes. *)
LEMMA PackOne ==
  ASSUME IInv, stage = "pack", NEW mix \in Mix, LegalMix(mix), Pack(mix),
         mix.pm <= left.pm, mix.pc <= left.pc, mix.co <= left.co
  PROVE  /\ TypeOK' /\ Unstarted' /\ WasAdmitted' /\ Finished' /\ Legal'
         /\ RefusedOnlySoft'
         /\ Len(slots') = Len(slots) + 1
         /\ present' = present
         /\ left'.pm = left.pm - mix.pm
         /\ left'.pc = left.pc - mix.pc
         /\ left'.co = left.co - mix.co
         /\ Heads' = Heads + mix.pm + mix.pc
         /\ Quarters' = Quarters + 4 * mix.pm + mix.pc + mix.co
<1>1. /\ mix.pm \in Nat /\ mix.pc \in Nat /\ mix.co \in Nat
      /\ left.pm \in Nat /\ left.pc \in Nat /\ left.co \in Nat
      /\ present.pm \in Nat /\ present.pc \in Nat /\ present.co \in Nat
  BY DEF IInv, TypeOK, Mix
<1>1a. slots \in Seq(Mix)
  BY DEF IInv, TypeOK
<1>2. /\ slots' = Append(slots, mix)
      /\ left' = [pm |-> left.pm - mix.pm, pc |-> left.pc - mix.pc, co |-> left.co - mix.co]
      /\ scenario' = scenario /\ soft' = soft /\ supply' = supply /\ present' = present
      /\ stage' = stage
  BY DEF Pack, given
<1>3. left'.pm = left.pm - mix.pm /\ left'.pc = left.pc - mix.pc /\ left'.co = left.co - mix.co
  BY <1>2
<1>4. left.pm - mix.pm \in Nat /\ left.pc - mix.pc \in Nat /\ left.co - mix.co \in Nat
  BY <1>1
<1>5. left' \in Mix
  BY <1>2, <1>4 DEF Mix
<1>6. slots' \in Seq(Mix) /\ Len(slots') = Len(slots) + 1
  BY <1>1a, <1>2
<1>7. TypeOK'
  BY <1>2, <1>5, <1>6 DEF IInv, TypeOK
<1>8. Legal'
  <2> SUFFICES ASSUME NEW n \in DOMAIN slots' PROVE LegalMix(slots'[n])
    BY DEF Legal, LegalMix
  <2>1. CASE n = Len(slots) + 1
    BY <2>1, <1>1a, <1>2
  <2>2. CASE n # Len(slots) + 1
    <3>1. n \in DOMAIN slots /\ slots'[n] = slots[n]
      BY <2>2, <1>1a, <1>2, <1>6
    <3> QED  BY <3>1 DEF IInv, Legal
  <2> QED  BY <2>1, <2>2
<1>9. Unstarted' /\ WasAdmitted' /\ Finished' /\ RefusedOnlySoft'
  BY <1>2 DEF IInv, Unstarted, WasAdmitted, Finished, RefusedOnlySoft, Judged,
              Admits, MaxExcess, Fits
<1>10. Heads' = Heads + mix.pm + mix.pc
  <2>1. Heads' = (present.pm - left'.pm) + (present.pc - left'.pc)
    BY <1>2 DEF Heads
  <2>2. Heads = (present.pm - left.pm) + (present.pc - left.pc)
    BY DEF Heads
  <2> QED  BY <2>1, <2>2, <1>1, <1>3, SMTT(30)
<1>11. Quarters' = Quarters + 4 * mix.pm + mix.pc + mix.co
  <2>1. Quarters' = 4 * (present.pm - left'.pm) + (present.pc - left'.pc)
                    + (present.co - left'.co)
    BY <1>2 DEF Quarters
  <2>2. Quarters = 4 * (present.pm - left.pm) + (present.pc - left.pc)
                   + (present.co - left.co)
    BY DEF Quarters
  <2> QED  BY <2>1, <2>2, <1>1, <1>3, SMTT(30)
<1> QED  BY <1>2, <1>3, <1>6, <1>7, <1>8, <1>9, <1>10, <1>11

LEMMA UnlimitedNat == Unlimited \in Nat
BY SMT DEF Unlimited

LEMMA Numbers ==
  ASSUME IInv
  PROVE  /\ left.pm \in Nat /\ left.pc \in Nat /\ left.co \in Nat
         /\ present.pm \in Nat /\ present.pc \in Nat /\ present.co \in Nat
         /\ Len(slots) \in Nat /\ Heads \in Int /\ Quarters \in Int
<1>1. slots \in Seq(Mix) /\ left \in Mix /\ present \in Mix
  BY DEF IInv, TypeOK
<1> QED  BY <1>1 DEF Mix, Heads, Quarters

-----------------------------------------------------------------------------
LEMMA InitIInv == Init => IInv
<1> SUFFICES ASSUME Init PROVE IInv
  OBVIOUS
<1>1. Nobody \in Mix /\ Nobody.pm = 0 /\ Nobody.pc = 0 /\ Nobody.co = 0
  BY DEF Nobody, Mix
<1>2. TypeOK
  BY <1>1 DEF Init, TypeOK
<1>3. Len(slots) = 0 /\ Heads = 0 /\ Quarters = 0
  BY <1>1 DEF Init, Heads, Quarters
<1>4. Packing
  BY <1>1, <1>3 DEF Init, Packing, Within, Enough
<1> QED  BY <1>2, <1>4 DEF Init, IInv, Unstarted, WasAdmitted, Finished, Judged, Legal,
            RefusedOnlySoft

LEMMA SolveKeeps ==
  ASSUME IInv, NEW p \in Counts, Solve(p)
  PROVE  IInv'
<1>1. /\ present' = p /\ left' = p /\ stage' = "pack" /\ slots' = slots /\ slots = <<>>
      /\ scenario' = scenario /\ soft' = soft /\ supply' = supply /\ Admits(p)
  BY DEF Solve, IInv, Unstarted
<1>2. p \in Mix /\ p.pm \in Nat /\ p.pc \in Nat /\ p.co \in Nat
  BY SlotsAssumption DEF Counts, Mix
<1>3. TypeOK'
  BY <1>1, <1>2 DEF IInv, TypeOK
<1>4. WasAdmitted'
  BY <1>1 DEF WasAdmitted, Admits, MaxExcess
<1>5. Heads' = 0 /\ Quarters' = 0 /\ Len(slots') = 0
  BY <1>1, <1>2 DEF Heads, Quarters
<1>6. Packing'
  BY <1>1, <1>2, <1>5 DEF Packing, Within, Enough
<1>7. Legal' /\ Finished' /\ Unstarted' /\ RefusedOnlySoft'
  BY <1>1 DEF Legal, Finished, Judged, Unstarted, RefusedOnlySoft
<1> QED  BY <1>3, <1>4, <1>6, <1>7 DEF IInv

LEMMA MasterKeeps ==
  ASSUME IInv, PlaceMaster
  PROVE  IInv'
<1> DEFINE mix == [pm |-> 1, pc |-> 0, co |-> 0]
<1>1. mix \in Mix /\ mix.pm = 1 /\ mix.pc = 0 /\ mix.co = 0 /\ LegalMix(mix)
  BY DEF Mix, LegalMix
<1>2. stage = "pack" /\ left.pm > 0 /\ Pack(mix)
  BY DEF PlaceMaster
<1> HIDE DEF mix
<1>a. mix.pm <= left.pm /\ mix.pc <= left.pc /\ mix.co <= left.co
  BY <1>1, <1>2, Numbers, SMTT(60)
<1>b. /\ TypeOK' /\ Unstarted' /\ WasAdmitted' /\ Finished' /\ Legal' /\ RefusedOnlySoft'
      /\ Len(slots') = Len(slots) + 1
      /\ present' = present
      /\ left'.pm = left.pm - mix.pm
      /\ left'.pc = left.pc - mix.pc
      /\ left'.co = left.co - mix.co
      /\ Heads' = Heads + mix.pm + mix.pc
      /\ Quarters' = Quarters + 4 * mix.pm + mix.pc + mix.co
  BY <1>1, <1>2, <1>a, PackOne
<1>3. /\ left'.pm = left.pm - 1 /\ left'.pc = left.pc /\ left'.co = left.co
      /\ Heads' = Heads + 1
      /\ Quarters' = Quarters + 4
  BY <1>b, <1>1, Numbers, SMTT(60)
<1>4. Packing'
  BY <1>2, <1>3, <1>b, Numbers, SMTT(60) DEF IInv, Packing, Within, Enough
<1> QED  BY <1>b, <1>4 DEF IInv

LEMMA HostKeeps ==
  ASSUME IInv, PlaceHost
  PROVE  IInv'
<1> DEFINE mix == [pm |-> 0, pc |-> 1, co |-> Least(3, left.co)]
<1> DEFINE guests == Least(3, left.co)
<1>0. guests \in Nat /\ guests <= 3 /\ guests <= left.co /\ (left.co > guests => guests = 3)
  BY Numbers, SMTT(60) DEF Least
<1>1. mix \in Mix /\ mix.pm = 0 /\ mix.pc = 1 /\ mix.co = guests /\ LegalMix(mix)
  BY <1>0 DEF Mix, LegalMix
<1>2. stage = "pack" /\ left.pm = 0 /\ left.pc > 0 /\ Pack(mix)
  BY DEF PlaceHost
<1> HIDE DEF mix, guests
<1>a. mix.pm <= left.pm /\ mix.pc <= left.pc /\ mix.co <= left.co
  BY <1>0, <1>1, <1>2, Numbers, SMTT(60)
<1>b. /\ TypeOK' /\ Unstarted' /\ WasAdmitted' /\ Finished' /\ Legal' /\ RefusedOnlySoft'
      /\ Len(slots') = Len(slots) + 1
      /\ present' = present
      /\ left'.pm = left.pm - mix.pm
      /\ left'.pc = left.pc - mix.pc
      /\ left'.co = left.co - mix.co
      /\ Heads' = Heads + mix.pm + mix.pc
      /\ Quarters' = Quarters + 4 * mix.pm + mix.pc + mix.co
  BY <1>1, <1>2, <1>a, PackOne
<1>3. /\ left'.pm = 0 /\ left'.pc = left.pc - 1 /\ left'.co = left.co - guests
      /\ Heads' = Heads + 1
      /\ Quarters' = Quarters + 1 + guests
  BY <1>b, <1>0, <1>1, <1>2, Numbers, SMTT(60)
<1>4. Packing'
  <2>1. Within /\ Enough /\ Len(slots) = Heads
    BY <1>2 DEF IInv, Packing
  <2>2. left.co > 0 => Quarters = 4 * Len(slots)
    BY DEF IInv, Packing
  <2>3. Within'
    BY <2>1, <1>0, <1>2, <1>3, <1>b, Numbers, SMTT(60) DEF Within
  <2>4. Enough'
    BY <2>1, <1>0, <1>3, <1>b, Numbers, SMTT(60) DEF Enough
  <2>5. Len(slots') = Heads'
    BY <2>1, <1>3, <1>b
  <2>6. left'.co > 0 => Quarters' = 4 * Len(slots')
    BY <2>2, <1>0, <1>3, <1>b, Numbers, SMTT(60)
  <2> QED  BY <2>3, <2>4, <2>5, <2>6 DEF Packing
<1> QED  BY <1>b, <1>4 DEF IInv

LEMMA SharedKeeps ==
  ASSUME IInv, PlaceShared
  PROVE  IInv'
<1> DEFINE mix == [pm |-> 0, pc |-> 0, co |-> Least(4, left.co)]
<1> DEFINE sharing == Least(4, left.co)
<1>1. stage = "pack" /\ left.pm = 0 /\ left.pc = 0 /\ left.co > 0 /\ Pack(mix)
  BY DEF PlaceShared
<1>2. /\ sharing \in Nat /\ 0 < sharing /\ sharing <= 4 /\ sharing <= left.co
      /\ left.co > sharing => sharing = 4
  BY <1>1, Numbers, SMTT(60) DEF Least
<1>3. mix \in Mix /\ mix.pm = 0 /\ mix.pc = 0 /\ mix.co = sharing /\ LegalMix(mix)
  BY <1>2 DEF Mix, LegalMix
<1> HIDE DEF mix, sharing
<1>a. mix.pm <= left.pm /\ mix.pc <= left.pc /\ mix.co <= left.co
  BY <1>1, <1>2, <1>3, Numbers, SMTT(60)
<1>b. /\ TypeOK' /\ Unstarted' /\ WasAdmitted' /\ Finished' /\ Legal' /\ RefusedOnlySoft'
      /\ Len(slots') = Len(slots) + 1
      /\ present' = present
      /\ left'.pm = left.pm - mix.pm
      /\ left'.pc = left.pc - mix.pc
      /\ left'.co = left.co - mix.co
      /\ Heads' = Heads + mix.pm + mix.pc
      /\ Quarters' = Quarters + 4 * mix.pm + mix.pc + mix.co
  BY <1>1, <1>3, <1>a, PackOne
<1>4. /\ left'.pm = 0 /\ left'.pc = 0 /\ left'.co = left.co - sharing
      /\ Heads' = Heads
      /\ Quarters' = Quarters + sharing
  BY <1>b, <1>1, <1>2, <1>3, Numbers, SMTT(60)
<1>5. Packing'
  <2>1. Within /\ Enough /\ Quarters = 4 * Len(slots)
    BY <1>1 DEF IInv, Packing
  <2>2. Within'
    BY <2>1, <1>1, <1>2, <1>4, <1>b, Numbers, SMTT(60) DEF Within
  <2>3. Enough'
    BY <2>1, <1>2, <1>4, <1>b, Numbers, SMTT(60) DEF Enough
  <2>4. 4 * Len(slots') < Quarters' + 4
    BY <2>1, <1>2, <1>4, <1>b, Numbers, SMTT(60)
  <2>5. left'.co > 0 => Quarters' = 4 * Len(slots')
    BY <2>1, <1>2, <1>4, <1>b, Numbers, SMTT(60)
  <2> QED  BY <2>2, <2>3, <2>4, <2>5, <1>4 DEF Packing
<1> QED  BY <1>b, <1>5 DEF IInv

-----------------------------------------------------------------------------
(* A finished packing takes the fewest slots the inequalities allow. *)
LEMMA LeastSlots ==
  ASSUME IInv, left = Nobody
  PROVE  /\ \A n \in Nat : Len(slots) <= n => Fits(present, n)
         /\ \A n \in Nat : Fits(present, n) => Len(slots) <= n
<1>1. left.pm = 0 /\ left.pc = 0 /\ left.co = 0
  BY DEF Nobody
<1>2. /\ Heads = present.pm + present.pc
      /\ Quarters = 4 * present.pm + present.pc + present.co
  BY <1>1, Numbers, SMTT(60) DEF Heads, Quarters
<1> QED  BY <1>1, <1>2, Numbers, SMTT(60) DEF IInv, Packing, Enough, Fits

(* So an admitted choice needs no more excess than the model allowed it. *)
LEMMA AdmittedIsEnough ==
  ASSUME IInv, left = Nobody, stage # "solve"
  PROVE  /\ Len(slots) <= supply + MaxExcess
         /\ MaxExcess \in Nat /\ supply \in Nat
<1>1. MaxExcess \in Nat /\ supply \in Nat
  BY SlotsAssumption, UnlimitedNat DEF IInv, TypeOK, MaxExcess
<1>2. PICK excess \in 0..MaxExcess : Fits(present, supply + excess)
  BY DEF IInv, WasAdmitted, Admits
<1>3. supply + excess \in Nat /\ supply + excess <= supply + MaxExcess
  BY <1>1
<1>4. Len(slots) <= supply + excess
  BY <1>2, <1>3, LeastSlots
<1> QED  BY <1>1, <1>3, <1>4, Numbers, SMTT(60)

LEMMA JudgeKeeps ==
  ASSUME IInv, Judge
  PROVE  IInv'
<1>1. /\ left = Nobody /\ stage = "pack" /\ stage' \in {"accepted", "refused"}
      /\ left' = left /\ slots' = slots /\ present' = present
      /\ scenario' = scenario /\ soft' = soft /\ supply' = supply
  BY DEF Judge, given
<1>2. ~soft => Passes
  <2> SUFFICES ASSUME ~soft PROVE Passes
    OBVIOUS
  <2>1. Len(slots) <= supply + MaxExcess /\ MaxExcess \in Nat /\ supply \in Nat
    BY <1>1, AdmittedIsEnough
  <2>2. MaxExcess <= Tolerance /\ Tolerance \in Nat
    BY SlotsAssumption, UnlimitedNat DEF MaxExcess, Tolerance, IInv, TypeOK
  <2>3. Excess <= Tolerance
    BY <2>1, <2>2, Numbers, SMTT(60) DEF Excess
  <2> QED  BY <2>3 DEF Passes, IInv, Legal
<1>3. RefusedOnlySoft'
  BY <1>1, <1>2 DEF Judge, RefusedOnlySoft
<1>4. TypeOK'
  BY <1>1 DEF IInv, TypeOK
<1>5. Packing' /\ Legal'
  BY <1>1 DEF IInv, Packing, Within, Enough, Heads, Quarters, Legal
<1>6. Unstarted' /\ Finished' /\ WasAdmitted'
  BY <1>1 DEF IInv, Unstarted, Finished, Judged, WasAdmitted, Admits, MaxExcess, Fits
<1> QED  BY <1>3, <1>4, <1>5, <1>6 DEF IInv

LEMMA NextIInv == IInv /\ [Next]_vars => IInv'
<1> SUFFICES ASSUME IInv, [Next]_vars PROVE IInv'
  OBVIOUS
<1>1. CASE \E p \in Counts : Solve(p)
  BY <1>1, SolveKeeps
<1>2. CASE PlaceMaster
  BY <1>2, MasterKeeps
<1>3. CASE PlaceHost
  BY <1>3, HostKeeps
<1>4. CASE PlaceShared
  BY <1>4, SharedKeeps
<1>5. CASE Judge
  BY <1>5, JudgeKeeps
<1>6. CASE UNCHANGED vars
  BY <1>6 DEF vars, IInv, TypeOK, Unstarted, WasAdmitted, Admits, MaxExcess, Fits, Finished,
          Judged, Packing, Within, Enough, Heads, Quarters, Legal, RefusedOnlySoft
<1> QED  BY <1>1, <1>2, <1>3, <1>4, <1>5, <1>6 DEF Next

LEMMA Inductive == Spec => []IInv
<1> QED  BY InitIInv, NextIInv, PTL DEF Spec

-----------------------------------------------------------------------------
(* The state of a location-week keeps its type; above all no activity is   *)
(* packed twice, which would drive `left' below zero (schedule.cpp:34-46). *)
THEOREM Typing == Spec => []TypeOK
<1>1. IInv => TypeOK
  BY DEF IInv
<1> QED  BY <1>1, Inductive, PTL

(* A plan the solver admits is accepted by the validator's capacity and    *)
(* mix rules, unless the policy was priced (solver.cpp:143-187,            *)
(* validator.cpp:179-222).                                                 *)
THEOREM Accepted == Spec => []AdmittedPasses
<1>1. IInv => AdmittedPasses
  BY DEF IInv, RefusedOnlySoft, AdmittedPasses
<1> QED  BY <1>1, Inductive, PTL

(* The excess the score counts is the least excess the model would have    *)
(* admitted (schedule.cpp:120-122).                                        *)
THEOREM Priced == Spec => []ExcessIsPriced
<1>1. IInv => ExcessIsPriced
  <2> SUFFICES ASSUME IInv, Judged
               PROVE  /\ Excess <= MaxExcess
                      /\ Fits(present, supply + Excess)
                      /\ \A n \in 0..Excess : n < Excess => ~Fits(present, supply + n)
    BY DEF ExcessIsPriced
  <2>1. left = Nobody /\ stage # "solve"
    BY DEF IInv, Finished, Judged
  <2>2. Len(slots) <= supply + MaxExcess /\ MaxExcess \in Nat /\ supply \in Nat
    BY <2>1, AdmittedIsEnough
  <2>3. /\ Excess \in Nat /\ Excess <= MaxExcess
        /\ Len(slots) <= supply + Excess
        /\ Excess > 0 => Len(slots) = supply + Excess
    BY <2>2, Numbers, SMTT(60) DEF Excess
  <2>4. supply + Excess \in Nat
    BY <2>2, <2>3
  <2>5. Fits(present, supply + Excess)
    BY <2>1, <2>3, <2>4, LeastSlots
  <2>6. ASSUME NEW n \in 0..Excess, n < Excess PROVE ~Fits(present, supply + n)
    <3>1. supply + n \in Nat /\ supply + n < Len(slots)
      BY <2>2, <2>3, <2>6, Numbers, SMTT(60)
    <3>2. ~(Len(slots) <= supply + n)
      BY <3>1, Numbers, SMTT(60)
    <3> QED  BY <2>1, <3>1, <3>2, LeastSlots
  <2> QED  BY <2>3, <2>5, <2>6
<1> QED  BY <1>1, Inductive, PTL

(* Where excess is scored or priced, the bound on it excludes no choice of *)
(* activities (solver.cpp:149-152).                                        *)
THEOREM Unbounded == Spec => []BoundNeverBinds
<1>1. IInv => BoundNeverBinds
  <2> SUFFICES ASSUME IInv, scenario = "B" \/ soft, NEW p \in Counts PROVE Admits(p)
    BY DEF BoundNeverBinds
  <2>1. MaxExcess = Capable /\ Capable \in Nat /\ supply \in Nat
    BY SlotsAssumption DEF MaxExcess, IInv, TypeOK
  <2>2. /\ p.pm \in Nat /\ p.pc \in Nat /\ p.co \in Nat
        /\ p.pm + p.pc + p.co <= Capable
    BY <2>1 DEF Counts, Total
  <2>3. Fits(p, supply + Capable)
    BY <2>1, <2>2 DEF Fits
  <2>4. Capable \in 0..MaxExcess
    BY <2>1
  <2> QED  BY <2>3, <2>4 DEF Admits
<1> QED  BY <1>1, Inductive, PTL

-----------------------------------------------------------------------------
(* What n slots can hold *)

(* A non-empty set of naturals has a smallest element. *)
LEMMA SmallestExists ==
  ASSUME NEW N \in SUBSET Nat, N # {}
  PROVE  \E n \in N : \A m \in N : n <= m
  <1>1. PICK n \in N : \A m \in N : ~(<<m, n>> \in {r \in Nat \X Nat : r[1] < r[2]})
    <2>1. IsWellFoundedOn({r \in Nat \X Nat : r[1] < r[2]}, Nat)
      BY NatLessThanWellFounded, ZenonT(60) DEF OpToRel
    <2>. QED
      BY <2>1, WFMin, ZenonT(60)
  <1>2. ASSUME NEW m \in N PROVE n <= m
    <2>1. m \in Nat /\ n \in Nat /\ <<m, n>> \in Nat \X Nat
      OBVIOUS
    <2>2. ~(<<m, n>>[1] < <<m, n>>[2])
      BY <1>1, <2>1
    <2>. QED
      BY <2>1, <2>2
  <1>. QED
    BY <1>1, <1>2

(* One more slot, with one legal mix in it. *)
Holds(S) == {p \in Counts : \E mix \in LegalMixes :
               /\ mix.pm <= p.pm /\ mix.pc <= p.pc /\ mix.co <= p.co
               /\ [pm |-> p.pm - mix.pm, pc |-> p.pc - mix.pc, co |-> p.co - mix.co] \in S}

HoldsUpTo(k, f) == f = [n \in 0..k |-> IF n = 0 THEN {Nobody} ELSE Holds(f[n - 1])]

(* The recursion defines a function: the smallest bound up to which it did *)
(* not would follow one up to which it does.                               *)
LEMMA HoldsExists == \A k \in Nat : \E f : HoldsUpTo(k, f)
  <1> DEFINE N == {k \in Nat : ~\E f : HoldsUpTo(k, f)}
  <1>. SUFFICES ASSUME N # {} PROVE FALSE
    OBVIOUS
  <1>1. PICK k \in N : \A m \in N : k <= m
    <2>1. N \in SUBSET Nat
      OBVIOUS
    <2>. HIDE DEF N
    <2>. QED
      BY <2>1, SmallestExists
  <1>2. k \in Nat /\ ~\E f : HoldsUpTo(k, f)
    BY <1>1
  <1>3. CASE k = 0
    <2> DEFINE f == [n \in 0..0 |-> {Nobody}]
    <2>1. \A n \in 0..0 : n = 0
      OBVIOUS
    <2>2. f = [n \in 0..0 |-> IF n = 0 THEN {Nobody} ELSE Holds(f[n - 1])]
      BY <2>1
    <2>3. HoldsUpTo(0, f)
      BY <2>2 DEF HoldsUpTo
    <2>. QED
      BY <1>2, <1>3, <2>3
  <1>4. CASE k # 0
    <2>1. k - 1 \in Nat /\ ~(k <= k - 1)
      BY <1>2, <1>4
    <2>2. k - 1 \notin N
      BY <1>1, <2>1
    <2>3. PICK f : HoldsUpTo(k - 1, f)
      BY <2>1, <2>2
    <2> DEFINE Body(g) == [n \in 0..k |-> IF n = 0 THEN {Nobody} ELSE Holds(g[n - 1])]
               g == [n \in 0..k |-> IF n = 0 THEN {Nobody} ELSE Holds(f[n - 1])]
    <2>4. ASSUME NEW n \in 0..(k - 1) PROVE g[n] = f[n]
      <3>1. n \in 0..k
        BY <1>2
      <3>2. f[n] = IF n = 0 THEN {Nobody} ELSE Holds(f[n - 1])
        BY <2>3 DEF HoldsUpTo
      <3>. QED
        BY <3>1, <3>2
    <2>5. ASSUME NEW n \in 0..k, n # 0 PROVE g[n - 1] = f[n - 1]
      <3>1. n - 1 \in 0..(k - 1)
        BY <1>2, <2>5
      <3>. QED
        BY <2>4, <3>1
    <2>6. g = [n \in 0..k |-> IF n = 0 THEN {Nobody} ELSE Holds(g[n - 1])]
      <3> DEFINE h == [n \in 0..k |-> IF n = 0 THEN {Nobody} ELSE Holds(g[n - 1])]
      <3>1. ASSUME NEW n \in 0..k PROVE g[n] = h[n]
        <4>1. CASE n = 0
          BY <4>1
        <4>2. CASE n # 0
          <5>1. g[n] = Holds(f[n - 1]) /\ h[n] = Holds(g[n - 1])
            BY <4>2
          <5>. QED
            BY <2>5, <4>2, <5>1
        <4>. QED
          BY <4>1, <4>2
      <3>. QED
        BY <3>1
    <2>7. HoldsUpTo(k, g)
      BY <2>6 DEF HoldsUpTo
    <2>. QED
      BY <1>2, <2>7
  <1>. QED
    BY <1>3, <1>4

LEMMA HoldingIs ==
  /\ Holding[0] = {Nobody}
  /\ \A n \in 0..Capable : n # 0 => Holding[n] = Holds(Holding[n - 1])
  <1>1. Capable \in Nat
    BY SlotsAssumption
  <1>2. HoldsUpTo(Capable, Holding)
    <2>1. Holding = CHOOSE f : HoldsUpTo(Capable, f)
      BY DEF Holding, HoldsUpTo, Holds
    <2>. QED
      BY <1>1, <2>1, HoldsExists
  <1>3. \A n \in 0..Capable :
          Holding[n] = IF n = 0 THEN {Nobody} ELSE Holds(Holding[n - 1])
    <2>1. Holding = [n \in 0..Capable |-> IF n = 0 THEN {Nobody} ELSE Holds(Holding[n - 1])]
      BY <1>2 DEF HoldsUpTo
    <2> DEFINE h == [n \in 0..Capable |-> IF n = 0 THEN {Nobody} ELSE Holds(Holding[n - 1])]
    <2>2. \A n \in 0..Capable : h[n] = IF n = 0 THEN {Nobody} ELSE Holds(Holding[n - 1])
      OBVIOUS
    <2>3. Holding = h
      BY <2>1
    <2>. HIDE DEF h
    <2>. QED
      BY <2>2, <2>3
  <1>4. 0 \in 0..Capable
    BY <1>1
  <1>. QED
    BY <1>3, <1>4

(* Whatever n slots hold fits them by the solver's inequalities. *)
LEMMA HoldingFits == \A n \in 0..Capable : \A p \in Holding[n] : Fits(p, n)
  <1> DEFINE N == {n \in 0..Capable : \E p \in Holding[n] : ~Fits(p, n)}
  <1>. SUFFICES ASSUME N # {} PROVE FALSE
    OBVIOUS
  <1>1. PICK n \in N : \A m \in N : n <= m
    <2>1. N \in SUBSET Nat
      OBVIOUS
    <2>. HIDE DEF N
    <2>. QED
      BY <2>1, SmallestExists
  <1>2. PICK p \in Holding[n] : ~Fits(p, n)
    BY <1>1
  <1>3. n \in 0..Capable
    BY <1>1
  <1>4. CASE n = 0
    BY <1>2, <1>4, HoldingIs DEF Fits, Nobody
  <1>5. CASE n # 0
    <2>0. n - 1 \in 0..Capable /\ ~(n <= n - 1)
      BY <1>3, <1>5, SlotsAssumption
    <2>1. n - 1 \in 0..Capable /\ n - 1 \notin N
      <3>. HIDE DEF N
      <3>. QED
        BY <1>1, <2>0
    <2>2. p \in Holds(Holding[n - 1])
      BY <1>2, <1>3, <1>5, HoldingIs
    <2>3. PICK mix \in LegalMixes :
            /\ p \in Counts
            /\ mix.pm <= p.pm /\ mix.pc <= p.pc /\ mix.co <= p.co
            /\ [pm |-> p.pm - mix.pm, pc |-> p.pc - mix.pc, co |-> p.co - mix.co]
                 \in Holding[n - 1]
      BY <2>2 DEF Holds
    <2>4. Fits([pm |-> p.pm - mix.pm, pc |-> p.pc - mix.pc, co |-> p.co - mix.co], n - 1)
      BY <2>1, <2>3
    <2>5. /\ p.pm \in Int /\ p.pc \in Int /\ p.co \in Int
          /\ mix.pm \in Nat /\ mix.pc \in Nat /\ mix.co \in Nat
          /\ LegalMix(mix)
      BY <2>3 DEF Counts, LegalMixes
    <2>6. mix.pm + mix.pc <= 1 /\ 4 * mix.pm + mix.pc + mix.co <= 4
      BY <2>5 DEF LegalMix
    <2>7. Fits(p, n)
      BY <1>3, <2>4, <2>5, <2>6 DEF Fits
    <2>. QED
      BY <1>2, <2>7
  <1>. QED
    BY <1>4, <1>5

-----------------------------------------------------------------------------
(* The packing holds what was packed *)

Packed == [pm |-> present.pm - left.pm, pc |-> present.pc - left.pc, co |-> present.co - left.co]

(* Every slot holds somebody, so there are never more of them than there   *)
(* are activities; and together they hold what has been packed.            *)
Held == /\ Total(present) <= Capable
        /\ Len(slots) <= Total(Packed)
        /\ Packed \in Holding[Len(slots)]

LEMMA InitHeld == Init => Held
  <1>. SUFFICES ASSUME Init PROVE Held
    OBVIOUS
  <1>1. present = Nobody /\ left = Nobody /\ Len(slots) = 0
    BY DEF Init
  <1>2. Packed = Nobody
    BY <1>1 DEF Packed, Nobody
  <1>3. Total(Nobody) = 0
    BY DEF Total, Nobody
  <1>. QED
    BY <1>1, <1>2, <1>3, HoldingIs, SlotsAssumption DEF Held

LEMMA SolveHolds ==
  ASSUME IInv, Held, NEW p \in Counts, Solve(p)
  PROVE  Held'
  <1>1. present' = p /\ left' = p /\ slots' = slots /\ slots = <<>> /\ Total(p) <= Capable
    BY DEF Solve, IInv, Unstarted
  <1>2. p.pm \in Nat /\ p.pc \in Nat /\ p.co \in Nat
    BY SlotsAssumption DEF Counts
  <1>3. Packed' = Nobody /\ Len(slots') = 0
    BY <1>1, <1>2 DEF Packed, Nobody
  <1>4. Total(Nobody) = 0
    BY DEF Total, Nobody
  <1>5. Total(Packed)' = 0
    BY <1>3, <1>4 DEF Total
  <1>. QED
    BY <1>1, <1>3, <1>5, HoldingIs DEF Held, Total

LEMMA PackHolds ==
  ASSUME IInv, Held, stage = "pack", NEW mix \in Mix, LegalMix(mix), Pack(mix),
         mix.pm + mix.pc + mix.co > 0,
         mix.pm <= left.pm, mix.pc <= left.pc, mix.co <= left.co
  PROVE  Held'
  <1>1. left \in Mix /\ present \in Mix /\ slots \in Seq(Mix)
    BY DEF IInv, TypeOK
  <1>2. /\ slots' = Append(slots, mix) /\ present' = present
        /\ left' = [pm |-> left.pm - mix.pm, pc |-> left.pc - mix.pc, co |-> left.co - mix.co]
    BY DEF Pack, given
  <1>3. PICK n \in Nat : Len(slots) = n /\ Len(slots') = n + 1
    BY <1>1, <1>2
  <1>4. PICK k \in Nat : Capable = k
    BY SlotsAssumption
  <1>5. PICK m1 \in Nat, m2 \in Nat, m3 \in Nat : mix = [pm |-> m1, pc |-> m2, co |-> m3]
    BY DEF Mix
  <1>6. PICK l1 \in Nat, l2 \in Nat, l3 \in Nat : left = [pm |-> l1, pc |-> l2, co |-> l3]
    BY <1>1 DEF Mix
  <1>7. PICK p1 \in Nat, p2 \in Nat, p3 \in Nat : present = [pm |-> p1, pc |-> p2, co |-> p3]
    BY <1>1 DEF Mix
  <1> DEFINE a == p1 - l1
             b == p2 - l2
             c == p3 - l3
             P == [pm |-> a, pc |-> b, co |-> c]
             Q == [pm |-> a + m1, pc |-> b + m2, co |-> c + m3]
  <1>8. m1 <= l1 /\ m2 <= l2 /\ m3 <= l3 /\ m1 + m2 + m3 > 0
    BY <1>5, <1>6
  <1>9. l1 <= p1 /\ l2 <= p2 /\ l3 <= p3
    BY <1>6, <1>7 DEF IInv, Packing, Within
  <1>10. p1 + p2 + p3 <= k
    BY <1>4, <1>7 DEF Held, Total
  <1>11. Packed = P
    BY <1>6, <1>7 DEF Packed
  <1>12. Packed' = Q
    <2>1. Packed' = [pm |-> p1 - (l1 - m1), pc |-> p2 - (l2 - m2), co |-> p3 - (l3 - m3)]
      BY <1>2, <1>5, <1>6, <1>7 DEF Packed
    <2>2. p1 - (l1 - m1) = a + m1 /\ p2 - (l2 - m2) = b + m2 /\ p3 - (l3 - m3) = c + m3
      OBVIOUS
    <2>. QED
      BY <2>1, <2>2
  <1>13. n <= a + b + c /\ P \in Holding[n]
    BY <1>3, <1>11 DEF Held, Total
  <1>14. /\ a \in Nat /\ b \in Nat /\ c \in Nat
         /\ a + m1 <= p1 /\ b + m2 <= p2 /\ c + m3 <= p3
    BY <1>8, <1>9
  <1>. HIDE DEF a, b, c
  <1>15. /\ n + 1 <= (a + m1) + (b + m2) + (c + m3)
         /\ n + 1 \in 0..k
         /\ a + m1 \in 0..k /\ b + m2 \in 0..k /\ c + m3 \in 0..k
         /\ (a + m1) + (b + m2) + (c + m3) <= k
    BY <1>8, <1>10, <1>13, <1>14
  <1>16. Total(Q) = (a + m1) + (b + m2) + (c + m3)
    BY DEF Total
  <1>17. Q \in Counts
    BY <1>4, <1>15, <1>16 DEF Counts
  <1>18. mix \in LegalMixes
    <2>1. LegalMix(mix) /\ mix.pm = m1 /\ mix.pc = m2 /\ mix.co = m3
      BY <1>5
    <2>2. m1 \in 0..1 /\ m2 \in 0..1 /\ m3 \in 0..4
      BY <2>1 DEF LegalMix
    <2>. QED
      BY <1>5, <2>1, <2>2 DEF LegalMixes
  <1>19. Q \in Holds(Holding[n])
    <2>1. [pm |-> Q.pm - mix.pm, pc |-> Q.pc - mix.pc, co |-> Q.co - mix.co] = P
      <3>1. (a + m1) - m1 = a /\ (b + m2) - m2 = b /\ (c + m3) - m3 = c
        BY <1>14
      <3>. QED
        BY <1>5, <3>1
    <2>2. mix.pm <= Q.pm /\ mix.pc <= Q.pc /\ mix.co <= Q.co
      BY <1>5, <1>14
    <2>. HIDE DEF P, Q
    <2>. QED
      BY <1>13, <1>17, <1>18, <2>1, <2>2 DEF Holds
  <1>20. Holding[n + 1] = Holds(Holding[n])
    <2>1. n + 1 # 0 /\ (n + 1) - 1 = n
      OBVIOUS
    <2>. QED
      BY <1>4, <1>15, <2>1, HoldingIs
  <1>21. Total(Packed)' = Total(Q)
    BY <1>12 DEF Total
  <1>22. Total(present)' = Total(present) /\ Total(present) <= Capable
    BY <1>2 DEF Held, Total
  <1>. HIDE DEF Q
  <1>. QED
    BY <1>3, <1>12, <1>15, <1>16, <1>19, <1>20, <1>21, <1>22 DEF Held

LEMMA NextHeld == IInv /\ Held /\ [Next]_vars => Held'
  <1>. SUFFICES ASSUME IInv, Held, [Next]_vars PROVE Held'
    OBVIOUS
  <1>1. CASE \E p \in Counts : Solve(p)
    BY <1>1, SolveHolds
  <1>2. CASE PlaceMaster
    <2> DEFINE mix == [pm |-> 1, pc |-> 0, co |-> 0]
    <2>1. mix \in Mix /\ LegalMix(mix) /\ mix.pm = 1 /\ mix.pc = 0 /\ mix.co = 0
      BY DEF Mix, LegalMix
    <2>2. stage = "pack" /\ left.pm > 0 /\ Pack(mix)
      BY <1>2 DEF PlaceMaster
    <2>. HIDE DEF mix
    <2>3. mix.pm <= left.pm /\ mix.pc <= left.pc /\ mix.co <= left.co
      BY <2>1, <2>2, Numbers
    <2>. QED
      BY <2>1, <2>2, <2>3, PackHolds
  <1>3. CASE PlaceHost
    <2> DEFINE guests == Least(3, left.co)
               mix == [pm |-> 0, pc |-> 1, co |-> guests]
    <2>1. guests \in Nat /\ guests <= 3 /\ guests <= left.co
      BY Numbers DEF Least
    <2>2. mix \in Mix /\ LegalMix(mix) /\ mix.pm = 0 /\ mix.pc = 1 /\ mix.co = guests
      BY <2>1 DEF Mix, LegalMix
    <2>3. stage = "pack" /\ left.pc > 0 /\ Pack(mix)
      BY <1>3 DEF PlaceHost
    <2>. HIDE DEF mix, guests
    <2>4. mix.pm <= left.pm /\ mix.pc <= left.pc /\ mix.co <= left.co
      BY <2>1, <2>2, <2>3, Numbers
    <2>. QED
      BY <2>1, <2>2, <2>3, <2>4, PackHolds
  <1>4. CASE PlaceShared
    <2> DEFINE sharing == Least(4, left.co)
               mix == [pm |-> 0, pc |-> 0, co |-> sharing]
    <2>1. stage = "pack" /\ left.co > 0 /\ Pack(mix)
      BY <1>4 DEF PlaceShared
    <2>2. sharing \in Nat /\ 0 < sharing /\ sharing <= 4 /\ sharing <= left.co
      BY <2>1, Numbers DEF Least
    <2>3. mix \in Mix /\ LegalMix(mix) /\ mix.pm = 0 /\ mix.pc = 0 /\ mix.co = sharing
      BY <2>2 DEF Mix, LegalMix
    <2>. HIDE DEF mix, sharing
    <2>4. mix.pm <= left.pm /\ mix.pc <= left.pc /\ mix.co <= left.co
      BY <2>2, <2>3, Numbers
    <2>. QED
      BY <2>1, <2>2, <2>3, <2>4, PackHolds
  <1>5. CASE Judge \/ UNCHANGED vars
    <2>1. left' = left /\ slots' = slots /\ present' = present
      BY <1>5 DEF Judge, vars, given
    <2>. QED
      BY <2>1 DEF Held, Packed, Total
  <1>. QED
    BY <1>1, <1>2, <1>3, <1>4, <1>5 DEF Next

(* The packing is whole, and no legal packing of the same activities takes *)
(* fewer slots (schedule.cpp:21-46 against validator.cpp:214-222).         *)
THEOREM Fewest == Spec => []FewestSlots
  <1>1. IInv /\ Held => FewestSlots
    <2>. SUFFICES ASSUME IInv, Held, Judged
                  PROVE  /\ present \in Holding[Len(slots)]
                         /\ \A n \in 0..Capable : n + 1 = Len(slots) => present \notin Holding[n]
      BY DEF FewestSlots
    <2>1. left = Nobody
      BY DEF IInv, Finished
    <2>2. Packed = present
      <3>1. present = [pm |-> present.pm, pc |-> present.pc, co |-> present.co]
        BY DEF IInv, TypeOK, Mix
      <3>2. /\ present.pm - left.pm = present.pm
            /\ present.pc - left.pc = present.pc
            /\ present.co - left.co = present.co
        BY <2>1, Numbers DEF Nobody
      <3>. QED
        BY <3>1, <3>2 DEF Packed
    <2>3. present \in Holding[Len(slots)]
      BY <2>2 DEF Held
    <2>4. ASSUME NEW n \in 0..Capable, n + 1 = Len(slots) PROVE present \notin Holding[n]
      <3>1. n \in Nat /\ ~(Len(slots) <= n)
        BY <2>4
      <3>2. ~Fits(present, n)
        BY <2>1, <3>1, LeastSlots
      <3>. QED
        BY <3>2, HoldingFits
    <2>. QED
      BY <2>3, <2>4
  <1>. QED
    BY <1>1, InitHeld, NextHeld, InitIInv, NextIInv, PTL DEF Spec
=============================================================================
