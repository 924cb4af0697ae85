------------------------------- MODULE Queues -------------------------------
(***************************************************************************)
(* Queues, sequences whose elements are all different: what joining at the *)
(* end, leaving at the head and leaving from the middle do to who is in    *)
(* them.  Used in the proofs about the service's queue of jobs and the     *)
(* client's queue of requests.                                             *)
(***************************************************************************)
EXTENDS SequencesExt, SequenceTheorems, TLAPS

Distinct(s) == \A i, j \in DOMAIN s : s[i] = s[j] => i = j
In(x, s) == \E i \in DOMAIN s : s[i] = x

(* Taking the head away takes one element away. *)
LEMMA TailOfQueue ==
  ASSUME NEW S, NEW s \in Seq(S), s # <<>>, Distinct(s)
  PROVE  /\ Tail(s) \in Seq(S) /\ Head(s) \in S
         /\ Distinct(Tail(s))
         /\ \A x : In(x, Tail(s)) <=> In(x, s) /\ x # Head(s)
  <1>1. /\ Len(s) \in Nat /\ Len(s) > 0 /\ DOMAIN s = 1..Len(s)
        /\ Tail(s) \in Seq(S) /\ Head(s) \in S
        /\ Len(Tail(s)) = Len(s) - 1 /\ DOMAIN Tail(s) = 1..(Len(s) - 1)
        /\ Head(s) = s[1] /\ \A i \in 1..(Len(s) - 1) : Tail(s)[i] = s[i + 1]
    BY EmptySeq, HeadTailProperties, LenProperties
  <1>2. Distinct(Tail(s))
    BY <1>1 DEF Distinct
  <1>3. ASSUME NEW x PROVE In(x, Tail(s)) <=> In(x, s) /\ x # Head(s)
    <2>1. ASSUME In(x, Tail(s)) PROVE In(x, s) /\ x # Head(s)
      <3>1. PICK i \in 1..(Len(s) - 1) : s[i + 1] = x
        BY <1>1, <2>1 DEF In
      <3>. QED
        BY <1>1, <3>1 DEF In, Distinct
    <2>2. ASSUME In(x, s), x # Head(s) PROVE In(x, Tail(s))
      <3>1. PICK i \in 1..Len(s) : s[i] = x
        BY <1>1, <2>2 DEF In
      <3>2. i - 1 \in 1..(Len(s) - 1) /\ Tail(s)[i - 1] = x
        BY <1>1, <2>2, <3>1
      <3>. QED
        BY <1>1, <3>2 DEF In
    <2>. QED
      BY <2>1, <2>2
  <1>. QED
    BY <1>1, <1>2, <1>3

(* Joining the end adds one element. *)
LEMMA AppendToQueue ==
  ASSUME NEW S, NEW s \in Seq(S), NEW e \in S, Distinct(s), ~In(e, s)
  PROVE  /\ Append(s, e) \in Seq(S) /\ Append(s, e) # <<>>
         /\ Distinct(Append(s, e))
         /\ \A x : In(x, Append(s, e)) <=> In(x, s) \/ x = e
  <1>1. /\ Len(s) \in Nat /\ DOMAIN s = 1..Len(s)
        /\ Append(s, e) \in Seq(S) /\ Append(s, e) # <<>>
        /\ DOMAIN Append(s, e) = 1..(Len(s) + 1)
        /\ \A i \in 1..Len(s) : Append(s, e)[i] = s[i]
        /\ Append(s, e)[Len(s) + 1] = e
    BY AppendProperties, LenProperties
  <1>2. Distinct(Append(s, e))
    BY <1>1 DEF Distinct, In
  <1>3. ASSUME NEW x PROVE In(x, Append(s, e)) <=> In(x, s) \/ x = e
    BY <1>1 DEF In
  <1>. QED
    BY <1>1, <1>2, <1>3

(* Leaving from the middle takes one element away. *)
LEMMA RemoveFromQueue ==
  ASSUME NEW S, NEW s \in Seq(S), NEW k \in DOMAIN s, Distinct(s)
  PROVE  /\ RemoveAt(s, k) \in Seq(S)
         /\ Distinct(RemoveAt(s, k))
         /\ \A x : In(x, RemoveAt(s, k)) <=> In(x, s) /\ x # s[k]
  <1>1. Len(s) \in Nat /\ DOMAIN s = 1..Len(s) /\ k \in 1..Len(s)
    BY LenProperties
  <1> DEFINE a == SubSeq(s, 1, k - 1)
             b == SubSeq(s, k + 1, Len(s))
             r == RemoveAt(s, k)
  <1>2. a \in Seq(S) /\ Len(a) = k - 1 /\ \A i \in 1..(k - 1) : a[i] = s[i]
    BY <1>1, SubSeqProperties
  <1>3. b \in Seq(S) /\ Len(b) = Len(s) - k /\ \A i \in 1..(Len(s) - k) : b[i] = s[k + i]
    BY <1>1, SubSeqProperties
  <1>4. r = a \o b
    BY DEF RemoveAt
  <1> HIDE DEF a, b, r
  <1>5. /\ r \in Seq(S) /\ DOMAIN r = 1..(Len(s) - 1)
        /\ \A i \in 1..(Len(s) - 1) : r[i] = IF i < k THEN s[i] ELSE s[i + 1]
    <2>1. /\ r \in Seq(S) /\ Len(r) = Len(s) - 1
          /\ \A i \in 1..(Len(s) - 1) : r[i] = IF i <= k - 1 THEN a[i] ELSE b[i - (k - 1)]
      <3>1. (k - 1) + (Len(s) - k) = Len(s) - 1
        BY <1>1
      <3>2. a \in Seq(S) /\ b \in Seq(S)
        BY <1>2, <1>3
      <3>3. /\ a \o b \in Seq(S) /\ Len(a \o b) = Len(a) + Len(b)
            /\ \A i \in 1..(Len(a) + Len(b)) :
                 (a \o b)[i] = IF i <= Len(a) THEN a[i] ELSE b[i - Len(a)]
        BY <3>2, ConcatProperties, ZenonT(60)
      <3>4. Len(a) = k - 1 /\ Len(b) = Len(s) - k
        BY <1>2, <1>3
      <3>. QED
        BY <1>4, <3>1, <3>3, <3>4, ZenonT(60)
    <2>2. ASSUME NEW i \in 1..(Len(s) - 1) PROVE r[i] = IF i < k THEN s[i] ELSE s[i + 1]
      <3>1. CASE i < k
        BY <1>1, <1>2, <2>1, <3>1
      <3>2. CASE ~(i < k)
        <4>1. i - (k - 1) \in 1..(Len(s) - k) /\ k + (i - (k - 1)) = i + 1
          BY <1>1, <3>2
        <4>2. r[i] = b[i - (k - 1)]
          BY <1>1, <2>1, <3>2
        <4>. QED
          BY <1>3, <3>2, <4>1, <4>2
      <3>. QED
        BY <3>1, <3>2
    <2>3. DOMAIN r = 1..Len(r)
      BY <2>1, LenProperties
    <2>. QED
      BY <2>1, <2>2, <2>3
  <1>6. Distinct(r)
    <2>1. SUFFICES ASSUME NEW i \in 1..(Len(s) - 1), NEW j \in 1..(Len(s) - 1), r[i] = r[j]
                   PROVE i = j
      BY <1>5 DEF Distinct
    <2>2. PICK m \in 1..Len(s) : m = (IF i < k THEN i ELSE i + 1) /\ s[m] = r[i]
      BY <1>1, <1>5
    <2>3. PICK n \in 1..Len(s) : n = (IF j < k THEN j ELSE j + 1) /\ s[n] = r[j]
      BY <1>1, <1>5
    <2>4. m = n
      BY <1>1, <2>1, <2>2, <2>3 DEF Distinct
    <2>. QED
      BY <1>1, <2>2, <2>3, <2>4
  <1>7. ASSUME NEW x PROVE In(x, r) <=> In(x, s) /\ x # s[k]
    <2>1. ASSUME In(x, r) PROVE In(x, s) /\ x # s[k]
      BY <1>1, <1>5, <2>1 DEF In, Distinct
    <2>2. ASSUME In(x, s), x # s[k] PROVE In(x, r)
      <3>1. PICK i \in 1..Len(s) : s[i] = x /\ i # k
        BY <1>1, <2>2 DEF In
      <3>2. CASE i < k
        BY <1>1, <1>5, <3>1, <3>2 DEF In
      <3>3. CASE ~(i < k)
        <4>1. i - 1 \in 1..(Len(s) - 1) /\ r[i - 1] = x
          BY <1>1, <1>5, <3>1, <3>3
        <4>. QED
          BY <1>5, <4>1 DEF In
      <3>. QED
        BY <3>2, <3>3
    <2>. QED
      BY <2>1, <2>2
  <1>. QED
    BY <1>5, <1>6, <1>7 DEF r
=============================================================================
