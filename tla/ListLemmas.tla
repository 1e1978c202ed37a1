----------------------------- MODULE ListLemmas -----------------------------
(***************************************************************************)
(* Facts about lists and about natural numbers that the proofs of several  *)
(* components cite.                                                        *)
(***************************************************************************)
EXTENDS GraphContract, FiniteSetTheorems, SequenceTheorems,
        WellFoundedInduction, TLAPS

\* A set of natural numbers with an element has a least one: the first
\* place of a list, or of an order, with some property.
THEOREM LeastNatural ==
  ASSUME NEW S, S \subseteq Nat, S # {}
  PROVE  \E n \in S : \A m \in S : n <= m
<1> DEFINE Upto(n) == S \cap (0..n)
           F == {Upto(n) : n \in S}
<1>1. \A n \in S : Upto(n) \in FiniteSubsetsOf(Nat)
  <2> TAKE n \in S
  <2>1. IsFiniteSet(0..n)
    BY FS_Interval
  <2>2. Upto(n) \in SUBSET (0..n)
    OBVIOUS
  <2>3. IsFiniteSet(Upto(n))
    BY <2>1, <2>2, FS_Subset
  <2> QED BY <2>3 DEF FiniteSubsetsOf
<1>2. F \subseteq FiniteSubsetsOf(Nat) /\ F # {}
  BY <1>1
<1>3. \E U \in F : \A V \in F : <<V, U>> \notin StrictSubsetOrdering(Nat)
  <2> HIDE DEF F
  <2> QED BY <1>2, FS_StrictSubsetOrderingWellFounded, WFMin
<1>4. PICK n \in S : \A V \in F : <<V, Upto(n)>> \notin StrictSubsetOrdering(Nat)
  BY <1>3
<1>5. ASSUME NEW m \in S, m < n PROVE FALSE
  <2>1. Upto(m) \subseteq Upto(n) /\ n \in Upto(n) /\ n \notin Upto(m)
    BY <1>5
  <2>2. <<Upto(m), Upto(n)>> \in StrictSubsetOrdering(Nat)
    BY <2>1, S \subseteq Nat DEF StrictSubsetOrdering
  <2> QED BY <2>2, <1>4
<1> QED BY <1>5, S \subseteq Nat

\* The types of the lists that can be made from a list in one step.
LEMMA ListTypes ==
  ASSUME NEW S
  PROVE  /\ <<>> \in Seq(S)
         /\ \A list \in Seq(S), e \in S :
              Append(list, e) \in Seq(S) /\ Append(list, e) # <<>>
         /\ \A list \in Seq(S) :
              list # <<>> => Head(list) \in S /\ Tail(list) \in Seq(S)
<1>1. <<>> \in Seq(S)
  OBVIOUS
<1>2. ASSUME NEW list \in Seq(S), NEW e \in S
      PROVE  Append(list, e) \in Seq(S) /\ Append(list, e) # <<>>
  <2>1. Append(list, e) \in Seq(S)
    OBVIOUS
  <2>2. Len(Append(list, e)) > 0
    OBVIOUS
  <2>3. ~(Len(<<>>) > 0)
    OBVIOUS
  <2>4. Append(list, e) # <<>>
    BY <2>2, <2>3, Zenon
  <2> QED BY <2>1, <2>4
<1>3. ASSUME NEW list \in Seq(S), list # <<>>
      PROVE  Head(list) \in S /\ Tail(list) \in Seq(S)
  BY <1>3
<1> QED BY <1>1, <1>2, <1>3

\* The elements of a list after it grows at the end.
LEMMA ElemsOfAppend ==
  ASSUME NEW S, NEW list \in Seq(S), NEW e
  PROVE  /\ Elems(Append(list, e)) = Elems(list) \cup {e}
         /\ DOMAIN Append(list, e) = DOMAIN list \cup {Len(list) + 1}
         /\ \A n \in DOMAIN list : Append(list, e)[n] = list[n]
         /\ Append(list, e)[Len(list) + 1] = e
         /\ DOMAIN list = 1..Len(list)
         /\ Len(list) \in Nat
<1>1. /\ Len(list) \in Nat
      /\ DOMAIN list = 1..Len(list)
      /\ DOMAIN Append(list, e) = 1..(Len(list) + 1)
      /\ \A n \in 1..Len(list) : Append(list, e)[n] = list[n]
      /\ Append(list, e)[Len(list) + 1] = e
  OBVIOUS
<1> QED BY <1>1 DEF Elems

\* The elements of two lists in a row.
LEMMA ElemsOfConcat ==
  ASSUME NEW S, NEW s \in Seq(S), NEW t \in Seq(S)
  PROVE  Elems(s \o t) = Elems(s) \cup Elems(t)
<1>1. /\ DOMAIN s = 1..Len(s) /\ DOMAIN t = 1..Len(t)
      /\ DOMAIN (s \o t) = 1..(Len(s) + Len(t))
      /\ Len(s) \in Nat /\ Len(t) \in Nat
      /\ \A n \in 1..(Len(s) + Len(t)) :
           (s \o t)[n] = IF n <= Len(s) THEN s[n] ELSE t[n - Len(s)]
  OBVIOUS
<1>2. ASSUME NEW n \in DOMAIN t
      PROVE  n + Len(s) \in DOMAIN (s \o t) /\ (s \o t)[n + Len(s)] = t[n]
  BY <1>1
<1>3. ASSUME NEW n \in DOMAIN s
      PROVE  n \in DOMAIN (s \o t) /\ (s \o t)[n] = s[n]
  BY <1>1
<1>4. ASSUME NEW n \in DOMAIN (s \o t)
      PROVE  (s \o t)[n] \in Elems(s) \cup Elems(t)
  <2>1. CASE n <= Len(s)
    BY <1>1, <2>1 DEF Elems
  <2>2. CASE ~(n <= Len(s))
    <3>1. n - Len(s) \in DOMAIN t /\ (s \o t)[n] = t[n - Len(s)]
      BY <1>1, <2>2
    <3> QED BY <3>1 DEF Elems
  <2> QED BY <2>1, <2>2
<1>5. Elems(s \o t) \subseteq Elems(s) \cup Elems(t)
  BY <1>4 DEF Elems
<1>6. Elems(s) \cup Elems(t) \subseteq Elems(s \o t)
  BY <1>2, <1>3 DEF Elems
<1> QED BY <1>5, <1>6

\* The elements of a list without its head.
LEMMA ElemsOfTail ==
  ASSUME NEW S, NEW list \in Seq(S), list # <<>>
  PROVE  /\ Head(list) \in S
         /\ Tail(list) \in Seq(S)
         /\ Elems(list) = {Head(list)} \cup Elems(Tail(list))
<1>1. /\ Len(list) \in Nat \ {0}
      /\ DOMAIN list = 1..Len(list)
      /\ DOMAIN Tail(list) = 1..(Len(list) - 1)
      /\ \A n \in 1..(Len(list) - 1) : Tail(list)[n] = list[n + 1]
      /\ Head(list) = list[1]
      /\ Head(list) \in S
      /\ Tail(list) \in Seq(S)
  OBVIOUS
<1>2. ASSUME NEW n \in DOMAIN list, n # 1
      PROVE  n - 1 \in DOMAIN Tail(list) /\ Tail(list)[n - 1] = list[n]
  BY <1>1, <1>2
<1> QED BY <1>1, <1>2 DEF Elems

\* No element stands at two places of the list.
Distinct(list) == \A m, n \in DOMAIN list : list[m] = list[n] => m = n

\* A list without repetitions grows by something that is not in it.
LEMMA DistinctAppend ==
  ASSUME NEW S, NEW list \in Seq(S), Distinct(list), NEW e, e \notin Elems(list)
  PROVE  Distinct(Append(list, e))
<1>1. \A n \in DOMAIN list : list[n] # e
  BY DEF Elems
<1> QED BY <1>1, ElemsOfAppend DEF Distinct

\* Taking the first element of a list without repetitions takes it away.
LEMMA DistinctTail ==
  ASSUME NEW S, NEW list \in Seq(S), Distinct(list), list # <<>>
  PROVE  /\ Distinct(Tail(list))
         /\ Elems(Tail(list)) = Elems(list) \ {Head(list)}
<1>1. /\ Len(list) \in Nat \ {0}
      /\ DOMAIN list = 1..Len(list)
      /\ DOMAIN Tail(list) = 1..(Len(list) - 1)
      /\ \A n \in 1..(Len(list) - 1) : Tail(list)[n] = list[n + 1]
      /\ Head(list) = list[1]
  OBVIOUS
<1>2. Distinct(Tail(list))
  BY <1>1 DEF Distinct
<1>3. \A n \in 1..(Len(list) - 1) : Tail(list)[n] # Head(list)
  BY <1>1 DEF Distinct
<1>4. Head(list) \notin Elems(Tail(list))
  BY <1>1, <1>3 DEF Elems
<1> QED BY <1>2, <1>4, ElemsOfTail

\* A list of n of the first n numbers that has no repetitions has them all.
LEMMA DistinctFills ==
  ASSUME NEW n \in Nat, NEW list \in Seq(1..n), Distinct(list), Len(list) = n
  PROVE  Elems(list) = 1..n
<1>1. list \in [1..n -> 1..n] /\ DOMAIN list = 1..n
  OBVIOUS
<1>2. list \in Injection(1..n, 1..n)
  BY <1>1 DEF Distinct, Injection, IsInjective
<1>3. IsFiniteSet(1..n)
  BY FS_Interval
<1>4. list \in Surjection(1..n, 1..n)
  BY <1>2, <1>3, FS_Injection
<1> QED BY <1>1, <1>4 DEF Surjection, Elems
\* Two lists in a row grow where the second does, ...
LEMMA ConcatAppend ==
  ASSUME NEW S, NEW s \in Seq(S), NEW t \in Seq(S), NEW e \in S
  PROVE  s \o Append(t, e) = Append(s \o t, e)
<1>1. /\ s \o Append(t, e) \in Seq(S)
      /\ Append(s \o t, e) \in Seq(S)
      /\ Len(s \o Append(t, e)) = Len(Append(s \o t, e))
  OBVIOUS
<1>2. \A n \in 1..Len(s \o Append(t, e)) :
        (s \o Append(t, e))[n] = Append(s \o t, e)[n]
  OBVIOUS
<1> QED BY <1>1, <1>2, SeqEqual

\* ... stay the same when an element moves from the one to the other, ...
LEMMA ConcatShift ==
  ASSUME NEW S, NEW s \in Seq(S), NEW t \in Seq(S), t # <<>>
  PROVE  Append(s, Head(t)) \o Tail(t) = s \o t
<1>1. /\ Append(s, Head(t)) \o Tail(t) \in Seq(S)
      /\ s \o t \in Seq(S)
      /\ Len(Append(s, Head(t)) \o Tail(t)) = Len(s \o t)
  OBVIOUS
<1>2. \A n \in 1..Len(s \o t) :
        (Append(s, Head(t)) \o Tail(t))[n] = (s \o t)[n]
  OBVIOUS
<1> QED BY <1>1, <1>2, SeqEqual

\* ... and begin with the first of them.
LEMMA ConcatPrefix ==
  ASSUME NEW S, NEW s \in Seq(S), NEW t \in Seq(S)
  PROVE  /\ s \o t \in Seq(S)
         /\ Len(s) \in Nat /\ Len(s \o t) \in Nat
         /\ DOMAIN s = 1..Len(s) /\ DOMAIN (s \o t) = 1..Len(s \o t)
         /\ Len(s) <= Len(s \o t)
         /\ \A n \in DOMAIN s : (s \o t)[n] = s[n]
OBVIOUS

\* A list grows at its end whether or not its head is taken.
LEMMA TailOfAppend ==
  ASSUME NEW S, NEW list \in Seq(S), list # <<>>, NEW e \in S
  PROVE  Tail(Append(list, e)) = Append(Tail(list), e)
<1>1. /\ Tail(Append(list, e)) \in Seq(S)
      /\ Append(Tail(list), e) \in Seq(S)
      /\ Len(Tail(Append(list, e))) = Len(Append(Tail(list), e))
  OBVIOUS
<1>2. \A n \in 1..Len(list) :
        Tail(Append(list, e))[n] = Append(Tail(list), e)[n]
  OBVIOUS
<1> QED BY <1>1, <1>2, SeqEqual

\* There is something behind the head of a list that is longer than one.
LEMMA TailOfLonger ==
  ASSUME NEW S, NEW list \in Seq(S), Len(list) > 1
  PROVE  Tail(list) # <<>>
<1>1. Len(Tail(list)) > 0
  OBVIOUS
<1>2. ~(Len(<<>>) > 0)
  OBVIOUS
<1> QED BY <1>1, <1>2, Zenon

LEMMA TailOfSingle ==
  ASSUME NEW S, NEW list \in Seq(S), list # <<>>, Len(list) = 1
  PROVE  Tail(list) = <<>>
<1>1. Tail(list) \in Seq(S)
  BY ElemsOfTail
<1>2. ~(Len(Tail(list)) > 0)
  <2>1. Len(Tail(list)) = 0
    OBVIOUS
  <2>2. ~(0 > 0)
    OBVIOUS
  <2> QED BY <2>1, <2>2, Zenon
<1>3. Tail(list) # <<>> => Len(Tail(list)) > 0
  BY <1>1
<1> QED BY <1>2, <1>3, Zenon
=============================================================================
