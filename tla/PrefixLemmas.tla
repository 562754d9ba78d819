------------------------------ MODULE PrefixLemmas ------------------------------
(***************************************************************************)
(* Facts about the prefixes of finite sequences and about bounded numbers, *)
(* stated once for the proofs about realized tokens.                       *)
(***************************************************************************)
EXTENDS Integers, Sequences, SequenceTheorems, WellFoundedInduction, TLAPS

\* A prefix is a sequence of the length asked for.
LEMMA PrefixType ==
  ASSUME NEW S, NEW s \in Seq(S), NEW n \in 0 .. Len(s)
  PROVE  /\ SubSeq(s, 1, n) \in Seq(S)
         /\ Len(SubSeq(s, 1, n)) = n
         /\ \A i \in 1 .. n : SubSeq(s, 1, n)[i] = s[i]
<1>1. n \in Nat /\ \A i \in 1 .. n : s[i] \in S
  BY LenProperties, ElementOfSeq
<1> QED
  BY <1>1, SubSeqProperties

\* The shorter of two prefixes is a prefix of the longer.
LEMMA PrefixOfPrefix ==
  ASSUME NEW S, NEW s \in Seq(S), NEW n \in 0 .. Len(s), NEW m \in 0 .. n
  PROVE  SubSeq(SubSeq(s, 1, n), 1, m) = SubSeq(s, 1, m)
<1>1. m \in 0 .. Len(s) /\ Len(s) \in Nat
  BY LenProperties
<1>2. SubSeq(s, 1, n) \in Seq(S) /\ Len(SubSeq(s, 1, n)) = n
  BY PrefixType
<1>3. /\ SubSeq(SubSeq(s, 1, n), 1, m) \in Seq(S)
      /\ Len(SubSeq(SubSeq(s, 1, n), 1, m)) = m
      /\ \A i \in 1 .. m : SubSeq(SubSeq(s, 1, n), 1, m)[i] = SubSeq(s, 1, n)[i]
  BY <1>2, PrefixType
<1>4. /\ SubSeq(s, 1, m) \in Seq(S)
      /\ Len(SubSeq(s, 1, m)) = m
      /\ \A i \in 1 .. m : SubSeq(s, 1, m)[i] = s[i]
  BY <1>1, PrefixType
<1>5. \A i \in 1 .. m : SubSeq(s, 1, n)[i] = s[i]
  BY PrefixType
<1> QED
  BY <1>3, <1>4, <1>5, SeqEqual

\* Appending leaves the prefixes that were there.
LEMMA PrefixOfConcat ==
  ASSUME NEW S, NEW s \in Seq(S), NEW t \in Seq(S), NEW m \in 0 .. Len(s)
  PROVE  SubSeq(s \o t, 1, m) = SubSeq(s, 1, m)
<1>1. Len(s) \in Nat /\ Len(t) \in Nat
  BY LenProperties
<1>2. /\ s \o t \in Seq(S) /\ Len(s \o t) = Len(s) + Len(t)
      /\ \A i \in 1 .. m : (s \o t)[i] = s[i]
  BY <1>1, ConcatProperties
<1>3. m \in 0 .. Len(s \o t)
  BY <1>1, <1>2
<1>4. /\ SubSeq(s \o t, 1, m) \in Seq(S)
      /\ Len(SubSeq(s \o t, 1, m)) = m
      /\ \A i \in 1 .. m : SubSeq(s \o t, 1, m)[i] = (s \o t)[i]
  BY <1>2, <1>3, PrefixType
<1>5. /\ SubSeq(s, 1, m) \in Seq(S)
      /\ Len(SubSeq(s, 1, m)) = m
      /\ \A i \in 1 .. m : SubSeq(s, 1, m)[i] = s[i]
  BY PrefixType
<1> QED
  BY <1>2, <1>4, <1>5, SeqEqual

\* A prefix that reaches into what was appended.
LEMMA PrefixPastConcat ==
  ASSUME NEW S, NEW s \in Seq(S), NEW t \in Seq(S), NEW k \in 0 .. Len(t)
  PROVE  SubSeq(s \o t, 1, Len(s) + k) = s \o SubSeq(t, 1, k)
<1>1. Len(s) \in Nat /\ Len(t) \in Nat
  BY LenProperties
<1>2. /\ s \o t \in Seq(S) /\ Len(s \o t) = Len(s) + Len(t)
      /\ \A i \in 1 .. Len(s) + k : (s \o t)[i] = IF i <= Len(s) THEN s[i] ELSE t[i - Len(s)]
  BY <1>1, ConcatProperties
<1>3. Len(s) + k \in 0 .. Len(s \o t)
  BY <1>1, <1>2
<1>4. /\ SubSeq(s \o t, 1, Len(s) + k) \in Seq(S)
      /\ Len(SubSeq(s \o t, 1, Len(s) + k)) = Len(s) + k
      /\ \A i \in 1 .. Len(s) + k : SubSeq(s \o t, 1, Len(s) + k)[i] = (s \o t)[i]
  BY <1>2, <1>3, PrefixType
<1>5. /\ SubSeq(t, 1, k) \in Seq(S) /\ Len(SubSeq(t, 1, k)) = k
      /\ \A i \in 1 .. k : SubSeq(t, 1, k)[i] = t[i]
  BY PrefixType
<1>6. /\ s \o SubSeq(t, 1, k) \in Seq(S) /\ Len(s \o SubSeq(t, 1, k)) = Len(s) + k
      /\ \A i \in 1 .. Len(s) + k :
           (s \o SubSeq(t, 1, k))[i] = IF i <= Len(s) THEN s[i] ELSE SubSeq(t, 1, k)[i - Len(s)]
  BY <1>1, <1>5, ConcatProperties
<1>7. \A i \in 1 .. Len(s) + k : (s \o SubSeq(t, 1, k))[i] = (s \o t)[i]
  BY <1>1, <1>2, <1>5, <1>6
<1> QED
  BY <1>4, <1>6, <1>7, SeqEqual

\* A set of naturals that has a member has a least one.
LEMMA LeastNatural ==
  ASSUME NEW T, T \subseteq Nat, T # {}
  PROVE  \E n \in T : \A m \in T : n <= m
<1>1. PICK n \in T : \A m \in T : ~ (<<m, n>> \in OpToRel(<, Nat))
  BY NatLessThanWellFounded, WFMin
<1>2. \A m \in T : ~ (m < n)
  BY <1>1 DEF OpToRel
<1> QED
  BY <1>2

\* A bounded set of naturals that has a member has a greatest one.
LEMMA GreatestNatural ==
  ASSUME NEW T, T # {}, NEW bound \in Nat, T \subseteq 0 .. bound
  PROVE  \E n \in T : \A m \in T : m <= n
<1> DEFINE above == {bound - m : m \in T}
<1>1. above \subseteq Nat /\ above # {}
  <2>1. \A m \in T : bound - m \in Nat
    OBVIOUS
  <2>2. PICK m \in T : TRUE
    OBVIOUS
  <2>3. bound - m \in above
    OBVIOUS
  <2> QED
    BY <2>1, <2>3
<1> HIDE DEF above
<1>2. PICK a \in above : \A b \in above : a <= b
  BY <1>1, LeastNatural
<1>3. PICK n \in T : a = bound - n
  BY DEF above
<1>4. ASSUME NEW m \in T PROVE m <= n
  <2>1. a <= bound - m
    BY <1>2 DEF above
  <2> QED
    BY <1>3, <2>1
<1> QED
  BY <1>4
===============================================================================
