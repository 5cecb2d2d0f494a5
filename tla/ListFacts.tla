------------------------------ MODULE ListFacts ------------------------------
(***************************************************************************)
(* What the proofs need about sequences used as stacks and lists of work:  *)
(* their elements after a push, a pop or a concatenation, the listings of  *)
(* a set, and prefixes.                                                    *)
(***************************************************************************)
EXTENDS Integers, SequencesExt, SequenceTheorems, FiniteSetTheorems, FunctionTheorems,
        TLAPS

\* A stack, its top last, after a pop.
LEMMA PopFacts ==
    ASSUME NEW S, NEW s \in Seq(S), s # <<>>
    PROVE  /\ Front(s) \in Seq(S)
           /\ Len(s) \in Nat \ {0}
           /\ Last(s) = s[Len(s)] /\ Last(s) \in S
           /\ DOMAIN s = 1..Len(s)
           /\ DOMAIN Front(s) = 1..(Len(s) - 1) /\ Len(Front(s)) = Len(s) - 1
           /\ \A i \in 1..(Len(s) - 1) : Front(s)[i] = s[i]
<1>1. Len(s) \in Nat \ {0} /\ Len(s) - 1 \in Nat
  OBVIOUS
<1>2. Len(SubSeq(s, 1, Len(s) - 1)) = Len(s) - 1
  BY <1>1
<1> QED BY <1>1, <1>2 DEF Front, Last

\* A stack after a push.
LEMMA PushFacts ==
    ASSUME NEW S, NEW s \in Seq(S), NEW x \in S
    PROVE  /\ Append(s, x) \in Seq(S)
           /\ Len(s) \in Nat
           /\ DOMAIN s = 1..Len(s)
           /\ DOMAIN Append(s, x) = 1..(Len(s) + 1)
           /\ \A i \in 1..Len(s) : Append(s, x)[i] = s[i]
           /\ Append(s, x)[Len(s) + 1] = x
OBVIOUS

LEMMA PushElements ==
    ASSUME NEW S, NEW s \in Seq(S), NEW x \in S
    PROVE  ToSet(Append(s, x)) = ToSet(s) \cup {x}
<1> DEFINE n == Len(s)
           t == Append(s, x)
<1>1. /\ n \in Nat /\ DOMAIN s = 1..n /\ DOMAIN t = 1..(n + 1)
      /\ \A i \in 1..n : t[i] = s[i]
      /\ t[n + 1] = x
  BY PushFacts
<1> HIDE DEF n, t
<1>2. /\ \A i \in 1..(n + 1) : i \in 1..n \/ i = n + 1
      /\ \A i \in 1..n : i \in 1..(n + 1)
      /\ n + 1 \in 1..(n + 1)
  BY <1>1
<1>3. ToSet(t) \subseteq ToSet(s) \cup {x}
  BY <1>1, <1>2 DEF ToSet
<1>4. ToSet(s) \cup {x} \subseteq ToSet(t)
  BY <1>1, <1>2 DEF ToSet
<1> QED BY <1>3, <1>4 DEF t

\* A set listed in some order: all its elements and no other.
LEMMA EnumerationElements ==
    ASSUME NEW S, IsFiniteSet(S), NEW s \in SetToSeqs(S)
    PROVE  s \in Seq(S) /\ ToSet(s) = S /\ IsInjective(s)
<1> DEFINE n == Cardinality(S)
<1>1. n \in Nat
  BY FS_CardinalityType
<1>2. IsFiniteSet(1..n) /\ Cardinality(1..n) = n
  BY <1>1, FS_Interval
<1>3. s \in [1..n -> S] /\ \A i, j \in 1..n : i # j => s[i] # s[j]
  BY DEF SetToSeqs
<1>4. s \in Injection(1..n, S)
  BY <1>3 DEF Injection, IsInjective
<1> HIDE DEF n
<1>5. s \in Surjection(1..n, S)
  BY <1>2, <1>4, FS_Injection DEF n
<1>6. s \in Seq(S)
  BY <1>1, <1>3
<1>7. ToSet(s) = S
  BY <1>3, <1>5 DEF ToSet, Surjection
<1>8. IsInjective(s)
  BY <1>3 DEF IsInjective
<1> QED BY <1>6, <1>7, <1>8

\* A list without duplicates is as long as its set of elements is large.
LEMMA InjectiveLength ==
    ASSUME NEW S, NEW s \in Seq(S), IsInjective(s)
    PROVE  Len(s) = Cardinality(ToSet(s))
<1> DEFINE n == Len(s)
           T == ToSet(s)
<1>1. n \in Nat /\ DOMAIN s = 1..n /\ s \in [1..n -> S]
  OBVIOUS
<1>2. IsFiniteSet(1..n) /\ Cardinality(1..n) = n
  BY <1>1, FS_Interval
<1>3. s \in Surjection(1..n, T) /\ s \in Injection(1..n, T)
  BY <1>1 DEF ToSet, Surjection, Injection, IsInjective
<1> HIDE DEF n, T
<1>4. Cardinality(T) = Cardinality(1..n)
  BY <1>2, <1>3, FS_Surjection
<1> QED BY <1>2, <1>4 DEF n, T

\* The elements of two lists put together.
LEMMA ConcatElements ==
    ASSUME NEW S, NEW s \in Seq(S), NEW t \in Seq(S)
    PROVE  s \o t \in Seq(S) /\ ToSet(s \o t) = ToSet(s) \cup ToSet(t)
<1> DEFINE m == Len(s)
           n == Len(t)
<1>1. /\ s \o t \in Seq(S) /\ DOMAIN (s \o t) = 1..(m + n)
      /\ m \in Nat /\ n \in Nat /\ DOMAIN s = 1..m /\ DOMAIN t = 1..n
  OBVIOUS
<1>2. \A i \in 1..m : (s \o t)[i] = s[i]
  OBVIOUS
<1>3. \A i \in 1..n : (s \o t)[m + i] = t[i]
  OBVIOUS
<1>4. \A i \in 1..(m + n) : i \in 1..m \/ (i - m \in 1..n /\ i = m + (i - m))
  BY <1>1
<1>5. ToSet(s \o t) \subseteq ToSet(s) \cup ToSet(t)
  BY <1>1, <1>2, <1>3, <1>4 DEF ToSet
<1>6. ToSet(s) \subseteq ToSet(s \o t)
  BY <1>1, <1>2 DEF ToSet
<1>7. ToSet(t) \subseteq ToSet(s \o t)
  <2>1. \A i \in 1..n : m + i \in 1..(m + n)
    BY <1>1
  <2> QED BY <1>1, <1>3, <2>1 DEF ToSet
<1> QED BY <1>1, <1>5, <1>6, <1>7

\* What a pop takes away.
LEMMA PopElements ==
    ASSUME NEW S, NEW s \in Seq(S), s # <<>>
    PROVE  ToSet(s) = ToSet(Front(s)) \cup {Last(s)}
<1> DEFINE n == Len(s)
           f == Front(s)
<1>1. /\ n \in Nat \ {0} /\ DOMAIN s = 1..n /\ DOMAIN f = 1..(n - 1)
      /\ Last(s) = s[n] /\ \A i \in 1..(n - 1) : f[i] = s[i]
  BY PopFacts
<1> HIDE DEF n, f
<1>2. \A i \in 1..n : i \in 1..(n - 1) \/ i = n
  BY <1>1
<1>3. ToSet(s) \subseteq ToSet(f) \cup {Last(s)}
  BY <1>1, <1>2 DEF ToSet
<1>4. ToSet(f) \cup {Last(s)} \subseteq ToSet(s)
  BY <1>1 DEF ToSet
<1> QED BY <1>3, <1>4 DEF f

-----------------------------------------------------------------------------
\* What taking the head of a list takes away.
LEMMA HeadElements ==
    ASSUME NEW S, NEW s \in Seq(S), s # <<>>
    PROVE  /\ Head(s) \in S /\ Tail(s) \in Seq(S)
           /\ ToSet(s) = {Head(s)} \cup ToSet(Tail(s))
<1> DEFINE n == Len(s)
           r == Tail(s)
<1>1. /\ n \in Nat \ {0} /\ DOMAIN s = 1..n /\ r \in Seq(S)
      /\ DOMAIN r = 1..(n - 1) /\ Head(s) = s[1] /\ Head(s) \in S
      /\ \A i \in 1..(n - 1) : r[i] = s[i + 1]
  OBVIOUS
<1> HIDE DEF n, r
<1>2. \A i \in 1..n : i = 1 \/ (i - 1 \in 1..(n - 1) /\ i = (i - 1) + 1)
  BY <1>1
<1>3. \A i \in 1..(n - 1) : i + 1 \in 1..n
  BY <1>1
<1>4. ASSUME NEW i \in 1..n PROVE s[i] \in {Head(s)} \cup ToSet(r)
  <2>1. CASE i = 1
    BY <1>1, <2>1
  <2>2. CASE i - 1 \in 1..(n - 1)
    <3>1. s[i] = r[i - 1]
      BY <1>1, <1>2, <2>2
    <3> QED BY <1>1, <2>2, <3>1 DEF ToSet
  <2> QED BY <1>2, <2>1, <2>2
<1>5. ToSet(r) \subseteq ToSet(s)
  BY <1>1, <1>3 DEF ToSet
<1>6. Head(s) \in ToSet(s)
  BY <1>1 DEF ToSet
<1>7. ToSet(s) \subseteq {Head(s)} \cup ToSet(r)
  BY <1>1, <1>4 DEF ToSet
<1> QED BY <1>1, <1>5, <1>6, <1>7 DEF r

\* A prefix is told entry by entry.
LEMMA PrefixPointwise ==
    ASSUME NEW S, NEW s \in Seq(S), NEW t \in Seq(S)
    PROVE  IsPrefix(s, t) <=> Len(s) <= Len(t) /\ \A i \in 1..Len(s) : s[i] = t[i]
<1> DEFINE n == Len(s)
<1>1. n \in Nat /\ Len(t) \in Nat /\ DOMAIN s = 1..n
  OBVIOUS
<1>2. SubSeq(s, 1, n) = s
  OBVIOUS
<1>3. ASSUME n <= Len(t)
      PROVE  /\ SubSeq(t, 1, n) \in Seq(S) /\ Len(SubSeq(t, 1, n)) = n
             /\ \A i \in 1..n : SubSeq(t, 1, n)[i] = t[i]
  BY <1>1, <1>3
<1>4. ASSUME n <= Len(t), \A i \in 1..n : s[i] = t[i]
      PROVE  s = SubSeq(t, 1, n)
  BY <1>1, <1>3, <1>4
<1> QED BY <1>1, <1>2, <1>3, <1>4 DEF IsPrefix

-----------------------------------------------------------------------------
\* How often x is on a list.
Occurrences(s, x) == Cardinality({i \in DOMAIN s : s[i] = x})

LEMMA OccurrencesType ==
    ASSUME NEW S, NEW s \in Seq(S), NEW x
    PROVE  Occurrences(s, x) \in Nat
<1> DEFINE P == {i \in DOMAIN s : s[i] = x}
<1>1. IsFiniteSet(1..Len(s)) /\ P \in SUBSET (1..Len(s))
  BY FS_Interval
<1> HIDE DEF P
<1>2. Cardinality(P) \in Nat
  BY <1>1, FS_Subset, FS_CardinalityType
<1> QED BY <1>2 DEF P, Occurrences

\* As often as on the tail, and once more if it is the head.
LEMMA OccurrencesHead ==
    ASSUME NEW S, NEW s \in Seq(S), s # <<>>, NEW x
    PROVE  Occurrences(s, x)
             = Occurrences(Tail(s), x) + IF Head(s) = x THEN 1 ELSE 0
<1> DEFINE n == Len(s)
           P == {i \in DOMAIN s : s[i] = x}
           Q == {i \in DOMAIN Tail(s) : Tail(s)[i] = x}
           f == [i \in Q |-> i + 1]
<1>1. /\ n \in Nat \ {0} /\ DOMAIN s = 1..n /\ DOMAIN Tail(s) = 1..(n - 1)
      /\ Head(s) = s[1] /\ \A i \in 1..(n - 1) : Tail(s)[i] = s[i + 1]
  OBVIOUS
<1> HIDE DEF n
<1>2. IsFiniteSet(P) /\ IsFiniteSet(Q)
  <2>1. IsFiniteSet(1..n) /\ IsFiniteSet(1..(n - 1))
    BY <1>1, FS_Interval
  <2>2. P \in SUBSET (1..n) /\ Q \in SUBSET (1..(n - 1))
    BY <1>1
  <2> HIDE DEF P, Q
  <2> QED BY <2>1, <2>2, FS_Subset
<1>3. f \in Bijection(Q, P \ {1})
  <2>1. \A i \in Q : i \in Int /\ i + 1 \in P \ {1}
    BY <1>1
  <2>2. \A j \in P \ {1} : j - 1 \in Q /\ (j - 1) + 1 = j
    <3> SUFFICES ASSUME NEW j \in P \ {1} PROVE j - 1 \in Q /\ (j - 1) + 1 = j
      OBVIOUS
    <3>1. j \in 1..n /\ j # 1 /\ s[j] = x
      BY <1>1
    <3>2. j - 1 \in 1..(n - 1) /\ (j - 1) + 1 = j
      BY <1>1, <3>1
    <3> QED BY <1>1, <3>1, <3>2
  <2> HIDE DEF P, Q
  <2>3. f \in [Q -> P \ {1}] /\ \A a, b \in Q : f[a] = f[b] => a = b
    BY <2>1
  <2>4. \A j \in P \ {1} : \E i \in Q : f[i] = j
    BY <2>2
  <2> HIDE DEF f
  <2> QED BY <2>3, <2>4, Fun_IsBij
<1>4. 1 \in P <=> Head(s) = x
  BY <1>1
<1> HIDE DEF P, Q, f
<1>5. Cardinality(P \ {1}) = Cardinality(Q)
  BY <1>2, <1>3, FS_Bijection DEF ExistsBijection
<1>6. Cardinality(P \ {1}) = IF 1 \in P THEN Cardinality(P) - 1 ELSE Cardinality(P)
  BY <1>2, FS_RemoveElement
<1>7. Cardinality(P) \in Nat /\ Cardinality(Q) \in Nat
  BY <1>2, FS_CardinalityType
<1>8. Cardinality(P) = Cardinality(Q) + IF Head(s) = x THEN 1 ELSE 0
  BY <1>4, <1>5, <1>6, <1>7
<1> QED BY <1>8, Zenon DEF P, Q, Occurrences

\* After an append there is one more of what was appended.
LEMMA OccurrencesAppend ==
    ASSUME NEW S, NEW s \in Seq(S), NEW y \in S, NEW x
    PROVE  Occurrences(Append(s, y), x)
             = Occurrences(s, x) + IF y = x THEN 1 ELSE 0
<1> DEFINE n == Len(s)
           P == {i \in DOMAIN s : s[i] = x}
           Q == {i \in DOMAIN Append(s, y) : Append(s, y)[i] = x}
<1>1. /\ n \in Nat /\ DOMAIN s = 1..n /\ DOMAIN Append(s, y) = 1..(n + 1)
      /\ \A i \in 1..n : Append(s, y)[i] = s[i]
      /\ Append(s, y)[n + 1] = y
  BY PushFacts
<1> HIDE DEF n
<1>2. IsFiniteSet(P)
  <2>1. IsFiniteSet(1..n)
    BY <1>1, FS_Interval
  <2>2. P \in SUBSET (1..n)
    BY <1>1
  <2> HIDE DEF P
  <2> QED BY <2>1, <2>2, FS_Subset
<1>3. n + 1 \notin P /\ \A i \in 1..(n + 1) : i \in 1..n \/ i = n + 1
  BY <1>1
<1>4. Q = IF y = x THEN P \cup {n + 1} ELSE P
  <2>1. \A i \in 1..n : i \in 1..(n + 1) /\ i # n + 1
    BY <1>1
  <2>2. n + 1 \in 1..(n + 1)
    BY <1>1
  <2> QED BY <1>1, <1>3, <2>1, <2>2
<1> HIDE DEF P, Q
<1>5. Cardinality(P \cup {n + 1}) = Cardinality(P) + 1 /\ Cardinality(P) \in Nat
  BY <1>2, <1>3, FS_AddElement, FS_CardinalityType
<1>6. Cardinality(Q) = Cardinality(P) + IF y = x THEN 1 ELSE 0
  BY <1>4, <1>5
<1> QED BY <1>6, Zenon DEF P, Q, Occurrences

-----------------------------------------------------------------------------
\* Two lists without duplicates and without a common element, put together.
LEMMA ConcatInjective ==
    ASSUME NEW S, NEW s \in Seq(S), NEW t \in Seq(S),
           IsInjective(s), IsInjective(t), ToSet(s) \cap ToSet(t) = {}
    PROVE  IsInjective(s \o t)
<1> DEFINE m == Len(s)
           n == Len(t)
           c == s \o t
<1>1. /\ m \in Nat /\ n \in Nat
      /\ DOMAIN s = 1..m /\ DOMAIN t = 1..n /\ DOMAIN c = 1..(m + n)
      /\ \A i \in 1..m : c[i] = s[i]
      /\ \A i \in 1..n : c[m + i] = t[i]
  OBVIOUS
<1> HIDE DEF m, n, c
<1>2. \A i \in 1..(m + n) : \/ i \in 1..m /\ c[i] = s[i]
                            \/ i - m \in 1..n /\ c[i] = t[i - m]
  <2>1. \A i \in 1..(m + n) : i \in 1..m \/ (i - m \in 1..n /\ i = m + (i - m))
    BY <1>1
  <2> QED BY <1>1, <2>1
<1>3. \A i \in 1..m, j \in 1..n : s[i] # t[j]
  BY <1>1 DEF ToSet
<1>4. ASSUME NEW i \in 1..(m + n), NEW j \in 1..(m + n), c[i] = c[j] PROVE i = j
  <2>1. CASE i \in 1..m /\ c[i] = s[i] /\ j \in 1..m /\ c[j] = s[j]
    BY <1>1, <1>4, <2>1 DEF IsInjective
  <2>2. CASE i - m \in 1..n /\ c[i] = t[i - m] /\ j - m \in 1..n /\ c[j] = t[j - m]
    <3>1. i - m = j - m
      BY <1>1, <1>4, <2>2 DEF IsInjective
    <3> QED BY <1>1, <3>1
  <2> QED BY <1>2, <1>3, <1>4, <2>1, <2>2
<1>5. IsInjective(c)
  BY <1>1, <1>4 DEF IsInjective
<1> QED BY <1>5 DEF c

\* The top of a stack without duplicates is nowhere below.
LEMMA PopInjective ==
    ASSUME NEW S, NEW s \in Seq(S), s # <<>>, IsInjective(s)
    PROVE  IsInjective(Front(s)) /\ Last(s) \notin ToSet(Front(s))
<1> DEFINE n == Len(s)
           f == Front(s)
<1>1. /\ n \in Nat \ {0} /\ DOMAIN s = 1..n /\ DOMAIN f = 1..(n - 1)
      /\ Last(s) = s[n] /\ \A i \in 1..(n - 1) : f[i] = s[i]
  BY PopFacts
<1> HIDE DEF n, f
<1>2. n \in 1..n /\ \A i \in 1..(n - 1) : i \in 1..n /\ i # n
  BY <1>1
<1>3. IsInjective(f)
  BY <1>1, <1>2 DEF IsInjective
<1>4. Last(s) \notin ToSet(f)
  BY <1>1, <1>2 DEF IsInjective, ToSet
<1> QED BY <1>3, <1>4 DEF f
=============================================================================
