----------------------------- MODULE ListLemmas -----------------------------
(***************************************************************************)
(* Facts about lists that the proofs of several components cite: lists of  *)
(* distinct elements under append and removal of the first occurrence, and *)
(* stacks under push and pop.                                              *)
(***************************************************************************)
EXTENDS Naturals, Sequences, FiniteSets, SequencesExt, SequenceTheorems,
        FiniteSetTheorems, WellFoundedInduction, TLAPS

\* Removing the last element leaves the others where they were.
LEMMA FrontOfSeq ==
    ASSUME NEW S, NEW s \in Seq(S), s # <<>>
    PROVE  /\ Front(s) \in Seq(S)
           /\ Len(s) \in Nat \ {0}
           /\ Len(Front(s)) = Len(s) - 1
           /\ \A i \in 1..(Len(s) - 1) : Front(s)[i] = s[i]
           /\ Last(s) = s[Len(s)]
           /\ Last(s) \in S
<1>1. Len(s) \in Nat \ {0} /\ Len(s) \in Int /\ 1 \in Int /\ Len(s) - 1 \in Int
  BY EmptySeq
<1>2. \A i \in 1..(Len(s) - 1) : s[i] \in S
  BY <1>1
<1>3. ASSUME NEW n \in Int, n = Len(s) - 1
      PROVE  /\ SubSeq(s, 1, n) \in Seq(S)
             /\ Len(SubSeq(s, 1, n)) = IF 1 <= n THEN n - 1 + 1 ELSE 0
             /\ \A i \in 1..(n - 1 + 1) : SubSeq(s, 1, n)[i] = s[1 + i - 1]
  <2>1. \A i \in 1..n : s[i] \in S
    BY <1>2, <1>3
  <2>2. QED
    BY <1>1, <2>1, SubSeqProperties
<1>4. /\ Front(s) \in Seq(S)
      /\ Len(Front(s)) = Len(s) - 1
      /\ \A i \in 1..(Len(s) - 1) : Front(s)[i] = s[i]
  <2>1. PICK n \in Int : n = Len(s) - 1
    BY <1>1
  <2>2. Front(s) = SubSeq(s, 1, n)
    BY <2>1 DEF Front
  <2>3. Len(s) - 1 = n /\ n \in Nat /\ n - 1 + 1 = n /\ \A i \in 1..n : 1 + i - 1 = i
    BY <1>1, <2>1
  <2>4. QED
    BY <1>3, <2>1, <2>2, <2>3
<1>5. QED
  BY <1>1, <1>4 DEF Last

\* A nonempty set of naturals has a least element, and Min is it.
LEMMA MinOfNaturals ==
    ASSUME NEW I \in SUBSET Nat, I # {}
    PROVE  Min(I) \in I /\ \A j \in I : Min(I) <= j
<1> DEFINE R == OpToRel(<, Nat)
<1>1. \A x, y \in Nat : y < x => <<y, x>> \in R
  BY DEF OpToRel
<1> HIDE DEF R
<1>2. IsWellFoundedOn(R, Nat)
  BY NatLessThanWellFounded DEF R
<1>3. PICK m \in I : \A y \in I : ~ (<<y, m>> \in R)
  BY <1>2, WFMin
<1>4. \A y \in I : ~ (y < m)
  BY <1>1, <1>3, Zenon
<1>5. \A y \in I : m <= y
  BY <1>4
<1>6. QED
  BY <1>5 DEF Min

\* RemoveFirst cuts one element out of a list that contains it.
LEMMA RemoveFirstSplits ==
    ASSUME NEW S, NEW s \in Seq(S), NEW o, \E i \in 1..Len(s) : s[i] = o
    PROVE  \E k \in 1..Len(s) :
               /\ s[k] = o
               /\ RemoveFirst(s, o) \in Seq(S)
               /\ Len(RemoveFirst(s, o)) = Len(s) - 1
               /\ \A i \in 1..(Len(s) - 1) :
                      RemoveFirst(s, o)[i] = IF i < k THEN s[i] ELSE s[i + 1]
<1> DEFINE I == {i \in 1..Len(s) : s[i] = o}
<1>1. I # {} /\ I \in SUBSET Nat
  OBVIOUS
<1>2. Min(I) \in I
  <2> HIDE DEF I
  <2>1. QED
    BY <1>1, MinOfNaturals
<1>3. SelectInSeq(s, LAMBDA v : v = o) = Min(I)
  BY <1>1 DEF SelectInSeq
<1>4. PICK k \in 1..Len(s) : s[k] = o /\ k = Min(I)
  BY <1>2
<1> DEFINE l == SubSeq(s, 1, k - 1)
           r == SubSeq(s, k + 1, Len(s))
<1>5. RemoveFirst(s, o) = l \o r
  BY <1>3, <1>4 DEF RemoveFirst, RemoveAt
<1>6. /\ l \in Seq(S) /\ Len(l) = k - 1
      /\ \A i \in 1..(k - 1) : l[i] = s[i]
  <2>1. \A i \in 1..(k - 1) : s[i] \in S
    BY <1>4
  <2>2. k - 1 \in Int /\ 1 \in Int /\ k \in Nat \ {0}
    BY <1>4
  <2>3. /\ l \in Seq(S)
        /\ Len(l) = IF 1 <= k - 1 THEN (k - 1) - 1 + 1 ELSE 0
        /\ \A i \in 1..((k - 1) - 1 + 1) : l[i] = s[1 + i - 1]
    <3> SUFFICES ASSUME NEW n \in Int, n = k - 1
                 PROVE  /\ SubSeq(s, 1, n) \in Seq(S)
                        /\ Len(SubSeq(s, 1, n)) = IF 1 <= n THEN n - 1 + 1 ELSE 0
                        /\ \A i \in 1..(n - 1 + 1) : SubSeq(s, 1, n)[i] = s[1 + i - 1]
      BY <2>2
    <3>1. QED
      BY <2>1, <2>2, SubSeqProperties
  <2>4. QED
    BY <2>2, <2>3
<1>7. /\ r \in Seq(S) /\ Len(r) = Len(s) - k
      /\ \A i \in 1..(Len(s) - k) : r[i] = s[k + i]
  <2>1. \A i \in (k + 1)..Len(s) : s[i] \in S
    BY <1>4
  <2>2. k + 1 \in Int /\ Len(s) \in Int /\ Len(s) \in Nat /\ k \in 1..Len(s)
    BY <1>4
  <2>3. /\ r \in Seq(S)
        /\ Len(r) = IF k + 1 <= Len(s) THEN Len(s) - (k + 1) + 1 ELSE 0
        /\ \A i \in 1..(Len(s) - (k + 1) + 1) : r[i] = s[(k + 1) + i - 1]
    BY <2>1, <2>2, SubSeqProperties
  <2>4. Len(r) = Len(s) - k /\ Len(s) - (k + 1) + 1 = Len(s) - k
    BY <2>2, <2>3
  <2>5. \A i \in 1..(Len(s) - k) : (k + 1) + i - 1 = k + i
    BY <2>2
  <2>6. QED
    BY <2>3, <2>4, <2>5
<1>8. /\ l \o r \in Seq(S)
      /\ Len(l \o r) = Len(l) + Len(r)
      /\ \A i \in 1..(Len(l) + Len(r)) :
             (l \o r)[i] = IF i <= Len(l) THEN l[i] ELSE r[i - Len(l)]
  BY <1>6, <1>7, ConcatProperties
<1> HIDE DEF l, r
<1>9. Len(l \o r) = Len(s) - 1
  BY <1>4, <1>6, <1>7, <1>8
<1>10. ASSUME NEW i \in 1..(Len(s) - 1)
       PROVE  (l \o r)[i] = IF i < k THEN s[i] ELSE s[i + 1]
  <2> USE <1>4
  <2>1. CASE i < k
    <3>1. i \in 1..(Len(l) + Len(r)) /\ i <= Len(l) /\ i \in 1..(k - 1)
      BY <1>6, <1>7, <2>1
    <3>2. QED
      BY <1>6, <1>8, <2>1, <3>1
  <2>2. CASE ~(i < k)
    <3>1. i - (k - 1) \in 1..(Len(s) - k) /\ k + (i - (k - 1)) = i + 1
      BY <1>4, <2>2
    <3>2. (l \o r)[i] = r[i - (k - 1)]
      <4>1. i \in 1..(Len(l) + Len(r)) /\ ~(i <= Len(l))
        BY <1>6, <1>7, <2>2
      <4>2. QED
        BY <1>6, <1>8, <4>1
    <3>3. QED
      BY <1>7, <2>2, <3>1, <3>2
  <2>3. QED
    BY <2>1, <2>2
<1>11. QED
  BY <1>4, <1>5, <1>8, <1>9, <1>10

\* Removing an element from a list of distinct elements leaves a list of
\* distinct elements, without it and with all others.
LEMMA RemoveFirstOfDistinct ==
    ASSUME NEW S, NEW s \in Seq(S), IsInjective(s), NEW o
    PROVE  /\ RemoveFirst(s, o) \in Seq(S)
           /\ IsInjective(RemoveFirst(s, o))
           /\ ToSet(RemoveFirst(s, o)) = ToSet(s) \ {o}
<1>1. CASE ~ \E i \in 1..Len(s) : s[i] = o
  BY <1>1 DEF RemoveFirst, ToSet
<1>2. CASE \E i \in 1..Len(s) : s[i] = o
  <2> DEFINE t == RemoveFirst(s, o)
  <2>1. PICK k \in 1..Len(s) :
            /\ s[k] = o
            /\ t \in Seq(S)
            /\ Len(t) = Len(s) - 1
            /\ \A i \in 1..(Len(s) - 1) : t[i] = IF i < k THEN s[i] ELSE s[i + 1]
    BY <1>2, RemoveFirstSplits
  <2> HIDE DEF t
  <2>2. \A i, j \in 1..Len(s) : s[i] = s[j] => i = j
    BY DEF IsInjective
  <2>3. IsInjective(t)
    <3> SUFFICES ASSUME NEW i \in 1..Len(t), NEW j \in 1..Len(t), t[i] = t[j]
                 PROVE  i = j
      BY <2>1 DEF IsInjective
    <3>1. /\ i \in 1..(Len(s) - 1) /\ j \in 1..(Len(s) - 1)
          /\ i \in 1..Len(s) /\ j \in 1..Len(s)
          /\ i + 1 \in 1..Len(s) /\ j + 1 \in 1..Len(s)
      BY <2>1
    <3>2. QED
      BY <2>1, <2>2, <3>1
  <2>4. ASSUME NEW x \in ToSet(t)
        PROVE  x \in ToSet(s) \ {o}
    <3>1. PICK i \in 1..(Len(s) - 1) : x = t[i]
      BY <2>1 DEF ToSet
    <3>2. /\ i \in 1..Len(s) /\ i + 1 \in 1..Len(s)
          /\ x = IF i < k THEN s[i] ELSE s[i + 1]
      BY <2>1, <3>1
    <3>3. x # o
      BY <2>1, <2>2, <3>2
    <3>4. QED
      BY <3>2, <3>3 DEF ToSet
  <2>5. ASSUME NEW x \in ToSet(s), x # o
        PROVE  x \in ToSet(t)
    <3>1. PICK j \in 1..Len(s) : x = s[j]
      BY DEF ToSet
    <3>2. j # k
      BY <2>1, <2>5, <3>1
    <3>3. CASE j < k
      <4>1. j \in 1..(Len(s) - 1) /\ t[j] = s[j]
        BY <2>1, <3>3
      <4>2. QED
        BY <2>1, <3>1, <4>1 DEF ToSet
    <3>4. CASE j > k
      <4>1. j - 1 \in 1..(Len(s) - 1) /\ t[j - 1] = s[j]
        BY <2>1, <3>4
      <4>2. QED
        BY <2>1, <3>1, <4>1 DEF ToSet
    <3>5. QED
      BY <3>2, <3>3, <3>4
  <2>6. QED
    BY <2>1, <2>3, <2>4, <2>5 DEF t
<1>3. QED
  BY <1>1, <1>2

\* Appending an element that a list of distinct elements does not contain.
LEMMA AppendToDistinct ==
    ASSUME NEW S, NEW s \in Seq(S), IsInjective(s), NEW o \in S, ~Contains(s, o)
    PROVE  IsInjective(Append(s, o))
<1> DEFINE t == Append(s, o)
<1>1. /\ Len(t) = Len(s) + 1 /\ DOMAIN t = 1..(Len(s) + 1)
      /\ \A i \in 1..Len(s) : t[i] = s[i] /\ t[i] # o
      /\ t[Len(s) + 1] = o
  BY DEF Contains
<1>2. \A i, j \in 1..Len(s) : s[i] = s[j] => i = j
  BY DEF IsInjective
<1> HIDE DEF t
<1>3. \A i \in 1..(Len(s) + 1) : i \in 1..Len(s) \/ i = Len(s) + 1
  OBVIOUS
<1>4. IsInjective(t)
  BY <1>1, <1>2, <1>3 DEF IsInjective
<1>5. QED
  BY <1>4 DEF t

\* The elements of a list after an append.
LEMMA ToSetOfAppend ==
    ASSUME NEW S, NEW s \in Seq(S), NEW o \in S
    PROVE  /\ Append(s, o) \in Seq(S)
           /\ ToSet(Append(s, o)) = ToSet(s) \cup {o}
<1> DEFINE t == Append(s, o)
<1>1. /\ t \in Seq(S)
      /\ DOMAIN t = 1..(Len(s) + 1) /\ DOMAIN s = 1..Len(s) /\ Len(s) \in Nat
      /\ \A i \in 1..Len(s) : t[i] = s[i]
      /\ t[Len(s) + 1] = o
  OBVIOUS
<1> HIDE DEF t
<1>2. \A i \in 1..(Len(s) + 1) : i \in 1..Len(s) \/ i = Len(s) + 1
  BY <1>1
<1>3. 1..Len(s) \subseteq 1..(Len(s) + 1) /\ Len(s) + 1 \in 1..(Len(s) + 1)
  BY <1>1
<1>4. ToSet(t) = ToSet(s) \cup {o}
  BY <1>1, <1>2, <1>3 DEF ToSet
<1>5. QED
  BY <1>1, <1>4 DEF t

\* The elements of a list are its head and the elements of its tail.
LEMMA ToSetOfTail ==
    ASSUME NEW S, NEW s \in Seq(S), s # <<>>
    PROVE  /\ Head(s) \in S
           /\ Tail(s) \in Seq(S)
           /\ ToSet(s) = {Head(s)} \cup ToSet(Tail(s))
<1>1. /\ Head(s) \in S /\ Tail(s) \in Seq(S) /\ Len(Tail(s)) = Len(s) - 1
      /\ \A i \in 1..Len(Tail(s)) : Tail(s)[i] = s[i + 1]
      /\ Len(s) \in Nat \ {0} /\ Head(s) = s[1]
  BY HeadTailProperties, EmptySeq
<1>2. \A x \in ToSet(s) : x = Head(s) \/ x \in ToSet(Tail(s))
  <2>1. ASSUME NEW j \in 1..Len(s), j # 1
        PROVE  s[j] \in ToSet(Tail(s))
    <3>1. j - 1 \in 1..Len(Tail(s)) /\ Tail(s)[j - 1] = s[j]
      BY <1>1, <2>1
    <3>2. DOMAIN Tail(s) = 1..Len(Tail(s))
      BY <1>1
    <3>3. QED
      BY <3>1, <3>2 DEF ToSet
  <2>2. \A x \in ToSet(s) : \E j \in 1..Len(s) : x = s[j]
    BY DEF ToSet
  <2>3. QED
    BY <1>1, <2>1, <2>2
<1>3. \A x \in ToSet(Tail(s)) : x \in ToSet(s)
  <2> SUFFICES ASSUME NEW j \in 1..Len(Tail(s))
               PROVE  Tail(s)[j] \in ToSet(s)
    BY <1>1 DEF ToSet
  <2>1. j + 1 \in 1..Len(s) /\ Tail(s)[j] = s[j + 1]
    BY <1>1
  <2>2. QED
    BY <2>1 DEF ToSet
<1>4. Head(s) \in ToSet(s)
  BY <1>1 DEF ToSet
<1>5. QED
  BY <1>1, <1>2, <1>3, <1>4

\* Contains and ToSet speak of the same elements.
LEMMA ContainsToSet ==
    ASSUME NEW s, NEW o
    PROVE  Contains(s, o) <=> o \in ToSet(s)
BY DEF Contains, ToSet

\* The elements of a list of distinct elements without its head.
LEMMA TailOfDistinct ==
    ASSUME NEW S, NEW s \in Seq(S), IsInjective(s), s # <<>>
    PROVE  /\ IsInjective(Tail(s))
           /\ Head(s) \in ToSet(s)
           /\ ToSet(Tail(s)) = ToSet(s) \ {Head(s)}
<1>1. /\ Tail(s) \in Seq(S) /\ Len(Tail(s)) = Len(s) - 1
      /\ \A i \in 1..Len(Tail(s)) : Tail(s)[i] = s[i + 1]
      /\ Len(s) \in Nat \ {0} /\ Head(s) = s[1]
  BY HeadTailProperties, EmptySeq
<1>2. \A i, j \in 1..Len(s) : s[i] = s[j] => i = j
  BY DEF IsInjective
<1>3. \A i \in 1..Len(Tail(s)) : i + 1 \in 1..Len(s)
  BY <1>1
<1>4. IsInjective(Tail(s))
  <2> SUFFICES ASSUME NEW i \in 1..Len(Tail(s)), NEW j \in 1..Len(Tail(s)),
                      Tail(s)[i] = Tail(s)[j]
               PROVE  i = j
    BY <1>1 DEF IsInjective
  <2>1. s[i + 1] = s[j + 1]
    BY <1>1
  <2>2. i + 1 = j + 1
    BY <1>2, <1>3, <2>1
  <2>3. QED
    BY <1>1, <2>2
<1>5. Head(s) \notin ToSet(Tail(s))
  <2> SUFFICES ASSUME NEW i \in 1..Len(Tail(s)), Tail(s)[i] = Head(s)
               PROVE  FALSE
    BY <1>1 DEF ToSet
  <2>1. s[i + 1] = s[1] /\ 1 \in 1..Len(s)
    BY <1>1
  <2>2. i + 1 = 1
    BY <1>2, <1>3, <2>1
  <2>3. QED
    BY <1>1, <2>2
<1>6. ToSet(s) = {Head(s)} \cup ToSet(Tail(s))
  BY ToSetOfTail
<1>7. QED
  BY <1>4, <1>5, <1>6

\* Putting a new element in front of a list of distinct elements.
LEMMA PrependToDistinct ==
    ASSUME NEW S, NEW s \in Seq(S), IsInjective(s), NEW o \in S, o \notin ToSet(s)
    PROVE  /\ <<o>> \o s \in Seq(S)
           /\ IsInjective(<<o>> \o s)
           /\ ToSet(<<o>> \o s) = ToSet(s) \cup {o}
           /\ <<o>> \o s # <<>>
<1> DEFINE t == <<o>> \o s
<1>1. /\ t \in Seq(S) /\ Len(s) \in Nat
      /\ Len(t) = Len(s) + 1 /\ DOMAIN t = 1..(Len(s) + 1)
      /\ t[1] = o
      /\ \A i \in 2..(Len(s) + 1) : t[i] = s[i - 1]
  OBVIOUS
<1>2. \A i, j \in 1..Len(s) : s[i] = s[j] => i = j
  BY DEF IsInjective
<1>3. \A i \in 1..Len(s) : s[i] # o /\ t[i + 1] = s[i]
  BY <1>1 DEF ToSet
<1> HIDE DEF t
<1>4. \A i \in 1..(Len(s) + 1) : i = 1 \/ (i - 1 \in 1..Len(s) /\ t[i] = s[i - 1])
  BY <1>1
<1>5. IsInjective(t)
  <2> SUFFICES ASSUME NEW i \in 1..(Len(s) + 1), NEW j \in 1..(Len(s) + 1), t[i] = t[j]
               PROVE  i = j
    BY <1>1 DEF IsInjective
  <2>1. CASE i = 1 \/ j = 1
    <3>1. t[i] = o
      BY <1>1, <2>1
    <3>2. \A k \in 1..(Len(s) + 1) : k # 1 => t[k] # o
      BY <1>3, <1>4
    <3>3. i = 1 /\ j = 1
      BY <3>1, <3>2
    <3>4. QED
      BY <3>3
  <2>2. CASE i # 1 /\ j # 1
    <3>1. i - 1 \in 1..Len(s) /\ j - 1 \in 1..Len(s) /\ s[i - 1] = s[j - 1]
      BY <1>4, <2>2
    <3>2. i - 1 = j - 1
      BY <1>2, <3>1
    <3>3. QED
      BY <3>2
  <2>3. QED
    BY <2>1, <2>2
<1>6. ToSet(t) = ToSet(s) \cup {o}
  <2>1. ASSUME NEW x \in ToSet(t)
        PROVE  x \in ToSet(s) \cup {o}
    BY <1>1, <1>4 DEF ToSet
  <2>2. ASSUME NEW x \in ToSet(s)
        PROVE  x \in ToSet(t)
    <3>1. PICK i \in 1..Len(s) : x = s[i]
      BY DEF ToSet
    <3>2. i + 1 \in 1..(Len(s) + 1) /\ t[i + 1] = x
      BY <1>1, <1>3, <3>1
    <3>3. QED
      BY <1>1, <3>2 DEF ToSet
  <2>3. o \in ToSet(t)
    <3>1. 1 \in DOMAIN t
      BY <1>1
    <3>2. QED
      BY <1>1, <3>1 DEF ToSet
  <2>4. QED
    BY <2>1, <2>2, <2>3
<1>7. t # <<>>
  BY <1>1
<1>8. QED
  BY <1>1, <1>5, <1>6, <1>7 DEF t

\* o is in the list at most once.
OnceIn(s, o) == \A i, j \in DOMAIN s : s[i] = o /\ s[j] = o => i = j

\* What is appended is in the list once if it was not there, and the rest as
\* often as before.
LEMMA OnceAfterAppend ==
    ASSUME NEW S, NEW s \in Seq(S), NEW o, NEW p \in S, OnceIn(s, o),
           p = o => o \notin ToSet(s)
    PROVE  OnceIn(Append(s, p), o)
<1> DEFINE t == Append(s, p)
<1>1. /\ DOMAIN t = 1..(Len(s) + 1) /\ DOMAIN s = 1..Len(s) /\ Len(s) \in Nat
      /\ \A i \in 1..Len(s) : t[i] = s[i]
      /\ t[Len(s) + 1] = p
  OBVIOUS
<1> HIDE DEF t
<1>2. \A i \in 1..(Len(s) + 1) : i \in 1..Len(s) \/ i = Len(s) + 1
  BY <1>1
<1>3. p = o => \A i \in 1..Len(s) : s[i] # o
  BY <1>1 DEF ToSet
<1>4. OnceIn(t, o)
  BY <1>1, <1>2, <1>3 DEF OnceIn
<1>5. QED
  BY <1>4 DEF t

\* Nothing comes to be more often in the tail; a head that was there once is
\* not there any more.
LEMMA OnceInTail ==
    ASSUME NEW S, NEW s \in Seq(S), s # <<>>, NEW o, OnceIn(s, o)
    PROVE  /\ OnceIn(Tail(s), o)
           /\ Head(s) = o => o \notin ToSet(Tail(s))
<1> DEFINE t == Tail(s)
<1>1. /\ t \in Seq(S) /\ Len(t) = Len(s) - 1
      /\ \A i \in 1..Len(t) : t[i] = s[i + 1]
      /\ Len(s) \in Nat \ {0} /\ Head(s) = s[1]
  BY HeadTailProperties, EmptySeq
<1> HIDE DEF t
<1>2. /\ DOMAIN t = 1..(Len(s) - 1) /\ DOMAIN s = 1..Len(s) /\ 1 \in DOMAIN s
      /\ \A i \in DOMAIN t : i + 1 \in DOMAIN s /\ i + 1 # 1 /\ t[i] = s[i + 1]
  BY <1>1
<1>3. \A i, j \in DOMAIN t : t[i] = o /\ t[j] = o => i = j
  <2> SUFFICES ASSUME NEW i \in DOMAIN t, NEW j \in DOMAIN t, t[i] = o, t[j] = o
               PROVE  i = j
    OBVIOUS
  <2>1. i + 1 = j + 1
    BY <1>2 DEF OnceIn
  <2>2. QED
    BY <1>2, <2>1
<1>4. Head(s) = o => \A i \in DOMAIN t : t[i] # o
  BY <1>1, <1>2 DEF OnceIn
<1>5. QED
  BY <1>3, <1>4 DEF OnceIn, ToSet, t

\* RemoveFirst adds nothing, and removes all of what was there once.
LEMMA OnceAfterRemove ==
    ASSUME NEW S, NEW s \in Seq(S), NEW o, OnceIn(s, o)
    PROVE  /\ RemoveFirst(s, o) \in Seq(S)
           /\ ToSet(RemoveFirst(s, o)) \subseteq ToSet(s) \ {o}
           /\ \A p : OnceIn(s, p) => OnceIn(RemoveFirst(s, o), p)
<1>1. CASE ~ \E i \in 1..Len(s) : s[i] = o
  BY <1>1 DEF RemoveFirst, ToSet
<1>2. CASE \E i \in 1..Len(s) : s[i] = o
  <2> DEFINE t == RemoveFirst(s, o)
  <2>1. PICK k \in 1..Len(s) :
            /\ s[k] = o
            /\ t \in Seq(S)
            /\ Len(t) = Len(s) - 1
            /\ \A i \in 1..(Len(s) - 1) : t[i] = IF i < k THEN s[i] ELSE s[i + 1]
    BY <1>2, RemoveFirstSplits
  <2> HIDE DEF t
  <2> DEFINE from(i) == IF i < k THEN i ELSE i + 1
  <2>2. /\ Len(s) \in Nat /\ DOMAIN s = 1..Len(s) /\ DOMAIN t = 1..(Len(s) - 1)
        /\ k \in DOMAIN s
    BY <2>1
  <2>3. \A i \in DOMAIN t : from(i) \in DOMAIN s /\ from(i) # k /\ t[i] = s[from(i)]
    BY <2>1, <2>2
  <2>4. \A i, j \in DOMAIN t : from(i) = from(j) => i = j
    BY <2>1, <2>2
  <2> HIDE DEF from
  <2>5. ToSet(t) \subseteq ToSet(s) \ {o}
    BY <2>1, <2>2, <2>3 DEF ToSet, OnceIn
  <2>6. ASSUME NEW p, OnceIn(s, p) PROVE OnceIn(t, p)
    BY <2>3, <2>4, <2>6 DEF OnceIn
  <2>7. QED
    BY <2>1, <2>5, <2>6 DEF t
<1>3. QED
  BY <1>1, <1>2

\* A list of distinct elements without the one at an index.
LEMMA RemoveAtFromSeq ==
    ASSUME NEW S, NEW s \in Seq(S), NEW k \in 1..Len(s)
    PROVE  /\ RemoveAt(s, k) \in Seq(S)
           /\ Len(RemoveAt(s, k)) = Len(s) - 1
           /\ \A i \in 1..(Len(s) - 1) : RemoveAt(s, k)[i] = IF i < k THEN s[i] ELSE s[i + 1]
<1> DEFINE a == SubSeq(s, 1, k - 1)
           b == SubSeq(s, k + 1, Len(s))
<1>1. /\ a \in Seq(S) /\ b \in Seq(S) /\ Len(a) = k - 1 /\ Len(b) = Len(s) - k
      /\ \A i \in 1..(k - 1) : a[i] = s[i]
      /\ \A i \in 1..(Len(s) - k) : b[i] = s[k + i]
  OBVIOUS
<1> HIDE DEF a, b
<1>2. /\ a \o b \in Seq(S) /\ Len(a \o b) = Len(a) + Len(b)
      /\ \A i \in 1..(Len(a) + Len(b)) :
             (a \o b)[i] = IF i <= Len(a) THEN a[i] ELSE b[i - Len(a)]
  BY <1>1, ConcatProperties
<1>3. ASSUME NEW i \in 1..(Len(s) - 1)
      PROVE  (a \o b)[i] = IF i < k THEN s[i] ELSE s[i + 1]
  <2>1. Len(s) \in Nat /\ k \in Int /\ i \in 1..(Len(a) + Len(b))
    BY <1>1
  <2>2. CASE i < k
    BY <1>1, <1>2, <2>1, <2>2
  <2>3. CASE i >= k
    <3>1. i - Len(a) \in 1..(Len(s) - k) /\ k + (i - Len(a)) = i + 1 /\ ~(i <= Len(a))
      BY <1>1, <2>1, <2>3
    <3>2. b[i - Len(a)] = s[k + (i - Len(a))]
      BY <1>1, <3>1
    <3>3. QED
      BY <1>2, <2>1, <2>3, <3>1, <3>2
  <2>4. QED
    BY <2>1, <2>2, <2>3
<1>4. Len(a) + Len(b) = Len(s) - 1
  BY <1>1
<1>5. QED
  BY <1>2, <1>3, <1>4 DEF RemoveAt, a, b

LEMMA RemoveAtOfDistinct ==
    ASSUME NEW S, NEW s \in Seq(S), NEW k \in 1..Len(s), IsInjective(s)
    PROVE  /\ IsInjective(RemoveAt(s, k))
           /\ ToSet(RemoveAt(s, k)) = ToSet(s) \ {s[k]}
<1> DEFINE t == RemoveAt(s, k)
           from(i) == IF i < k THEN i ELSE i + 1
           to(j) == IF j < k THEN j ELSE j - 1
<1>1. /\ t \in Seq(S) /\ Len(t) = Len(s) - 1
      /\ \A i \in 1..(Len(s) - 1) : t[i] = IF i < k THEN s[i] ELSE s[i + 1]
  BY RemoveAtFromSeq
<1> HIDE DEF t
<1>2. /\ Len(s) \in Nat /\ DOMAIN s = 1..Len(s) /\ DOMAIN t = 1..(Len(s) - 1)
      /\ k \in DOMAIN s
  BY <1>1
<1>3. \A i \in DOMAIN t : from(i) \in DOMAIN s /\ from(i) # k /\ t[i] = s[from(i)]
  BY <1>1, <1>2
<1>4. \A i, j \in DOMAIN t : from(i) = from(j) => i = j
  BY <1>1, <1>2
<1>5. \A j \in DOMAIN s : j # k => to(j) \in DOMAIN t /\ from(to(j)) = j
  BY <1>1, <1>2
<1> HIDE DEF from, to
<1>6. IsInjective(t)
  BY <1>3, <1>4 DEF IsInjective
<1>7. ToSet(t) \subseteq ToSet(s) \ {s[k]}
  BY <1>2, <1>3 DEF ToSet, IsInjective
<1>8. ToSet(s) \ {s[k]} \subseteq ToSet(t)
  BY <1>2, <1>3, <1>5 DEF ToSet
<1>9. QED
  BY <1>6, <1>7, <1>8 DEF t

=============================================================================
