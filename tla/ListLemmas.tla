----------------------------- MODULE ListLemmas -----------------------------
(***************************************************************************)
(* What list operations do to the entries of a list and to the absence of  *)
(* duplicates, for lists of any length.                                    *)
(***************************************************************************)
EXTENDS Integers, Sequences, SequencesExt, SequenceTheorems,
        WellFoundedInduction, TLAPS

\* A process appended to a list joins its elements, and duplicates nothing
\* when it was not there.
LEMMA AppendFacts ==
    ASSUME NEW S, NEW s \in Seq(S), NEW e \in S
    PROVE  /\ Append(s, e) \in Seq(S)
           /\ ToSet(Append(s, e)) = ToSet(s) \cup {e}
           /\ IsInjective(s) /\ e \notin ToSet(s) => IsInjective(Append(s, e))
<1> DEFINE t == Append(s, e)
<1>1. /\ t \in Seq(S) /\ Len(t) = Len(s) + 1
      /\ \A i \in 1 .. Len(s) : t[i] = s[i]
      /\ t[Len(s) + 1] = e
  BY AppendProperties
<1>2. DOMAIN s = 1 .. Len(s) /\ DOMAIN t = 1 .. Len(t) /\ Len(s) \in Nat
  BY <1>1, LenProperties
<1> HIDE DEF t
<1>3. ToSet(t) = ToSet(s) \cup {e}
  BY <1>1, <1>2 DEF ToSet
<1>4. ASSUME IsInjective(s), e \notin ToSet(s) PROVE IsInjective(t)
  BY <1>1, <1>2, <1>4 DEF ToSet, IsInjective
<1> QED BY <1>1, <1>3, <1>4 DEF t

\* Taking the first process off a list without duplicates takes it off for
\* good.
LEMMA TailFacts ==
    ASSUME NEW S, NEW s \in Seq(S), s # <<>>
    PROVE  /\ Head(s) \in S /\ Head(s) \in ToSet(s)
           /\ Tail(s) \in Seq(S)
           /\ ToSet(s) = ToSet(Tail(s)) \cup {Head(s)}
           /\ IsInjective(s) => /\ IsInjective(Tail(s))
                                /\ Head(s) \notin ToSet(Tail(s))
<1> DEFINE t == Tail(s)
<1>1. /\ Head(s) \in S /\ t \in Seq(S) /\ Len(t) = Len(s) - 1
      /\ \A i \in 1 .. Len(t) : t[i] = s[i + 1]
      /\ Head(s) = s[1] /\ Len(s) > 0
  BY HeadTailProperties, EmptySeq
<1>2. DOMAIN s = 1 .. Len(s) /\ DOMAIN t = 1 .. Len(t) /\ Len(s) \in Nat
  BY <1>1, LenProperties
<1> HIDE DEF t
<1>3. Head(s) \in ToSet(s)
  BY <1>1, <1>2 DEF ToSet
<1>4. ToSet(t) \cup {Head(s)} \subseteq ToSet(s)
  BY <1>1, <1>2, <1>3 DEF ToSet
<1>5. ASSUME NEW i \in DOMAIN s PROVE s[i] \in ToSet(t) \cup {Head(s)}
  <2>1. CASE i = 1
    BY <2>1, <1>1
  <2>2. CASE i # 1
    <3>1. i - 1 \in DOMAIN t /\ t[i - 1] = s[i]
      BY <2>2, <1>1, <1>2
    <3> QED BY <3>1 DEF ToSet
  <2> QED BY <2>1, <2>2
<1>6. ToSet(s) = ToSet(t) \cup {Head(s)}
  BY <1>4, <1>5 DEF ToSet
<1>7. ASSUME IsInjective(s) PROVE IsInjective(t) /\ Head(s) \notin ToSet(t)
  <2>1. IsInjective(t)
    BY <1>1, <1>2, <1>7, SMTT(20) DEF IsInjective
  <2>2. ASSUME NEW i \in DOMAIN t PROVE t[i] # Head(s)
    <3>1. 1 \in DOMAIN s /\ i + 1 \in DOMAIN s /\ i + 1 # 1
      BY <1>1, <1>2
    <3> QED BY <3>1, <1>1, <1>2, <1>7 DEF IsInjective
  <2> QED BY <2>1, <2>2 DEF ToSet
<1> QED BY <1>1, <1>3, <1>6, <1>7 DEF t

\* Two lists one after the other.
LEMMA ConcatFacts ==
    ASSUME NEW S, NEW s \in Seq(S), NEW t \in Seq(S)
    PROVE  /\ s \o t \in Seq(S)
           /\ ToSet(s \o t) = ToSet(s) \cup ToSet(t)
           /\ IsInjective(s) /\ IsInjective(t) /\ ToSet(s) \cap ToSet(t) = {}
                  => IsInjective(s \o t)
<1> DEFINE u == s \o t
<1>1. /\ u \in Seq(S) /\ Len(u) = Len(s) + Len(t)
      /\ \A i \in 1 .. Len(s) + Len(t) :
             u[i] = IF i <= Len(s) THEN s[i] ELSE t[i - Len(s)]
  BY ConcatProperties
<1>2. /\ DOMAIN s = 1 .. Len(s) /\ DOMAIN t = 1 .. Len(t)
      /\ DOMAIN u = 1 .. Len(u) /\ Len(s) \in Nat /\ Len(t) \in Nat
  BY <1>1, LenProperties
<1> HIDE DEF u
<1>3. ASSUME NEW i \in DOMAIN s PROVE i \in DOMAIN u /\ u[i] = s[i]
  BY <1>1, <1>2
<1>4. ASSUME NEW i \in DOMAIN t
      PROVE  i + Len(s) \in DOMAIN u /\ u[i + Len(s)] = t[i]
  BY <1>1, <1>2
<1>5. ASSUME NEW i \in DOMAIN u
      PROVE  \/ i \in DOMAIN s /\ u[i] = s[i]
             \/ i - Len(s) \in DOMAIN t /\ u[i] = t[i - Len(s)]
  BY <1>1, <1>2
<1>6. ToSet(u) = ToSet(s) \cup ToSet(t)
  <2>1. ToSet(s) \subseteq ToSet(u)
    BY <1>3 DEF ToSet
  <2>2. ToSet(t) \subseteq ToSet(u)
    <3>1. ASSUME NEW i \in DOMAIN t PROVE t[i] \in ToSet(u)
      BY <1>4 DEF ToSet
    <3> QED BY <3>1 DEF ToSet
  <2>3. ToSet(u) \subseteq ToSet(s) \cup ToSet(t)
    <3>1. ASSUME NEW i \in DOMAIN u PROVE u[i] \in ToSet(s) \cup ToSet(t)
      BY <1>5 DEF ToSet
    <3> QED BY <3>1 DEF ToSet
  <2> QED BY <2>1, <2>2, <2>3
<1>7. ASSUME IsInjective(s), IsInjective(t), ToSet(s) \cap ToSet(t) = {},
             NEW i \in DOMAIN u, NEW j \in DOMAIN u, u[i] = u[j]
      PROVE  i = j
  <2>1. i \in Int /\ j \in Int /\ Len(s) \in Int
    BY <1>2
  <2>2. CASE i \in DOMAIN s /\ u[i] = s[i]
    <3>1. CASE j \in DOMAIN s /\ u[j] = s[j]
      BY <2>2, <3>1, <1>7 DEF IsInjective
    <3>2. CASE j - Len(s) \in DOMAIN t /\ u[j] = t[j - Len(s)]
      BY <2>2, <3>2, <1>7 DEF ToSet
    <3> QED BY <3>1, <3>2, <1>5
  <2>3. CASE i - Len(s) \in DOMAIN t /\ u[i] = t[i - Len(s)]
    <3>1. CASE j \in DOMAIN s /\ u[j] = s[j]
      BY <2>3, <3>1, <1>7 DEF ToSet
    <3>2. CASE j - Len(s) \in DOMAIN t /\ u[j] = t[j - Len(s)]
      <4>1. i - Len(s) = j - Len(s)
        BY <2>3, <3>2, <1>7 DEF IsInjective
      <4> QED BY <4>1, <2>1
    <3> QED BY <3>1, <3>2, <1>5
  <2> QED BY <2>2, <2>3, <1>5
<1>8. ASSUME IsInjective(s), IsInjective(t), ToSet(s) \cap ToSet(t) = {}
      PROVE  IsInjective(u)
  BY <1>7, <1>8 DEF IsInjective
<1> QED BY <1>1, <1>6, <1>8 DEF u

\* A list of one process.
LEMMA SingletonFacts ==
    ASSUME NEW S, NEW e \in S
    PROVE  /\ <<e>> \in Seq(S)
           /\ ToSet(<<e>>) = {e}
           /\ IsInjective(<<e>>)
BY DEF ToSet, IsInjective

\* A list cut after its n-th process.
LEMMA SplitFacts ==
    ASSUME NEW S, NEW s \in Seq(S), NEW n \in 0 .. Len(s)
    PROVE  LET a == SubSeq(s, 1, n)
               b == SubSeq(s, n + 1, Len(s))
           IN  /\ a \in Seq(S) /\ b \in Seq(S)
               /\ ToSet(s) = ToSet(a) \cup ToSet(b)
               /\ IsInjective(s) => /\ IsInjective(a) /\ IsInjective(b)
                                    /\ ToSet(a) \cap ToSet(b) = {}
<1> DEFINE a == SubSeq(s, 1, n)
           b == SubSeq(s, n + 1, Len(s))
<1>1. /\ DOMAIN s = 1 .. Len(s) /\ Len(s) \in Nat
      /\ \A i \in 1 .. Len(s) : s[i] \in S
  BY LenProperties, ElementOfSeq
<1>2. n \in Int /\ n + 1 \in Int /\ Len(s) \in Int /\ 0 <= n /\ n <= Len(s)
  BY <1>1
<1>3. /\ a \in Seq(S) /\ Len(a) = n
      /\ \A i \in 1 .. n : a[i] = s[i]
  <2>1. \A i \in 1 .. n : s[i] \in S
    BY <1>1, <1>2
  <2>2. /\ a \in Seq(S)
        /\ Len(a) = IF 1 <= n THEN n - 1 + 1 ELSE 0
        /\ \A i \in 1 .. n - 1 + 1 : a[i] = s[1 + i - 1]
    BY <1>2, <2>1, SubSeqProperties
  <2> HIDE DEF a
  <2> QED BY <2>2, <1>2
<1>4. /\ b \in Seq(S) /\ Len(b) = Len(s) - n
      /\ \A i \in 1 .. Len(s) - n : b[i] = s[n + i]
  <2>1. \A i \in n + 1 .. Len(s) : s[i] \in S
    BY <1>1, <1>2
  <2>2. /\ b \in Seq(S)
        /\ Len(b) = IF n + 1 <= Len(s) THEN Len(s) - (n + 1) + 1 ELSE 0
        /\ \A i \in 1 .. Len(s) - (n + 1) + 1 : b[i] = s[n + 1 + i - 1]
    BY <1>2, <2>1, SubSeqProperties
  <2> HIDE DEF b
  <2>3. Len(b) = Len(s) - n
    <3>1. CASE n + 1 <= Len(s)
      BY <3>1, <2>2, <1>2
    <3>2. CASE n = Len(s)
      BY <3>2, <2>2, <1>2
    <3> QED BY <3>1, <3>2, <1>2
  <2>4. ASSUME NEW i \in 1 .. Len(s) - n PROVE b[i] = s[n + i]
    <3>1. i \in 1 .. Len(s) - (n + 1) + 1 /\ n + 1 + i - 1 = n + i
      BY <1>2
    <3>2. b[i] = s[n + 1 + i - 1]
      BY <3>1, <2>2
    <3> QED BY <3>1, <3>2
  <2> QED BY <2>2, <2>3, <2>4
<1>5. DOMAIN a = 1 .. n /\ DOMAIN b = 1 .. Len(s) - n
  BY <1>3, <1>4, LenProperties
<1> HIDE DEF a, b
<1>6. ASSUME NEW i \in DOMAIN a PROVE i \in DOMAIN s /\ a[i] = s[i] /\ i <= n
  BY <1>1, <1>2, <1>3, <1>5
<1>7. ASSUME NEW i \in DOMAIN b
      PROVE  /\ n + i \in DOMAIN s /\ b[i] = s[n + i]
             /\ n + i > n /\ i \in Int
  BY <1>1, <1>2, <1>4, <1>5
<1>8. ASSUME NEW i \in DOMAIN s
      PROVE  \/ i \in DOMAIN a /\ a[i] = s[i]
             \/ i - n \in DOMAIN b /\ b[i - n] = s[i]
  BY <1>1, <1>2, <1>3, <1>4, <1>5
<1>9. ToSet(s) = ToSet(a) \cup ToSet(b)
  <2>1. ToSet(a) \subseteq ToSet(s)
    <3>1. ASSUME NEW i \in DOMAIN a PROVE a[i] \in ToSet(s)
      BY <1>6 DEF ToSet
    <3> QED BY <3>1 DEF ToSet
  <2>2. ToSet(b) \subseteq ToSet(s)
    <3>1. ASSUME NEW i \in DOMAIN b PROVE b[i] \in ToSet(s)
      BY <1>7 DEF ToSet
    <3> QED BY <3>1 DEF ToSet
  <2>3. ToSet(s) \subseteq ToSet(a) \cup ToSet(b)
    <3>1. ASSUME NEW i \in DOMAIN s PROVE s[i] \in ToSet(a) \cup ToSet(b)
      BY <1>8 DEF ToSet
    <3> QED BY <3>1 DEF ToSet
  <2> QED BY <2>1, <2>2, <2>3
<1>10. ASSUME IsInjective(s)
       PROVE  IsInjective(a) /\ IsInjective(b) /\ ToSet(a) \cap ToSet(b) = {}
  <2>1. IsInjective(a)
    BY <1>6, <1>10 DEF IsInjective
  <2>2. ASSUME NEW i \in DOMAIN b, NEW j \in DOMAIN b, b[i] = b[j] PROVE i = j
    <3>1. n + i = n + j
      BY <2>2, <1>7, <1>10 DEF IsInjective
    <3> QED BY <3>1, <1>2, <1>7
  <2>3. ASSUME NEW i \in DOMAIN a, NEW j \in DOMAIN b PROVE a[i] # b[j]
    <3>1. i # n + j
      BY <1>2, <1>5, <1>6, <1>7
    <3> QED BY <3>1, <1>6, <1>7, <1>10 DEF IsInjective
  <2>4. ToSet(a) \cap ToSet(b) = {}
    BY <2>3 DEF ToSet
  <2> QED BY <2>1, <2>2, <2>4 DEF IsInjective
<1> QED BY <1>3, <1>4, <1>9, <1>10 DEF a, b

\* A list the other way round.
LEMMA ReverseFacts ==
    ASSUME NEW S, NEW s \in Seq(S)
    PROVE  /\ Reverse(s) \in Seq(S)
           /\ ToSet(Reverse(s)) = ToSet(s)
           /\ IsInjective(s) => IsInjective(Reverse(s))
<1> DEFINE r == Reverse(s)
<1>1. /\ DOMAIN s = 1 .. Len(s) /\ Len(s) \in Nat
      /\ \A i \in 1 .. Len(s) : s[i] \in S
  BY LenProperties, ElementOfSeq
<1>2. DOMAIN r = 1 .. Len(s) /\ \A i \in 1 .. Len(s) : r[i] = s[Len(s) - i + 1]
  BY DEF Reverse
<1>3. r \in Seq(S)
  <2>1. \A i \in 1 .. Len(s) : s[Len(s) - i + 1] \in S
    BY <1>1
  <2> QED BY <2>1, <1>1, IsASeq DEF Reverse
<1> HIDE DEF r
<1>4. ASSUME NEW i \in DOMAIN s
      PROVE  /\ Len(s) - i + 1 \in DOMAIN s /\ i \in Int
             /\ r[i] = s[Len(s) - i + 1]
             /\ r[Len(s) - i + 1] = s[i]
  <2>1. Len(s) - i + 1 \in 1 .. Len(s) /\ Len(s) - (Len(s) - i + 1) + 1 = i
    BY <1>1
  <2>2. r[Len(s) - i + 1] = s[Len(s) - (Len(s) - i + 1) + 1]
    BY <2>1, <1>2
  <2> QED BY <2>1, <2>2, <1>1, <1>2
<1>5. ToSet(r) = ToSet(s)
  <2>1. ASSUME NEW i \in DOMAIN s PROVE s[i] \in ToSet(r) /\ r[i] \in ToSet(s)
    BY <1>1, <1>2, <1>4 DEF ToSet
  <2> QED BY <2>1, <1>1, <1>2 DEF ToSet
<1>6. ASSUME IsInjective(s), NEW i \in DOMAIN s, NEW j \in DOMAIN s, r[i] = r[j]
      PROVE  i = j
  <2>1. Len(s) - i + 1 = Len(s) - j + 1
    BY <1>4, <1>6 DEF IsInjective
  <2> QED BY <2>1, <1>1
<1> QED BY <1>1, <1>2, <1>3, <1>5, <1>6 DEF r, IsInjective

\* A process inserted at any position of a list, its end included.
LEMMA InsertAtFacts ==
    ASSUME NEW S, NEW s \in Seq(S), NEW e \in S, NEW i \in 1 .. Len(s) + 1
    PROVE  /\ InsertAt(s, i, e) \in Seq(S)
           /\ ToSet(InsertAt(s, i, e)) = ToSet(s) \cup {e}
           /\ IsInjective(s) /\ e \notin ToSet(s)
                  => IsInjective(InsertAt(s, i, e))
<1> DEFINE a == SubSeq(s, 1, i - 1)
           b == SubSeq(s, i, Len(s))
           c == a \o <<e>>
<1>1. i - 1 \in 0 .. Len(s) /\ (i - 1) + 1 = i
  BY LenProperties
<1>2. /\ a \in Seq(S) /\ b \in Seq(S)
      /\ ToSet(s) = ToSet(a) \cup ToSet(b)
      /\ IsInjective(s) => /\ IsInjective(a) /\ IsInjective(b)
                           /\ ToSet(a) \cap ToSet(b) = {}
  BY <1>1, SplitFacts
<1> HIDE DEF a, b
<1>3. /\ <<e>> \in Seq(S) /\ ToSet(<<e>>) = {e} /\ IsInjective(<<e>>)
  BY SingletonFacts
<1>4. /\ c \in Seq(S) /\ ToSet(c) = ToSet(a) \cup {e}
      /\ IsInjective(a) /\ e \notin ToSet(a) => IsInjective(c)
  <2>1. /\ a \o <<e>> \in Seq(S)
        /\ ToSet(a \o <<e>>) = ToSet(a) \cup ToSet(<<e>>)
        /\ IsInjective(a) /\ IsInjective(<<e>>) /\ ToSet(a) \cap ToSet(<<e>>) = {}
               => IsInjective(a \o <<e>>)
    BY <1>2, <1>3, ConcatFacts
  <2> QED BY <2>1, <1>3
<1> HIDE DEF c
<1>5. /\ c \o b \in Seq(S) /\ ToSet(c \o b) = ToSet(c) \cup ToSet(b)
      /\ IsInjective(c) /\ IsInjective(b) /\ ToSet(c) \cap ToSet(b) = {}
             => IsInjective(c \o b)
  BY <1>2, <1>4, ConcatFacts
<1>6. InsertAt(s, i, e) = c \o b
  BY DEF InsertAt, a, b, c
<1> QED BY <1>2, <1>4, <1>5, <1>6

\* The first index of a non-empty set of indices.
LEMMA MinFacts ==
    ASSUME NEW I, I \subseteq Nat, I # {}
    PROVE  Min(I) \in I /\ \A j \in I : Min(I) <= j
<1>1. PICK i \in I : \A j \in I : ~ (<<j, i>> \in OpToRel(<, Nat))
  BY NatLessThanWellFounded, WFMin
<1>2. \A j \in I : ~ (j < i)
  BY <1>1, Zenon DEF OpToRel
<1>3. \A j \in I : i <= j
  BY <1>2
<1> QED BY <1>1, <1>3 DEF Min

\* The last number of a bounded set of numbers.
LEMMA MaxFacts ==
    ASSUME NEW n \in Nat, NEW I, I \subseteq Int, I # {}, \A i \in I : i <= n
    PROVE  Max(I) \in I /\ \A j \in I : j <= Max(I)
<1> DEFINE J == {n - i : i \in I}
<1>1. J \subseteq Nat /\ J # {}
  <2>1. ASSUME NEW i \in I PROVE n - i \in Nat
    OBVIOUS
  <2> QED BY <2>1
<1>2. PICK m \in J : \A j \in J : m <= j
  <2> HIDE DEF J
  <2> QED BY <1>1, MinFacts
<1>3. n - m \in I /\ \A j \in I : j <= n - m
  <2>1. PICK i \in I : m = n - i
    BY <1>2
  <2>2. i \in Int /\ n - m = i
    BY <2>1
  <2>3. ASSUME NEW j \in I PROVE j <= i
    <3>1. n - j \in J
      OBVIOUS
    <3>2. m <= n - j /\ j \in Int
      BY <1>2, <3>1
    <3> QED BY <2>2, <3>2
  <2> QED BY <2>2, <2>3
<1> HIDE DEF J
<1> QED BY <1>3 DEF Max

\* A set of numbers up to n without a first element is empty: how a fact is
\* carried through the turns of a loop.
LEMMA NoFirst ==
    ASSUME NEW n \in Nat, NEW I, I \subseteq 0 .. n, 0 \notin I,
           \A i \in 1 .. n : i - 1 \notin I => i \notin I
    PROVE  I = {}
<1> SUFFICES ASSUME I # {} PROVE FALSE
  OBVIOUS
<1>1. I \subseteq Nat
  OBVIOUS
<1>2. PICK a \in I : \A j \in I : a <= j
  BY <1>1, MinFacts
<1>3. a \in 1 .. n
  BY <1>1, <1>2
<1>4. a - 1 \notin I
  BY <1>2, <1>3
<1> QED BY <1>2, <1>3, <1>4

\* A list without its last element.
LEMMA FrontFacts ==
    ASSUME NEW S, NEW s \in Seq(S), s # <<>>
    PROVE  Front(s) \in Seq(S)
<1>1. Len(s) - 1 \in 0 .. Len(s)
  BY LenProperties, EmptySeq
<1> QED BY <1>1, SplitFacts DEF Front

\* A part of a sequence, entry by entry.
LEMMA PartItems ==
    ASSUME NEW S, NEW s \in Seq(S), NEW m \in 1 .. Len(s) + 1,
           NEW n \in 0 .. Len(s), m <= n + 1
    PROVE  /\ SubSeq(s, m, n) \in Seq(S)
           /\ Len(SubSeq(s, m, n)) = n - m + 1
           /\ \A i \in 1 .. n - m + 1 : SubSeq(s, m, n)[i] = s[m + i - 1]
<1>1. /\ Len(s) \in Nat /\ m \in Int /\ n \in Int
      /\ \A i \in m .. n : s[i] \in S
  BY LenProperties, ElementOfSeq
<1>2. /\ SubSeq(s, m, n) \in Seq(S)
      /\ Len(SubSeq(s, m, n)) = IF m <= n THEN n - m + 1 ELSE 0
      /\ \A i \in 1 .. n - m + 1 : SubSeq(s, m, n)[i] = s[m + i - 1]
  BY <1>1, SubSeqProperties
<1> DEFINE r == SubSeq(s, m, n)
<1> HIDE DEF r
<1>3. Len(r) = n - m + 1
  BY <1>1, <1>2 DEF r
<1> QED BY <1>2, <1>3 DEF r

\* Without its i-th entry, a sequence is one shorter.
LEMMA RemoveAtItems ==
    ASSUME NEW S, NEW s \in Seq(S), NEW i \in 1 .. Len(s)
    PROVE  /\ RemoveAt(s, i) \in Seq(S)
           /\ Len(RemoveAt(s, i)) = Len(s) - 1
           /\ \A k \in 1 .. Len(s) - 1 :
                  RemoveAt(s, i)[k] = IF k < i THEN s[k] ELSE s[k + 1]
<1> DEFINE a == SubSeq(s, 1, i - 1)
           b == SubSeq(s, i + 1, Len(s))
<1>1. Len(s) \in Nat
  BY LenProperties
<1>2. /\ a \in Seq(S) /\ Len(a) = i - 1
      /\ \A k \in 1 .. i - 1 : a[k] = s[k]
  <2>1. /\ a \in Seq(S) /\ Len(a) = i - 1 - 1 + 1
        /\ \A k \in 1 .. i - 1 - 1 + 1 : a[k] = s[1 + k - 1]
    BY <1>1, PartItems
  <2> HIDE DEF a
  <2> QED BY <2>1, <1>1
<1>3. /\ b \in Seq(S) /\ Len(b) = Len(s) - i
      /\ \A k \in 1 .. Len(s) - i : b[k] = s[i + k]
  <2>1. /\ b \in Seq(S) /\ Len(b) = Len(s) - (i + 1) + 1
        /\ \A k \in 1 .. Len(s) - (i + 1) + 1 : b[k] = s[i + 1 + k - 1]
    BY <1>1, PartItems
  <2> HIDE DEF b
  <2> QED BY <2>1, <1>1
<1> HIDE DEF a, b
<1> DEFINE r == a \o b
<1>4. /\ r \in Seq(S) /\ Len(r) = Len(a) + Len(b)
      /\ \A k \in 1 .. Len(a) + Len(b) :
             r[k] = IF k <= Len(a) THEN a[k] ELSE b[k - Len(a)]
  BY <1>2, <1>3, ConcatProperties
<1>5. RemoveAt(s, i) = r
  BY DEF RemoveAt, a, b
<1> HIDE DEF r
<1>6. Len(r) = Len(s) - 1
  BY <1>1, <1>2, <1>3, <1>4
<1>7. ASSUME NEW k \in 1 .. Len(s) - 1
      PROVE  r[k] = IF k < i THEN s[k] ELSE s[k + 1]
  <2>0. r[k] = IF k <= i - 1 THEN a[k] ELSE b[k - (i - 1)]
    <3>1. k \in 1 .. Len(a) + Len(b)
      BY <1>1, <1>2, <1>3
    <3> QED BY <3>1, <1>2, <1>4
  <2>1. CASE k < i
    <3>1. k \in 1 .. i - 1 /\ k <= i - 1
      BY <2>1, <1>1
    <3> QED BY <3>1, <2>0, <2>1, <1>2
  <2>2. CASE ~(k < i)
    <3>1. /\ k - (i - 1) \in 1 .. Len(s) - i /\ i + (k - (i - 1)) = k + 1
          /\ ~(k <= i - 1)
      BY <2>2, <1>1
    <3> QED BY <3>1, <2>0, <2>2, <1>3
  <2> QED BY <2>1, <2>2
<1> QED BY <1>4, <1>5, <1>6, <1>7

\* t is s with e put before its i-th entry.
Widened(t, s, i, e) ==
    /\ Len(t) = Len(s) + 1
    /\ \A k \in 1 .. Len(s) + 1 :
           t[k] = IF k < i THEN s[k] ELSE IF k = i THEN e ELSE s[k - 1]

\* InsertAt puts e before the i-th entry and leaves the others in order.
LEMMA InsertAtItems ==
    ASSUME NEW S, NEW s \in Seq(S), NEW e \in S, NEW i \in 1 .. Len(s) + 1
    PROVE  InsertAt(s, i, e) \in Seq(S) /\ Widened(InsertAt(s, i, e), s, i, e)
<1> DEFINE a == SubSeq(s, 1, i - 1)
           b == SubSeq(s, i, Len(s))
           one == <<e>>
<1>1. Len(s) \in Nat
  BY LenProperties
<1>2. /\ a \in Seq(S) /\ Len(a) = i - 1
      /\ \A k \in 1 .. i - 1 : a[k] = s[k]
  <2>1. /\ a \in Seq(S) /\ Len(a) = i - 1 - 1 + 1
        /\ \A k \in 1 .. i - 1 - 1 + 1 : a[k] = s[1 + k - 1]
    BY <1>1, PartItems
  <2> HIDE DEF a
  <2> QED BY <2>1, <1>1
<1>3. /\ b \in Seq(S) /\ Len(b) = Len(s) - i + 1
      /\ \A k \in 1 .. Len(s) - i + 1 : b[k] = s[i + k - 1]
  BY <1>1, PartItems
<1>4. one \in Seq(S) /\ Len(one) = 1 /\ one[1] = e
  OBVIOUS
<1>5. InsertAt(s, i, e) = a \o one \o b
  BY DEF InsertAt
<1> HIDE DEF a, b, one
<1> DEFINE c == a \o one
<1>6. /\ c \in Seq(S) /\ Len(c) = Len(a) + Len(one)
      /\ \A k \in 1 .. Len(a) + Len(one) :
             c[k] = IF k <= Len(a) THEN a[k] ELSE one[k - Len(a)]
  BY <1>2, <1>4, ConcatProperties
<1> HIDE DEF c
<1> DEFINE r == c \o b
<1>7. /\ r \in Seq(S) /\ Len(r) = Len(c) + Len(b)
      /\ \A k \in 1 .. Len(c) + Len(b) :
             r[k] = IF k <= Len(c) THEN c[k] ELSE b[k - Len(c)]
  <2>1. c \in Seq(S) /\ b \in Seq(S)
    BY <1>3, <1>6
  <2> QED BY <2>1, ConcatProperties
<1>8. InsertAt(s, i, e) = r
  BY <1>5 DEF c
<1> HIDE DEF r
<1>9. Len(c) = i /\ Len(r) = Len(s) + 1
  BY <1>1, <1>2, <1>3, <1>4, <1>6, <1>7
<1>10. ASSUME NEW k \in 1 .. Len(s) + 1
       PROVE  r[k] = IF k < i THEN s[k] ELSE IF k = i THEN e ELSE s[k - 1]
  <2>1. CASE k < i
    <3>1. r[k] = c[k] /\ c[k] = a[k]
      BY <2>1, <1>1, <1>2, <1>3, <1>4, <1>6, <1>7, <1>9
    <3> QED BY <2>1, <3>1, <1>2
  <2>2. CASE k = i
    <3>1. k \in 1 .. Len(c) + Len(b) /\ k <= Len(c)
      BY <2>2, <1>1, <1>3, <1>9
    <3>2. k \in 1 .. Len(a) + Len(one) /\ ~(k <= Len(a)) /\ k - Len(a) = 1
      BY <2>2, <1>1, <1>2, <1>4
    <3>3. r[k] = c[k] /\ c[k] = one[1]
      BY <3>1, <3>2, <1>6, <1>7
    <3> QED BY <2>2, <3>3, <1>4
  <2>3. CASE k > i
    <3>1. k - i \in 1 .. Len(s) - i + 1 /\ i + (k - i) - 1 = k - 1
      BY <2>3, <1>1
    <3>2. r[k] = b[k - i]
      BY <2>3, <1>1, <1>3, <1>7, <1>9
    <3> QED BY <2>3, <3>1, <3>2, <1>3
  <2> QED BY <2>1, <2>2, <2>3
<1> QED BY <1>7, <1>8, <1>9, <1>10 DEF Widened

\* t keeps what it has of the entries of s, k places further on.
ShiftedBy(t, s, k) ==
    \A i \in DOMAIN s : s[i] \in ToSet(t) => i + k \in DOMAIN t /\ t[i + k] = s[i]

\* Appending an entry to a list moves nothing.
LEMMA AppendShift ==
    ASSUME NEW S, NEW s \in Seq(S), NEW e \in S
    PROVE  ShiftedBy(Append(s, e), s, 0)
<1> DEFINE t == Append(s, e)
<1>1. /\ t \in Seq(S) /\ Len(t) = Len(s) + 1
      /\ \A i \in 1 .. Len(s) : t[i] = s[i]
  BY AppendProperties
<1>2. DOMAIN s = 1 .. Len(s) /\ DOMAIN t = 1 .. Len(t) /\ Len(s) \in Nat
  BY <1>1, LenProperties
<1> HIDE DEF t
<1>3. ShiftedBy(t, s, 0)
  BY <1>1, <1>2 DEF ShiftedBy
<1> QED BY <1>3 DEF t

\* Taking the first entry off a list without duplicates moves the others
\* one place forward.
LEMMA TailShift ==
    ASSUME NEW S, NEW s \in Seq(S), s # <<>>, IsInjective(s)
    PROVE  ShiftedBy(Tail(s), s, -1)
<1> DEFINE t == Tail(s)
<1>1. /\ t \in Seq(S) /\ Len(t) = Len(s) - 1
      /\ \A i \in 1 .. Len(t) : t[i] = s[i + 1]
      /\ Head(s) = s[1]
  BY HeadTailProperties
<1>2. /\ DOMAIN s = 1 .. Len(s) /\ DOMAIN t = 1 .. Len(t)
      /\ Len(s) \in Nat /\ Len(t) \in Nat
  BY <1>1, LenProperties
<1>3. s[1] \notin ToSet(t)
  BY <1>1, TailFacts
<1> HIDE DEF t
<1>4. ASSUME NEW i \in DOMAIN s, s[i] \in ToSet(t)
      PROVE  i + -1 \in DOMAIN t /\ t[i + -1] = s[i]
  <2>1. i # 1
    BY <1>3, <1>4
  <2>2. i - 1 \in 1 .. Len(t) /\ (i - 1) + 1 = i /\ i + -1 = i - 1
    BY <1>1, <1>2, <2>1
  <2> QED BY <1>1, <1>2, <2>2
<1>5. ShiftedBy(t, s, -1)
  BY <1>4 DEF ShiftedBy
<1> QED BY <1>5 DEF t

\* A list put before another moves that one by its own length.
LEMMA ConcatShift ==
    ASSUME NEW S, NEW s \in Seq(S), NEW t \in Seq(S)
    PROVE  Len(t) \in Int /\ ShiftedBy(t \o s, s, Len(t))
<1> DEFINE u == t \o s
<1>1. /\ u \in Seq(S) /\ Len(u) = Len(t) + Len(s)
      /\ \A i \in 1 .. Len(t) + Len(s) :
             u[i] = IF i <= Len(t) THEN t[i] ELSE s[i - Len(t)]
  BY ConcatProperties
<1>2. /\ DOMAIN s = 1 .. Len(s) /\ DOMAIN u = 1 .. Len(u)
      /\ Len(s) \in Nat /\ Len(t) \in Nat
  BY <1>1, LenProperties
<1> HIDE DEF u
<1>3. ASSUME NEW i \in DOMAIN s
      PROVE  i + Len(t) \in DOMAIN u /\ u[i + Len(t)] = s[i]
  <2>1. /\ i + Len(t) \in 1 .. Len(t) + Len(s) /\ ~(i + Len(t) <= Len(t))
        /\ (i + Len(t)) - Len(t) = i
    BY <1>2
  <2> QED BY <2>1, <1>1, <1>2
<1>4. ShiftedBy(u, s, Len(t))
  BY <1>3 DEF ShiftedBy
<1> QED BY <1>2, <1>4 DEF u
=============================================================================
