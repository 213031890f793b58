--------------------------- MODULE SubjectProofs ---------------------------
(* The theorems of Subject, for subjects of any length over any alphabet.  *)
(* No proof is by induction: what is cut off a string and what is kept are *)
(* given by the least and the greatest of a set of positions.              *)
EXTENDS Subject, SequenceTheorems, WellFoundedInduction, TLAPS

-----------------------------------------------------------------------------
(* The least and the greatest of a set of positions. *)

Less == OpToRel(<, Nat)

LEMMA LessThan == \A x, y \in Nat : <<x, y>> \in Less <=> x < y
  BY DEF Less, OpToRel

LEMMA Least ==
  ASSUME NEW P \in SUBSET Nat, P # {}
  PROVE  Min(P) \in P /\ \A y \in P : Min(P) <= y
<1>1. IsWellFoundedOn(Less, Nat)
  BY NatLessThanWellFounded DEF Less, OpToRel
<1>2. PICK x \in P : \A y \in P : <<y, x>> \notin Less
  BY <1>1, WFMin
<1>3. \A y \in P : x <= y
  <2> SUFFICES ASSUME NEW y \in P PROVE x <= y
    OBVIOUS
  <2>1. x \in Nat /\ y \in Nat /\ <<y, x>> \notin Less
    BY <1>2
  <2>2. ~(y < x)
    BY <2>1, LessThan
  <2> QED
    BY <2>1, <2>2
<1> QED
  BY <1>3 DEF Min

LEMMA Greatest ==
  ASSUME NEW n \in Nat, NEW P \in SUBSET (1..n), P # {}
  PROVE  Max(P) \in P /\ \A y \in P : y <= Max(P)
<1> DEFINE Q == {n - x : x \in P}
<1>1. Q \in SUBSET Nat /\ Q # {}
  <2>1. \A x \in P : x \in 1..n /\ n - x \in Nat
    OBVIOUS
  <2>2. Q \in SUBSET Nat
    BY <2>1
  <2> QED
    BY <2>2
<1>2. PICK x \in P : n - x = Min(Q)
  BY <1>1, Least
<1>3. \A y \in P : n - x <= n - y
  BY <1>1, <1>2, Least
<1>4. \A y \in P : x >= y
  BY <1>3
<1>5. Max(P) \in P /\ \A y \in P : Max(P) >= y
  BY <1>4 DEF Max
<1> QED
  BY <1>5

-----------------------------------------------------------------------------
(* Cutting a string puts nothing in and leaves nothing out. *)

LEMMA CutPrefix ==
  ASSUME NEW S, NEW p \in Seq(S), NEW s \in Seq(S), IsPrefix(p, s)
  PROVE  /\ Rest(p, s) \in Seq(S) /\ Len(Rest(p, s)) = Len(s) - Len(p)
         /\ s = p \o Rest(p, s)
<1>1. Len(p) \in Nat /\ Len(s) \in Nat /\ Len(p) <= Len(s)
  BY LenProperties DEF IsPrefix
<1>2. \A i \in Len(p)+1..Len(s) : s[i] \in S
  BY <1>1, ElementOfSeq
<1>3. /\ Rest(p, s) \in Seq(S) /\ Len(Rest(p, s)) = Len(s) - Len(p)
      /\ \A i \in 1..Len(s) - Len(p) : Rest(p, s)[i] = s[Len(p) + i]
  BY <1>1, <1>2, SubSeqProperties DEF Rest
<1>4. \A i \in 1..Len(p) : p[i] = s[i]
  <2>1. SubSeq(p, 1, Len(p)) = SubSeq(s, 1, Len(p))
    BY DEF IsPrefix
  <2>2. \A i \in 1..Len(p) : p[i] \in S /\ s[i] \in S
    BY <1>1, ElementOfSeq
  <2>3. /\ \A i \in 1..Len(p) : SubSeq(p, 1, Len(p))[i] = p[i]
        /\ \A i \in 1..Len(p) : SubSeq(s, 1, Len(p))[i] = s[i]
    BY <1>1, <2>2, SubSeqProperties
  <2> QED
    BY <2>1, <2>3
<1>5. /\ p \o Rest(p, s) \in Seq(S) /\ Len(p \o Rest(p, s)) = Len(s)
      /\ \A i \in 1..Len(s) :
           (p \o Rest(p, s))[i] = IF i <= Len(p) THEN p[i] ELSE Rest(p, s)[i - Len(p)]
  BY <1>1, <1>3, ConcatProperties
<1>6. \A i \in 1..Len(s) : s[i] = (p \o Rest(p, s))[i]
  BY <1>1, <1>3, <1>4, <1>5
<1> QED
  BY <1>3, <1>5, <1>6, SeqEqual

LEMMA CutAt ==
  ASSUME NEW S, NEW s \in Seq(S), NEW i \in 1..Len(s)
  PROVE  /\ SubSeq(s, 1, i - 1) \in Seq(S) /\ SubSeq(s, i + 1, Len(s)) \in Seq(S)
         /\ s = (SubSeq(s, 1, i - 1) \o <<s[i]>>) \o SubSeq(s, i + 1, Len(s))
<1>1. Len(s) \in Nat /\ i \in Int
  BY LenProperties
<1>2. \A j \in 1..Len(s) : s[j] \in S
  BY ElementOfSeq
<1>3. SubSeq(s, 1, i - 1) \in Seq(S) /\ SubSeq(s, i + 1, Len(s)) \in Seq(S)
  BY <1>1, <1>2, SubSeqProperties
<1>4. SubSeq(s, 1, i) = SubSeq(s, 1, i - 1) \o <<s[i]>>
  BY <1>1, SubSeqRecursiveSecond
<1>5. SubSeq(s, 1, i) \o SubSeq(s, i + 1, Len(s)) = SubSeq(s, 1, Len(s))
  BY <1>1, ConcatAdjacentSubSeq
<1>6. SubSeq(s, 1, Len(s)) = s
  BY SubSeqFull
<1> QED
  BY <1>3, <1>4, <1>5, <1>6

LEMMA SlashIsFound ==
  ASSUME NEW S, NEW s \in Seq(S), Slash(s) # 0
  PROVE  Slash(s) \in 1..Len(s) /\ s[Slash(s)] = "/"
<1> DEFINE P == {i \in 1..Len(s) : s[i] = "/"}
<1>1. Slash(s) = IF P # {} THEN Min(P) ELSE 0
  BY DEF Slash, SelectInSeq
<1>2. P # {} /\ P \in SUBSET Nat /\ Slash(s) = Min(P)
  BY <1>1, LenProperties
<1> QED
  BY <1>2, Least

-----------------------------------------------------------------------------
(* Who is bound. *)

(* Concatenation, kept folded: the provers reorder it otherwise.           *)
Cat(a, b) == a \o b

LEMMA CatTypes ==
  \A S : \A a, b, c \in Seq(S) :
    Cat(b, c) \in Seq(S) /\ Cat(a, Cat(b, c)) = Cat(Cat(a, b), c)
<1> SUFFICES ASSUME NEW S, NEW a \in Seq(S), NEW b \in Seq(S), NEW c \in Seq(S)
             PROVE  b \o c \in Seq(S) /\ a \o (b \o c) = (a \o b) \o c
  BY DEF Cat
<1>1. b \o c \in Seq(S)
  BY ConcatProperties
<1>2. a \o (b \o c) = (a \o b) \o c
  BY ConcatAssociative
<1> QED
  BY <1>1, <1>2

LEMMA CatFour ==
  \A S : \A a, b, c, d \in Seq(S) :
    Cat(a, Cat(Cat(b, c), d)) = Cat(Cat(Cat(a, b), c), d)
<1> SUFFICES ASSUME NEW S, NEW a \in Seq(S), NEW b \in Seq(S), NEW c \in Seq(S),
                    NEW d \in Seq(S)
             PROVE  Cat(a, Cat(Cat(b, c), d)) = Cat(Cat(Cat(a, b), c), d)
  OBVIOUS
<1>1. Cat(b, c) \in Seq(S) /\ Cat(a, Cat(b, c)) = Cat(Cat(a, b), c)
  BY CatTypes
<1>2. Cat(a, Cat(Cat(b, c), d)) = Cat(Cat(a, Cat(b, c)), d)
  BY <1>1, CatTypes
<1> QED
  BY <1>1, <1>2

Separators == {"user", "serviceaccount", ":", "/"}

LEMMA PrefixTypes ==
  ASSUME NEW S, Separators \subseteq S
  PROVE  UserPrefix \in Seq(S) /\ ServiceAccountPrefix \in Seq(S)
  BY DEF Separators, UserPrefix, ServiceAccountPrefix

(* Whatever the subject, the identity bound is one that it spells: nothing *)
(* of it is dropped but "user:", and nothing is taken for something else.  *)
THEOREM SubjectIsSpelled ==
  ASSUME NEW S, NEW s \in Seq(S)
  PROVE  s \in Spellings(SubjectFromSpec(s))
<1> DEFINE C == S \cup Separators
           rest == Rest(ServiceAccountPrefix, s)
           cut == Slash(rest)
           ns == SubSeq(rest, 1, cut - 1)
           name == SubSeq(rest, cut + 1, Len(rest))
<1>1. s \in Seq(C) /\ UserPrefix \in Seq(C) /\ ServiceAccountPrefix \in Seq(C)
  BY SeqMonotonic, PrefixTypes
<1>2. CASE IsPrefix(ServiceAccountPrefix, s) /\ cut > 1 /\ cut < Len(rest)
  <2>1. SubjectFromSpec(s) = ServiceAccount(ns, name)
    BY <1>2 DEF SubjectFromSpec
  <2>2. rest \in Seq(C) /\ s = ServiceAccountPrefix \o rest
    <3>1. IsPrefix(ServiceAccountPrefix, s)
      BY <1>2
    <3> HIDE DEF C
    <3> QED
      BY <1>1, <3>1, CutPrefix
  <2>3. cut \in 1..Len(rest) /\ rest[cut] = "/"
    <3>1. cut # 0
      BY <1>2
    <3> HIDE DEF C, rest
    <3> QED
      BY <2>2, <3>1, SlashIsFound
  <2>4. /\ ns \in Seq(C) /\ name \in Seq(C)
        /\ rest = (ns \o <<rest[cut]>>) \o name
    <3> HIDE DEF C, rest, cut
    <3> QED
      BY <2>2, <2>3, CutAt
  <2> HIDE DEF rest, cut, ns, name
  <2>5. <<"/">> \in Seq(C) /\ ns \o <<"/">> \in Seq(C)
    <3>1. "/" \in C
      BY DEF Separators
    <3> HIDE DEF C
    <3>2. <<"/">> \in Seq(C)
      BY <3>1
    <3> QED
      BY <2>4, <3>2, ConcatProperties
  <2>6. s = ((ServiceAccountPrefix \o ns) \o <<"/">>) \o name
    <3>1. s = ServiceAccountPrefix \o ((ns \o <<"/">>) \o name)
      BY <2>2, <2>3, <2>4
    <3> HIDE DEF C
    <3>2. ServiceAccountPrefix \o ((ns \o <<"/">>) \o name)
            = ((ServiceAccountPrefix \o ns) \o <<"/">>) \o name
      <4> DEFINE slash == <<"/">>
      <4>1. slash \in Seq(C)
        BY <2>5
      <4> HIDE DEF slash
      <4>2. Cat(ServiceAccountPrefix, Cat(Cat(ns, slash), name))
              = Cat(Cat(Cat(ServiceAccountPrefix, ns), slash), name)
        BY <1>1, <2>4, <4>1, CatFour
      <4> QED
        BY <4>2 DEF Cat, slash
    <3> QED
      BY <3>1, <3>2
  <2> DEFINE id == ServiceAccount(ns, name)
  <2>7. id.kind = "ServiceAccount" /\ id.namespace = ns /\ id.name = name
    BY DEF ServiceAccount
  <2> HIDE DEF id
  <2>8. Spellings(id) = {((ServiceAccountPrefix \o ns) \o <<"/">>) \o name}
    BY <2>7, Zenon DEF Spellings
  <2> QED
    BY <2>6, <2>1, <2>8 DEF id
<1>3. CASE /\ ~IsPrefix(ServiceAccountPrefix, s)
           /\ IsPrefix(UserPrefix, s) /\ Len(s) > Len(UserPrefix)
  <2>1. s = UserPrefix \o Rest(UserPrefix, s)
    BY <1>1, <1>3, CutPrefix
  <2>2. SubjectFromSpec(s) = User(Rest(UserPrefix, s))
    BY <1>3 DEF SubjectFromSpec
  <2> QED
    BY <2>1, <2>2 DEF Spellings, User
<1>4. CASE ~(IsPrefix(ServiceAccountPrefix, s) /\ cut > 1 /\ cut < Len(rest))
           /\ ~(/\ ~IsPrefix(ServiceAccountPrefix, s)
                /\ IsPrefix(UserPrefix, s) /\ Len(s) > Len(UserPrefix))
  <2>1. SubjectFromSpec(s) = User(s)
    BY <1>4 DEF SubjectFromSpec
  <2> QED
    BY <2>1 DEF Spellings, User
<1> QED
  BY <1>2, <1>3, <1>4

(* Two subjects bind one identity only if one is the other with "user:"    *)
(* before it: no other spelling of a grant reaches the access of another.  *)
THEOREM SubjectsBindApart ==
  ASSUME NEW S, NEW s \in Seq(S), NEW t \in Seq(S),
         SubjectFromSpec(s) = SubjectFromSpec(t)
  PROVE  s = t \/ s = UserPrefix \o t \/ t = UserPrefix \o s
<1>1. s \in Spellings(SubjectFromSpec(s)) /\ t \in Spellings(SubjectFromSpec(s))
  BY SubjectIsSpelled
<1> QED
  BY <1>1 DEF Spellings

-----------------------------------------------------------------------------
(* Labels. *)

LegalChars == Letters \cup {"-", "_", "."}

LEMMA CleanedType ==
  ASSUME NEW S, NEW s \in Seq(S)
  PROVE  Cleaned(s) \in Seq(LegalChars)
<1>1. Len(s) \in Nat /\ DOMAIN s = 1..Len(s)
  BY LenProperties
<1>2. Cleaned(s) \in [1..Len(s) -> LegalChars]
  BY <1>1 DEF Cleaned, Legal, LegalChars
<1> QED
  BY <1>1, <1>2, SeqDef

(* What trimming leaves: nothing if there is no letter, and otherwise a    *)
(* piece with a letter at both ends.                                       *)
LEMMA Trimmed ==
  ASSUME NEW S, NEW s \in Seq(S)
  PROVE  /\ Trim(s) \in Seq(S) /\ Len(Trim(s)) \in Nat /\ Len(Trim(s)) <= Len(s)
         /\ Len(Trim(s)) > 0 => /\ Trim(s)[1] \in Letters
                                /\ Trim(s)[Len(Trim(s))] \in Letters
         /\ (\E i \in 1..Len(s) : s[i] \in Letters) => Len(Trim(s)) > 0
<1> DEFINE P == {i \in DOMAIN s : s[i] \in Letters}
<1>1. Len(s) \in Nat /\ DOMAIN s = 1..Len(s) /\ P \subseteq 1..Len(s)
  BY LenProperties
<1>2. CASE P = {}
  <2>1. Trim(s) = <<>>
    BY <1>2 DEF Trim
  <2>2. ~\E i \in 1..Len(s) : s[i] \in Letters
    BY <1>1, <1>2
  <2> QED
    BY <1>1, <2>1, <2>2, EmptySeq
<1>3. CASE P # {}
  <2> DEFINE m == Min(P)
             n == Max(P)
  <2>1. m \in P /\ n \in P /\ m <= n
    <3>1. m \in P /\ \A y \in P : m <= y
      <4> HIDE DEF P
      <4>1. P \in SUBSET Nat
        BY <1>1
      <4> QED
        BY <1>3, <4>1, Least
    <3>2. n \in P
      <4> HIDE DEF P
      <4> QED
        BY <1>1, <1>3, Greatest
    <3> QED
      BY <3>1, <3>2
  <2>2. Trim(s) = SubSeq(s, m, n)
    BY <1>3 DEF Trim
  <2> HIDE DEF m, n
  <2>3. m \in 1..Len(s) /\ n \in 1..Len(s) /\ s[m] \in Letters /\ s[n] \in Letters
    BY <1>1, <2>1
  <2>4. \A i \in m..n : s[i] \in S
    BY <1>1, <2>3, ElementOfSeq
  <2>5. /\ Trim(s) \in Seq(S) /\ Len(Trim(s)) = n - m + 1
        /\ \A i \in 1..n - m + 1 : Trim(s)[i] = s[m + i - 1]
    BY <2>1, <2>2, <2>3, <2>4, SubSeqProperties
  <2>6. Trim(s)[1] = s[m] /\ Trim(s)[n - m + 1] = s[n]
    BY <1>1, <2>1, <2>3, <2>5
  <2> QED
    BY <1>1, <2>1, <2>3, <2>5, <2>6
<1> QED
  BY <1>2, <1>3

LEMMA Bounds ==
  /\ DigestLen \in Nat /\ DigestLen > 0
  /\ MaxLabelLen \in Nat /\ MaxLabelLen > DigestLen + 1
<1>1. /\ DigestLen \in Nat \ {0}
      /\ MaxLabelLen \in Nat /\ MaxLabelLen > DigestLen + 1
  BY SubjectAssumption, Zenon
<1> QED
  BY <1>1

(* The start of a label that is too long. *)
LEMMA Cut ==
  ASSUME NEW S, NEW s \in Seq(S), IsCut(s)
  PROVE  /\ Readable(s) \in Seq(LegalChars) /\ Len(Readable(s)) \in Nat \ {0}
         /\ Len(Readable(s)) + 1 + DigestLen <= MaxLabelLen
         /\ Readable(s)[1] \in Letters
<1> DEFINE v == Trim(Cleaned(s))
           n == MaxLabelLen - DigestLen - 1
           u == SubSeq(v, 1, n)
<1>1. v \in Seq(LegalChars) /\ Len(v) \in Nat /\ (Len(v) > 0 => v[1] \in Letters)
  BY CleanedType, Trimmed
<1>2. Len(v) > MaxLabelLen
  BY DEF IsCut
<1>3. Readable(s) = Trim(u)
  BY DEF Readable
<1> HIDE DEF v
<1>4. n \in Nat /\ n >= 1 /\ n <= Len(v) /\ v[1] \in Letters
  BY <1>1, <1>2, Bounds
<1>5. u \in Seq(LegalChars) /\ Len(u) = n /\ u[1] = v[1]
  <2>1. \A i \in 1..n : v[i] \in LegalChars
    BY <1>1, <1>4, ElementOfSeq
  <2> QED
    BY <1>1, <1>4, <2>1, SubSeqProperties
<1>6. \E i \in 1..Len(u) : u[i] \in Letters
  BY <1>4, <1>5
<1>7. n + 1 + DigestLen = MaxLabelLen
  BY Bounds
<1> HIDE DEF u, n
<1>8. /\ Trim(u) \in Seq(LegalChars) /\ Len(Trim(u)) \in Nat /\ Len(Trim(u)) <= n
      /\ Len(Trim(u)) > 0 /\ Trim(u)[1] \in Letters
  BY <1>5, <1>6, Trimmed
<1>9. Len(Trim(u)) + 1 + DigestLen <= MaxLabelLen
  BY <1>4, <1>7, <1>8, Bounds
<1> QED
  BY <1>3, <1>8, <1>9

Digests == [1..DigestLen -> Letters]

(* What a cut label looks like. *)
LEMMA CutLabel ==
  ASSUME NEW S, NEW s \in Seq(S), IsCut(s), Digest(s) \in Digests
  PROVE  /\ SanitizeLabel(s) \in Seq(LegalChars)
         /\ Len(SanitizeLabel(s)) = Len(Readable(s)) + 1 + DigestLen
         /\ SanitizeLabel(s)[1] = Readable(s)[1]
         /\ \A i \in 1..DigestLen :
              SanitizeLabel(s)[Len(Readable(s)) + 1 + i] = Digest(s)[i]
<1> DEFINE r == Readable(s)
           d == Digest(s)
           m == r \o <<"-">>
<1>1. SanitizeLabel(s) = m \o d
  BY DEF SanitizeLabel
<1>2. r \in Seq(LegalChars) /\ Len(r) \in Nat \ {0}
  BY Cut
<1>3. d \in Seq(LegalChars) /\ Len(d) = DigestLen
  <2>1. d \in [1..DigestLen -> LegalChars]
    BY DEF Digests, LegalChars
  <2> HIDE DEF d
  <2> QED
    BY <2>1, Bounds, SeqDef, LenProperties
<1> HIDE DEF r, d
<1>4. <<"-">> \in Seq(LegalChars) /\ Len(<<"-">>) = 1
  <2>1. "-" \in LegalChars
    BY DEF LegalChars
  <2> QED
    BY <2>1
<1>5. m \in Seq(LegalChars) /\ Len(m) = Len(r) + 1 /\ m[1] = r[1]
  <2>1. /\ m \in Seq(LegalChars) /\ Len(m) = Len(r) + Len(<<"-">>)
        /\ \A i \in 1..Len(r) + Len(<<"-">>) :
             m[i] = IF i <= Len(r) THEN r[i] ELSE <<"-">>[i - Len(r)]
    BY <1>2, <1>4, ConcatProperties
  <2> QED
    BY <1>2, <1>4, <2>1
<1> HIDE DEF m
<1>6. /\ m \o d \in Seq(LegalChars) /\ Len(m \o d) = Len(m) + Len(d)
      /\ \A i \in 1..Len(m) + Len(d) :
           (m \o d)[i] = IF i <= Len(m) THEN m[i] ELSE d[i - Len(m)]
  BY <1>3, <1>5, ConcatProperties
<1> DEFINE l == SanitizeLabel(s)
<1>7. /\ l \in Seq(LegalChars) /\ Len(l) = Len(m) + Len(d)
      /\ \A i \in 1..Len(m) + Len(d) : l[i] = IF i <= Len(m) THEN m[i] ELSE d[i - Len(m)]
  BY <1>1, <1>6
<1> HIDE DEF l
<1>8. /\ l \in Seq(LegalChars) /\ Len(l) = Len(r) + 1 + DigestLen /\ l[1] = r[1]
      /\ \A i \in 1..DigestLen : l[Len(r) + 1 + i] = d[i]
  BY <1>2, <1>3, <1>5, <1>7, Bounds
<1> QED
  BY <1>8 DEF l, r, d

(* A label is one the API server accepts, whatever the subject: short      *)
(* enough, of legal characters, and alphanumeric at both ends.             *)
THEOREM LabelsAreAccepted ==
  ASSUME NEW S, NEW s \in Seq(S), Digest(s) \in Digests, NEW l, l = SanitizeLabel(s)
  PROVE  /\ Len(l) <= MaxLabelLen
         /\ \A i \in DOMAIN l : Legal(l[i])
         /\ l # <<>> => Head(l) \in Letters /\ Last(l) \in Letters
<1> SUFFICES /\ l \in Seq(LegalChars) /\ Len(l) <= MaxLabelLen
             /\ Len(l) > 0 => l[1] \in Letters /\ l[Len(l)] \in Letters
  <2>1. ASSUME NEW y \in Seq(LegalChars) PROVE \A i \in DOMAIN y : Legal(y[i])
    BY <2>1, ElementOfSeq, LenProperties DEF Legal, LegalChars
  <2>2. ASSUME NEW y \in Seq(LegalChars), y # <<>>
        PROVE  Len(y) > 0 /\ Head(y) = y[1] /\ Last(y) = y[Len(y)]
    BY <2>2, EmptySeq, LenProperties DEF Last
  <2> QED
    BY <2>1, <2>2
<1>1. CASE IsCut(s)
  <2>1. /\ l \in Seq(LegalChars) /\ Len(l) = Len(Readable(s)) + 1 + DigestLen
        /\ l[1] = Readable(s)[1]
        /\ l[Len(Readable(s)) + 1 + DigestLen] = Digest(s)[DigestLen]
    BY <1>1, CutLabel, Bounds
  <2>2. Digest(s)[DigestLen] \in Letters
    BY Bounds DEF Digests
  <2> QED
    BY <1>1, <2>1, <2>2, Cut
<1>2. CASE ~IsCut(s)
  <2> DEFINE v == Trim(Cleaned(s))
  <2>1. l = v
    BY <1>2 DEF SanitizeLabel
  <2>2. /\ v \in Seq(LegalChars) /\ Len(v) \in Nat
        /\ Len(v) > 0 => v[1] \in Letters /\ v[Len(v)] \in Letters
    BY CleanedType, Trimmed
  <2>3. ~(Len(v) > MaxLabelLen)
    BY <1>2 DEF IsCut
  <2> HIDE DEF v
  <2> QED
    BY <2>1, <2>2, <2>3, Bounds
<1> QED
  BY <1>1, <1>2

(* Digests are sequences of characters. *)
LEMMA SameDigest ==
  ASSUME NEW a \in Digests, NEW b \in Digests, \A i \in 1..DigestLen : a[i] = b[i]
  PROVE  a = b
<1>1. DigestLen \in Nat
  BY Bounds
<1> QED
  BY <1>1 DEF Digests

(* Two labels that were cut are the same only if readable start and digest *)
(* are: the end of a label is the digest, however much of the start was    *)
(* trimmed.                                                                *)
THEOREM CutLabelsAreApart ==
  ASSUME NEW S, NEW s \in Seq(S), NEW t \in Seq(S), IsCut(s), IsCut(t),
         Digest(s) \in Digests, Digest(t) \in Digests,
         SanitizeLabel(s) = SanitizeLabel(t)
  PROVE  Digest(s) = Digest(t)
<1> DEFINE k == Len(Readable(s)) + 1
           l == SanitizeLabel(s)
<1>1. Len(Readable(s)) \in Nat /\ Len(Readable(t)) \in Nat
  BY Cut
<1>2. Len(l) = k + DigestLen /\ Len(l) = Len(Readable(t)) + 1 + DigestLen
  BY CutLabel
<1>3. k \in Nat /\ Len(Readable(t)) + 1 = k
  BY <1>1, <1>2, Bounds
<1>4. \A i \in 1..DigestLen : l[k + i] = Digest(s)[i]
  BY CutLabel
<1>5. \A i \in 1..DigestLen : l[Len(Readable(t)) + 1 + i] = Digest(t)[i]
  BY CutLabel
<1>6. \A i \in 1..DigestLen : Digest(s)[i] = Digest(t)[i]
  BY <1>3, <1>4, <1>5
<1> HIDE DEF k, l
<1> QED
  BY <1>6, SameDigest

-----------------------------------------------------------------------------
(* The properties of the state machine that enumerates subjects.           *)

SubjectType == subject \in Seq(Alphabet) /\ Len(subject) <= MaxSubjectLen

LEMMA SubjectTyped == Spec => []SubjectType
<1>1. MaxSubjectLen \in Nat
  BY SubjectAssumption, Zenon
<1>2. Init => SubjectType
  BY <1>1, EmptySeq DEF Init, SubjectType
<1>3. SubjectType /\ [Next]_subject => SubjectType'
  BY <1>1, AppendProperties, LenProperties DEF SubjectType, Next
<1> QED
  BY <1>2, <1>3, PTL DEF Spec

LEMMA SubjectsAreSeqs ==
  ASSUME NEW s \in Subjects
  PROVE  s \in Seq(Alphabet) /\ Digest(s) \in Digests
<1>1. Digest(s) \in Digests
  BY DigestAssumption DEF Digests
<1>2. PICK n \in 0..MaxSubjectLen : s \in [1..n -> Alphabet]
  BY DEF Subjects
<1>3. n \in Nat
  BY <1>2
<1> QED
  BY <1>1, <1>2, <1>3, SeqDef

LEMMA SubjectIsOne ==
  ASSUME SubjectType
  PROVE  subject \in Subjects
<1>1. Len(subject) \in 0..MaxSubjectLen /\ subject \in [1..Len(subject) -> Alphabet]
  <2>1. MaxSubjectLen \in Nat
    BY SubjectAssumption, Zenon
  <2>2. /\ Len(subject) \in Nat /\ Len(subject) <= MaxSubjectLen
        /\ subject \in [1..Len(subject) -> Alphabet]
    BY LenProperties, SeqDef DEF SubjectType
  <2> QED
    BY <2>1, <2>2
<1> QED
  BY <1>1 DEF Subjects

(* Nobody but who was asked for is bound.                                  *)
THEOREM OnlyTheSubjectIsBound == Spec => []NobodyElseIsBound
<1>1. SubjectType => NobodyElseIsBound
  BY SubjectIsSpelled DEF SubjectType, NobodyElseIsBound
<1> QED
  BY <1>1, SubjectTyped, PTL

(* The label of a RoleBinding is valid, whatever the digests are.          *)
THEOREM LabelsAreValid == Spec => []LabelIsValid
<1>1. SubjectType => LabelIsValid
  BY SubjectIsOne, SubjectsAreSeqs, LabelsAreAccepted DEF LabelIsValid
<1> QED
  BY <1>1, SubjectTyped, PTL

(* A cut label is shared only by subjects whose digests collide.           *)
THEOREM CutLabelsTellApart == Spec => []CutLabelsDiffer
<1>1. SubjectType => CutLabelsDiffer
  <2> SUFFICES ASSUME SubjectType, IsCut(subject), NEW s \in Subjects, IsCut(s),
                      SanitizeLabel(s) = SanitizeLabel(subject)
               PROVE  Digest(s) = Digest(subject)
    BY DEF CutLabelsDiffer, CutLabels
  <2> QED
    BY SubjectIsOne, SubjectsAreSeqs, CutLabelsAreApart
<1> QED
  BY <1>1, SubjectTyped, PTL

=============================================================================
