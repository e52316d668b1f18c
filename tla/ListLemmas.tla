----------------------------- MODULE ListLemmas -----------------------------
(***************************************************************************)
(* What the operators on lists that the models are built from return: the  *)
(* smallest and the largest member of a set of positions, a list without   *)
(* one of its members, a list with a member put in, parts of a list, and   *)
(* lists without duplicates.                                               *)
(***************************************************************************)
EXTENDS Integers, Sequences, FiniteSets, SequencesExt, FiniteSetsExt, Functions, Lists,
        FiniteSetTheorems, SequenceTheorems, WellFoundedInduction, TLAPS

-----------------------------------------------------------------------------
(* Minima and maxima *)

(* A non-empty set of naturals has the minimum that Min names. *)
LEMMA MinOfNat ==
    ASSUME NEW S, S \subseteq Nat, S # {}
    PROVE  Min(S) \in S /\ \A y \in S : Min(S) <= y
<1> DEFINE R == {ss \in Nat \X Nat : ss[1] < ss[2]}
<1>1. IsWellFoundedOn(R, Nat)
  BY NatLessThanWellFounded DEF OpToRel
<1> HIDE DEF R
<1>2. PICK x \in S : \A y \in S : ~ (<<y, x>> \in R)
  BY <1>1, WFMin
<1>3. \A y \in S : x <= y
  <2> SUFFICES ASSUME NEW y \in S, y < x
               PROVE  FALSE
    OBVIOUS
  <2>1. <<y, x>> \in R
    BY DEF R
  <2> QED
    BY <1>2, <2>1
<1>4. QED
  BY <1>3 DEF Min

(* A non-empty set of positions of a sequence of length n has a maximum. *)
LEMMA MaxOfInterval ==
    ASSUME NEW n \in Nat, NEW S, S \subseteq 1 .. n, S # {}
    PROVE  Max(S) \in S /\ \A y \in S : Max(S) >= y
<1> DEFINE T == {n - y : y \in S}
<1>1. T \subseteq Nat /\ T # {}
  <2>1. T \subseteq Nat
    OBVIOUS
  <2>2. PICK y \in S : TRUE
    OBVIOUS
  <2>3. n - y \in T
    OBVIOUS
  <2> QED
    BY <2>1, <2>3
<1>2. Min(T) \in T /\ \A y \in T : Min(T) <= y
  BY <1>1, MinOfNat
<1>3. PICK x \in S : Min(T) = n - x
  BY <1>2
<1>4. \A y \in S : x >= y
  <2> TAKE y \in S
  <2>1. n - x <= n - y
    BY <1>2, <1>3
  <2> QED
    BY <2>1
<1>5. QED
  BY <1>4 DEF Max

(* The remainder and the quotient of a division. *)
LEMMA Remainder ==
    ASSUME NEW a \in Int, NEW d \in Int, d > 0
    PROVE  /\ a % d \in 0 .. d-1
           /\ a \div d \in Int
           /\ d * (a \div d) = a - (a % d)
           /\ (a \div d) * d = a - (a % d)
<1> DEFINE q == a \div d
           r == a % d
           p == d * q
<1>1. r \in 0 .. d-1 /\ q \in Int
  OBVIOUS
<1>2. a - p = r
  OBVIOUS
<1> HIDE DEF q, r
<1>3. p \in Int /\ p = q * d
  BY <1>1
<1> HIDE DEF p
<1>4. p = a - r
  BY <1>1, <1>2, <1>3
<1>5. d * q = a - r /\ q * d = a - r
  BY <1>3, <1>4, Zenon DEF p
<1>6. QED
  BY <1>1, <1>5, Zenon DEF q, r

(* A number written as a multiple of d and a rest below d has that rest as *)
(* its remainder.                                                          *)
LEMMA RemainderUnique ==
    ASSUME NEW d \in Nat \ {0}, NEW q \in Int, NEW r \in 0 .. d-1
    PROVE  (d * q + r) % d = r
<1> DEFINE a == d * q + r
           p == a \div d
           e == p - q
<1>1. a \in Int /\ d \in Int /\ d > 0
  OBVIOUS
<1>2. a % d \in 0 .. d-1 /\ p \in Int /\ d * p = a - (a % d)
  BY <1>1, Remainder
<1>3. d * e = r - (a % d)
  <2>1. d * e = d * p - d * q
    BY <1>2
  <2> QED
    BY <1>2, <2>1
<1>4. e \in Int
  BY <1>2
<1> HIDE DEF e
<1>5. e = 0
  <2>1. ~(e >= 1)
    <3> SUFFICES ASSUME e >= 1 PROVE FALSE
      OBVIOUS
    <3>1. d * e >= d
      BY <1>4
    <3> QED
      BY <1>2, <1>3, <3>1
  <2>2. ~(e <= -1)
    <3> SUFFICES ASSUME e <= -1 PROVE FALSE
      OBVIOUS
    <3>1. d * e <= -d
      BY <1>4
    <3> QED
      BY <1>2, <1>3, <3>1
  <2> QED
    BY <1>4, <2>1, <2>2
<1>6. d * e = 0
  BY <1>5
<1>7. QED
  BY <1>2, <1>3, <1>6

-----------------------------------------------------------------------------
(* Lists *)

(* RemoveAt(s, i): what was behind position i moves up by one. *)
LEMMA RemoveAtSeq ==
    ASSUME NEW S, NEW s \in Seq(S), NEW i \in 1 .. Len(s)
    PROVE  /\ RemoveAt(s, i) \in Seq(S)
           /\ Len(RemoveAt(s, i)) = Len(s) - 1
           /\ \A j \in 1 .. Len(s) - 1 :
                 RemoveAt(s, i)[j] = IF j < i THEN s[j] ELSE s[j+1]
<1> DEFINE front == SubSeq(s, 1, i-1)
           back  == SubSeq(s, i+1, Len(s))
<1>1. Len(s) \in Nat
  BY LenProperties
<1>2. /\ front \in Seq(S) /\ Len(front) = i - 1
      /\ \A j \in 1 .. i-1 : front[j] = s[j]
  <2>1. \A j \in 1 .. i-1 : s[j] \in S
    BY ElementOfSeq
  <2> QED
    BY <2>1, SubSeqProperties
<1>3. /\ back \in Seq(S) /\ Len(back) = Len(s) - i
      /\ \A j \in 1 .. Len(s) - i : back[j] = s[j+i]
  <2>1. \A j \in i+1 .. Len(s) : s[j] \in S
    BY ElementOfSeq
  <2> QED
    BY <1>1, <2>1, SubSeqProperties
<1>4. RemoveAt(s, i) = front \o back
  BY DEF RemoveAt
<1> HIDE DEF front, back
<1>5. /\ front \o back \in Seq(S) /\ Len(front \o back) = Len(front) + Len(back)
      /\ \A j \in 1 .. Len(front) + Len(back) :
            (front \o back)[j] = IF j <= Len(front) THEN front[j] ELSE back[j - Len(front)]
  BY <1>2, <1>3, ConcatProperties
<1>6. Len(RemoveAt(s, i)) = (i - 1) + (Len(s) - i)
  BY <1>2, <1>3, <1>4, <1>5, Zenon
<1>7. ASSUME NEW j \in 1 .. Len(s) - 1
      PROVE  RemoveAt(s, i)[j] = IF j < i THEN s[j] ELSE s[j+1]
  <2>1. RemoveAt(s, i)[j] = IF j <= i - 1 THEN front[j] ELSE back[j - (i - 1)]
    BY <1>1, <1>2, <1>3, <1>4, <1>5
  <2>2. CASE j < i
    BY <1>2, <2>1, <2>2
  <2>3. CASE j >= i
    <3>1. j - (i - 1) \in 1 .. Len(s) - i
      BY <1>1, <2>3
    <3>2. back[j - (i - 1)] = s[j - (i - 1) + i]
      BY <1>3, <3>1
    <3> QED
      BY <1>1, <2>1, <2>3, <3>2
  <2> QED
    BY <1>1, <2>2, <2>3
<1>8. QED
  BY <1>1, <1>4, <1>5, <1>6, <1>7

(* r is s with e put at position i and the rest behind it. *)
PutAt(r, s, i, e, S) ==
    /\ r \in Seq(S) /\ Len(r) = Len(s) + 1
    /\ \A j \in 1 .. Len(s) + 1 : r[j] = IF j < i THEN s[j] ELSE IF j = i THEN e ELSE s[j-1]

(* InsertAt(s, i, e) is that, *)
LEMMA PutAtSeq ==
    ASSUME NEW S, NEW s \in Seq(S), NEW i \in 1 .. Len(s)+1, NEW e \in S
    PROVE  PutAt(InsertAt(s, i, e), s, i, e, S)
<1> DEFINE start == SubSeq(s, 1, i-1)
           front == start \o <<e>>
           back  == SubSeq(s, i, Len(s))
<1>0. Len(s) \in Nat /\ i \in Int
  BY LenProperties
<1>1. /\ start \in Seq(S) /\ Len(start) = i - 1
      /\ \A j \in 1 .. i-1 : start[j] = s[j]
  <2>1. \A j \in 1 .. i-1 : s[j] \in S
    BY ElementOfSeq
  <2> QED
    BY <2>1, SubSeqProperties
<1>2. /\ back \in Seq(S) /\ Len(back) = Len(s) - i + 1
      /\ \A j \in 1 .. Len(s) - i + 1 : back[j] = s[i+j-1]
  <2>1. \A j \in i .. Len(s) : s[j] \in S
    BY ElementOfSeq
  <2> QED
    BY <1>0, <2>1, SubSeqProperties
<1>3. <<e>> \in Seq(S) /\ Len(<<e>>) = 1 /\ <<e>>[1] = e
  OBVIOUS
<1> HIDE DEF start, back
<1>4. /\ front \in Seq(S) /\ Len(front) = i
      /\ \A j \in 1 .. i : front[j] = IF j < i THEN s[j] ELSE e
  <2>1. /\ front \in Seq(S) /\ Len(front) = Len(start) + 1
        /\ \A j \in 1 .. Len(start) + 1 :
              front[j] = IF j <= Len(start) THEN start[j] ELSE <<e>>[j - Len(start)]
    BY <1>1, <1>3, ConcatProperties
  <2> QED
    BY <1>0, <1>1, <1>3, <2>1
<1>5. InsertAt(s, i, e) = front \o back
  BY DEF InsertAt, start, back
<1> HIDE DEF front
<1>6. /\ front \o back \in Seq(S) /\ Len(front \o back) = Len(front) + Len(back)
      /\ \A j \in 1 .. Len(front) + Len(back) :
            (front \o back)[j] = IF j <= Len(front) THEN front[j] ELSE back[j - Len(front)]
  BY <1>2, <1>4, ConcatProperties
<1>7. Len(InsertAt(s, i, e)) = i + (Len(s) - i + 1)
  BY <1>2, <1>4, <1>5, <1>6, Zenon
<1>8. ASSUME NEW j \in 1 .. Len(s) + 1
      PROVE  InsertAt(s, i, e)[j] = IF j < i THEN s[j] ELSE IF j = i THEN e ELSE s[j-1]
  <2>1. InsertAt(s, i, e)[j] = IF j <= i THEN front[j] ELSE back[j - i]
    BY <1>0, <1>2, <1>4, <1>5, <1>6
  <2>2. CASE j <= i
    BY <1>0, <1>4, <2>1, <2>2
  <2>3. CASE j > i
    <3>1. j - i \in 1 .. Len(s) - i + 1
      BY <1>0, <2>3
    <3>2. back[j - i] = s[i + (j - i) - 1]
      BY <1>2, <3>1
    <3> QED
      BY <1>0, <2>1, <2>3, <3>2
  <2> QED
    BY <1>0, <2>2, <2>3
<1>9. QED
  BY <1>0, <1>5, <1>6, <1>7, <1>8 DEF PutAt

(* and this in full. *)
LEMMA InsertAtSeq ==
    ASSUME NEW S, NEW s \in Seq(S), NEW i \in 1 .. Len(s)+1, NEW e \in S
    PROVE  /\ InsertAt(s, i, e) \in Seq(S)
           /\ Len(InsertAt(s, i, e)) = Len(s) + 1
           /\ \A j \in 1 .. Len(s) + 1 :
                 InsertAt(s, i, e)[j] = IF j < i THEN s[j] ELSE IF j = i THEN e ELSE s[j-1]
<1>1. PutAt(InsertAt(s, i, e), s, i, e, S)
  BY PutAtSeq
<1>2. QED
  BY ONLY <1>1, Zenon DEF PutAt

(* The members of a list are those at its positions. *)
LEMMA MembersOfSeq ==
    ASSUME NEW S, NEW s \in Seq(S), NEW x
    PROVE  x \in Range(s) <=> \E j \in 1 .. Len(s) : s[j] = x
<1>1. DOMAIN s = 1 .. Len(s)
  BY LenProperties
<1>2. Range(s) = {s[j] : j \in 1 .. Len(s)}
  BY <1>1, Zenon DEF Range
<1>3. QED
  BY <1>2

(* A list without duplicates has none after a member was taken out, and    *)
(* has lost just that member.                                              *)
LEMMA RemoveAtInjective ==
    ASSUME NEW S, NEW s \in Seq(S), IsInjective(s), NEW i \in 1 .. Len(s)
    PROVE  /\ IsInjective(RemoveAt(s, i))
           /\ Range(RemoveAt(s, i)) = Range(s) \ {s[i]}
<1> DEFINE t == RemoveAt(s, i)
<1>1. /\ t \in Seq(S) /\ Len(t) = Len(s) - 1 /\ Len(s) \in Nat
      /\ DOMAIN t = 1 .. Len(s) - 1 /\ DOMAIN s = 1 .. Len(s)
      /\ \A j \in 1 .. Len(s) - 1 : t[j] = IF j < i THEN s[j] ELSE s[j+1]
  BY RemoveAtSeq, LenProperties
<1> HIDE DEF t
<1>2. \A a, b \in 1 .. Len(s) : s[a] = s[b] => a = b
  BY <1>1 DEF IsInjective
<1>3. IsInjective(t)
  <2> SUFFICES ASSUME NEW a \in 1 .. Len(s) - 1, NEW b \in 1 .. Len(s) - 1, t[a] = t[b]
               PROVE  a = b
    BY <1>1 DEF IsInjective
  <2> QED
    BY <1>1, <1>2
<1>4. ASSUME NEW x
      PROVE  x \in Range(t) <=> x \in Range(s) /\ x # s[i]
  <2>1. ASSUME NEW j \in 1 .. Len(s) - 1, t[j] = x
        PROVE  x # s[i] /\ \E m \in 1 .. Len(s) : s[m] = x
    BY <1>1, <1>2, <2>1
  <2>2. ASSUME NEW m \in 1 .. Len(s), s[m] = x, x # s[i]
        PROVE  \E j \in 1 .. Len(s) - 1 : t[j] = x
    <3>1. CASE m < i
      <4>1. m \in 1 .. Len(s) - 1 /\ t[m] = x
        BY <1>1, <2>2, <3>1
      <4> QED
        BY <4>1
    <3>2. CASE m > i
      <4>1. m - 1 \in 1 .. Len(s) - 1 /\ t[m - 1] = x
        BY <1>1, <2>2, <3>2
      <4> QED
        BY <4>1
    <3> QED
      BY <2>2, <3>1, <3>2
  <2>8. x \in Range(s) <=> \E j \in 1 .. Len(s) : s[j] = x
    BY MembersOfSeq
  <2>9. x \in Range(t) <=> \E j \in 1 .. Len(t) : t[j] = x
    BY <1>1, MembersOfSeq
  <2> QED
    BY <1>1, <2>1, <2>2, <2>8, <2>9
<1>5. QED
  BY <1>3, <1>4 DEF t

(* A list without duplicates has none after a new member was put in. *)
LEMMA InsertAtInjective ==
    ASSUME NEW S, NEW s \in Seq(S), IsInjective(s), NEW i \in 1 .. Len(s)+1,
           NEW e \in S, e \notin Range(s)
    PROVE  /\ IsInjective(InsertAt(s, i, e))
           /\ Range(InsertAt(s, i, e)) = Range(s) \cup {e}
<1> DEFINE t == InsertAt(s, i, e)
<1>1. /\ t \in Seq(S) /\ Len(t) = Len(s) + 1 /\ Len(s) \in Nat
      /\ DOMAIN t = 1 .. Len(s) + 1 /\ DOMAIN s = 1 .. Len(s)
      /\ \A j \in 1 .. Len(s) + 1 :
            t[j] = IF j < i THEN s[j] ELSE IF j = i THEN e ELSE s[j-1]
  BY InsertAtSeq, LenProperties
<1> HIDE DEF t
<1>2. \A a, b \in 1 .. Len(s) : s[a] = s[b] => a = b
  BY <1>1 DEF IsInjective
<1>3. \A a \in 1 .. Len(s) : s[a] # e
  <2>1. \A x : x \in Range(s) <=> \E j \in 1 .. Len(s) : s[j] = x
    BY MembersOfSeq
  <2> QED
    BY <2>1
<1>4. IsInjective(t)
  <2> SUFFICES ASSUME NEW a \in 1 .. Len(s) + 1, NEW b \in 1 .. Len(s) + 1, t[a] = t[b]
               PROVE  a = b
    BY <1>1 DEF IsInjective
  <2> DEFINE pos(x) == IF x < i THEN x ELSE x - 1
  <2>1. \A x \in 1 .. Len(s) + 1 : x # i => pos(x) \in 1 .. Len(s) /\ t[x] = s[pos(x)]
    BY <1>1
  <2>2. t[i] = e
    BY <1>1
  <2>3. CASE a = i \/ b = i
    BY <1>3, <2>1, <2>2, <2>3
  <2>4. CASE a # i /\ b # i
    <3>1. pos(a) = pos(b)
      <4> HIDE DEF pos
      <4> QED
        BY <1>2, <2>1, <2>4
    <3> QED
      BY <2>4, <3>1
  <2> QED
    BY <2>3, <2>4
<1>5. ASSUME NEW x
      PROVE  x \in Range(t) <=> x \in Range(s) \/ x = e
  <2>1. ASSUME NEW j \in 1 .. Len(s) + 1, t[j] = x
        PROVE  x = e \/ \E m \in 1 .. Len(s) : s[m] = x
    BY <1>1, <2>1
  <2>2. ASSUME NEW m \in 1 .. Len(s), s[m] = x
        PROVE  \E j \in 1 .. Len(s) + 1 : t[j] = x
    <3>1. CASE m < i
      <4>1. m \in 1 .. Len(s) + 1 /\ t[m] = x
        BY <1>1, <2>2, <3>1
      <4> QED
        BY <4>1
    <3>2. CASE m >= i
      <4>1. m + 1 \in 1 .. Len(s) + 1 /\ t[m + 1] = x
        BY <1>1, <2>2, <3>2
      <4> QED
        BY <4>1
    <3> QED
      BY <3>1, <3>2
  <2>3. i \in 1 .. Len(s) + 1 /\ t[i] = e
    BY <1>1
  <2>8. x \in Range(s) <=> \E j \in 1 .. Len(s) : s[j] = x
    BY MembersOfSeq
  <2>9. x \in Range(t) <=> \E j \in 1 .. Len(t) : t[j] = x
    BY <1>1, MembersOfSeq
  <2> QED
    BY <1>1, <2>1, <2>2, <2>3, <2>8, <2>9
<1>6. QED
  BY <1>4, <1>5 DEF t

(* The tail of a list without duplicates has lost just the head. *)
LEMMA TailInjective ==
    ASSUME NEW S, NEW s \in Seq(S), s # <<>>, IsInjective(s)
    PROVE  IsInjective(Tail(s)) /\ Range(Tail(s)) = Range(s) \ {Head(s)}
<1> DEFINE t == Tail(s)
<1>1. /\ t \in Seq(S) /\ Len(t) = Len(s) - 1 /\ Len(s) \in Nat \ {0}
      /\ DOMAIN t = 1 .. Len(s) - 1 /\ DOMAIN s = 1 .. Len(s)
      /\ \A j \in 1 .. Len(s) - 1 : t[j] = s[j+1]
      /\ Head(s) = s[1]
  BY HeadTailProperties, LenProperties, EmptySeq
<1> HIDE DEF t
<1>2. \A a, b \in 1 .. Len(s) : s[a] = s[b] => a = b
  BY <1>1 DEF IsInjective
<1>3. IsInjective(t)
  BY <1>1, <1>2 DEF IsInjective
<1>4. ASSUME NEW x
      PROVE  x \in Range(t) <=> x \in Range(s) /\ x # Head(s)
  <2>1. ASSUME NEW j \in 1 .. Len(s) - 1, t[j] = x
        PROVE  x # s[1] /\ \E m \in 1 .. Len(s) : s[m] = x
    BY <1>1, <1>2, <2>1
  <2>2. ASSUME NEW m \in 1 .. Len(s), s[m] = x, x # s[1]
        PROVE  \E j \in 1 .. Len(s) - 1 : t[j] = x
    <3>1. m - 1 \in 1 .. Len(s) - 1 /\ t[m - 1] = x
      BY <1>1, <2>2
    <3> QED
      BY <3>1
  <2>8. x \in Range(s) <=> \E j \in 1 .. Len(s) : s[j] = x
    BY MembersOfSeq
  <2>9. x \in Range(t) <=> \E j \in 1 .. Len(t) : t[j] = x
    BY <1>1, MembersOfSeq
  <2> QED
    BY <1>1, <2>1, <2>2, <2>8, <2>9
<1>5. QED
  BY <1>3, <1>4 DEF t

(* A list without duplicates has none after a new member was appended. *)
LEMMA AppendNewInjective ==
    ASSUME NEW S, NEW s \in Seq(S), IsInjective(s), NEW e \in S, e \notin Range(s)
    PROVE  IsInjective(Append(s, e)) /\ Range(Append(s, e)) = Range(s) \cup {e}
<1> DEFINE t == Append(s, e)
<1>1. /\ t \in Seq(S) /\ Len(t) = Len(s) + 1 /\ Len(s) \in Nat
      /\ DOMAIN t = 1 .. Len(s) + 1 /\ DOMAIN s = 1 .. Len(s)
      /\ \A j \in 1 .. Len(s) : t[j] = s[j]
      /\ t[Len(s) + 1] = e
  BY LenProperties, AppendProperties
<1> HIDE DEF t
<1>2. \A a, b \in 1 .. Len(s) : s[a] = s[b] => a = b
  BY <1>1 DEF IsInjective
<1>3. \A a \in 1 .. Len(s) : s[a] # e
  <2>1. \A x : x \in Range(s) <=> \E j \in 1 .. Len(s) : s[j] = x
    BY MembersOfSeq
  <2> QED
    BY <2>1
<1>4. IsInjective(t)
  <2> SUFFICES ASSUME NEW a \in 1 .. Len(s) + 1, NEW b \in 1 .. Len(s) + 1, t[a] = t[b]
               PROVE  a = b
    BY <1>1 DEF IsInjective
  <2> QED
    BY <1>1, <1>2, <1>3
<1>5. ASSUME NEW x
      PROVE  x \in Range(t) <=> x \in Range(s) \/ x = e
  <2>1. \A j \in 1 .. Len(s) + 1 : t[j] = IF j = Len(s) + 1 THEN e ELSE s[j]
    BY <1>1
  <2>8. x \in Range(s) <=> \E j \in 1 .. Len(s) : s[j] = x
    BY MembersOfSeq
  <2>9. x \in Range(t) <=> \E j \in 1 .. Len(t) : t[j] = x
    BY <1>1, MembersOfSeq
  <2> QED
    BY <1>1, <2>1, <2>8, <2>9
<1>6. QED
  BY <1>4, <1>5 DEF t

-----------------------------------------------------------------------------
(* Lists by position *)

(* Ascending(S) goes through all of a finite set of numbers, once. *)
LEMMA AscendingSeq ==
    ASSUME NEW S, S \subseteq Nat, IsFiniteSet(S)
    PROVE  /\ Ascending(S) \in Seq(S) /\ DOMAIN Ascending(S) = 1 .. Cardinality(S)
           /\ IsInjective(Ascending(S))
           /\ \A x \in S : \E k \in DOMAIN Ascending(S) : Ascending(S)[k] = x
<1> DEFINE n == Cardinality(S)
           Below(x) == {y \in S : y < x}
           rank == [x \in S |-> Cardinality(Below(x)) + 1]
<1>0. \A x \in S : x \in Int
  OBVIOUS
<1>1. n \in Nat
  BY FS_CardinalityType
<1>2. \A x \in S : /\ IsFiniteSet(Below(x))
                   /\ Cardinality(Below(x)) \in Nat /\ Cardinality(Below(x)) < n
  <2> TAKE x \in S
  <2>1. /\ IsFiniteSet(Below(x)) /\ Cardinality(Below(x)) <= n
        /\ n = Cardinality(Below(x)) => S = Below(x)
    BY FS_Subset
  <2>2. S # Below(x)
    OBVIOUS
  <2> QED
    BY <1>1, <2>1, <2>2, FS_CardinalityType
<1>3. ASSUME NEW x \in S, NEW y \in S, x < y
      PROVE  rank[x] < rank[y]
  <2>1. Below(x) \subseteq Below(y) /\ x \in Below(y) /\ x \notin Below(x)
    <3>1. x \in Int /\ y \in Int
      BY <1>0
    <3>2. ASSUME NEW z \in S, z < x
          PROVE  z < y
      <4>1. z \in Int
        BY <1>0
      <4> QED
        BY <1>3, <3>1, <3>2, <4>1
    <3>3. ~(x < x)
      BY <3>1
    <3> QED
      BY <1>3, <3>2, <3>3, Zenon
  <2>2. /\ Cardinality(Below(x)) <= Cardinality(Below(y))
        /\ Cardinality(Below(y)) = Cardinality(Below(x)) => Below(y) = Below(x)
    BY <1>2, <2>1, FS_Subset
  <2> HIDE DEF Below
  <2>3. Cardinality(Below(x)) < Cardinality(Below(y))
    BY <1>2, <2>1, <2>2
  <2> QED
    BY <1>2, <2>3
<1>4. rank \in [S -> 1 .. n]
  BY <1>1, <1>2
<1> HIDE DEF rank
<1>5. rank \in Injection(S, 1 .. n)
  <2>1. ASSUME NEW x \in S, NEW y \in S, rank[x] = rank[y]
        PROVE  x = y
    BY <1>3, <1>4, <2>1
  <2> QED
    BY <1>4, <2>1 DEF Injection, IsInjective
<1>6. IsFiniteSet(1 .. n) /\ Cardinality(1 .. n) = n
  BY <1>1, FS_Interval
<1>7. rank \in Surjection(S, 1 .. n)
  BY <1>5, <1>6, FS_Injection
<1> DEFINE s == [k \in 1 .. n |-> CHOOSE x \in S : rank[x] = k]
<1>8. ASSUME NEW k \in 1 .. n
      PROVE  s[k] \in S /\ rank[s[k]] = k
  BY <1>7 DEF Surjection
<1>9. s \in [1 .. n -> S] /\ \A i, j \in DOMAIN s : i < j => s[i] < s[j]
  <2>1. s \in [1 .. n -> S]
    BY <1>8
  <2>2. ASSUME NEW i \in 1 .. n, NEW j \in 1 .. n, i < j, ~(s[i] < s[j])
        PROVE  FALSE
    <3> HIDE DEF s
    <3>1. s[i] \in S /\ s[j] \in S /\ rank[s[i]] = i /\ rank[s[j]] = j
      BY <1>8
    <3>2. s[i] \in Int /\ s[j] \in Int
      BY <1>0, <3>1
    <3>3. s[i] = s[j] \/ s[j] < s[i]
      BY <2>2, <3>2
    <3>4. CASE s[j] < s[i]
      <4>1. rank[s[j]] < rank[s[i]]
        BY <1>3, <3>1, <3>4
      <4> QED
        BY <1>1, <2>2, <3>1, <4>1
    <3> QED
      BY <1>1, <2>2, <3>1, <3>3, <3>4
  <2> QED
    BY <2>1, <2>2
<1> HIDE DEF s
<1> DEFINE a == Ascending(S)
<1>10. a \in [1 .. n -> S] /\ \A i, j \in DOMAIN a : i < j => a[i] < a[j]
  BY <1>9 DEF Ascending
<1> HIDE DEF a
<1>11. a \in Injection(1 .. n, S)
  <2>1. ASSUME NEW i \in 1 .. n, NEW j \in 1 .. n, a[i] = a[j]
        PROVE  i = j
    <3>1. a[i] \in Nat
      BY <1>10
    <3> QED
      BY <1>1, <1>10, <2>1, <3>1
  <2> QED
    BY <1>10, <2>1 DEF Injection, IsInjective
<1>12. a \in Surjection(1 .. n, S)
  BY <1>6, <1>11, FS_Injection
<1>13. a \in Seq(S)
  BY <1>1, <1>10
<1>14. QED
  BY <1>10, <1>11, <1>12, <1>13 DEF a, Surjection, Injection

(* A list without some members keeps the others, each once. *)
LEMMA WithoutSeq ==
    ASSUME NEW A, NEW s \in Seq(A), IsInjective(s), NEW S
    PROVE  /\ Without(s, S) \in Seq(A) /\ Len(Without(s, S)) <= Len(s)
           /\ IsInjective(Without(s, S))
           /\ Range(Without(s, S)) = Range(s) \ S
<1> DEFINE P == {i \in DOMAIN s : s[i] \notin S}
           kept == Ascending(P)
           t == Without(s, S)
<1>1. Len(s) \in Nat /\ DOMAIN s = 1 .. Len(s) /\ \A i \in 1 .. Len(s) : s[i] \in A
  BY LenProperties, ElementOfSeq
<1>2. /\ P \subseteq Nat /\ IsFiniteSet(P)
      /\ Cardinality(P) \in Nat /\ Cardinality(P) <= Len(s)
  <2>1. IsFiniteSet(1 .. Len(s)) /\ Cardinality(1 .. Len(s)) = Len(s)
    <3> DEFINE m == Len(s)
    <3>1. m \in Nat
      BY <1>1
    <3> HIDE DEF m
    <3>2. IsFiniteSet(1 .. m) /\ Cardinality(1 .. m) = m
      BY <3>1, FS_Interval
    <3> QED
      BY <3>2 DEF m
  <2>2. P \in SUBSET (1 .. Len(s))
    BY <1>1
  <2> HIDE DEF P
  <2>3. IsFiniteSet(P) /\ Cardinality(P) <= Len(s)
    BY <2>1, <2>2, FS_Subset
  <2>4. Cardinality(P) \in Nat
    BY <2>3, FS_CardinalityType
  <2>5. P \subseteq Nat
    BY <1>1, <2>2
  <2> QED
    BY <2>3, <2>4, <2>5
<1>3. \A i \in P : i \in DOMAIN s /\ s[i] \notin S
  OBVIOUS
<1>4. \A i \in DOMAIN s : s[i] \notin S => i \in P
  OBVIOUS
<1>5. t = [k \in DOMAIN kept |-> s[kept[k]]]
  BY Zenon DEF Without
<1> HIDE DEF P, t
<1>6. /\ kept \in Seq(P) /\ DOMAIN kept = 1 .. Cardinality(P) /\ IsInjective(kept)
      /\ \A x \in P : \E k \in DOMAIN kept : kept[k] = x
  BY <1>2, AscendingSeq
<1> HIDE DEF kept
<1> DEFINE n == Cardinality(P)
<1>7. \A k \in 1 .. n : kept[k] \in P
  BY <1>6, ElementOfSeq, LenProperties
<1>8. DOMAIN t = 1 .. n /\ \A k \in 1 .. n : t[k] = s[kept[k]]
  BY <1>5, <1>6
<1>9. \A k \in 1 .. n : t[k] \in A /\ t[k] \notin S
  BY <1>1, <1>3, <1>7, <1>8
<1>10. t = [k \in 1 .. n |-> t[k]]
  BY <1>5, <1>6
<1>11. t \in Seq(A) /\ Len(t) = n
  <2>1. n \in Nat
    BY <1>2
  <2> HIDE DEF n
  <2>2. t \in [1 .. n -> A]
    BY <1>9, <1>10
  <2>3. t \in Seq(A)
    BY <2>1, <2>2
  <2> QED
    BY <1>8, <2>1, <2>3, LenProperties
<1>12. IsInjective(t)
  BY <1>3, <1>6, <1>7, <1>8 DEF IsInjective
<1>13. ASSUME NEW x
       PROVE  x \in Range(t) <=> x \in Range(s) /\ x \notin S
  <2>1. ASSUME NEW k \in 1 .. n, t[k] = x
        PROVE  x \notin S /\ \E j \in 1 .. Len(s) : s[j] = x
    BY <1>1, <1>3, <1>7, <1>8, <2>1
  <2>2. ASSUME NEW j \in 1 .. Len(s), s[j] = x, x \notin S
        PROVE  \E k \in 1 .. n : t[k] = x
    <3>1. j \in P
      BY <1>1, <1>4, <2>2
    <3>2. PICK k \in 1 .. n : kept[k] = j
      BY <1>6, <3>1
    <3> QED
      BY <1>8, <2>2, <3>2
  <2>3. x \in Range(s) <=> \E j \in 1 .. Len(s) : s[j] = x
    BY MembersOfSeq
  <2>4. x \in Range(t) <=> \E j \in 1 .. Len(t) : t[j] = x
    BY <1>11, MembersOfSeq
  <2> QED
    BY <1>11, <2>1, <2>2, <2>3, <2>4
<1>14. QED
  BY <1>2, <1>11, <1>12, <1>13 DEF t

-----------------------------------------------------------------------------
(* Parts of lists *)

(* The smaller of two numbers is one of them and no more than either. *)
LEMMA MinOfTwo ==
    ASSUME NEW a \in Int, NEW b \in Int
    PROVE  /\ Min({a, b}) \in {a, b} /\ Min({a, b}) \in Int
           /\ Min({a, b}) <= a /\ Min({a, b}) <= b
<1>1. \E x \in {a, b} : \A y \in {a, b} : x <= y
  <2>1. CASE a <= b
    BY <2>1
  <2>2. CASE ~(a <= b)
    BY <2>2
  <2> QED
    BY <2>1, <2>2
<1>2. Min({a, b}) \in {a, b} /\ \A y \in {a, b} : Min({a, b}) <= y
  BY <1>1 DEF Min
<1>3. QED
  BY <1>2

(* A function on an interval of positions is a list. *)
LEMMA FunctionSeq ==
    ASSUME NEW S, NEW n \in Int, NEW s \in [1 .. n -> S]
    PROVE  /\ s \in Seq(S) /\ DOMAIN s = 1 .. n
           /\ s = <<>> <=> n <= 0
<1>1. CASE n > 0
  <2>1. s \in Seq(S) /\ Len(s) = n
    BY <1>1
  <2> QED
    BY <1>1, <2>1
<1>2. CASE ~(n > 0)
  <2>1. 1 .. n = 1 .. 0
    BY <1>2
  <2>2. s \in [1 .. 0 -> S]
    BY <2>1
  <2>3. s \in Seq(S) /\ Len(s) = 0
    BY <2>2
  <2>4. s = <<>>
    BY <2>3, EmptySeq
  <2> QED
    BY <1>2, <2>1, <2>3, <2>4
<1>3. QED
  BY <1>1, <1>2

(* A list without duplicates cut in two: each member is in one of the two. *)
LEMMA SplitInjective ==
    ASSUME NEW S, NEW s \in Seq(S), IsInjective(s), NEW n \in 0 .. Len(s)
    PROVE  /\ SubSeq(s, 1, n) \in Seq(S) /\ SubSeq(s, n + 1, Len(s)) \in Seq(S)
           /\ IsInjective(SubSeq(s, 1, n)) /\ IsInjective(SubSeq(s, n + 1, Len(s)))
           /\ Range(SubSeq(s, 1, n)) \subseteq Range(s)
           /\ Range(SubSeq(s, n + 1, Len(s))) = Range(s) \ Range(SubSeq(s, 1, n))
           /\ SubSeq(s, 1, n) = <<>> <=> n = 0
<1> DEFINE m == Len(s)
           f == SubSeq(s, 1, n)
           g == SubSeq(s, n + 1, Len(s))
<1>1. m \in Nat /\ n \in Int /\ n >= 0 /\ n <= m /\ DOMAIN s = 1 .. m
      /\ \A i \in 1 .. m : s[i] \in S
  BY LenProperties, ElementOfSeq
<1>2. f \in Seq(S) /\ Len(f) = n /\ DOMAIN f = 1 .. n /\ \A i \in 1 .. n : f[i] = s[i]
  <2>1. \A i \in 1 .. n : s[i] \in S
    BY <1>1
  <2>2. f \in Seq(S) /\ Len(f) = n /\ \A i \in 1 .. n : f[i] = s[i]
    <3>1. /\ f \in Seq(S) /\ Len(f) = IF 1 <= n THEN n - 1 + 1 ELSE 0
          /\ \A i \in 1 .. n - 1 + 1 : f[i] = s[1 + i - 1]
      BY <1>1, <2>1, SubSeqProperties
    <3> HIDE DEF f, m
    <3> QED
      BY <1>1, <3>1
  <2> QED
    BY <2>2, LenProperties
<1>3. /\ g \in Seq(S) /\ Len(g) = m - n /\ DOMAIN g = 1 .. m - n
      /\ \A i \in 1 .. m - n : g[i] = s[n + i]
  <2>1. \A i \in n + 1 .. m : s[i] \in S
    BY <1>1
  <2>2. g \in Seq(S) /\ Len(g) = m - n /\ \A i \in 1 .. m - n : g[i] = s[n + i]
    <3>1. /\ g \in Seq(S) /\ Len(g) = IF n + 1 <= m THEN m - (n + 1) + 1 ELSE 0
          /\ \A i \in 1 .. m - (n + 1) + 1 : g[i] = s[(n + 1) + i - 1]
      BY <1>1, <2>1, SubSeqProperties
    <3>2. ASSUME NEW i \in 1 .. m - n
          PROVE  i \in 1 .. m - (n + 1) + 1 /\ (n + 1) + i - 1 = n + i
      BY <1>1
    <3> HIDE DEF g, m
    <3>3. Len(g) = m - n
      BY <1>1, <3>1
    <3> QED
      BY <3>1, <3>2, <3>3
  <2> QED
    BY <2>2, LenProperties
<1>4. f = <<>> <=> n = 0
  BY <1>2, EmptySeq
<1> HIDE DEF f, g
<1>5. \A i, j \in 1 .. m : s[i] = s[j] => i = j
  BY <1>1 DEF IsInjective
<1>6. IsInjective(f) /\ IsInjective(g)
  <2>1. \A i, j \in 1 .. n : f[i] = f[j] => i = j
    BY <1>1, <1>2, <1>5
  <2>2. ASSUME NEW i \in 1 .. m - n, NEW j \in 1 .. m - n, g[i] = g[j] PROVE i = j
    <3>1. n + i \in 1 .. m /\ n + j \in 1 .. m /\ i \in Int /\ j \in Int
      BY <1>1
    <3>2. n + i = n + j
      BY <1>3, <1>5, <2>2, <3>1
    <3> QED
      BY <1>1, <3>1, <3>2
  <2> QED
    BY <1>2, <1>3, <2>1, <2>2 DEF IsInjective
<1>7. ASSUME NEW x PROVE x \in Range(f) <=> \E i \in 1 .. n : s[i] = x
  BY <1>2, MembersOfSeq
<1>8. ASSUME NEW x PROVE x \in Range(g) <=> \E i \in n + 1 .. m : s[i] = x
  <2>1. x \in Range(g) <=> \E i \in 1 .. m - n : g[i] = x
    BY <1>3, MembersOfSeq
  <2>2. ASSUME NEW i \in 1 .. m - n, g[i] = x PROVE \E j \in n + 1 .. m : s[j] = x
    <3>1. n + i \in n + 1 .. m
      BY <1>1
    <3> QED
      BY <1>3, <2>2, <3>1
  <2>3. ASSUME NEW j \in n + 1 .. m, s[j] = x PROVE \E i \in 1 .. m - n : g[i] = x
    <3>1. j - n \in 1 .. m - n /\ n + (j - n) = j
      BY <1>1
    <3> QED
      BY <1>3, <2>3, <3>1
  <2> QED
    BY <2>1, <2>2, <2>3
<1>9. ASSUME NEW x PROVE x \in Range(s) <=> \E i \in 1 .. m : s[i] = x
  BY MembersOfSeq
<1>10. \A i \in Int : i \in 1 .. m <=> (i \in 1 .. n \/ i \in n + 1 .. m)
  BY <1>1
<1>11. \A i \in Int : ~(i \in 1 .. n /\ i \in n + 1 .. m)
  BY <1>1
<1>12. Range(f) \subseteq Range(s) /\ Range(g) = Range(s) \ Range(f)
  <2>1. ASSUME NEW x PROVE x \in Range(f) => x \in Range(s)
    BY <1>7, <1>9, <1>10
  <2>2. ASSUME NEW x PROVE x \in Range(g) => x \in Range(s)
    BY <1>8, <1>9, <1>10
  <2>3. ASSUME NEW x, x \in Range(g), x \in Range(f) PROVE FALSE
    BY <1>5, <1>7, <1>8, <1>10, <1>11, <2>3
  <2>4. ASSUME NEW x, x \in Range(s), x \notin Range(f) PROVE x \in Range(g)
    BY <1>7, <1>8, <1>9, <1>10, <2>4
  <2> QED
    BY <2>1, <2>2, <2>3, <2>4
<1>13. QED
  BY <1>2, <1>3, <1>4, <1>6, <1>12 DEF f, g

(* Two lists without duplicates and without a common member, one behind    *)
(* the other                                                               *)
LEMMA ConcatInjective ==
    ASSUME NEW S, NEW s \in Seq(S), NEW t \in Seq(S), IsInjective(s), IsInjective(t),
           Range(s) \cap Range(t) = {}
    PROVE  IsInjective(s \o t)
<1> DEFINE m == Len(s)
           n == Len(t)
           u == s \o t
<1>1. /\ m \in Nat /\ n \in Nat /\ DOMAIN s = 1 .. m /\ DOMAIN t = 1 .. n
      /\ u \in Seq(S) /\ DOMAIN u = 1 .. m + n
      /\ \A i \in 1 .. m + n : u[i] = IF i <= m THEN s[i] ELSE t[i - m]
  BY LenProperties, ConcatProperties
<1> HIDE DEF u
<1>2. /\ \A i, j \in 1 .. m : s[i] = s[j] => i = j
      /\ \A i, j \in 1 .. n : t[i] = t[j] => i = j
  BY <1>1 DEF IsInjective
<1>3. \A i \in 1 .. m, j \in 1 .. n : s[i] # t[j]
  <2> TAKE i \in 1 .. m, j \in 1 .. n
  <2>1. s[i] \in Range(s) /\ t[j] \in Range(t)
    BY MembersOfSeq
  <2> QED
    BY <2>1
<1> HIDE DEF m, n
<1>4. ASSUME NEW i \in 1 .. m + n, NEW j \in 1 .. m + n, u[i] = u[j] PROVE i = j
  <2>0. i \in Int /\ j \in Int
    OBVIOUS
  <2>1. i <= m => i \in 1 .. m /\ u[i] = s[i]
    BY <1>1
  <2>2. ~(i <= m) => i - m \in 1 .. n /\ u[i] = t[i - m]
    BY <1>1
  <2>3. j <= m => j \in 1 .. m /\ u[j] = s[j]
    BY <1>1
  <2>4. ~(j <= m) => j - m \in 1 .. n /\ u[j] = t[j - m]
    BY <1>1
  <2>5. CASE i <= m /\ j <= m
    BY <1>2, <1>4, <2>1, <2>3, <2>5
  <2>6. CASE ~(i <= m) /\ ~(j <= m)
    <3>1. i - m = j - m
      BY <1>2, <1>4, <2>2, <2>4, <2>6
    <3> QED
      BY <1>1, <2>0, <3>1
  <2>7. CASE i <= m /\ ~(j <= m)
    BY <1>3, <1>4, <2>1, <2>4, <2>7
  <2>8. CASE ~(i <= m) /\ j <= m
    <3>1. u[j] # u[i]
      BY <1>3, <2>2, <2>3, <2>8
    <3> QED
      BY <1>4, <3>1
  <2> QED
    BY <2>5, <2>6, <2>7, <2>8
<1>5. QED
  BY <1>1, <1>4 DEF IsInjective, u
=============================================================================
