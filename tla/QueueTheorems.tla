--------------------------- MODULE QueueTheorems ---------------------------
(***************************************************************************)
(* Facts about the sequences the thread queues are modelled by: what the   *)
(* insertions and removals of the handlers do to the set of linked threads *)
(* (Range), to their being linked once, and to their order.                *)
(***************************************************************************)
EXTENDS Integers, SequencesExt, SequenceTheorems, WellFoundedInduction, TLAPS

\* No element occurs twice.
Distinct(s) == \A i, j \in DOMAIN s : s[i] = s[j] => i = j

\* The elements' ranks never decrease.
Ordered(s, rank) == \A i, j \in DOMAIN s : i <= j => rank[s[i]] <= rank[s[j]]

\* The minimum of a nonempty set of naturals exists: PPC_Cntlzw of a nonzero mask
\* names a run queue that has its bit set, the most urgent one.
LEMMA MinProperties ==
  ASSUME NEW S \in SUBSET Nat, S # {}
  PROVE  Min(S) \in S /\ \A y \in S : Min(S) <= y
<1> DEFINE R == OpToRel(<, Nat)
<1>1. \A x, y \in Nat : y < x => <<y, x>> \in R
  <2> SUFFICES ASSUME NEW x \in Nat, NEW y \in Nat, y < x PROVE <<y, x>> \in R
    OBVIOUS
  <2>1. <<y, x>> \in Nat \X Nat /\ <<y, x>>[1] < <<y, x>>[2]
    OBVIOUS
  <2> QED BY ONLY <2>1, Zenon DEF OpToRel
<1>2. IsWellFoundedOn(R, Nat)
  BY NatLessThanWellFounded
<1> HIDE DEF R
<1>3. PICK x \in S : \A y \in S : <<y, x>> \notin R
  BY <1>2, WFMin
<1>4. ASSUME NEW y \in S PROVE x <= y
  <2>1. x \in Nat /\ y \in Nat /\ ~(y < x)
    BY <1>1, <1>3
  <2> QED BY <2>1
<1> QED
  BY <1>4 DEF Min

\* Appending links one more thread: a run queue's tail insertion.
LEMMA AppendQueue ==
  ASSUME NEW S, NEW s \in Seq(S), NEW e \in S
  PROVE  /\ Append(s, e) \in Seq(S)
         /\ Append(s, e) # <<>>
         /\ Range(Append(s, e)) = Range(s) \cup {e}
         /\ Distinct(s) /\ e \notin Range(s) => Distinct(Append(s, e))
<1> DEFINE a == Append(s, e)
<1>1. /\ a \in Seq(S) /\ a # <<>> /\ Len(a) = Len(s) + 1
      /\ \A i \in 1 .. Len(s) : a[i] = s[i]
      /\ a[Len(s) + 1] = e
  BY AppendProperties
<1>2. /\ Len(s) \in Nat /\ DOMAIN s = 1 .. Len(s) /\ DOMAIN a = 1 .. Len(s) + 1
  BY <1>1, LenProperties
<1> HIDE DEF a
<1>3. Range(a) = Range(s) \cup {e}
  <2>1. Range(a) \subseteq Range(s) \cup {e}
    BY <1>1, <1>2 DEF Range
  <2>2. Range(s) \cup {e} \subseteq Range(a)
    <3>1. ASSUME NEW i \in DOMAIN s PROVE s[i] \in Range(a)
      BY <1>1, <1>2 DEF Range
    <3>2. e \in Range(a)
      BY <1>1, <1>2 DEF Range
    <3> QED BY <3>1, <3>2 DEF Range
  <2> QED BY <2>1, <2>2
<1>4. ASSUME Distinct(s), e \notin Range(s) PROVE Distinct(a)
  <2>1. \A i \in DOMAIN s : s[i] # e
    BY <1>4 DEF Range
  <2> QED BY <2>1, <1>1, <1>2, <1>4 DEF Distinct
<1> QED BY <1>1, <1>3, <1>4 DEF a

\* The tail unlinks the head: SelectThread's pop, OSWakeupThread's dequeue.
LEMMA TailQueue ==
  ASSUME NEW S, NEW s \in Seq(S), s # <<>>, Distinct(s)
  PROVE  /\ Head(s) \in Range(s)
         /\ Head(s) \in S
         /\ Tail(s) \in Seq(S)
         /\ Range(Tail(s)) = Range(s) \ {Head(s)}
         /\ Distinct(Tail(s))
         /\ Len(s) = 1 <=> Tail(s) = <<>>
<1> DEFINE r == Tail(s)
<1>1. /\ Head(s) \in S /\ r \in Seq(S) /\ Len(r) = Len(s) - 1
      /\ \A i \in 1 .. Len(r) : r[i] = s[i + 1]
  BY HeadTailProperties
<1>2. /\ Len(s) \in Nat \ {0} /\ DOMAIN s = 1 .. Len(s) /\ DOMAIN r = 1 .. Len(s) - 1
  BY <1>1, LenProperties, EmptySeq
<1>3. Head(s) = s[1]
  OBVIOUS
<1>4. Len(s) = 1 <=> r = <<>>
  BY <1>1, <1>2, EmptySeq
<1> HIDE DEF r
<1>5. Range(r) = Range(s) \ {Head(s)}
  <2>1. Range(r) \subseteq Range(s) \ {Head(s)}
    <3> SUFFICES ASSUME NEW i \in DOMAIN r PROVE r[i] \in Range(s) /\ r[i] # s[1]
      BY <1>3 DEF Range
    <3>1. i + 1 \in DOMAIN s /\ r[i] = s[i + 1] /\ 1 \in DOMAIN s /\ i + 1 # 1
      BY <1>1, <1>2
    <3> QED BY <3>1 DEF Range, Distinct
  <2>2. Range(s) \ {Head(s)} \subseteq Range(r)
    <3> SUFFICES ASSUME NEW i \in DOMAIN s, s[i] # s[1] PROVE s[i] \in Range(r)
      BY <1>3 DEF Range
    <3>1. i - 1 \in DOMAIN r /\ r[i - 1] = s[i]
      BY <1>1, <1>2
    <3> QED BY <3>1 DEF Range
  <2> QED BY <2>1, <2>2
<1>6. Distinct(r)
  <2> SUFFICES ASSUME NEW i \in DOMAIN r, NEW j \in DOMAIN r, r[i] = r[j] PROVE i = j
    BY DEF Distinct
  <2>1. i + 1 \in DOMAIN s /\ j + 1 \in DOMAIN s /\ s[i + 1] = s[j + 1]
    BY <1>1, <1>2
  <2> QED BY <2>1, <1>2 DEF Distinct
<1>7. Head(s) \in Range(s)
  BY <1>2, <1>3 DEF Range
<1> QED BY <1>1, <1>4, <1>5, <1>6, <1>7 DEF r

\* InsertAt, element by element.
LEMMA InsertAtElements ==
  ASSUME NEW S, NEW s \in Seq(S), NEW e \in S, NEW i \in 1 .. Len(s) + 1
  PROVE  /\ InsertAt(s, i, e) \in Seq(S)
         /\ Len(InsertAt(s, i, e)) = Len(s) + 1
         /\ \A k \in 1 .. Len(s) + 1 :
              InsertAt(s, i, e)[k] = IF k < i THEN s[k] ELSE IF k = i THEN e ELSE s[k - 1]
<1> DEFINE a == SubSeq(s, 1, i - 1)
           b == SubSeq(s, i, Len(s))
           l == a \o <<e>>
<1>1. Len(s) \in Nat /\ \A k \in 1 .. Len(s) : s[k] \in S
  BY LenProperties, ElementOfSeq
<1>2. /\ a \in Seq(S) /\ Len(a) = i - 1
      /\ \A k \in 1 .. i - 1 : a[k] = s[k]
  <2>1. \A k \in 1 .. i - 1 : s[k] \in S
    BY <1>1
  <2>2. /\ SubSeq(s, 1, i - 1) \in Seq(S)
        /\ Len(SubSeq(s, 1, i - 1)) = IF 1 <= i - 1 THEN (i - 1) - 1 + 1 ELSE 0
        /\ \A k \in 1 .. (i - 1) - 1 + 1 : SubSeq(s, 1, i - 1)[k] = s[1 + k - 1]
    BY ONLY <2>1, <1>1, SubSeqProperties, i \in 1 .. Len(s) + 1
  <2> QED BY <2>2, <1>1
<1>3. /\ b \in Seq(S) /\ Len(b) = Len(s) - i + 1
      /\ \A k \in 1 .. Len(s) - i + 1 : b[k] = s[i + k - 1]
  <2>1. \A k \in i .. Len(s) : s[k] \in S
    BY <1>1
  <2>2. /\ SubSeq(s, i, Len(s)) \in Seq(S)
        /\ Len(SubSeq(s, i, Len(s))) = IF i <= Len(s) THEN Len(s) - i + 1 ELSE 0
        /\ \A k \in 1 .. Len(s) - i + 1 : SubSeq(s, i, Len(s))[k] = s[i + k - 1]
    BY ONLY <2>1, <1>1, SubSeqProperties, i \in 1 .. Len(s) + 1
  <2> QED BY <2>2, <1>1
<1> HIDE DEF a, b
<1>4. /\ <<e>> \in Seq(S) /\ Len(<<e>>) = 1 /\ <<e>>[1] = e
  OBVIOUS
<1>5. /\ l \in Seq(S) /\ Len(l) = i
      /\ \A k \in 1 .. i : l[k] = IF k < i THEN s[k] ELSE e
  <2>1. /\ l \in Seq(S) /\ Len(l) = Len(a) + 1
        /\ \A k \in 1 .. Len(a) + 1 : l[k] = IF k <= Len(a) THEN a[k] ELSE <<e>>[k - Len(a)]
    BY <1>2, <1>4, ConcatProperties
  <2> QED BY <2>1, <1>1, <1>2, <1>4
<1> HIDE DEF l
<1>6. /\ l \o b \in Seq(S) /\ Len(l \o b) = Len(l) + Len(b)
      /\ \A k \in 1 .. Len(l) + Len(b) : (l \o b)[k] = IF k <= Len(l) THEN l[k] ELSE b[k - Len(l)]
  BY <1>3, <1>5, ConcatProperties
<1>7. InsertAt(s, i, e) = l \o b
  BY DEF InsertAt, l, a, b
<1>8. Len(l \o b) = Len(s) + 1
  BY <1>1, <1>3, <1>5, <1>6
<1>9. ASSUME NEW k \in 1 .. Len(s) + 1
      PROVE  (l \o b)[k] = IF k < i THEN s[k] ELSE IF k = i THEN e ELSE s[k - 1]
  <2>1. CASE k <= i
    BY <2>1, <1>1, <1>3, <1>5, <1>6
  <2>2. CASE k > i
    <3>1. (l \o b)[k] = b[k - i] /\ k - i \in 1 .. Len(s) - i + 1
      BY <2>2, <1>1, <1>3, <1>5, <1>6
    <3>2. b[k - i] = s[i + (k - i) - 1] /\ i + (k - i) - 1 = k - 1
      BY <3>1, <1>1, <1>3
    <3> QED BY <3>1, <3>2, <2>2
  <2>3. k <= i \/ k > i
    BY <1>1
  <2> QED BY ONLY <2>1, <2>2, <2>3
<1> QED BY <1>6, <1>7, <1>8, <1>9

\* RemoveAt, element by element.
LEMMA RemoveAtElements ==
  ASSUME NEW S, NEW s \in Seq(S), NEW i \in 1 .. Len(s)
  PROVE  /\ RemoveAt(s, i) \in Seq(S)
         /\ Len(RemoveAt(s, i)) = Len(s) - 1
         /\ \A k \in 1 .. Len(s) - 1 : RemoveAt(s, i)[k] = IF k < i THEN s[k] ELSE s[k + 1]
<1> DEFINE a == SubSeq(s, 1, i - 1)
           b == SubSeq(s, i + 1, Len(s))
<1>1. Len(s) \in Nat /\ \A k \in 1 .. Len(s) : s[k] \in S
  BY LenProperties, ElementOfSeq
<1>2. /\ a \in Seq(S) /\ Len(a) = i - 1
      /\ \A k \in 1 .. i - 1 : a[k] = s[k]
  <2>1. \A k \in 1 .. i - 1 : s[k] \in S
    BY <1>1
  <2>2. /\ SubSeq(s, 1, i - 1) \in Seq(S)
        /\ Len(SubSeq(s, 1, i - 1)) = IF 1 <= i - 1 THEN (i - 1) - 1 + 1 ELSE 0
        /\ \A k \in 1 .. (i - 1) - 1 + 1 : SubSeq(s, 1, i - 1)[k] = s[1 + k - 1]
    BY ONLY <2>1, <1>1, SubSeqProperties, i \in 1 .. Len(s)
  <2> QED BY <2>2, <1>1
<1>3. /\ b \in Seq(S) /\ Len(b) = Len(s) - i
      /\ \A k \in 1 .. Len(s) - i : b[k] = s[i + k]
  <2>1. \A k \in i + 1 .. Len(s) : s[k] \in S
    BY <1>1
  <2>2. /\ SubSeq(s, i + 1, Len(s)) \in Seq(S)
        /\ Len(SubSeq(s, i + 1, Len(s))) = IF i + 1 <= Len(s) THEN Len(s) - (i + 1) + 1 ELSE 0
        /\ \A k \in 1 .. Len(s) - (i + 1) + 1 :
             SubSeq(s, i + 1, Len(s))[k] = s[(i + 1) + k - 1]
    BY ONLY <2>1, <1>1, SubSeqProperties, i \in 1 .. Len(s)
  <2> QED BY <2>2, <1>1
<1> HIDE DEF a, b
<1>4. /\ a \o b \in Seq(S) /\ Len(a \o b) = Len(a) + Len(b)
      /\ \A k \in 1 .. Len(a) + Len(b) : (a \o b)[k] = IF k <= Len(a) THEN a[k] ELSE b[k - Len(a)]
  BY <1>2, <1>3, ConcatProperties
<1>5. RemoveAt(s, i) = a \o b
  BY DEF RemoveAt, a, b
<1>6. ASSUME NEW k \in 1 .. Len(s) - 1
      PROVE  (a \o b)[k] = IF k < i THEN s[k] ELSE s[k + 1]
  <2>1. CASE k < i
    BY <2>1, <1>1, <1>2, <1>3, <1>4
  <2>2. CASE k >= i
    <3>1. (a \o b)[k] = b[k - (i - 1)] /\ k - (i - 1) \in 1 .. Len(s) - i
      BY <2>2, <1>1, <1>2, <1>3, <1>4
    <3>2. b[k - (i - 1)] = s[i + (k - (i - 1))] /\ i + (k - (i - 1)) = k + 1
      BY <3>1, <1>1, <1>3
    <3> QED BY <3>1, <3>2, <2>2
  <2>3. k < i \/ k >= i
    BY <1>1
  <2> QED BY ONLY <2>1, <2>2, <2>3
<1> QED BY <1>1, <1>2, <1>3, <1>4, <1>5, <1>6

\* Inserting links exactly one more thread.
LEMMA InsertAtQueue ==
  ASSUME NEW S, NEW s \in Seq(S), NEW e \in S, NEW i \in 1 .. Len(s) + 1
  PROVE  /\ InsertAt(s, i, e) \in Seq(S)
         /\ InsertAt(s, i, e) # <<>>
         /\ Range(InsertAt(s, i, e)) = Range(s) \cup {e}
         /\ Distinct(s) /\ e \notin Range(s) => Distinct(InsertAt(s, i, e))
<1> DEFINE a == InsertAt(s, i, e)
<1>1. /\ a \in Seq(S) /\ Len(a) = Len(s) + 1
      /\ \A k \in 1 .. Len(s) + 1 :
           a[k] = IF k < i THEN s[k] ELSE IF k = i THEN e ELSE s[k - 1]
  BY InsertAtElements
<1> HIDE DEF a
<1>2. /\ Len(s) \in Nat /\ DOMAIN s = 1 .. Len(s) /\ DOMAIN a = 1 .. Len(s) + 1
  BY <1>1, LenProperties
<1>3. a # <<>>
  BY <1>1, <1>2, EmptySeq
<1>4. Range(a) = Range(s) \cup {e}
  <2>1. ASSUME NEW k \in DOMAIN a PROVE a[k] \in Range(s) \cup {e}
    <3>1. CASE k < i
      <4>1. k \in DOMAIN s /\ a[k] = s[k]
        BY <3>1, <1>1, <1>2
      <4> QED BY <4>1 DEF Range
    <3>2. CASE k = i
      BY <3>2, <1>1, <1>2
    <3>3. CASE k > i
      <4>1. k - 1 \in DOMAIN s /\ a[k] = s[k - 1]
        BY <3>3, <1>1, <1>2
      <4> QED BY <4>1 DEF Range
    <3> QED BY <3>1, <3>2, <3>3, <1>2
  <2>2. ASSUME NEW k \in DOMAIN s PROVE s[k] \in Range(a)
    <3>1. CASE k < i
      BY <3>1, <1>1, <1>2 DEF Range
    <3>2. CASE k >= i
      <4>1. k + 1 \in DOMAIN a /\ a[k + 1] = s[k]
        BY <3>2, <1>1, <1>2
      <4> QED BY <4>1 DEF Range
    <3> QED BY <3>1, <3>2, <1>2
  <2>3. e \in Range(a)
    BY <1>1, <1>2 DEF Range
  <2> QED BY <2>1, <2>2, <2>3 DEF Range
<1>5. ASSUME Distinct(s), e \notin Range(s) PROVE Distinct(a)
  <2>1. \A k \in DOMAIN s : s[k] # e
    BY <1>5 DEF Range
  <2> SUFFICES ASSUME NEW j \in DOMAIN a, NEW k \in DOMAIN a, a[j] = a[k] PROVE j = k
    BY DEF Distinct
  <2> DEFINE Old(n) == IF n < i THEN n ELSE n - 1
  <2>2. \A n \in DOMAIN a : n # i => Old(n) \in DOMAIN s /\ a[n] = s[Old(n)]
    BY <1>1, <1>2
  <2>3. a[i] = e
    BY <1>1, <1>2
  <2>4. CASE j = i \/ k = i
    BY <2>1, <2>2, <2>3, <2>4
  <2>5. CASE j # i /\ k # i
    <3>1. Old(j) = Old(k)
      BY <2>2, <2>5, <1>5 DEF Distinct
    <3> QED BY <3>1, <2>5, <1>2
  <2> QED BY <2>4, <2>5
<1> QED BY <1>1, <1>3, <1>4, <1>5 DEF a

\* Removing unlinks exactly the thread at the place.
LEMMA RemoveAtQueue ==
  ASSUME NEW S, NEW s \in Seq(S), NEW i \in 1 .. Len(s), Distinct(s)
  PROVE  /\ RemoveAt(s, i) \in Seq(S)
         /\ Range(RemoveAt(s, i)) = Range(s) \ {s[i]}
         /\ Distinct(RemoveAt(s, i))
<1> DEFINE r == RemoveAt(s, i)
<1>1. /\ r \in Seq(S) /\ Len(r) = Len(s) - 1
      /\ \A k \in 1 .. Len(s) - 1 : r[k] = IF k < i THEN s[k] ELSE s[k + 1]
  BY RemoveAtElements
<1> HIDE DEF r
<1>2. /\ Len(s) \in Nat /\ DOMAIN s = 1 .. Len(s) /\ DOMAIN r = 1 .. Len(s) - 1
  BY <1>1, LenProperties
<1> DEFINE Old(n) == IF n < i THEN n ELSE n + 1
<1>3. \A n \in DOMAIN r : Old(n) \in DOMAIN s /\ Old(n) # i /\ r[n] = s[Old(n)]
  BY <1>1, <1>2
<1>4. Range(r) = Range(s) \ {s[i]}
  <2>1. ASSUME NEW k \in DOMAIN r PROVE r[k] \in Range(s) \ {s[i]}
    BY <1>2, <1>3 DEF Range, Distinct
  <2>2. ASSUME NEW k \in DOMAIN s, k # i PROVE s[k] \in Range(r)
    <3>1. CASE k < i
      <4>1. k \in DOMAIN r /\ r[k] = s[k]
        BY <3>1, <1>1, <1>2
      <4> QED BY <4>1 DEF Range
    <3>2. CASE k > i
      <4>1. k - 1 \in DOMAIN r /\ r[k - 1] = s[k]
        BY <3>2, <1>1, <1>2
      <4> QED BY <4>1 DEF Range
    <3> QED BY <3>1, <3>2, <2>2, <1>2
  <2> QED BY <2>1, <2>2 DEF Range
<1>5. Distinct(r)
  <2> SUFFICES ASSUME NEW j \in DOMAIN r, NEW k \in DOMAIN r, r[j] = r[k] PROVE j = k
    BY DEF Distinct
  <2>1. Old(j) = Old(k)
    BY <1>3 DEF Distinct
  <2> QED BY <2>1, <1>2
<1> QED BY <1>1, <1>4, <1>5 DEF r

\* Removing keeps the order.
LEMMA RemoveAtOrdered ==
  ASSUME NEW S, NEW s \in Seq(S), NEW i \in 1 .. Len(s), NEW rank, Ordered(s, rank)
  PROVE  Ordered(RemoveAt(s, i), rank)
<1> DEFINE r == RemoveAt(s, i)
<1>1. /\ r \in Seq(S) /\ Len(r) = Len(s) - 1
      /\ \A k \in 1 .. Len(s) - 1 : r[k] = IF k < i THEN s[k] ELSE s[k + 1]
  BY RemoveAtElements
<1> HIDE DEF r
<1>2. /\ Len(s) \in Nat /\ DOMAIN s = 1 .. Len(s) /\ DOMAIN r = 1 .. Len(s) - 1
  BY <1>1, LenProperties
<1> DEFINE Old(n) == IF n < i THEN n ELSE n + 1
<1>3. \A n \in DOMAIN r : Old(n) \in DOMAIN s /\ r[n] = s[Old(n)]
  BY <1>1, <1>2
<1> SUFFICES ASSUME NEW j \in DOMAIN r, NEW k \in DOMAIN r, j <= k
             PROVE  rank[r[j]] <= rank[r[k]]
  BY DEF Ordered, r
<1>4. Old(j) <= Old(k)
  BY <1>2
<1> QED BY <1>3, <1>4 DEF Ordered

\* The tail keeps the order.
LEMMA TailOrdered ==
  ASSUME NEW S, NEW s \in Seq(S), s # <<>>, NEW rank, Ordered(s, rank)
  PROVE  Ordered(Tail(s), rank)
<1> DEFINE r == Tail(s)
<1>1. /\ r \in Seq(S) /\ Len(r) = Len(s) - 1
      /\ \A k \in 1 .. Len(r) : r[k] = s[k + 1]
  BY HeadTailProperties
<1> HIDE DEF r
<1>2. /\ Len(s) \in Nat /\ DOMAIN s = 1 .. Len(s) /\ DOMAIN r = 1 .. Len(s) - 1
  BY <1>1, LenProperties
<1> SUFFICES ASSUME NEW j \in DOMAIN r, NEW k \in DOMAIN r, j <= k
             PROVE  rank[r[j]] <= rank[r[k]]
  BY DEF Ordered, r
<1>3. /\ j + 1 \in DOMAIN s /\ k + 1 \in DOMAIN s /\ j + 1 <= k + 1
      /\ r[j] = s[j + 1] /\ r[k] = s[k + 1]
  BY <1>1, <1>2
<1> QED BY <1>3 DEF Ordered

\* Inserting between the ranks that are not above e's and those that are not
\* below it keeps the order.
LEMMA InsertAtOrdered ==
  ASSUME NEW S, NEW s \in Seq(S), NEW e \in S, NEW i \in 1 .. Len(s) + 1,
         NEW rank \in [S -> Nat], Ordered(s, rank),
         \A k \in 1 .. i - 1 : rank[s[k]] <= rank[e],
         i <= Len(s) => rank[s[i]] > rank[e]
  PROVE  Ordered(InsertAt(s, i, e), rank)
<1> DEFINE a == InsertAt(s, i, e)
<1>1. /\ a \in Seq(S) /\ Len(a) = Len(s) + 1
      /\ \A k \in 1 .. Len(s) + 1 :
           a[k] = IF k < i THEN s[k] ELSE IF k = i THEN e ELSE s[k - 1]
  BY InsertAtElements
<1> HIDE DEF a
<1>2. /\ Len(s) \in Nat /\ DOMAIN s = 1 .. Len(s) /\ DOMAIN a = 1 .. Len(s) + 1
  BY <1>1, LenProperties
<1>3. \A k \in DOMAIN s : s[k] \in S /\ rank[s[k]] \in Nat
  BY <1>2, ElementOfSeq
<1>4. rank[e] \in Nat
  OBVIOUS
<1>5. \A k \in i .. Len(s) : rank[e] <= rank[s[k]]
  <2> SUFFICES ASSUME NEW k \in i .. Len(s) PROVE rank[e] <= rank[s[k]]
    OBVIOUS
  <2>1. i \in DOMAIN s /\ k \in DOMAIN s /\ i <= k
    BY <1>2
  <2>2. rank[s[i]] <= rank[s[k]]
    BY <2>1 DEF Ordered
  <2> QED BY <2>1, <2>2, <1>3, <1>4
<1> DEFINE Old(n) == IF n < i THEN n ELSE n - 1
<1>6. \A n \in DOMAIN a : n # i => Old(n) \in DOMAIN s /\ a[n] = s[Old(n)]
  BY ONLY <1>1, <1>2, i \in 1 .. Len(s) + 1
<1>7. a[i] = e
  BY <1>1, <1>2
<1> SUFFICES ASSUME NEW j \in DOMAIN a, NEW k \in DOMAIN a, j <= k
             PROVE  rank[a[j]] <= rank[a[k]]
  BY DEF Ordered, a
<1>8. CASE j = i /\ k = i
  BY <1>4, <1>7, <1>8
<1>9. CASE j # i /\ k = i
  <2>1. j \in 1 .. i - 1 /\ a[j] = s[j]
    BY <1>1, <1>2, <1>9
  <2> QED BY <2>1, <1>7, <1>9
<1>10. CASE j = i /\ k # i
  <2>1. k - 1 \in i .. Len(s) /\ a[k] = s[k - 1]
    BY ONLY <1>1, <1>2, <1>10, i \in 1 .. Len(s) + 1, j \in DOMAIN a, k \in DOMAIN a, j <= k
  <2> QED BY <2>1, <1>5, <1>7, <1>10
<1>11. CASE j # i /\ k # i
  <2>1. Old(j) <= Old(k)
    BY <1>2, <1>11
  <2> QED BY <2>1, <1>6, <1>11 DEF Ordered
<1> QED BY <1>8, <1>9, <1>10, <1>11

\* Removing the first occurrence, or nothing, leaves a sequence of the same set.
LEMMA RemoveFirstType ==
  ASSUME NEW S, NEW s \in Seq(S), NEW e
  PROVE  RemoveFirst(s, e) \in Seq(S)
<1> DEFINE I == {i \in 1 .. Len(s) : s[i] = e}
<1>1. CASE I = {}
  BY <1>1 DEF RemoveFirst
<1>2. CASE I # {}
  <2>1. I \in SUBSET Nat
    OBVIOUS
  <2>2. Min(I) \in 1 .. Len(s)
    BY <1>2, <2>1, MinProperties
  <2>3. RemoveFirst(s, e) = RemoveAt(s, Min(I))
    BY <1>2 DEF RemoveFirst, SelectInSeq
  <2> QED BY <2>2, <2>3, RemoveAtElements
<1> QED BY <1>1, <1>2

-----------------------------------------------------------------------------
(* Who stands before whom.                                                  *)

\* u stands before t.
Before(s, u, t) == \E i, j \in DOMAIN s : s[i] = u /\ s[j] = t /\ i < j

\* Of two members, one stands before the other.
LEMMA BeforeTotal ==
  ASSUME NEW S, NEW s \in Seq(S), NEW u \in Range(s), NEW t \in Range(s), u # t
  PROVE  Before(s, u, t) \/ Before(s, t, u)
<1>1. PICK i \in DOMAIN s : s[i] = u
  BY DEF Range
<1>2. PICK j \in DOMAIN s : s[j] = t
  BY DEF Range
<1>3. i \in Nat /\ j \in Nat /\ i # j
  BY <1>1, <1>2, LenProperties
<1>4. i < j \/ j < i
  BY <1>3
<1> QED BY <1>1, <1>2, <1>4 DEF Before

\* A member that comes last stands behind everyone.
LEMMA AppendBefore ==
  ASSUME NEW S, NEW s \in Seq(S), NEW e \in S
  PROVE  /\ \A u, t : Before(s, u, t) => Before(Append(s, e), u, t)
         /\ \A u \in Range(s) : Before(Append(s, e), u, e)
<1> DEFINE a == Append(s, e)
<1>1. /\ Len(a) = Len(s) + 1 /\ a \in Seq(S)
      /\ \A i \in 1 .. Len(s) : a[i] = s[i]
      /\ a[Len(s) + 1] = e
  BY AppendProperties
<1>2. Len(s) \in Nat /\ DOMAIN s = 1 .. Len(s) /\ DOMAIN a = 1 .. Len(s) + 1
  BY <1>1, LenProperties
<1> HIDE DEF a
<1>3. \A i \in DOMAIN s : i \in DOMAIN a /\ a[i] = s[i] /\ i < Len(s) + 1
  BY <1>1, <1>2
<1>4. Len(s) + 1 \in DOMAIN a
  BY <1>2
<1>5. \A u, t : Before(s, u, t) => Before(a, u, t)
  BY <1>3 DEF Before
<1>6. \A u \in Range(s) : Before(a, u, e)
  BY <1>1, <1>3, <1>4 DEF Before, Range
<1> QED BY <1>5, <1>6 DEF a

\* An inserted member stands behind everyone in front of its place.
LEMMA InsertAtBefore ==
  ASSUME NEW S, NEW s \in Seq(S), NEW e \in S, NEW i \in 1 .. Len(s) + 1
  PROVE  /\ \A u, t : Before(s, u, t) => Before(InsertAt(s, i, e), u, t)
         /\ \A k \in DOMAIN s : k < i => Before(InsertAt(s, i, e), s[k], e)
<1> DEFINE a == InsertAt(s, i, e)
           New(n) == IF n < i THEN n ELSE n + 1
<1>1. /\ a \in Seq(S) /\ Len(a) = Len(s) + 1
      /\ \A k \in 1 .. Len(s) + 1 :
           a[k] = IF k < i THEN s[k] ELSE IF k = i THEN e ELSE s[k - 1]
  BY InsertAtElements
<1> HIDE DEF a
<1>2. /\ Len(s) \in Nat /\ DOMAIN s = 1 .. Len(s) /\ DOMAIN a = 1 .. Len(s) + 1
  BY <1>1, LenProperties
<1>3. \A n \in DOMAIN s : New(n) \in DOMAIN a /\ a[New(n)] = s[n]
  <2> SUFFICES ASSUME NEW n \in DOMAIN s PROVE New(n) \in DOMAIN a /\ a[New(n)] = s[n]
    OBVIOUS
  <2>1. CASE n < i
    BY <2>1, <1>1, <1>2
  <2>2. CASE ~(n < i)
    <3>1. n + 1 \in 1 .. Len(s) + 1 /\ ~(n + 1 < i) /\ n + 1 # i /\ (n + 1) - 1 = n
      BY <2>2, <1>2
    <3> QED BY <2>2, <3>1, <1>1, <1>2
  <2> QED BY <2>1, <2>2
<1>4. \A m, n \in DOMAIN s : m < n => New(m) < New(n)
  BY <1>2
<1>5. i \in DOMAIN a /\ a[i] = e
  BY <1>1, <1>2
<1>6. \A u, t : Before(s, u, t) => Before(a, u, t)
  <2> HIDE DEF New
  <2> QED BY <1>3, <1>4 DEF Before
<1>7. ASSUME NEW k \in DOMAIN s, k < i PROVE Before(a, s[k], e)
  <2>1. k \in DOMAIN a /\ a[k] = s[k]
    BY <1>1, <1>2, <1>7
  <2> QED BY <1>5, <1>7, <2>1 DEF Before
<1> QED BY <1>6, <1>7 DEF a

\* The others keep their order when one is removed.
LEMMA RemoveAtBefore ==
  ASSUME NEW S, NEW s \in Seq(S), NEW i \in 1 .. Len(s),
         NEW u, NEW t, Before(s, u, t), u # s[i], t # s[i]
  PROVE  Before(RemoveAt(s, i), u, t)
<1> DEFINE r == RemoveAt(s, i)
           New(n) == IF n < i THEN n ELSE n - 1
<1>1. /\ r \in Seq(S) /\ Len(r) = Len(s) - 1
      /\ \A k \in 1 .. Len(s) - 1 : r[k] = IF k < i THEN s[k] ELSE s[k + 1]
  BY RemoveAtElements
<1> HIDE DEF r
<1>2. /\ Len(s) \in Nat /\ DOMAIN s = 1 .. Len(s) /\ DOMAIN r = 1 .. Len(s) - 1
  BY <1>1, LenProperties
<1>3. \A n \in DOMAIN s : n # i => New(n) \in DOMAIN r /\ r[New(n)] = s[n]
  <2> SUFFICES ASSUME NEW n \in DOMAIN s, n # i PROVE New(n) \in DOMAIN r /\ r[New(n)] = s[n]
    OBVIOUS
  <2>1. CASE n < i
    BY <2>1, <1>1, <1>2
  <2>2. CASE ~(n < i)
    <3>1. n - 1 \in 1 .. Len(s) - 1 /\ ~(n - 1 < i) /\ (n - 1) + 1 = n
      BY <2>2, <1>2
    <3> QED BY <2>2, <3>1, <1>1, <1>2
  <2> QED BY <2>1, <2>2
<1>4. PICK m \in DOMAIN s, n \in DOMAIN s : s[m] = u /\ s[n] = t /\ m < n
  BY DEF Before
<1>5. m # i /\ n # i
  BY <1>4
<1>6. New(m) < New(n)
  BY <1>2, <1>4, <1>5
<1>7. New(m) \in DOMAIN r /\ New(n) \in DOMAIN r /\ r[New(m)] = u /\ r[New(n)] = t
  BY <1>3, <1>4, <1>5
<1> HIDE DEF New
<1>8. Before(r, u, t)
  BY <1>6, <1>7 DEF Before
<1> QED BY <1>8 DEF r

\* ... and when the head goes.
LEMMA TailBefore ==
  ASSUME NEW S, NEW s \in Seq(S), s # <<>>, NEW u, NEW t, Before(s, u, t), u # Head(s)
  PROVE  Before(Tail(s), u, t)
<1> DEFINE r == Tail(s)
<1>1. /\ r \in Seq(S) /\ Len(r) = Len(s) - 1
      /\ \A i \in 1 .. Len(r) : r[i] = s[i + 1]
  BY HeadTailProperties
<1>2. /\ Len(s) \in Nat \ {0} /\ DOMAIN s = 1 .. Len(s) /\ DOMAIN r = 1 .. Len(s) - 1
  BY <1>1, LenProperties, EmptySeq
<1>3. Head(s) = s[1]
  OBVIOUS
<1> HIDE DEF r
<1>4. PICK m \in DOMAIN s, n \in DOMAIN s : s[m] = u /\ s[n] = t /\ m < n
  BY DEF Before
<1>5. /\ m - 1 \in DOMAIN r /\ n - 1 \in DOMAIN r /\ m - 1 < n - 1
      /\ (m - 1) + 1 = m /\ (n - 1) + 1 = n
  BY <1>2, <1>3, <1>4
<1>6. r[m - 1] = u /\ r[n - 1] = t
  BY <1>1, <1>2, <1>4, <1>5
<1>7. Before(r, u, t)
  BY <1>5, <1>6 DEF Before
<1> QED BY <1>7 DEF r

==============================================================================
