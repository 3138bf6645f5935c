------------------------- MODULE GuestExecutionProofs -------------------------
(***************************************************************************)
(* Proofs about the host program and the calls of translated code: the     *)
(* table of translated functions and the binary search in it; what the     *)
(* host holds of guest memory as its loops bring it up; start and stop;    *)
(* what a guest address reaches, and what start has established when       *)
(* translated code runs; and the calls, the guest threads and the drive.   *)
(***************************************************************************)
EXTENDS GuestExecution, QueueTheorems, FiniteSetTheorems, TLAPS

(***************************************************************************)
(* The search in the table                                                 *)
(***************************************************************************)
Ranges(entries) == (0 .. Len(entries)) \X (0 .. Len(entries))
Middle(r) == r[1] + (r[2] - r[1]) \div 2
Below(r) == <<r[1], Middle(r)>>
Above(r) == <<Middle(r) + 1, r[2]>>

\* One turn of the loop, with g for what the rest of the loop returns.
Turn(entries, a, g, r) ==
  IF r[1] >= r[2] THEN r[1]
  ELSE IF entries[Middle(r) + 1].address < a THEN g[Above(r)] ELSE g[Below(r)]

\* The recursive function inside LowerBound.
Search(entries, a) ==
  LET search[range \in (0 .. Len(entries)) \X (0 .. Len(entries))] ==
        LET lower == range[1]
            upper == range[2]
            middle == lower + (upper - lower) \div 2
        IN  IF lower >= upper THEN lower
            ELSE IF entries[middle + 1].address < a
                 THEN search[<<middle + 1, upper>>]
                 ELSE search[<<lower, middle>>]
  IN  search

\* Both halves of a range that is not empty are shorter ranges of the same table.
LEMMA HalvesShorter ==
  ASSUME NEW entries, Len(entries) \in Nat, NEW r \in Ranges(entries), r[1] < r[2]
  PROVE  /\ Middle(r) \in r[1] .. r[2] - 1
         /\ Below(r) \in Ranges(entries) /\ Below(r)[2] - Below(r)[1] < r[2] - r[1]
         /\ Above(r) \in Ranges(entries) /\ Above(r)[2] - Above(r)[1] < r[2] - r[1]
         /\ Below(r)[1] = r[1] /\ Below(r)[2] = Middle(r)
         /\ Above(r)[1] = Middle(r) + 1 /\ Above(r)[2] = r[2]
<1>1. r[1] \in 0 .. Len(entries) /\ r[2] \in 0 .. Len(entries)
  BY DEF Ranges
<1>2. Middle(r) \in r[1] .. r[2] - 1
  BY <1>1 DEF Middle
<1> QED BY <1>1, <1>2 DEF Ranges, Below, Above

\* The loop ends: some function is what it returns on every range of the table.
LEMMA LoopEnds ==
  ASSUME NEW entries, Len(entries) \in Nat, NEW a
  PROVE  \E g : g = [r \in Ranges(entries) |-> Turn(entries, a, g, r)]
<1> DEFINE N == Len(entries)
           R == Ranges(entries)
           T(g, r) == Turn(entries, a, g, r)
           Solves(n, g) == \A r \in R : r[2] - r[1] <= n => g[r] = T(g, r)
           Bad == {n \in Nat : ~ \E g : Solves(n, g)}
<1>0. \A r \in R : r[1] \in 0 .. N /\ r[2] \in 0 .. N
  BY DEF Ranges
<1>1. \A g, f, r : r[1] >= r[2] => T(g, r) = T(f, r)
  BY DEF Turn
<1>2. \A g, f : \A r \in R : (r[1] < r[2] /\ g[Below(r)] = f[Below(r)] /\ g[Above(r)] = f[Above(r)]) => T(g, r) = T(f, r)
  BY DEF Turn
<1>3. Bad = {}
  <2>1. SUFFICES ASSUME Bad # {} PROVE FALSE
    OBVIOUS
  <2>2. PICK n \in Bad : \A m \in Bad : n <= m
    <3> Bad \subseteq Nat
      OBVIOUS
    <3> QED BY <2>1, MinProperties
  <2>3. n # 0
    <3> DEFINE g == [r \in R |-> r[1]]
    <3>1. Solves(0, g)
      <4> SUFFICES ASSUME NEW r \in R, r[2] - r[1] <= 0 PROVE g[r] = T(g, r)
        OBVIOUS
      <4>1. r[1] >= r[2]
        BY <1>0
      <4> QED BY <4>1 DEF Turn
    <3> QED BY <3>1
  <2>4. n - 1 \in Nat /\ n - 1 \notin Bad
    BY <2>2, <2>3
  <2>5. PICK g : Solves(n - 1, g)
    BY <2>4
  <2> DEFINE h == [r \in R |-> T(g, r)]
  <2>6. Solves(n, h)
    <3> SUFFICES ASSUME NEW r \in R, r[2] - r[1] <= n PROVE h[r] = T(h, r)
      OBVIOUS
    <3>1. h[r] = T(g, r)
      OBVIOUS
    <3> HIDE DEF T
    <3>2. CASE r[1] >= r[2]
      BY <1>1, <3>1, <3>2
    <3>3. CASE r[1] < r[2]
      <4>1. /\ Below(r) \in R /\ Below(r)[2] - Below(r)[1] < r[2] - r[1]
            /\ Above(r) \in R /\ Above(r)[2] - Above(r)[1] < r[2] - r[1]
        BY <3>3, HalvesShorter
      <4>2. \A s \in R : s[2] - s[1] < r[2] - r[1] => g[s] = T(g, s)
        <5> SUFFICES ASSUME NEW s \in R, s[2] - s[1] < r[2] - r[1] PROVE s[2] - s[1] <= n - 1
          BY <2>5
        <5> QED BY <1>0, n \in Nat
      <4>3. g[Below(r)] = h[Below(r)] /\ g[Above(r)] = h[Above(r)]
        BY <4>1, <4>2
      <4> HIDE DEF h
      <4> QED BY <1>2, <3>1, <3>3, <4>3
    <3> QED BY <1>0, <3>2, <3>3
  <2> QED BY <2>2, <2>6
<1>4. PICK g : Solves(N, g)
  BY <1>3
<1> DEFINE h == [r \in R |-> T(g, r)]
<1>5. \A r \in R : g[r] = h[r]
  <2> SUFFICES ASSUME NEW r \in R PROVE r[2] - r[1] <= N
    BY <1>4
  <2> QED BY <1>0
<1>6. \A r \in R : T(g, r) = T(h, r)
  <2> SUFFICES ASSUME NEW r \in R PROVE T(g, r) = T(h, r)
    OBVIOUS
  <2>1. CASE r[1] >= r[2]
    BY <1>1, <2>1
  <2>2. CASE r[1] < r[2]
    <3>1. Below(r) \in R /\ Above(r) \in R
      BY <2>2, HalvesShorter
    <3> HIDE DEF T, h
    <3> QED BY <1>2, <1>5, <2>2, <3>1
  <2> QED BY <1>0, <2>1, <2>2
<1>7. h = [r \in R |-> T(h, r)]
  BY <1>6
<1> QED BY <1>7

LEMMA SearchTurns ==
  ASSUME NEW entries, Len(entries) \in Nat, NEW a
  PROVE  Search(entries, a) = [r \in Ranges(entries) |-> Turn(entries, a, Search(entries, a), r)]
<1> DEFINE search == CHOOSE g : g = [r \in Ranges(entries) |-> Turn(entries, a, g, r)]
<1>1. search = [r \in Ranges(entries) |-> Turn(entries, a, search, r)]
  BY LoopEnds
<1>2. Search(entries, a) = search
  BY DEF Search, Turn, Ranges, Middle, Below, Above
<1> QED BY <1>1, <1>2

\* What the loop returns for a range: everything before it is below the address, nothing
\* from it on is.
Splits(entries, a, r, l) ==
  /\ l \in r[1] .. r[2]
  /\ \A i \in r[1] + 1 .. l : entries[i].address < a
  /\ \A i \in l + 1 .. r[2] : ~ (entries[i].address < a)

Ascending(entries) ==
  /\ \A i \in 1 .. Len(entries) : entries[i].address \in Nat
  /\ \A i, j \in 1 .. Len(entries) : i < j => entries[i].address < entries[j].address

LEMMA SearchSplits ==
  ASSUME NEW entries, Len(entries) \in Nat, Ascending(entries), NEW a \in Nat
  PROVE  \A r \in Ranges(entries) : r[1] <= r[2] => Splits(entries, a, r, Search(entries, a)[r])
<1> DEFINE R == Ranges(entries)
           S == Search(entries, a)
           Wrong(n) == \E r \in R : r[1] <= r[2] /\ r[2] - r[1] = n /\ ~Splits(entries, a, r, S[r])
           Bad == {n \in Nat : Wrong(n)}
<1>0. \A r \in R : r[1] \in 0 .. Len(entries) /\ r[2] \in 0 .. Len(entries)
  BY DEF Ranges
<1>1. \A r \in R : S[r] = Turn(entries, a, S, r)
  BY SearchTurns
<1> HIDE DEF S
<1>2. Bad = {}
  <2>1. SUFFICES ASSUME Bad # {} PROVE FALSE
    OBVIOUS
  <2>2. PICK n \in Bad : \A m \in Bad : n <= m
    <3> Bad \subseteq Nat
      OBVIOUS
    <3> QED BY <2>1, MinProperties
  <2>3. PICK r \in R : r[1] <= r[2] /\ r[2] - r[1] = n /\ ~Splits(entries, a, r, S[r])
    BY <2>2
  <2>4. r[1] < r[2]
    <3> SUFFICES ASSUME r[1] = r[2] PROVE FALSE
      BY <1>0, <2>3
    <3>1. S[r] = r[1]
      BY <1>0, <1>1 DEF Turn
    <3> QED BY <1>0, <2>3, <3>1 DEF Splits
  <2> DEFINE m == Middle(r)
  <2>5. /\ m \in r[1] .. r[2] - 1
        /\ Below(r) \in R /\ Below(r)[2] - Below(r)[1] < n
        /\ Above(r) \in R /\ Above(r)[2] - Above(r)[1] < n
        /\ Below(r)[1] = r[1] /\ Below(r)[2] = m /\ Above(r)[1] = m + 1 /\ Above(r)[2] = r[2]
    BY <2>3, <2>4, HalvesShorter
  <2>6. \A s \in R : s[1] <= s[2] /\ s[2] - s[1] < n => Splits(entries, a, s, S[s])
    <3> SUFFICES ASSUME NEW s \in R, s[1] <= s[2], s[2] - s[1] < n, ~Splits(entries, a, s, S[s])
                 PROVE  FALSE
      OBVIOUS
    <3>1. s[2] - s[1] \in Nat
      BY <1>0
    <3>2. s[2] - s[1] \in Bad
      BY <3>1
    <3> QED BY <2>2, <3>1, <3>2
  <2> HIDE DEF m
  <2>7. CASE entries[m + 1].address < a
    <3>1. S[r] = S[Above(r)]
      BY <1>1, <2>4, <2>7, <1>0 DEF Turn, m
    <3> DEFINE l == S[Above(r)]
    <3>2. Splits(entries, a, Above(r), l)
      BY <1>0, <2>5, <2>6
    <3> HIDE DEF l
    <3>3. l \in m + 1 .. r[2] /\ \A i \in m + 2 .. l : entries[i].address < a
      BY <2>5, <3>2, <1>0 DEF Splits
    <3>4. \A i \in l + 1 .. r[2] : ~ (entries[i].address < a)
      BY <2>5, <3>2 DEF Splits
    <3>5. \A i \in r[1] + 1 .. m + 1 : entries[i].address < a
      <4> SUFFICES ASSUME NEW i \in r[1] + 1 .. m + 1, i # m + 1 PROVE entries[i].address < a
        BY <2>7
      <4>1. i \in 1 .. Len(entries) /\ m + 1 \in 1 .. Len(entries) /\ i < m + 1
        BY <1>0, <2>5
      <4>2. entries[i].address < entries[m + 1].address /\ entries[i].address \in Nat /\ entries[m + 1].address \in Nat
        BY <4>1 DEF Ascending
      <4> QED BY <2>7, <4>2
    <3>6. l \in r[1] .. r[2]
      BY <1>0, <2>5, <3>3
    <3>7. \A i \in r[1] + 1 .. l : entries[i].address < a
      BY <1>0, <2>5, <3>3, <3>5, <3>6
    <3> QED BY <2>3, <3>1, <3>4, <3>6, <3>7 DEF Splits, l
  <2>8. CASE ~ (entries[m + 1].address < a)
    <3>1. S[r] = S[Below(r)]
      BY <1>1, <2>4, <2>8, <1>0 DEF Turn, m
    <3> DEFINE l == S[Below(r)]
    <3>2. Splits(entries, a, Below(r), l)
      BY <1>0, <2>5, <2>6
    <3> HIDE DEF l
    <3>3. l \in r[1] .. m /\ \A i \in r[1] + 1 .. l : entries[i].address < a
      BY <2>5, <3>2 DEF Splits
    <3>4. \A i \in l + 1 .. m : ~ (entries[i].address < a)
      BY <2>5, <3>2 DEF Splits
    <3>5. \A i \in m + 1 .. r[2] : ~ (entries[i].address < a)
      <4> SUFFICES ASSUME NEW i \in m + 1 .. r[2], i # m + 1 PROVE ~ (entries[i].address < a)
        BY <2>8
      <4>1. i \in 1 .. Len(entries) /\ m + 1 \in 1 .. Len(entries) /\ m + 1 < i
        BY <1>0, <2>5
      <4>2. entries[m + 1].address < entries[i].address /\ entries[i].address \in Nat /\ entries[m + 1].address \in Nat
        BY <4>1 DEF Ascending
      <4> QED BY <2>8, <4>2
    <3>6. l \in r[1] .. r[2]
      BY <1>0, <2>5, <3>3
    <3>7. \A i \in l + 1 .. r[2] : ~ (entries[i].address < a)
      BY <1>0, <2>5, <3>4, <3>5, <3>6
    <3> QED BY <2>3, <3>1, <3>3, <3>6, <3>7 DEF Splits, l
  <2> QED BY <2>7, <2>8
<1> QED
  <2> SUFFICES ASSUME NEW r \in R, r[1] <= r[2], ~Splits(entries, a, r, S[r]) PROVE FALSE
    BY DEF S
  <2>1. r[2] - r[1] \in Nat
    BY <1>0
  <2> QED BY <1>2, <2>1

(***************************************************************************)
(* Finding an address                                                      *)
(***************************************************************************)
\* An address has a segment.
LEMMA PartExists ==
  ASSUME NEW a \in GuestAddresses
  PROVE  a \in Nat /\ PartOf(a) \in 0 .. Parts - 1 /\ PageOf(a) \in Nat
<1> DEFINE K == PageWidth * PagesPerPart
           q == a \div K
           r == a % K
<1>1. PageWidth \in Nat \ {0} /\ PagesPerPart \in Nat \ {0} /\ Parts \in Nat \ {0}
  BY SplitAssumption
<1>2. K \in Nat \ {0}
  BY <1>1
<1>3. a \in Nat /\ a < K * Parts
  <2>1. K * Parts \in Nat
    BY <1>1, <1>2
  <2> QED BY <2>1 DEF GuestAddresses
<1> HIDE DEF K
<1>4. a = K * q + r /\ r \in Nat /\ q \in Nat
  BY <1>2, <1>3
<1> HIDE DEF q, r
<1>5. q < Parts
  <2> SUFFICES ASSUME q >= Parts PROVE FALSE
    BY <1>1, <1>4
  <2>1. K * q >= K * Parts
    BY <1>1, <1>2, <1>4
  <2>2. K * q \in Nat /\ K * Parts \in Nat
    BY <1>1, <1>2, <1>4
  <2> QED BY <1>3, <1>4, <2>1, <2>2
<1>6. PageOf(a) \in Nat
  <2>1. a \div PageWidth \in Nat
    BY <1>1, <1>3
  <2> QED BY <1>1, <2>1 DEF PageOf
<1> QED BY <1>1, <1>3, <1>4, <1>5, <1>6 DEF PartOf, K, q

\* FindStaticIndirectDispatchEntry gives the entry of exactly the address asked for, and
\* nothing only when the table does not list it.
LEMMA FindEntryFinds ==
  ASSUME NEW d \in Tables, Indexed(d), NEW a \in GuestAddresses
  PROVE  \/ \E i \in 1 .. Len(d.entries) : FindEntry(d, a) = d.entries[i] /\ d.entries[i].address = a
         \/ FindEntry(d, a) = Missing /\ \A i \in 1 .. Len(d.entries) : d.entries[i].address # a
<1> DEFINE entries == d.entries
           N == Len(entries)
           part == d.parts[PartOf(a)]
           n == PageOf(a) - part.firstPage
           page == part.pages[n + 1]
<1>1. /\ entries \in Seq(DispatchRecords) /\ N \in Nat
      /\ \A i \in 1 .. N : entries[i] \in DispatchRecords /\ entries[i].address \in GuestAddresses
  <2>1. entries \in Seq(DispatchRecords)
    BY DEF Tables
  <2>2. N \in Nat /\ \A i \in 1 .. N : entries[i] \in DispatchRecords
    BY <2>1, ElementOfSeq
  <2> QED BY <2>1, <2>2 DEF DispatchRecords
<1>2. a \in Nat /\ PageOf(a) \in Nat /\ part.firstPage \in Nat /\ part.pages \in Seq(Pages)
  BY PartExists DEF Tables
<1>3. Ascending(entries)
  <2>1. \A i \in 1 .. N : entries[i].address \in Nat
    BY <1>1, PartExists
  <2> QED BY <2>1 DEF Ascending, Indexed
<1>4. ASSUME NEW i \in 1 .. N, entries[i].address = a
      PROVE  n \in 0 .. Len(part.pages) - 1 /\ page.first < i /\ i <= page.first + page.count /\ page.first + page.count <= N
  BY <1>4 DEF Indexed
<1> HIDE DEF entries, N, part
<1>5. CASE entries = <<>> \/ PageOf(a) < part.firstPage \/ n >= Len(part.pages)
  <2>1. FindEntry(d, a) = Missing
    BY <1>5 DEF FindEntry, entries, part
  <2>2. ASSUME NEW i \in 1 .. N, entries[i].address = a PROVE FALSE
    <3>1. n \in 0 .. Len(part.pages) - 1
      BY <1>4, <2>2
    <3>2. entries # <<>>
      BY <1>1 DEF N
    <3>3. Len(part.pages) \in Nat
      BY <1>2
    <3> QED BY <1>2, <1>5, <3>1, <3>2, <3>3
  <2> QED BY <2>1, <2>2 DEF entries, N
<1>6. CASE entries # <<>> /\ ~(PageOf(a) < part.firstPage) /\ ~(n >= Len(part.pages))
  <2>1. n \in Nat /\ n + 1 \in 1 .. Len(part.pages)
    BY <1>2, <1>6
  <2>2. page \in Pages
    BY <1>2, <2>1, ElementOfSeq
  <2>3. page.first \in Nat /\ page.count \in Nat
    BY <2>2 DEF Pages
  <2> HIDE DEF n, page
  <2>4. CASE page.first > N \/ page.count > N - page.first
    <3>1. FindEntry(d, a) = Missing
      BY <1>6, <2>4 DEF FindEntry, entries, part, page, n, N
    <3>2. \A i \in 1 .. N : entries[i].address # a
      <4> SUFFICES ASSUME NEW i \in 1 .. N, entries[i].address = a PROVE FALSE
        OBVIOUS
      <4>1. page.first < i /\ i <= page.first + page.count /\ page.first + page.count <= N
        BY <1>4
      <4> QED BY <1>1, <2>3, <2>4, <4>1
    <3> QED BY <3>1, <3>2 DEF entries, N
  <2>5. CASE ~(page.first > N \/ page.count > N - page.first)
    <3> DEFINE r == <<page.first, page.first + page.count>>
               l == Search(entries, a)[r]
    <3>1. r \in Ranges(entries) /\ r[1] <= r[2]
      BY <1>1, <2>3, <2>5 DEF Ranges, N
    <3>2. Splits(entries, a, r, l)
      BY <1>1, <1>2, <1>3, <3>1, SearchSplits DEF N
    <3>3. LowerBound(entries, page.first, page.count, a) = l
      BY DEF LowerBound, Search
    <3> HIDE DEF l
    <3>4. /\ l \in page.first .. page.first + page.count
          /\ \A i \in page.first + 1 .. l : entries[i].address < a
          /\ \A i \in l + 1 .. page.first + page.count : ~ (entries[i].address < a)
      BY <3>2 DEF Splits
    <3>5. FindEntry(d, a) = IF l < page.first + page.count /\ entries[l + 1].address = a THEN entries[l + 1] ELSE Missing
      BY <1>6, <2>5, <3>3 DEF FindEntry, entries, part, page, n, N
    <3>6. CASE l < page.first + page.count /\ entries[l + 1].address = a
      <4>1. l + 1 \in 1 .. N
        BY <1>1, <2>3, <2>5, <3>4, <3>6
      <4> QED BY <3>5, <3>6, <4>1 DEF entries, N
    <3>7. CASE ~(l < page.first + page.count /\ entries[l + 1].address = a)
      <4>1. ASSUME NEW i \in 1 .. N, entries[i].address = a PROVE FALSE
        <5>1. page.first < i /\ i <= page.first + page.count
          BY <1>4, <4>1
        <5>2. ~(i \in page.first + 1 .. l)
          BY <1>2, <3>4, <4>1
        <5>3. l + 1 <= i /\ l < page.first + page.count /\ l \in Nat
          BY <2>3, <3>4, <5>1, <5>2
        <5>4. l + 1 < i
          BY <3>7, <4>1, <5>3
        <5>5. l + 1 \in 1 .. N
          BY <1>1, <5>3, <5>4
        <5>6. entries[l + 1].address < a
          BY <1>3, <4>1, <5>4, <5>5 DEF Ascending, N
        <5>7. ~ (entries[l + 1].address < a)
          BY <2>3, <3>4, <5>3
        <5> QED BY <5>6, <5>7
      <4> QED BY <3>5, <3>7, <4>1 DEF entries, N
    <3> QED BY <3>6, <3>7
  <2> QED BY <2>4, <2>5
<1> QED BY <1>2, <1>5, <1>6

\* A resolved address runs its own function, and the masks of the entry name what that
\* function leaves changed.
LEMMA ResolvedIsListed ==
  ASSUME NEW a \in GuestAddresses, dispatch \in Published
  PROVE  /\ Resolved(a).linked => /\ Resolved(a).address = a
                                  /\ Resolved(a).preserves \in SUBSET Guardable
                                  /\ Clobbers[a] \subseteq Resolved(a).preserves
         /\ ~Resolved(a).linked => ~Listed(a)
<1> DEFINE entries == dispatch.entries
<1>1. /\ dispatch \in Tables /\ Indexed(dispatch)
      /\ \A i \in 1 .. Len(entries) : entries[i].linked => Clobbers[entries[i].address] \subseteq entries[i].preserves
  BY CallsAssumption
<1>2. Len(entries) \in Nat /\ DOMAIN entries = 1 .. Len(entries) /\ \A i \in 1 .. Len(entries) : entries[i] \in DispatchRecords
  <2>1. entries \in Seq(DispatchRecords)
    BY <1>1 DEF Tables
  <2> QED BY <2>1, ElementOfSeq
<1>3. \A i, j \in 1 .. Len(entries) : i < j => entries[i].address < entries[j].address
  BY <1>1 DEF Indexed
<1>4. \A i \in 1 .. Len(entries) : entries[i].address \in Nat
  BY <1>2, PartExists DEF DispatchRecords
<1> HIDE DEF entries
<1>5. CASE \E i \in 1 .. Len(entries) : Resolved(a) = entries[i] /\ entries[i].address = a
  <2>1. PICK i \in 1 .. Len(entries) : Resolved(a) = entries[i] /\ entries[i].address = a
    BY <1>5
  <2>2. entries[i] \in DispatchRecords
    BY <1>2
  <2>3. ASSUME ~entries[i].linked, NEW j \in 1 .. Len(entries), entries[j].address = a, entries[j].linked PROVE FALSE
    <3>1. i # j /\ i \in Nat /\ j \in Nat
      BY <1>2, <2>3
    <3>2. i < j \/ j < i
      BY <3>1
    <3> QED BY <1>3, <1>4, <2>1, <2>3, <3>2
  <2> QED BY <1>1, <1>2, <2>1, <2>2, <2>3 DEF DispatchRecords, Listed, entries
<1>6. CASE Resolved(a) = Missing /\ \A i \in 1 .. Len(entries) : entries[i].address # a
  BY <1>2, <1>6 DEF Missing, Listed, entries
<1> QED BY <1>1, <1>5, <1>6, FindEntryFinds DEF Resolved, entries

(***************************************************************************)
(* Guest memory: what the host holds                                       *)
(***************************************************************************)
Sections == [key : [backing : {"Owned", "Mem1", "Mem2"}, owner : Nat], size : Nat, view : Nat]
Regions == [base : Nat, size : Nat, offset : Nat, section : DOMAIN sections]

\* ResourcesAccounted and what the loops of initialize keep meanwhile: every section has
\* a size, the views are those of the sections the second loop has passed, and there is
\* room for the regions still to be placed.
FlatInv ==
  /\ TypeOK
  /\ \A i \in DOMAIN sections : sections[i].size > 0
  /\ allocated = Cardinality(Views)
  /\ reserved = IF reservation THEN 1 ELSE 0
  /\ phase \in {"idle", "failed"} /\ ~active => sections = <<>> /\ regions = <<>> /\ ~guestBase /\ ~reservation
  /\ phase = "regions" => /\ Views = {} /\ ~active /\ ~guestBase /\ ~reservation
                          /\ Len(regions) < next /\ Len(table) <= MaxRegions
  /\ phase = "views" => ~active /\ next >= 1 /\ Views = {i \in DOMAIN sections : i < next}
  /\ phase = "succeeded" => active

\* Where the loops can start from.
Starts ==
  /\ table' \in Seq(Requests) /\ next' \in Nat
  /\ \/ phase' \in {"idle", "failed"}
     \/ phase' = "regions" /\ next' = 1 /\ Len(table') <= MaxRegions

LEMMA SequenceTypes ==
  ASSUME TypeOK
  PROVE  /\ sections \in Seq(Sections) /\ Len(sections) \in Nat /\ DOMAIN sections = 1 .. Len(sections)
         /\ \A i \in DOMAIN sections : sections[i] \in Sections
         /\ regions \in Seq(Regions) /\ Len(regions) \in Nat
         /\ table \in Seq(Requests) /\ Len(table) \in Nat /\ \A i \in 1 .. Len(table) : table[i] \in Requests
<1>1. sections \in Seq(Sections) /\ regions \in Seq(Regions) /\ table \in Seq(Requests)
  BY DEF TypeOK, Sections, Regions
<1> HIDE DEF Sections, Regions
<1> QED BY <1>1, ElementOfSeq

LEMMA ViewsFinite ==
  ASSUME TypeOK
  PROVE  IsFiniteSet(Views) /\ Cardinality(Views) \in Nat
<1>1. IsFiniteSet(1 .. Len(sections))
  BY SequenceTypes, FS_Interval
<1>2. Views \subseteq 1 .. Len(sections)
  BY SequenceTypes DEF Views
<1> QED BY <1>1, <1>2, FS_Subset, FS_CardinalityType

Nothing ==
  /\ sections = <<>> /\ regions = <<>>
  /\ guestBase = FALSE /\ reservation = FALSE /\ active = FALSE /\ allocated = 0 /\ reserved = 0
  /\ table \in Seq(Requests) /\ next \in Nat
  /\ \/ phase \in {"idle", "failed"}
     \/ phase = "regions" /\ next = 1 /\ Len(table) <= MaxRegions

LEMMA NothingHeld == Nothing => FlatInv
<1> SUFFICES ASSUME Nothing PROVE FlatInv
  OBVIOUS
<1> USE DEF Nothing
<1>1. DOMAIN sections = {} /\ Len(sections) = 0 /\ Len(regions) = 0
  OBVIOUS
<1>2. Views = {} /\ Cardinality(Views) = 0
  BY <1>1, FS_EmptySet DEF Views
<1>3. TypeOK
  <2> DEFINE S == [key : [backing : {"Owned", "Mem1", "Mem2"}, owner : Nat], size : Nat, view : Nat]
             R == [base : Nat, size : Nat, offset : Nat, section : DOMAIN sections]
  <2> HIDE DEF S, R
  <2>1. sections \in Seq(S) /\ regions \in Seq(R)
    OBVIOUS
  <2>2. Len(sections) <= MaxSections /\ Len(regions) <= MaxRegions
    BY <1>1, TableAssumption
  <2> QED BY <2>1, <2>2 DEF TypeOK, Phases, S, R
<1> QED BY <1>1, <1>2, <1>3 DEF FlatInv

\* shutdown_internal gives everything back.
LEMMA Released ==
  ASSUME FlatInv, Release, Starts
  PROVE  FlatInv' /\ ~active'
<1>1. allocated' = 0
  BY ViewsFinite DEF FlatInv, Release
<1>2. reserved' = 0
  BY DEF FlatInv, Release
<1>3. /\ sections' = <<>> /\ regions' = <<>> /\ guestBase' = FALSE /\ reservation' = FALSE /\ active' = FALSE
      /\ table' \in Seq(Requests) /\ next' \in Nat
      /\ \/ phase' \in {"idle", "failed"}
         \/ phase' = "regions" /\ next' = 1 /\ Len(table') <= MaxRegions
  BY DEF Release, Starts
<1>4. Nothing'
  BY <1>1, <1>2, <1>3 DEF Nothing
<1>5. (Nothing => FlatInv)'
  BY NothingHeld, PTL
<1> QED BY <1>3, <1>4, <1>5

\* When nothing is active, nothing has to be given back.
LEMMA StartedFresh ==
  ASSUME FlatInv, phase \in {"idle", "failed"}, ~active, UNCHANGED flatVars, Starts
  PROVE  FlatInv' /\ ~active'
<1>1. sections = <<>> /\ regions = <<>> /\ ~guestBase /\ ~reservation /\ reserved = 0
  BY DEF FlatInv
<1>2. allocated = 0
  <2>1. Views = {}
    BY <1>1 DEF Views
  <2> QED BY <2>1, FS_EmptySet DEF FlatInv
<1>3. guestBase \in BOOLEAN /\ reservation \in BOOLEAN /\ active \in BOOLEAN
  BY DEF FlatInv, TypeOK
<1>4. /\ sections' = <<>> /\ regions' = <<>> /\ guestBase' = FALSE /\ reservation' = FALSE /\ active' = FALSE
      /\ allocated' = 0 /\ reserved' = 0
  BY <1>1, <1>2, <1>3 DEF flatVars
<1>5. /\ table' \in Seq(Requests) /\ next' \in Nat
      /\ \/ phase' \in {"idle", "failed"}
         \/ phase' = "regions" /\ next' = 1 /\ Len(table') <= MaxRegions
  BY DEF Starts
<1>6. Nothing'
  BY <1>4, <1>5 DEF Nothing
<1>7. (Nothing => FlatInv)'
  BY NothingHeld, PTL
<1> QED BY <1>4, <1>6, <1>7

\* What is active stays.
LEMMA StaysActive ==
  ASSUME FlatInv, active', UNCHANGED <<sections, regions, guestBase, reservation, allocated, reserved>>,
         table' \in Seq(Requests), next' \in Nat, active' \in BOOLEAN, phase' \in {"idle", "failed", "succeeded"}
  PROVE  FlatInv'
<1>1. TypeOK'
  BY DEF FlatInv, TypeOK, Phases
<1>2. Views' = Views
  BY DEF Views
<1> QED BY <1>1, <1>2 DEF FlatInv

LEMMA InitializeKeepsFlat ==
  ASSUME FlatInv, NEW t \in Seq(Requests), Initialize(t)
  PROVE  FlatInv'
<1>1. UNCHANGED flatVars /\ phase = "idle" /\ table' = t /\ next' = 1
  BY DEF Initialize, flatVars
<1>2. CASE active
  <2>1. phase' = "failed"
    BY <1>2 DEF Initialize
  <2>2. active \in BOOLEAN
    BY DEF FlatInv, TypeOK
  <2> QED BY <1>1, <1>2, <2>1, <2>2, StaysActive DEF flatVars
<1>3. CASE ~active
  <2>1. Len(t) \in Nat
    OBVIOUS
  <2>2. Starts
    BY <1>1, <1>3, <2>1, TableAssumption DEF Initialize, Starts
  <2> QED BY <1>1, <1>3, <2>2, StartedFresh
<1> QED BY <1>2, <1>3

\* A failure gives everything back, wherever it happens.
LEMMA FailureKeepsFlat ==
  ASSUME FlatInv, FailInit
  PROVE  FlatInv'
<1>1. Starts
  BY DEF FlatInv, TypeOK, FailInit, Starts
<1> QED BY <1>1, Released DEF FailInit

LEMMA RoundedUp ==
  ASSUME NEW n \in Nat
  PROVE  RoundUpPage(n) \in Nat /\ RoundUpPage(n) >= n
<1>1. -n \in Int /\ Page \in Nat \ {0}
  BY SpaceAssumption
<1>2. (-n) % Page \in 0 .. Page - 1
  BY <1>1
<1> QED BY <1>1, <1>2 DEF RoundUpPage

\* A region that is let through gets a section that is big enough, a new one while there
\* is room or the one that has its key.
LEMMA PlacedSections ==
  ASSUME FlatInv, NEW r \in Requests, r.size # 0, Views = {},
         BackingOffset(r) >= 0, SectionFor(SectionKey(r)) <= MaxSections
  PROVE  /\ BackingOffset(r) \in Nat
         /\ SectionFor(SectionKey(r)) \in DOMAIN Placed(r)
         /\ Placed(r) \in Seq(Sections) /\ Len(Placed(r)) <= MaxSections
         /\ DOMAIN sections \subseteq DOMAIN Placed(r)
         /\ \A i \in DOMAIN Placed(r) : Placed(r)[i].size > 0 /\ Placed(r)[i].view = 0
<1> DEFINE key == SectionKey(r)
           i == SectionFor(key)
           N == Len(sections)
           needed == RoundUpPage(BackingOffset(r) + r.size)
           new == [key |-> key, size |-> needed, view |-> 0]
<1>1. /\ r.base \in Nat /\ r.size \in Nat /\ r.size > 0 /\ r.backing \in {"Owned", "Mem1", "Mem2"}
  <2>1. GuestSpace \in Nat
    BY SpaceAssumption DEF GuestSpace, Segment
  <2> QED BY <2>1 DEF Requests
<1>2. Segment \in Nat \ {0} /\ Half \in Nat
  BY SpaceAssumption DEF Segment
<1>3. BackingOffset(r) \in Nat
  <2>1. r.base % Segment \in Nat
    BY <1>1, <1>2
  <2>2. BackingOffset(r) \in Int
    BY <1>1, <1>2, <2>1 DEF BackingOffset
  <2> QED BY <2>2
<1>4. needed \in Nat /\ needed > 0
  <2>1. BackingOffset(r) + r.size \in Nat /\ BackingOffset(r) + r.size > 0
    BY <1>1, <1>3
  <2> HIDE DEF needed
  <2>2. needed \in Nat /\ needed >= BackingOffset(r) + r.size
    BY <2>1, RoundedUp DEF needed
  <2> QED BY <1>1, <1>3, <2>1, <2>2
<1>5. key \in [backing : {"Owned", "Mem1", "Mem2"}, owner : Nat]
  BY <1>1 DEF SectionKey
<1>6. /\ sections \in Seq(Sections) /\ N \in Nat /\ DOMAIN sections = 1 .. N
      /\ \A j \in 1 .. N : sections[j] \in Sections /\ sections[j].size > 0 /\ sections[j].view = 0
      /\ N <= MaxSections
  BY SequenceTypes DEF FlatInv, Views, TypeOK
<1> HIDE DEF needed, key
<1>7. new \in Sections
  BY <1>4, <1>5 DEF Sections
<1>8. CASE Keyed(key) = {}
  <2>1. i = N + 1 /\ i > N
    BY <1>6, <1>8 DEF SectionFor
  <2>2. Placed(r) = Append(sections, new)
    BY <2>1 DEF Placed, key, needed
  <2> HIDE DEF i, new
  <2>3. /\ Placed(r) \in Seq(Sections) /\ Len(Placed(r)) = N + 1 /\ DOMAIN Placed(r) = 1 .. N + 1
        /\ \A j \in 1 .. N : Placed(r)[j] = sections[j]
        /\ Placed(r)[N + 1] = new
    BY <1>6, <1>7, <2>2
  <2>4. Len(Placed(r)) <= MaxSections
    BY <2>1, <2>3 DEF i, key
  <2>5. ASSUME NEW j \in DOMAIN Placed(r) PROVE Placed(r)[j].size > 0 /\ Placed(r)[j].view = 0
    <3>1. CASE j \in 1 .. N
      BY <1>6, <2>3, <3>1
    <3>2. CASE j = N + 1
      BY <1>4, <2>3, <3>2 DEF new
    <3> QED BY <1>6, <2>3, <3>1, <3>2
  <2>6. i \in DOMAIN Placed(r) /\ DOMAIN sections \subseteq DOMAIN Placed(r)
    BY <1>6, <2>1, <2>3
  <2> QED BY <1>3, <2>3, <2>4, <2>5, <2>6 DEF i, key
<1>9. CASE Keyed(key) # {}
  <2>1. i \in 1 .. N /\ ~(i > N)
    <3>1. i \in Keyed(key)
      BY <1>9 DEF SectionFor
    <3> QED BY <1>6, <3>1 DEF Keyed
  <2> DEFINE size == IF needed > sections[i].size THEN needed ELSE sections[i].size
  <2>2. Placed(r) = [sections EXCEPT ![i] = [sections[i] EXCEPT !.size = size]]
    BY <2>1 DEF Placed, key, needed
  <2> HIDE DEF i
  <2>3. size \in Nat /\ size > 0 /\ sections[i] \in Sections
    BY <1>4, <1>6, <2>1 DEF Sections
  <2> HIDE DEF size
  <2> DEFINE s == [sections[i] EXCEPT !.size = size]
  <2>4. s \in Sections /\ s.size = size /\ s.view = sections[i].view
    BY <2>3 DEF Sections
  <2> HIDE DEF s
  <2>5. /\ Placed(r) \in Seq(Sections) /\ Len(Placed(r)) = N /\ DOMAIN Placed(r) = 1 .. N
        /\ \A j \in 1 .. N : Placed(r)[j] = IF j = i THEN s ELSE sections[j]
    BY <1>6, <2>1, <2>2, <2>4 DEF s
  <2>6. ASSUME NEW j \in DOMAIN Placed(r) PROVE Placed(r)[j].size > 0 /\ Placed(r)[j].view = 0
    BY <1>6, <2>1, <2>3, <2>4, <2>5
  <2>7. Len(Placed(r)) <= MaxSections
    BY <1>6, <2>5
  <2> QED BY <1>3, <1>6, <2>1, <2>5, <2>6, <2>7 DEF i, key
<1> QED BY <1>8, <1>9

LEMMA PlaceRegionKeepsFlat ==
  ASSUME FlatInv, PlaceRegion
  PROVE  FlatInv'
<1> DEFINE r == table[next]
           offset == BackingOffset(r)
           i == SectionFor(SectionKey(r))
<1>1. /\ phase = "regions" /\ next <= Len(table)
      /\ next \in Nat /\ Views = {} /\ ~active /\ ~guestBase /\ ~reservation
      /\ Len(regions) < next /\ Len(table) <= MaxRegions
  BY DEF PlaceRegion, FlatInv, TypeOK
<1>2. Len(regions) \in Nat /\ Len(table) \in Nat /\ MaxRegions \in Nat
  BY SequenceTypes, TableAssumption DEF FlatInv
<1>3. r \in Requests
  BY <1>1, <1>2, SequenceTypes DEF FlatInv
<1> DEFINE refused == \/ r.base + r.size > GuestSpace
                      \/ offset < 0 \/ offset + r.size > GuestSpace
                      \/ i > MaxSections
                      \/ RoundUpPage(offset + r.size) > GuestSpace
           region == [base |-> r.base, size |-> r.size, offset |-> offset, section |-> i]
<1>4. CASE r.size = 0
  <2>1. next' = next + 1 /\ UNCHANGED <<sections, regions, guestBase, reservation, active, table, phase, allocated, reserved>>
    BY <1>4 DEF PlaceRegion
  <2>2. TypeOK'
    <3>1. next' \in Nat
      BY <1>1, <2>1
    <3> QED BY <2>1, <3>1 DEF FlatInv, TypeOK
  <2>3. Views' = Views
    BY <2>1 DEF Views
  <2>4. Len(regions) < next + 1
    BY <1>1, <1>2
  <2> QED BY <1>1, <2>1, <2>2, <2>3, <2>4 DEF FlatInv
<1>5. CASE r.size # 0 /\ refused
  <2>1. FailInit
    BY <1>5 DEF PlaceRegion
  <2> QED BY <2>1, FailureKeepsFlat
<1>6. CASE r.size # 0 /\ ~refused
  <2>1. /\ sections' = Placed(r) /\ regions' = Append(regions, region)
        /\ next' = next + 1 /\ UNCHANGED <<guestBase, reservation, active, table, phase, allocated, reserved>>
    BY <1>6 DEF PlaceRegion
  <2>2. offset \in Int /\ i \in Nat
    <3>1. Segment \in Nat \ {0} /\ Half \in Nat /\ GuestSpace \in Nat
      BY SpaceAssumption DEF Segment, GuestSpace
    <3>2. r.base \in Nat /\ r.base % Segment \in Nat
      BY <1>3, <3>1 DEF Requests
    <3>3. Len(sections) \in Nat /\ DOMAIN sections = 1 .. Len(sections)
      BY SequenceTypes DEF FlatInv
    <3>4. i \in DOMAIN sections \/ i = Len(sections) + 1
      <4>1. CASE Keyed(SectionKey(r)) = {}
        BY <4>1 DEF SectionFor
      <4>2. CASE Keyed(SectionKey(r)) # {}
        <5>1. i \in Keyed(SectionKey(r))
          BY <4>2 DEF SectionFor
        <5> QED BY <5>1 DEF Keyed
      <4> QED BY <4>1, <4>2
    <3>5. i \in Nat
      <4> HIDE DEF i
      <4> QED BY <3>3, <3>4
    <3>6. offset \in Int
      BY <1>3, <3>1, <3>2 DEF BackingOffset, Requests
    <3> QED BY <3>5, <3>6
  <2>3. offset >= 0 /\ i <= MaxSections
    <3> HIDE DEF offset, i
    <3> QED BY <1>6, <2>2, TableAssumption
  <2>4. /\ offset \in Nat /\ i \in DOMAIN sections' /\ sections' \in Seq(Sections) /\ Len(sections') <= MaxSections
        /\ DOMAIN sections \subseteq DOMAIN sections'
        /\ \A j \in DOMAIN sections' : sections'[j].size > 0 /\ sections'[j].view = 0
    BY <1>1, <1>3, <1>6, <2>1, <2>3, PlacedSections
  <2>5. regions \in Seq(Regions)
    BY SequenceTypes DEF FlatInv
  <2>6. regions \in Seq(Regions')
    <3>1. Regions \subseteq Regions'
      BY <2>4 DEF Regions
    <3>2. ASSUME NEW j \in 1 .. Len(regions) PROVE regions[j] \in Regions'
      BY <2>5, <3>1, ElementOfSeq
    <3> HIDE DEF Regions
    <3>3. regions = [j \in 1 .. Len(regions) |-> regions[j]]
      BY <2>5
    <3> QED BY <1>2, <3>2, <3>3
  <2>7. region \in Regions'
    <3>1. r.base \in Nat /\ r.size \in Nat
      BY <1>3, SpaceAssumption DEF Requests, GuestSpace, Segment
    <3> HIDE DEF r, offset, i
    <3> QED BY <2>4, <3>1 DEF Regions
  <2> HIDE DEF region
  <2>8. regions' \in Seq(Regions') /\ Len(regions') = Len(regions) + 1
    <3> DEFINE R == Regions'
    <3> HIDE DEF R
    <3>1. Append(regions, region) \in Seq(R) /\ Len(Append(regions, region)) = Len(regions) + 1
      BY <2>6, <2>7 DEF R
    <3> QED BY <2>1, <3>1 DEF R
  <2>9. Len(regions') <= MaxRegions /\ Len(regions') < next'
    BY <1>1, <1>2, <2>1, <2>8
  <2>10. TypeOK'
    <3>1. next' \in Nat
      BY <1>1, <2>1
    <3> QED BY <2>1, <2>4, <2>8, <2>9, <3>1 DEF TypeOK, FlatInv, Sections, Regions
  <2>11. Views' = {}
    BY <2>4 DEF Views
  <2> QED BY <1>1, <2>1, <2>4, <2>9, <2>10, <2>11 DEF FlatInv
<1> QED BY <1>4, <1>5, <1>6

LEMMA ReserveWindowKeepsFlat ==
  ASSUME FlatInv, ReserveWindow
  PROVE  FlatInv'
<1>1. CASE FailInit
  BY <1>1, FailureKeepsFlat
<1>2. CASE /\ guestBase' = TRUE /\ reservation' = TRUE /\ reserved' = reserved + 1
           /\ phase' = "views" /\ next' = 1
           /\ UNCHANGED <<sections, regions, active, table, allocated>>
  <2>1. phase = "regions" /\ Views = {} /\ ~active /\ reserved = 0
    BY DEF ReserveWindow, FlatInv
  <2>2. TypeOK'
    BY <1>2, <2>1 DEF FlatInv, TypeOK, Phases
  <2>3. Views' = {} /\ Cardinality(Views') = Cardinality(Views)
    BY <1>2, <2>1 DEF Views
  <2>4. {i \in DOMAIN sections : i < 1} = {}
    BY SequenceTypes DEF FlatInv
  <2> QED BY <1>2, <2>1, <2>2, <2>3, <2>4 DEF FlatInv
<1> QED BY <1>1, <1>2 DEF ReserveWindow

LEMMA AllocateViewKeepsFlat ==
  ASSUME FlatInv, AllocateView
  PROVE  FlatInv'
<1>1. CASE FailInit
  BY <1>1, FailureKeepsFlat
<1>2. CASE /\ sections' = [sections EXCEPT ![next].view = sections[next].size]
           /\ allocated' = allocated + 1 /\ next' = next + 1
           /\ UNCHANGED <<regions, guestBase, reservation, active, table, phase, reserved>>
  <2>1. /\ phase = "views" /\ next <= Len(sections) /\ next >= 1 /\ next \in Nat /\ ~active
        /\ Views = {i \in DOMAIN sections : i < next} /\ allocated = Cardinality(Views) /\ allocated \in Nat
    BY DEF AllocateView, FlatInv, TypeOK
  <2>2. /\ sections \in Seq(Sections) /\ Len(sections) \in Nat /\ DOMAIN sections = 1 .. Len(sections)
        /\ \A i \in DOMAIN sections : sections[i] \in Sections /\ sections[i].size > 0
    BY SequenceTypes DEF FlatInv
  <2> DEFINE s == [sections[next] EXCEPT !.view = sections[next].size]
  <2>3. next \in 1 .. Len(sections) /\ sections' = [sections EXCEPT ![next] = s]
    BY <1>2, <2>1, <2>2
  <2>4. s \in Sections /\ s.size = sections[next].size /\ s.view = sections[next].size /\ s.view # 0
    <3> DEFINE t == sections[next]
    <3>1. t \in Sections /\ t.size > 0
      BY <2>2, <2>3
    <3>2. t.size \in Nat /\ t.size # 0
      BY <3>1 DEF Sections
    <3> HIDE DEF t
    <3> QED BY <3>1, <3>2 DEF Sections, t
  <2> HIDE DEF s
  <2>5. /\ sections' \in Seq(Sections) /\ Len(sections') = Len(sections) /\ DOMAIN sections' = DOMAIN sections
        /\ \A i \in DOMAIN sections : sections'[i] = IF i = next THEN s ELSE sections[i]
    BY <2>2, <2>3, <2>4
  <2>6. Views' = Views \cup {next} /\ next \notin Views
    BY <2>1, <2>2, <2>3, <2>4, <2>5 DEF Views
  <2>7. Views' = {i \in DOMAIN sections' : i < next + 1}
    BY <2>1, <2>2, <2>3, <2>5, <2>6
  <2>8. Cardinality(Views') = Cardinality(Views) + 1
    BY <2>6, ViewsFinite, FS_AddElement DEF FlatInv
  <2>9. TypeOK'
    <3>1. next' \in Nat /\ allocated' \in Nat
      BY <1>2, <2>1
    <3> QED BY <1>2, <2>5, <3>1 DEF FlatInv, TypeOK, Sections
  <2>10. \A i \in DOMAIN sections' : sections'[i].size > 0
    BY <2>2, <2>3, <2>4, <2>5
  <2>11. next' >= 1
    BY <1>2, <2>1
  <2> QED BY <1>2, <2>1, <2>7, <2>8, <2>9, <2>10, <2>11 DEF FlatInv
<1> QED BY <1>1, <1>2 DEF AllocateView

LEMMA StepsKeepFlat ==
  ASSUME FlatInv, InitializeStep
  PROVE  FlatInv'
<1>1. CASE Activate
  <2>1. table \in Seq(Requests) /\ next \in Nat
    BY DEF FlatInv, TypeOK
  <2> QED BY <1>1, <2>1, StaysActive DEF Activate
<1> QED BY <1>1, PlaceRegionKeepsFlat, ReserveWindowKeepsFlat, AllocateViewKeepsFlat DEF InitializeStep

(***************************************************************************)
(* Start and stop                                                          *)
(***************************************************************************)
Stages == {"smoke", "api_probe", "memory_probe", "services", "memory", "scheduler", "worker", "handoff",
           "on_worker", "inspect", "data", "execution", "guest", "waiting", "stopped", "aborted"}

\* Guest memory is up, and nothing is bringing it up; and the same of down.
Up == memoryReady /\ active /\ phase = "idle" /\ Len(bound) = Len(config)
Down == ~memoryReady /\ ~active /\ phase = "idle" /\ bound = <<>>
NotReady == ~memoryReady /\ bound = <<>>

NoContexts == contexts = {} /\ current = "none" /\ scheduler = "none" /\ worker = "none"
OnScheduler == current = "scheduler" /\ scheduler = "scheduler" /\ worker = "none"
GuestContexts == contexts \subseteq GuestHosts /\ "scheduler" \in contexts

\* Of every stage, what is held in it.
StageInv ==
  /\ stage \in Stages /\ config \in Seq(Configured)
  /\ stage \in {"smoke", "api_probe"} => NotReady /\ NoContexts
  /\ stage = "memory_probe" => (NotReady \/ Up) /\ NoContexts
  /\ stage = "services" => Down /\ NoContexts
  /\ stage = "memory" => NotReady /\ NoContexts
  /\ stage = "scheduler" => Up /\ NoContexts
  /\ stage = "worker" => Up /\ contexts = {"scheduler"} /\ OnScheduler
  /\ stage \in {"handoff", "on_worker"} => /\ Up /\ contexts = {"scheduler", "worker"}
                                           /\ scheduler = "scheduler" /\ worker = "worker"
  /\ stage = "handoff" => current = "scheduler"
  /\ stage = "on_worker" => current = "worker"
  /\ stage \in {"inspect", "data", "execution"} => Up /\ contexts = {"scheduler"} /\ OnScheduler
  /\ stage = "guest" => Up /\ GuestContexts /\ current \in contexts /\ scheduler = "scheduler" /\ worker = "none"
  /\ stage = "waiting" => (Up /\ GuestContexts /\ OnScheduler) \/ (Down /\ NoContexts)
  /\ stage = "stopped" => Down /\ contexts \subseteq Fibers /\ current = "none"

BootInv == FlatInv /\ StageInv

LEMMA WiiDefaultsConfigured == WiiDefaults \in Seq(Configured)
<1>1. Half \in Nat \ {0} /\ Mem1Size \in Nat /\ Mem2Size \in Nat /\ LockedSize \in Nat
  BY SpaceAssumption, SliceAssumption DEF Segment
<1>2. /\ 0 \in 0 .. GuestSpace - 1 /\ Cached \in 0 .. GuestSpace - 1 /\ Uncached \in 0 .. GuestSpace - 1
      /\ Half \in 0 .. GuestSpace - 1 /\ Cached + Half \in 0 .. GuestSpace - 1
      /\ Uncached + Half \in 0 .. GuestSpace - 1 /\ 7 * Segment \in 0 .. GuestSpace - 1
  BY <1>1 DEF GuestSpace, Cached, Uncached, Segment
<1>3. ASSUME NEW b \in 0 .. GuestSpace - 1, NEW s \in Nat
      PROVE  [base |-> b, size |-> s] \in Configured
  BY DEF Configured
<1> HIDE DEF Configured
<1>4. /\ [base |-> 0, size |-> Mem1Size] \in Configured
      /\ [base |-> Cached, size |-> Mem1Size] \in Configured
      /\ [base |-> Uncached, size |-> Mem1Size] \in Configured
      /\ [base |-> Half, size |-> Mem2Size] \in Configured
      /\ [base |-> Cached + Half, size |-> Mem2Size] \in Configured
      /\ [base |-> Uncached + Half, size |-> Mem2Size] \in Configured
      /\ [base |-> 7 * Segment, size |-> LockedSize] \in Configured
  BY <1>1, <1>2, <1>3
<1> QED BY <1>4 DEF WiiDefaults

LEMMA RequestsTyped ==
  ASSUME NEW c \in Seq(Configured)
  PROVE  RequestsFor(c) \in Seq(Requests) /\ Len(RequestsFor(c)) = Len(c) /\ Len(c) \in Nat
<1>1. Len(c) \in Nat /\ DOMAIN c = 1 .. Len(c) /\ \A i \in 1 .. Len(c) : c[i] \in Configured
  BY ElementOfSeq
<1>2. \A i \in 1 .. Len(c) : Request(c[i]) \in Requests
  BY <1>1 DEF Request, Requests, Configured, Classified
<1>3. RequestsFor(c) = [i \in 1 .. Len(c) |-> Request(c[i])]
  BY <1>1 DEF RequestsFor
<1> HIDE DEF Requests
<1> QED BY <1>1, <1>2, <1>3

\* The host's part of the state is as it was.
LEMMA FlatUnchanged ==
  ASSUME FlatInv, UNCHANGED guestVars
  PROVE  FlatInv'
<1>1. TypeOK' /\ Views' = Views
  BY DEF guestVars, FlatInv, TypeOK, Views
<1> QED BY <1>1 DEF guestVars, FlatInv

\* Memory::Reset, when the memory is up or nothing is.
LEMMA ResetKeepsFlat ==
  ASSUME FlatInv, phase = "idle", Reset, Starts
  PROVE  FlatInv' /\ ~active' /\ NotReady'
<1>1. NotReady'
  BY DEF Reset, NotReady
<1>2. CASE active
  BY <1>1, <1>2, Released DEF Reset
<1>3. CASE ~active
  <2>1. UNCHANGED flatVars
    BY <1>3 DEF Reset, flatVars
  <2> QED BY <1>1, <1>3, <2>1, StartedFresh
<1> QED BY <1>2, <1>3

\* The same where the loops stay as they are.
LEMMA ResetIdle ==
  ASSUME FlatInv, phase = "idle", Reset, UNCHANGED loopVars
  PROVE  FlatInv' /\ Down'
<1>1. Starts
  BY DEF FlatInv, TypeOK, Starts, loopVars
<1>2. phase' = "idle"
  BY DEF loopVars
<1> QED BY <1>1, <1>2, ResetKeepsFlat DEF Down, NotReady

LEMMA BootInitially == ExecInit => BootInv
<1> SUFFICES ASSUME ExecInit PROVE BootInv
  OBVIOUS
<1>1. Nothing
  <2>1. table = <<>> /\ next = 1 /\ phase = "idle"
    BY DEF ExecInit, BootInit, Init
  <2> QED BY <2>1 DEF ExecInit, BootInit, Init, Nothing
<1>2. FlatInv
  BY <1>1, NothingHeld
<1>3. config \in Seq(Configured)
  BY DEF ExecInit, BootInit
<1>4. StageInv
  BY <1>3 DEF ExecInit, BootInit, Init, SliceInit, StageInv, Stages, NotReady, Down, NoContexts
<1> QED BY <1>2, <1>4 DEF BootInv

\* Memory is brought up and down again, in the probes and for good.
LEMMA MemoryStepsKeepBoot ==
  ASSUME BootInv
  PROVE  /\ ProbeInitialize => BootInv'
         /\ (\E c \in Configurations : MemoryInitialize(c)) => BootInv'
         /\ Loop => BootInv'
         /\ ProbeDone => BootInv'
         /\ MemoryBound => BootInv'
         /\ MemoryProbeDone => BootInv'
<1> USE DEF BootInv
<1>0. table \in Seq(Requests) /\ next \in Nat /\ active \in BOOLEAN /\ MaxRegions \in Nat
  BY TableAssumption DEF FlatInv, TypeOK
<1>1. ASSUME ProbeInitialize PROVE BootInv'
  <2>1. FlatInv'
    BY <1>1, InitializeKeepsFlat, ConfigurationsAssumption DEF ProbeInitialize
  <2>2. stage \in {"smoke", "api_probe"} /\ UNCHANGED <<memoryVars, stage, config, contextVars>>
    BY <1>1 DEF ProbeInitialize
  <2>3. StageInv'
    BY <2>2 DEF StageInv, NotReady, NoContexts, memoryVars, contextVars
  <2> QED BY <2>1, <2>3
<1>2. ASSUME NEW c \in Configurations, MemoryInitialize(c) PROVE BootInv'
  <2>1. /\ stage \in {"memory_probe", "memory"} /\ phase = "idle" /\ ~memoryReady /\ Reset
        /\ config' = c /\ table' = RequestsFor(c) /\ next' = 1
        /\ phase' = (IF Len(c) > MaxRegions THEN "failed" ELSE "regions") /\ UNCHANGED <<stage, contextVars>>
    BY <1>2 DEF MemoryInitialize
  <2>2. /\ c \in Seq(Configured) /\ Len(c) \in Nat /\ RequestsFor(c) \in Seq(Requests)
        /\ Len(RequestsFor(c)) = Len(c)
    BY <1>2, ConfigurationsAssumption, RequestsTyped
  <2>3. Starts
    BY <1>0, <2>1, <2>2 DEF Starts
  <2>4. FlatInv' /\ NotReady'
    BY <2>1, <2>3, ResetKeepsFlat
  <2>5. StageInv'
    BY <2>1, <2>2, <2>4 DEF StageInv, NoContexts, contextVars
  <2> QED BY <2>4, <2>5
<1>3. ASSUME Loop PROVE BootInv'
  <2>1. InitializeStep /\ UNCHANGED <<memoryVars, stage, config, contextVars>>
    BY <1>3 DEF Loop
  <2>2. phase \in {"regions", "views"}
    BY <2>1 DEF InitializeStep, PlaceRegion, ReserveWindow, AllocateView, Activate
  <2>3. ~Up /\ ~Down
    BY <2>2 DEF Up, Down
  <2>4. StageInv'
    BY <2>1, <2>3 DEF StageInv, NotReady, NoContexts, memoryVars, contextVars
  <2> QED BY <2>1, <2>4, StepsKeepFlat
<1>4. ASSUME ProbeDone PROVE BootInv'
  <2>1. /\ stage \in {"smoke", "api_probe"} /\ phase \in {"succeeded", "failed"} /\ phase' = "idle"
        /\ UNCHANGED <<table, next, memoryVars, config, contextVars>>
    BY <1>4 DEF ProbeDone
  <2>2. Starts
    BY <1>0, <2>1 DEF Starts
  <2>3. CASE stage' = "aborted" /\ phase = "failed" /\ UNCHANGED flatVars
    <3>1. FlatInv'
      BY <1>0, <2>1, <2>2, <2>3, StaysActive, StartedFresh DEF flatVars
    <3>2. StageInv'
      BY <2>1, <2>3 DEF StageInv, Stages, contextVars
    <3> QED BY <3>1, <3>2
  <2>4. CASE stage' = After[stage] /\ Release
    <3>1. FlatInv' /\ ~active'
      BY <2>2, <2>4, Released
    <3>2. stage' \in {"api_probe", "memory_probe"}
      BY <2>1, <2>4 DEF After
    <3>3. StageInv'
      BY <2>1, <3>2 DEF StageInv, Stages, NotReady, NoContexts, memoryVars, contextVars
    <3> QED BY <3>1, <3>3
  <2> QED BY <1>4, <2>3, <2>4 DEF ProbeDone
<1>5. ASSUME MemoryBound PROVE BootInv'
  <2>1. /\ stage \in {"memory_probe", "memory"} /\ phase \in {"succeeded", "failed"} /\ phase' = "idle"
        /\ UNCHANGED <<flatVars, table, next, config, contextVars>>
    BY <1>5 DEF MemoryBound
  <2>2. Starts
    BY <1>0, <2>1 DEF Starts
  <2>3. FlatInv'
    <3>1. CASE active
      BY <1>0, <2>1, <3>1, StaysActive DEF flatVars
    <3>2. CASE ~active
      <4>1. phase = "failed"
        BY <2>1, <3>2 DEF FlatInv
      <4> QED BY <2>1, <2>2, <3>2, <4>1, StartedFresh
    <3> QED BY <3>1, <3>2
  <2>4. CASE stage' = "aborted"
    <3>1. StageInv'
      BY <2>1, <2>4 DEF StageInv, Stages, contextVars
    <3> QED BY <2>3, <3>1
  <2>5. CASE phase # "failed" /\ BindRegions(config) /\ stage' = IF stage = "memory" THEN After[stage] ELSE stage
    <3>1. active'
      BY <2>1, <2>5 DEF FlatInv, flatVars
    <3>2. Len(bound') = Len(config') /\ memoryReady'
      <4>1. Len(config) \in Nat /\ DOMAIN config = 1 .. Len(config)
        BY DEF StageInv
      <4>2. DOMAIN bound' = DOMAIN config
        BY <2>5 DEF BindRegions
      <4>3. bound' = [i \in 1 .. Len(config) |-> bound'[i]]
        BY <2>5, <4>1 DEF BindRegions
      <4>4. Len(bound') = Len(config)
        BY <4>1, <4>2, <4>3
      <4> QED BY <2>1, <2>5, <4>4 DEF BindRegions
    <3>3. Up'
      BY <2>1, <3>1, <3>2 DEF Up
    <3>4. stage' \in {"memory_probe", "scheduler"}
      BY <2>1, <2>5 DEF After
    <3>5. StageInv'
      BY <2>1, <3>3, <3>4 DEF StageInv, Stages, NoContexts, contextVars
    <3> QED BY <2>3, <3>5
  <2> QED BY <1>5, <2>4, <2>5 DEF MemoryBound
<1>6. ASSUME MemoryProbeDone PROVE BootInv'
  <2>1. stage = "memory_probe" /\ memoryReady /\ Reset /\ stage' = "services" /\ UNCHANGED <<loopVars, config, contextVars>>
    BY <1>6 DEF MemoryProbeDone, After
  <2>2. phase = "idle"
    BY <2>1 DEF StageInv, NotReady, Up
  <2>3. FlatInv' /\ Down'
    BY <2>1, <2>2, ResetIdle
  <2>4. StageInv'
    BY <2>1, <2>3 DEF StageInv, Stages, NoContexts, contextVars
  <2> QED BY <2>3, <2>4
<1> QED BY <1>1, <1>2, <1>3, <1>4, <1>5, <1>6

\* runtime_bootstrap::start takes one step after another, and takes the earlier ones back
\* when a later one fails; stop takes back what is left.
LEMMA StartStepsKeepBoot ==
  ASSUME BootInv
  PROVE  /\ Services => BootInv'
         /\ SchedulerRefused => BootInv'
         /\ SchedulerReady => BootInv'
         /\ WorkerRefused => BootInv'
         /\ WorkerReady => BootInv'
         /\ SwitchToWorker => BootInv'
         /\ WorkerYields => BootInv'
         /\ DestroyWorker => BootInv'
         /\ Inspect => BootInv'
         /\ InitializeData => BootInv'
         /\ EnterProduct => BootInv'
         /\ ProductReturns /\ current = "scheduler" => BootInv'
         /\ Stop => BootInv'
<1> USE DEF BootInv
<1>0. "scheduler" \in GuestHosts /\ "worker" \notin GuestHosts /\ GuestHosts \ {"scheduler"} = Fibers
  BY HostsAssumption DEF GuestHosts
<1>1. ASSUME Services PROVE BootInv'
  <2>1. UNCHANGED <<guestVars, memoryVars, config, contextVars>>
    BY <1>1 DEF Services
  <2>2. StageInv'
    BY <1>1, <2>1 DEF Services, StageInv, Stages, NotReady, Down, Up, NoContexts, guestVars, memoryVars, contextVars
  <2> QED BY <2>1, <2>2, FlatUnchanged
<1>2. ASSUME SchedulerRefused PROVE BootInv'
  <2>1. stage = "scheduler" /\ Reset /\ stage' = "waiting" /\ UNCHANGED <<loopVars, config, contextVars>>
    BY <1>2 DEF SchedulerRefused
  <2>2. phase = "idle"
    BY <2>1 DEF StageInv, Up
  <2>3. FlatInv' /\ Down'
    BY <2>1, <2>2, ResetIdle
  <2>4. StageInv'
    BY <2>1, <2>3 DEF StageInv, Stages, NoContexts, contextVars
  <2> QED BY <2>3, <2>4
<1>3. ASSUME SchedulerReady PROVE BootInv'
  <2>1. UNCHANGED <<guestVars, memoryVars, config, worker>>
    BY <1>3 DEF SchedulerReady
  <2>2. StageInv'
    BY <1>3, <2>1 DEF SchedulerReady, StageInv, Stages, Up, NoContexts, OnScheduler, guestVars, memoryVars
  <2> QED BY <2>1, <2>2, FlatUnchanged
<1>4. ASSUME WorkerRefused PROVE BootInv'
  <2>1. /\ stage = "worker" /\ Reset /\ stage' = "waiting" /\ UNCHANGED <<loopVars, config, worker>>
        /\ contexts' = contexts \ {scheduler} /\ current' = "none" /\ scheduler' = "none"
    BY <1>4 DEF WorkerRefused
  <2>2. phase = "idle" /\ contexts = {"scheduler"} /\ scheduler = "scheduler" /\ worker = "none" /\ config \in Seq(Configured)
    BY <2>1 DEF StageInv, Up, OnScheduler
  <2>3. FlatInv' /\ Down'
    BY <2>1, <2>2, ResetIdle
  <2>4. NoContexts'
    BY <2>1, <2>2 DEF NoContexts
  <2>5. StageInv'
    BY <2>1, <2>2, <2>3, <2>4 DEF StageInv, Stages
  <2> QED BY <2>3, <2>5
<1>5. ASSUME WorkerReady PROVE BootInv'
  <2>1. UNCHANGED <<guestVars, memoryVars, config, current, scheduler>>
    BY <1>5 DEF WorkerReady
  <2>2. StageInv'
    BY <1>5, <2>1 DEF WorkerReady, StageInv, Stages, Up, OnScheduler, guestVars, memoryVars
  <2> QED BY <2>1, <2>2, FlatUnchanged
<1>6. ASSUME SwitchToWorker PROVE BootInv'
  <2>1. UNCHANGED <<guestVars, memoryVars, config, contexts, scheduler, worker>>
    BY <1>6 DEF SwitchToWorker
  <2>2. StageInv'
    BY <1>6, <2>1 DEF SwitchToWorker, StageInv, Stages, Up, guestVars, memoryVars
  <2> QED BY <2>1, <2>2, FlatUnchanged
<1>7. ASSUME WorkerYields PROVE BootInv'
  <2>1. UNCHANGED <<guestVars, memoryVars, config, contexts, scheduler, worker>>
    BY <1>7 DEF WorkerYields
  <2>2. StageInv'
    BY <1>7, <2>1 DEF WorkerYields, StageInv, Stages, Up, guestVars, memoryVars
  <2> QED BY <2>1, <2>2, FlatUnchanged
<1>8. ASSUME DestroyWorker PROVE BootInv'
  <2>1. /\ stage = "handoff" /\ stage' = "inspect" /\ UNCHANGED <<guestVars, memoryVars, config, current, scheduler>>
        /\ contexts' = contexts \ ({worker} \ {current}) /\ worker' = "none"
    BY <1>8 DEF DestroyWorker
  <2>2. contexts = {"scheduler", "worker"} /\ worker = "worker" /\ current = "scheduler" /\ scheduler = "scheduler" /\ Up
    BY <2>1 DEF StageInv
  <2>3. contexts' = {"scheduler"}
    BY <2>1, <2>2
  <2>4. StageInv'
    BY <2>1, <2>2, <2>3 DEF StageInv, Stages, Up, OnScheduler, guestVars, memoryVars
  <2> QED BY <2>1, <2>4, FlatUnchanged
<1>9. ASSUME Inspect \/ InitializeData PROVE BootInv'
  <2>1. /\ UNCHANGED <<guestVars, memoryVars, config, contextVars>>
        /\ stage \in {"inspect", "data"} /\ stage' \in {"data", "execution", "waiting"}
    BY <1>9 DEF Inspect, InitializeData
  <2>2. StageInv'
    BY <1>0, <2>1 DEF StageInv, Stages, Up, OnScheduler, GuestContexts, guestVars, memoryVars, contextVars
  <2> QED BY <2>1, <2>2, FlatUnchanged
<1>10. ASSUME EnterProduct PROVE BootInv'
  <2>1. /\ UNCHANGED <<guestVars, memoryVars, config, contextVars>>
        /\ stage = "execution" /\ stage' \in {"guest", "waiting"}
    BY <1>10 DEF EnterProduct
  <2>2. StageInv'
    BY <1>0, <2>1 DEF StageInv, Stages, Up, OnScheduler, GuestContexts, guestVars, memoryVars, contextVars
  <2> QED BY <2>1, <2>2, FlatUnchanged
<1>11. ASSUME ProductReturns, current = "scheduler" PROVE BootInv'
  <2>1. /\ UNCHANGED <<guestVars, memoryVars, config, contextVars>>
        /\ stage = "guest" /\ stage' = "waiting"
    BY <1>11 DEF ProductReturns
  <2>2. StageInv'
    BY <1>11, <2>1 DEF StageInv, Stages, Up, OnScheduler, GuestContexts, guestVars, memoryVars, contextVars
  <2> QED BY <2>1, <2>2, FlatUnchanged
<1>12. ASSUME Stop PROVE BootInv'
  <2>1. /\ stage = "waiting" /\ contexts' = contexts \ {worker, scheduler}
        /\ current' = (IF current = scheduler THEN "none" ELSE current)
        /\ stage' = "stopped" /\ UNCHANGED <<loopVars, config>>
    BY <1>12 DEF Stop
  <2>2. (Up /\ GuestContexts /\ OnScheduler) \/ (Down /\ NoContexts)
    BY <2>1 DEF StageInv
  <2>3. FlatInv' /\ Down'
    <3>1. CASE memoryReady
      BY <1>12, <2>1, <2>2, <3>1, ResetIdle DEF Stop, Up, Down
    <3>2. CASE ~memoryReady
      <4>1. Down /\ UNCHANGED <<memoryVars, flatVars, loopVars>>
        BY <1>12, <2>2, <3>2 DEF Stop, Up
      <4> QED BY <4>1, FlatUnchanged DEF Down, memoryVars, flatVars, loopVars, guestVars
    <3> QED BY <3>1, <3>2
  <2>4. contexts' \subseteq Fibers /\ current' = "none"
    BY <1>0, <2>1, <2>2 DEF GuestContexts, OnScheduler, NoContexts
  <2>5. config' \in Seq(Configured)
    BY <2>1 DEF StageInv
  <2>6. StageInv'
    BY <2>1, <2>3, <2>4, <2>5 DEF StageInv, Stages
  <2> QED BY <2>3, <2>6
<1> QED BY <1>1, <1>2, <1>3, <1>4, <1>5, <1>6, <1>7, <1>8, <1>9, <1>10, <1>11, <1>12

\* Guest threads come and switch on the scheduler's memory.
LEMMA GuestStepKeepsBoot ==
  ASSUME BootInv, stage = "guest", UNCHANGED <<guestVars, memoryVars, stage, config, scheduler, worker>>,
         contexts \subseteq contexts', contexts' \subseteq GuestHosts, current' \in contexts'
  PROVE  BootInv'
<1>1. StageInv'
  BY DEF BootInv, StageInv, Up, GuestContexts, guestVars, memoryVars
<1> QED BY <1>1, FlatUnchanged DEF BootInv

LEMMA AbortKeepsBoot ==
  ASSUME BootInv, NEW kind, NEW a, Abort(kind, a), UNCHANGED <<guestVars, config>>
  PROVE  BootInv'
<1>1. StageInv'
  BY DEF BootInv, StageInv, Stages, Abort
<1> QED BY <1>1, FlatUnchanged DEF BootInv

LEMMA BlockKeepsBoot ==
  ASSUME BootInv, NEW kind, NEW a, Block(kind, a)
  PROVE  BootInv'
BY AbortKeepsBoot DEF Block

LEMMA BootUnchanged ==
  ASSUME BootInv, UNCHANGED bootVars
  PROVE  BootInv'
<1>1. UNCHANGED <<guestVars, memoryVars, stage, config, contextVars>>
  BY DEF bootVars
<1>2. StageInv'
  BY <1>1 DEF BootInv, StageInv, Up, Down, NotReady, NoContexts, OnScheduler, GuestContexts,
              guestVars, memoryVars, contextVars
<1> QED BY <1>1, <1>2, FlatUnchanged DEF BootInv

LEMMA BootStep == BootInv /\ [Next]_vars => BootInv'
<1> SUFFICES ASSUME BootInv, [Next]_vars PROVE BootInv'
  OBVIOUS
<1>1. CASE StartProgram
  BY <1>1, MemoryStepsKeepBoot, StartStepsKeepBoot DEF StartProgram, BootNext
<1>2. ASSUME NEW a \in Called, InvokeDirect(a) \/ InvokeIndirect(a) PROVE BootInv'
  BY <1>2, BlockKeepsBoot, BootUnchanged DEF InvokeDirect, InvokeIndirect, Push
<1>3. ASSUME NEW r \in Guardable, Work(r) PROVE BootInv'
  BY <1>3, BootUnchanged DEF Work
<1>4. CASE Return
  BY <1>4, BlockKeepsBoot, BootUnchanged DEF Return
<1>5. CASE ReturnFromStart
  BY <1>5, StartStepsKeepBoot DEF ReturnFromStart
<1>6. ASSUME NEW h \in Fibers, CreateFiber(h) PROVE BootInv'
  <2>1. stage = "guest" /\ contexts' = contexts \cup {h} /\ UNCHANGED <<guestVars, memoryVars, stage, config, current, scheduler, worker>>
    BY <1>6 DEF CreateFiber, InGuest
  <2>2. contexts \subseteq GuestHosts /\ current \in contexts
    BY <2>1 DEF BootInv, StageInv, GuestContexts
  <2> QED BY <2>1, <2>2, GuestStepKeepsBoot DEF GuestHosts
<1>7. ASSUME NEW h \in GuestHosts, EnterFiber(h) \/ \E exits \in BOOLEAN : SwitchThread(h, exits) PROVE BootInv'
  <2>1. CASE /\ stage = "guest" /\ current' = h /\ h \in Switchable
             /\ UNCHANGED <<guestVars, memoryVars, stage, config, contexts, scheduler, worker>>
    <3>1. contexts \subseteq GuestHosts
      BY <2>1 DEF BootInv, StageInv, GuestContexts
    <3> QED BY <2>1, <3>1, GuestStepKeepsBoot DEF Switchable
  <2>2. CASE \E kind, a : Abort(kind, a) /\ UNCHANGED <<guestVars, config>>
    BY <2>2, AbortKeepsBoot
  <2> QED BY <1>7, <2>1, <2>2 DEF EnterFiber, SwitchThread, InGuest
<1>8. CASE PublishFst \/ DvdInitAlone
  BY <1>8, BootUnchanged DEF PublishFst, DvdInitAlone
<1>9. CASE DvdInitCallsFsInit
  BY <1>9, AbortKeepsBoot, BootUnchanged DEF DvdInitCallsFsInit, Push
<1>10. CASE UNCHANGED vars
  BY <1>10, BootUnchanged DEF vars
<1> QED BY <1>1, <1>2, <1>3, <1>4, <1>5, <1>6, <1>7, <1>8, <1>9, <1>10 DEF Next, GuestHosts

\* From the probes to the end of main: what the host has allocated, what is published as
\* guest memory and what the stage says about both always fit each other.
THEOREM BootInvariant == Spec => []BootInv
BY BootInitially, BootStep, PTL DEF Spec

\* Every host allocation and every reservation that is held is one the globals name, so
\* whatever failed before, shutdown_internal gives all of it back (horizon_guest_flat.cpp).
THEOREM ResourcesHeldAreNamed == Spec => []ResourcesAccounted
<1>1. BootInv => ResourcesAccounted
  BY DEF BootInv, FlatInv, ResourcesAccounted
<1> QED BY <1>1, BootInvariant, PTL

\* When start gives up it has taken back whatever it had done, and after stop nothing is
\* held (runtime_bootstrap.cpp).
THEOREM StartsWhollyOrNot == Spec => []AllOrNothing
<1>1. BootInv => AllOrNothing
  <2> SUFFICES ASSUME BootInv PROVE AllOrNothing
    OBVIOUS
  <2>1. ASSUME Down PROVE MemoryDown
    <3>1. sections = <<>> /\ ~reservation
      BY <2>1 DEF BootInv, FlatInv, Down
    <3>2. allocated = 0
      <4>1. Views = {}
        BY <3>1 DEF Views
      <4> QED BY <4>1, FS_EmptySet DEF BootInv, FlatInv
    <3>3. reserved = 0
      BY <3>1 DEF BootInv, FlatInv
    <3> QED BY <2>1, <3>2, <3>3 DEF Down, MemoryDown
  <2>2. Up => MemoryUp
    BY DEF Up, MemoryUp
  <2>3. "worker" \notin GuestHosts /\ Fibers \cap {"scheduler", "worker"} = {}
    BY HostsAssumption DEF GuestHosts
  <2>4. ASSUME stage = "waiting"
        PROVE  \/ MemoryUp /\ OwnContexts = {"scheduler"} /\ current = "scheduler" /\ scheduler = "scheduler" /\ worker = "none"
               \/ MemoryDown /\ contexts = {} /\ current = "none" /\ scheduler = "none" /\ worker = "none"
    BY <2>1, <2>2, <2>3, <2>4 DEF BootInv, StageInv, GuestContexts, OnScheduler, NoContexts, OwnContexts
  <2>5. ASSUME stage = "stopped" PROVE MemoryDown /\ OwnContexts = {} /\ current = "none"
    BY <2>1, <2>3, <2>5 DEF BootInv, StageInv, OwnContexts
  <2> QED BY <2>4, <2>5 DEF AllOrNothing
<1> QED BY <1>1, BootInvariant, PTL

(***************************************************************************)
(* Guest memory: what an address reaches                                   *)
(***************************************************************************)
\* A region, as a request or placed, covers an address.
Covering(g, a) == g.base <= a /\ a < g.base + g.size

\* The region g is what initialize makes of the request r with these sections.
PlacedIn(sects, g, r) ==
  /\ g.base = r.base /\ g.size = r.size /\ g.size # 0
  /\ g.offset = BackingOffset(r) /\ sects[g.section].key = SectionKey(r)
  /\ g.offset + g.size <= sects[g.section].size

\* The requests before the n-th have their regions.
PlacedBefore(n) ==
  \A m \in DOMAIN table : m < n =>
    table[m].size = 0 \/ \E j \in DOMAIN regions : PlacedIn(sections, regions[j], table[m])

\* A section for every key, large enough for its regions and allocated whole; and regions
\* for the requests, of them and of nothing else.
LayoutInv ==
  /\ WellLaid(table)
  /\ \A i, j \in DOMAIN sections : sections[i].key = sections[j].key => i = j
  /\ \A i \in DOMAIN sections : sections[i].view \in {0, sections[i].size}
  /\ active => Views = DOMAIN sections
  /\ \A j \in DOMAIN regions : \E n \in DOMAIN table : PlacedIn(sections, regions[j], table[n])
  /\ phase = "regions" => PlacedBefore(next)
  /\ phase = "views" \/ active => PlacedBefore(Len(table) + 1)

\* What Memory::Init keeps of a configured region.
Binding(r) == [base |-> r.base, size |-> r.size, storage |-> Storage(r)]

\* Which table is laid out, and that Memory's own follows the configuration.
TableInv ==
  /\ stage \in {"smoke", "api_probe"} /\ phase = "idle" => ~active
  /\ stage \in {"memory_probe", "memory"} /\ phase # "idle" => table = RequestsFor(config)
  /\ stage = "aborted" => phase = "idle"
  /\ memoryReady => /\ active /\ table = RequestsFor(config)
                    /\ bound = [i \in DOMAIN config |-> Binding(config[i])]

\* What start has established by the time translated code may run, and what it reports.
CoreInv ==
  /\ stage = "memory" /\ phase # "idle" => config = WiiDefaults
  /\ stage \in {"scheduler", "worker", "handoff", "on_worker", "inspect", "data", "execution", "guest"} =>
       config = WiiDefaults
  /\ stage \in {"data", "execution", "guest"} => product.compatible
  /\ stage \in {"execution", "guest"} =>
       product.initializer /\ lowMemory = PinnedLayout /\ stopPoint = "DataSectionsInitialized"
  /\ stage = "guest" => product.runner
  /\ stopPoint \in {"Executed", "ExecutionFailed"} =>
       product.compatible /\ product.initializer /\ product.runner /\ stage \in {"waiting", "stopped"}

LEMMA TableTypes ==
  ASSUME FlatInv
  PROVE  /\ Segment \in Nat \ {0} /\ Half \in Nat \ {0} /\ GuestSpace \in Nat
         /\ DOMAIN table = 1 .. Len(table) /\ Len(table) \in Nat /\ next \in Nat
         /\ \A n \in DOMAIN table : /\ table[n] \in Requests /\ table[n].base \in Nat /\ table[n].size \in Nat
                                    /\ table[n].base < GuestSpace
                                    /\ table[n].backing \in {"Owned", "Mem1", "Mem2"}
                                    /\ BackingOffset(table[n]) \in Int
                                    /\ SectionKey(table[n]).backing = table[n].backing
         /\ DOMAIN regions = 1 .. Len(regions) /\ Len(regions) \in Nat
         /\ \A j \in DOMAIN regions : /\ regions[j].base \in Nat /\ regions[j].size \in Nat /\ regions[j].offset \in Nat
                                      /\ regions[j].section \in DOMAIN sections
<1>1. Segment \in Nat \ {0} /\ Half \in Nat \ {0} /\ GuestSpace \in Nat
  BY SpaceAssumption DEF Segment, GuestSpace
<1>2. table \in Seq(Requests) /\ next \in Nat /\ regions \in Seq(Regions)
  BY SequenceTypes DEF FlatInv, TypeOK
<1>3. /\ DOMAIN table = 1 .. Len(table) /\ Len(table) \in Nat /\ \A n \in DOMAIN table : table[n] \in Requests
      /\ DOMAIN regions = 1 .. Len(regions) /\ Len(regions) \in Nat /\ \A j \in DOMAIN regions : regions[j] \in Regions
  BY <1>2, ElementOfSeq
<1>4. ASSUME NEW r \in Requests
      PROVE  /\ r.base \in Nat /\ r.size \in Nat /\ r.base < GuestSpace
             /\ r.backing \in {"Owned", "Mem1", "Mem2"} /\ BackingOffset(r) \in Int
             /\ SectionKey(r).backing = r.backing
  <2>1. r.base \in Nat /\ r.size \in Nat /\ r.backing \in {"Owned", "Mem1", "Mem2"} /\ r.base < GuestSpace
    BY <1>1 DEF Requests
  <2>2. r.base % Segment \in Nat
    BY <1>1, <2>1
  <2>3. BackingOffset(r) \in Int
    BY <1>1, <2>1, <2>2 DEF BackingOffset
  <2> QED BY <2>1, <2>3 DEF SectionKey
<1>5. \A j \in DOMAIN regions : /\ regions[j].base \in Nat /\ regions[j].size \in Nat /\ regions[j].offset \in Nat
                                /\ regions[j].section \in DOMAIN sections
  BY <1>3 DEF Regions
<1> HIDE DEF Requests
<1> QED BY <1>1, <1>2, <1>3, <1>4, <1>5

\* Nothing is laid out.
LaidNothing ==
  /\ sections = <<>> /\ regions = <<>> /\ ~active
  /\ phase # "views" /\ (phase = "regions" => next = 1)
  /\ WellLaid(table) /\ table \in Seq(Requests)

LEMMA LaidFresh == LaidNothing => LayoutInv
<1> SUFFICES ASSUME LaidNothing PROVE LayoutInv
  OBVIOUS
<1>1. DOMAIN sections = {} /\ DOMAIN regions = {} /\ DOMAIN table = 1 .. Len(table)
  BY DEF LaidNothing
<1>2. phase = "regions" => PlacedBefore(next)
  BY <1>1 DEF PlacedBefore, LaidNothing
<1> QED BY <1>1, <1>2 DEF LayoutInv, LaidNothing

LEMMA LaidReleased ==
  ASSUME Release, phase' # "views", phase' = "regions" => next' = 1, WellLaid(table'), table' \in Seq(Requests)
  PROVE  LayoutInv'
<1>1. sections' = <<>> /\ regions' = <<>> /\ ~active'
  BY DEF Release
<1>2. (LaidNothing => LayoutInv)'
  BY LaidFresh, PTL
<1>3. WellLaid(table)'
  BY DEF WellLaid
<1> QED BY <1>1, <1>2, <1>3 DEF LaidNothing

\* What is laid out stays.
LEMMA LaidStays ==
  ASSUME LayoutInv, UNCHANGED <<sections, regions, active, table>>,
         phase' \notin {"regions", "views"} \/ UNCHANGED <<phase, next>>
  PROVE  LayoutInv'
<1>1. \A n : PlacedBefore(n)' <=> PlacedBefore(n)
  BY DEF PlacedBefore
<1>2. WellLaid(table)' <=> WellLaid(table)
  BY DEF WellLaid
<1> QED BY <1>1, <1>2 DEF LayoutInv, Views

\* A new region lies in the one section of its key, which is large enough for it and for
\* all it had before.
LEMMA PlacedKeys ==
  ASSUME FlatInv, NEW r \in Requests, r.size # 0, Views = {}, BackingOffset(r) >= 0,
         \A i, j \in DOMAIN sections : sections[i].key = sections[j].key => i = j
  PROVE  LET i == SectionFor(SectionKey(r))
         IN  /\ \A j, k \in DOMAIN Placed(r) : Placed(r)[j].key = Placed(r)[k].key => j = k
             /\ Placed(r)[i].key = SectionKey(r) /\ BackingOffset(r) + r.size <= Placed(r)[i].size
             /\ \A j \in DOMAIN sections : /\ Placed(r)[j].key = sections[j].key
                                           /\ sections[j].size <= Placed(r)[j].size
<1> DEFINE key == SectionKey(r)
           i == SectionFor(key)
           N == Len(sections)
           end == BackingOffset(r) + r.size
           needed == RoundUpPage(end)
           new == [key |-> key, size |-> needed, view |-> 0]
<1>1. end \in Nat
  <2>1. Segment \in Nat \ {0} /\ Half \in Nat /\ GuestSpace \in Nat
    BY SpaceAssumption DEF Segment, GuestSpace
  <2>2. r.base \in Nat /\ r.base % Segment \in Nat /\ r.size \in Nat
    BY <2>1 DEF Requests
  <2>3. BackingOffset(r) \in Int
    BY <2>1, <2>2 DEF BackingOffset, Requests
  <2> QED BY <2>2, <2>3
<1> HIDE DEF end
<1>2. needed \in Nat /\ needed >= end
  BY <1>1, RoundedUp
<1>3. /\ sections \in Seq(Sections) /\ N \in Nat /\ DOMAIN sections = 1 .. N
      /\ \A j \in 1 .. N : sections[j] \in Sections /\ sections[j].size \in Nat
  <2>1. /\ sections \in Seq(Sections) /\ N \in Nat /\ DOMAIN sections = 1 .. N
        /\ \A j \in 1 .. N : sections[j] \in Sections
    BY SequenceTypes DEF FlatInv
  <2> QED BY <2>1 DEF Sections
<1>4. key \in [backing : {"Owned", "Mem1", "Mem2"}, owner : Nat]
  BY SpaceAssumption DEF SectionKey, Requests, GuestSpace, Segment
<1> HIDE DEF needed, key
<1>5. new \in Sections
  BY <1>2, <1>4 DEF Sections
<1>6. CASE Keyed(key) = {}
  <2>1. i = N + 1 /\ i > N
    BY <1>3, <1>6 DEF SectionFor
  <2>2. Placed(r) = Append(sections, new)
    BY <2>1 DEF Placed, key, needed, end
  <2>3. \A j \in 1 .. N : sections[j].key # key
    BY <1>3, <1>6 DEF Keyed
  <2> HIDE DEF i
  <2>4. /\ DOMAIN Placed(r) = 1 .. N + 1 /\ \A j \in 1 .. N : Placed(r)[j] = sections[j]
        /\ Placed(r)[N + 1].key = key /\ Placed(r)[N + 1].size = needed
    BY <1>3, <1>5, <2>2
  <2> HIDE DEF new
  <2>5. \A j, k \in 1 .. N + 1 : Placed(r)[j].key = Placed(r)[k].key => j = k
    BY <1>3, <2>3, <2>4
  <2> QED BY <1>2, <1>3, <2>1, <2>4, <2>5 DEF i, key, end
<1>7. CASE Keyed(key) # {}
  <2>1. i \in 1 .. N /\ ~(i > N) /\ sections[i].key = key
    <3>1. i \in Keyed(key)
      BY <1>7 DEF SectionFor
    <3> QED BY <1>3, <3>1 DEF Keyed
  <2> DEFINE size == IF needed > sections[i].size THEN needed ELSE sections[i].size
  <2>2. Placed(r) = [sections EXCEPT ![i] = [sections[i] EXCEPT !.size = size]]
    BY <2>1 DEF Placed, key, needed, end
  <2> HIDE DEF i
  <2>3. size \in Nat /\ size >= end /\ size >= sections[i].size /\ sections[i] \in Sections
    BY <1>1, <1>2, <1>3, <2>1
  <2> HIDE DEF size
  <2> DEFINE s == [sections[i] EXCEPT !.size = size]
  <2>4. s \in Sections /\ s.size = size /\ s.key = sections[i].key
    BY <2>3 DEF Sections
  <2> HIDE DEF s
  <2>5. /\ DOMAIN Placed(r) = 1 .. N /\ \A j \in 1 .. N : Placed(r)[j] = IF j = i THEN s ELSE sections[j]
    BY <1>3, <2>1, <2>2, <2>4 DEF s
  <2>6. \A j \in 1 .. N : Placed(r)[j].key = sections[j].key /\ sections[j].size <= Placed(r)[j].size
    BY <1>3, <2>1, <2>3, <2>4, <2>5
  <2>7. Placed(r)[i].key = key /\ end <= Placed(r)[i].size
    BY <2>1, <2>3, <2>4, <2>5
  <2> QED BY <1>3, <2>5, <2>6, <2>7 DEF i, key, end
<1> QED BY <1>6, <1>7

LEMMA PlaceRegionKeepsLaid ==
  ASSUME FlatInv, LayoutInv, PlaceRegion
  PROVE  LayoutInv'
<1> DEFINE r == table[next]
           offset == BackingOffset(r)
           i == SectionFor(SectionKey(r))
           refused == \/ r.base + r.size > GuestSpace
                      \/ offset < 0 \/ offset + r.size > GuestSpace
                      \/ i > MaxSections
                      \/ RoundUpPage(offset + r.size) > GuestSpace
           region == [base |-> r.base, size |-> r.size, offset |-> offset, section |-> i]
<1>1. /\ phase = "regions" /\ next <= Len(table) /\ next \in Nat /\ Views = {} /\ ~active /\ Len(regions) < next
      /\ PlacedBefore(next) /\ WellLaid(table) /\ table \in Seq(Requests)
  BY DEF PlaceRegion, FlatInv, TypeOK, LayoutInv
<1>2. /\ DOMAIN table = 1 .. Len(table) /\ Len(table) \in Nat /\ next \in DOMAIN table
      /\ r \in Requests /\ r.size \in Nat /\ offset \in Int
      /\ DOMAIN regions = 1 .. Len(regions) /\ Len(regions) \in Nat
      /\ \A j \in DOMAIN regions : regions[j].section \in DOMAIN sections
  <2>1. Len(regions) \in Nat /\ Len(table) \in Nat /\ DOMAIN table = 1 .. Len(table)
    BY TableTypes
  <2>2. next \in DOMAIN table
    BY <1>1, <2>1
  <2> QED BY <1>1, <2>1, <2>2, TableTypes
<1>3. CASE r.size = 0
  <2>1. next' = next + 1 /\ UNCHANGED <<sections, regions, active, table, phase>>
    BY <1>3 DEF PlaceRegion
  <2>2. Views' = Views
    BY <2>1 DEF Views
  <2>3. \A m \in DOMAIN table : m < next + 1 => m < next \/ m = next
    BY <1>1, <1>2
  <2>4. PlacedBefore(next + 1)
    BY <1>1, <1>3, <2>3 DEF PlacedBefore
  <2>5. PlacedBefore(next)'
    BY <2>1, <2>4 DEF PlacedBefore
  <2>7. WellLaid(table)'
    BY <1>1, <2>1 DEF WellLaid
  <2> QED BY <1>1, <2>1, <2>2, <2>5, <2>7 DEF LayoutInv
<1>4. CASE r.size # 0 /\ refused
  <2>1. FailInit
    BY <1>4 DEF PlaceRegion
  <2> QED BY <1>1, <2>1, LaidReleased DEF FailInit
<1>5. CASE r.size # 0 /\ ~refused
  <2>1. /\ sections' = Placed(r) /\ regions' = Append(regions, region)
        /\ next' = next + 1 /\ UNCHANGED <<active, table, phase>>
    BY <1>5 DEF PlaceRegion
  <2>2. offset >= 0 /\ offset \in Nat /\ i <= MaxSections
    <3>1. i \in Nat
      <4>1. Len(sections) \in Nat /\ DOMAIN sections = 1 .. Len(sections)
        BY SequenceTypes DEF FlatInv
      <4>2. i = Len(sections) + 1 \/ i \in DOMAIN sections
        <5>1. CASE Keyed(SectionKey(r)) = {}
          BY <5>1 DEF SectionFor
        <5>2. CASE Keyed(SectionKey(r)) # {}
          <6>1. i \in Keyed(SectionKey(r))
            BY <5>2 DEF SectionFor
          <6> QED BY <6>1 DEF Keyed
        <5> QED BY <5>1, <5>2
      <4> HIDE DEF i
      <4> QED BY <4>1, <4>2
    <3> HIDE DEF offset, i
    <3> QED BY <1>2, <1>5, <3>1, TableAssumption
  <2>3. /\ i \in DOMAIN sections' /\ DOMAIN sections \subseteq DOMAIN sections'
        /\ \A j \in DOMAIN sections' : sections'[j].view = 0
    BY <1>1, <1>2, <1>5, <2>1, <2>2, PlacedSections
  <2>4. /\ \A j, k \in DOMAIN sections' : sections'[j].key = sections'[k].key => j = k
        /\ sections'[i].key = SectionKey(r) /\ offset + r.size <= sections'[i].size
        /\ \A j \in DOMAIN sections : /\ sections'[j].key = sections[j].key
                                      /\ sections[j].size <= sections'[j].size
    <3>1. \A j, k \in DOMAIN sections : sections[j].key = sections[k].key => j = k
      BY DEF LayoutInv
    <3> QED BY <1>1, <1>2, <1>5, <2>1, <2>2, <3>1, PlacedKeys
  <2>5. region.base = r.base /\ region.size = r.size /\ region.offset = offset /\ region.section = i
    OBVIOUS
  <2> HIDE DEF region
  <2>6. /\ DOMAIN regions' = 1 .. Len(regions) + 1 /\ regions'[Len(regions) + 1] = region
        /\ \A j \in DOMAIN regions : regions'[j] = regions[j]
    <3>1. regions \in Seq(Regions)
      BY SequenceTypes DEF FlatInv
    <3> HIDE DEF Regions
    <3> QED BY <2>1, <3>1, <1>2
  <2>7. PlacedIn(sections', region, r)
    BY <1>5, <2>4, <2>5 DEF PlacedIn
  <2>8. ASSUME NEW j \in DOMAIN regions, NEW q, PlacedIn(sections, regions[j], q)
        PROVE  PlacedIn(sections', regions'[j], q)
    <3> DEFINE g == regions[j]
               t == sections[g.section]
               u == sections'[g.section]
    <3>1. u.key = t.key /\ t.size <= u.size /\ t.size \in Nat /\ u.size \in Nat /\ g.offset + g.size \in Nat
      <4>1. u.key = t.key /\ t.size <= u.size /\ g.offset \in Nat /\ g.size \in Nat
        BY <1>2, <2>4, TableTypes
      <4>2. t.size \in Nat
        <5>1. t \in Sections
          BY <1>2, SequenceTypes DEF FlatInv
        <5> QED BY <5>1 DEF Sections
      <4>3. u.size \in Nat
        <5>1. Placed(r) \in Seq(Sections) /\ g.section \in DOMAIN Placed(r)
          BY <1>1, <1>2, <1>5, <2>2, PlacedSections
        <5>2. u \in Sections
          BY <2>1, <5>1, ElementOfSeq
        <5> QED BY <5>2 DEF Sections
      <4> QED BY <4>1, <4>2, <4>3
    <3>2. regions'[j] = g
      BY <2>6
    <3> QED BY <2>8, <3>1, <3>2 DEF PlacedIn
  <2>9. ASSUME NEW j \in DOMAIN regions' PROVE \E n \in DOMAIN table : PlacedIn(sections', regions'[j], table[n])
    <3>1. CASE j \in DOMAIN regions
      BY <2>8, <3>1 DEF LayoutInv
    <3>2. CASE j = Len(regions) + 1
      BY <1>2, <2>6, <2>7, <3>2
    <3> QED BY <1>2, <2>6, <2>9, <3>1, <3>2
  <2>10. ASSUME NEW m \in DOMAIN table, m < next + 1
         PROVE  table[m].size = 0 \/ \E j \in DOMAIN regions' : PlacedIn(sections', regions'[j], table[m])
    <3>1. CASE m < next
      <4>1. SUFFICES ASSUME NEW j \in DOMAIN regions, PlacedIn(sections, regions[j], table[m])
                     PROVE  \E k \in DOMAIN regions' : PlacedIn(sections', regions'[k], table[m])
        BY <1>1, <3>1 DEF PlacedBefore
      <4>2. j \in DOMAIN regions'
        BY <1>2, <2>6
      <4> QED BY <2>8, <4>1, <4>2
    <3>2. CASE m = next
      <4>1. Len(regions) + 1 \in DOMAIN regions'
        BY <1>2, <2>6
      <4> QED BY <2>6, <2>7, <3>2, <4>1
    <3> QED BY <1>1, <1>2, <2>10, <3>1, <3>2
  <2>11. PlacedBefore(next)'
    BY <2>1, <2>10 DEF PlacedBefore
  <2>12. WellLaid(table)'
    BY <1>1, <2>1 DEF WellLaid
  <2> HIDE DEF i, r
  <2> QED BY <1>1, <2>1, <2>3, <2>4, <2>9, <2>11, <2>12 DEF LayoutInv
<1> QED BY <1>3, <1>4, <1>5

LEMMA ViewsKeepLaid ==
  ASSUME FlatInv, LayoutInv, ReserveWindow \/ AllocateView \/ Activate
  PROVE  LayoutInv'
<1>1. WellLaid(table) /\ table \in Seq(Requests) /\ Len(table) \in Nat /\ next \in Nat /\ DOMAIN table = 1 .. Len(table)
  BY TableTypes DEF FlatInv, TypeOK, LayoutInv
<1>2. CASE FailInit
  BY <1>1, <1>2, LaidReleased DEF FailInit
<1>3. CASE ReserveWindow /\ ~FailInit
  <2>1. /\ phase = "regions" /\ next > Len(table) /\ phase' = "views" /\ UNCHANGED <<sections, regions, active, table>>
    BY <1>3 DEF ReserveWindow
  <2>2. PlacedBefore(Len(table) + 1)
    BY <1>1, <2>1 DEF LayoutInv, PlacedBefore
  <2>3. PlacedBefore(Len(table) + 1)'
    BY <2>1, <2>2 DEF PlacedBefore
  <2>4. Views' = Views /\ WellLaid(table)'
    BY <1>1, <2>1 DEF Views, WellLaid
  <2> QED BY <2>1, <2>3, <2>4 DEF LayoutInv
<1>4. CASE AllocateView /\ ~FailInit
  <2>1. /\ phase = "views" /\ next <= Len(sections) /\ next >= 1 /\ ~active
        /\ sections' = [sections EXCEPT ![next].view = sections[next].size]
        /\ UNCHANGED <<regions, active, table, phase>>
    BY <1>4 DEF AllocateView, FlatInv
  <2>2. DOMAIN sections = 1 .. Len(sections) /\ next \in DOMAIN sections /\ \A i \in DOMAIN sections : sections[i] \in Sections
    BY <1>1, <2>1, SequenceTypes DEF FlatInv
  <2>3. /\ DOMAIN sections' = DOMAIN sections
        /\ \A i \in DOMAIN sections : /\ sections'[i].key = sections[i].key /\ sections'[i].size = sections[i].size
                                      /\ sections'[i].view \in {sections[i].view, sections[i].size}
    BY <2>1, <2>2 DEF Sections
  <2>4. \A j \in DOMAIN regions : \A q : PlacedIn(sections, regions[j], q) => PlacedIn(sections', regions[j], q)
    BY <2>3, TableTypes DEF PlacedIn
  <2>5. PlacedBefore(Len(table) + 1)'
    BY <2>1, <2>4 DEF LayoutInv, PlacedBefore
  <2>6. WellLaid(table)'
    BY <1>1, <2>1 DEF WellLaid
  <2>7. \A i, j \in DOMAIN sections' : sections'[i].key = sections'[j].key => i = j
    BY <2>3 DEF LayoutInv
  <2>8. \A i \in DOMAIN sections' : sections'[i].view \in {0, sections'[i].size}
    BY <2>3 DEF LayoutInv
  <2>9. \A j \in DOMAIN regions' : \E n \in DOMAIN table' : PlacedIn(sections', regions'[j], table'[n])
    BY <2>1, <2>4 DEF LayoutInv
  <2> QED BY <2>1, <2>5, <2>6, <2>7, <2>8, <2>9 DEF LayoutInv
<1>5. CASE Activate
  <2>1. /\ phase = "views" /\ next > Len(sections) /\ phase' = "succeeded" /\ UNCHANGED <<sections, regions, table>>
        /\ Views = {i \in DOMAIN sections : i < next} /\ DOMAIN sections = 1 .. Len(sections) /\ Len(sections) \in Nat
    BY <1>5, SequenceTypes DEF Activate, FlatInv
  <2>2. Views = DOMAIN sections
    BY <1>1, <2>1
  <2>3. Views' = DOMAIN sections'
    BY <2>1, <2>2 DEF Views
  <2>4. PlacedBefore(Len(table) + 1)'
    BY <2>1 DEF LayoutInv, PlacedBefore
  <2>5. WellLaid(table)'
    BY <1>1, <2>1 DEF WellLaid
  <2> QED BY <2>1, <2>3, <2>4, <2>5 DEF LayoutInv
<1> QED BY <1>2, <1>3, <1>4, <1>5

LEMMA StepsKeepLaid ==
  ASSUME FlatInv, LayoutInv, InitializeStep
  PROVE  LayoutInv'
BY PlaceRegionKeepsLaid, ViewsKeepLaid DEF InitializeStep

\* Memory that starts in a segment and ends in it is as far from the segment's start as its
\* own start is, and what comes after.
LEMMA InSegment ==
  ASSUME NEW S \in Nat \ {0}, NEW b \in Nat, NEW d \in Nat, (b % S) + d < S
  PROVE  (b + d) % S = (b % S) + d
<1> DEFINE q == b \div S
           r == b % S
           p == (b + d) \div S
           u == (b + d) % S
           k == p - q
<1>1. b = S * q + r /\ r \in 0 .. S - 1 /\ q \in Int
  OBVIOUS
<1>2. b + d = S * p + u /\ u \in 0 .. S - 1 /\ p \in Int
  OBVIOUS
<1>3. r + d < S
  OBVIOUS
<1> HIDE DEF q, r, p, u
<1>4. S * p = S * q + S * k /\ k \in Int
  BY <1>1, <1>2
<1> HIDE DEF k
<1>5. r + d = S * k + u
  BY <1>1, <1>2, <1>4
<1>6. ASSUME k >= 1 PROVE FALSE
  <2>1. S * k >= S
    BY <1>4, <1>6
  <2> QED BY <1>1, <1>2, <1>3, <1>4, <1>5, <2>1
<1>7. ASSUME k <= -1 PROVE FALSE
  <2>1. S * k <= -S
    BY <1>4, <1>7
  <2> QED BY <1>1, <1>2, <1>3, <1>4, <1>5, <2>1
<1>8. k = 0
  BY <1>4, <1>6, <1>7
<1> QED BY <1>1, <1>2, <1>5, <1>8 DEF r, u

Pointer(g, a) == [section |-> g.section, offset |-> g.offset + (a - g.base)]
KeyOf(g) == sections[g.section].key

\* What the place of an address in its region says about the address.
LEMMA PointerMeans ==
  ASSUME FlatInv, LayoutInv, NEW j \in DOMAIN regions, NEW a \in Nat, Covering(regions[j], a)
  PROVE  LET g == regions[j]
         IN  /\ g.section \in DOMAIN sections /\ g.base \in Nat /\ g.size \in Nat /\ g.offset \in Nat
             /\ Pointer(g, a).offset \in Nat
             /\ KeyOf(g).backing \in {"Owned", "Mem1", "Mem2"}
             /\ KeyOf(g).backing = "Owned" => KeyOf(g).owner = g.base /\ Pointer(g, a).offset = a - g.base
             /\ KeyOf(g).backing = "Mem1" => KeyOf(g).owner = 0 /\ Pointer(g, a).offset = a % Segment
             /\ KeyOf(g).backing = "Mem2" => KeyOf(g).owner = 0 /\ Pointer(g, a).offset = (a % Segment) - Half
<1> DEFINE g == regions[j]
<1>1. PICK n \in DOMAIN table : PlacedIn(sections, g, table[n])
  BY DEF LayoutInv
<1> DEFINE r == table[n]
<1>2. /\ g.base = r.base /\ g.size = r.size /\ g.offset = BackingOffset(r) /\ KeyOf(g) = SectionKey(r)
      /\ r.base \in Nat /\ r.size \in Nat /\ r.backing \in {"Owned", "Mem1", "Mem2"}
      /\ g.section \in DOMAIN sections /\ g.offset \in Nat /\ Segment \in Nat \ {0} /\ Half \in Nat
      /\ r.base <= a /\ a < r.base + r.size
  BY <1>1, TableTypes DEF PlacedIn, KeyOf, Covering
<1>3. KeyOf(g).backing = r.backing /\ KeyOf(g).owner = (IF r.backing = "Owned" THEN r.base ELSE 0)
  BY <1>2 DEF SectionKey
<1>4. r.backing # "Owned" => (r.base % Segment) + r.size <= Segment
  BY DEF LayoutInv, WellLaid
<1>5. ASSUME r.backing # "Owned" PROVE a % Segment = (r.base % Segment) + (a - r.base)
  <2>1. /\ a - r.base \in Nat /\ r.base % Segment \in Nat /\ (r.base % Segment) + (a - r.base) < Segment
        /\ a = r.base + (a - r.base)
    BY <1>2, <1>4, <1>5
  <2> QED BY <1>2, <2>1, InSegment
<1>6. r.base % Segment \in Nat /\ Pointer(g, a).offset = g.offset + (a - g.base)
  BY <1>2 DEF Pointer
<1>7. Pointer(g, a).offset \in Nat
  BY <1>2, <1>6
<1>8. ASSUME r.backing = "Owned" PROVE Pointer(g, a).offset = a - g.base
  BY <1>2, <1>6, <1>8 DEF BackingOffset
<1>9. ASSUME r.backing = "Mem1" PROVE Pointer(g, a).offset = a % Segment
  <2>1. g.offset = r.base % Segment
    BY <1>2, <1>9 DEF BackingOffset
  <2> QED BY <1>2, <1>5, <1>6, <1>9, <2>1
<1>10. ASSUME r.backing = "Mem2" PROVE Pointer(g, a).offset = (a % Segment) - Half
  <2>1. g.offset = (r.base % Segment) - Half
    BY <1>2, <1>10 DEF BackingOffset
  <2> QED BY <1>2, <1>5, <1>6, <1>10, <2>1
<1> HIDE DEF r, g
<1> QED BY <1>2, <1>3, <1>7, <1>8, <1>9, <1>10 DEF g

\* Where two regions overlap they say the same of an address.
LEMMA OverlapsAgree ==
  ASSUME FlatInv, LayoutInv, NEW j \in DOMAIN regions, NEW k \in DOMAIN regions, NEW a \in Nat,
         Covering(regions[j], a), Covering(regions[k], a)
  PROVE  Pointer(regions[j], a) = Pointer(regions[k], a)
<1> DEFINE g == regions[j]
           h == regions[k]
<1>1. PICK n \in DOMAIN table : PlacedIn(sections, g, table[n])
  BY DEF LayoutInv
<1>2. PICK m \in DOMAIN table : PlacedIn(sections, h, table[m])
  BY DEF LayoutInv
<1>3. KeyOf(g) = KeyOf(h)
  <2>1. /\ table[n].base \in Nat /\ table[n].size \in Nat /\ table[m].base \in Nat /\ table[m].size \in Nat
        /\ table[n].base <= a /\ a < table[n].base + table[n].size
        /\ table[m].base <= a /\ a < table[m].base + table[m].size
    BY <1>1, <1>2, TableTypes DEF PlacedIn, Covering
  <2>2. a \in table[n].base .. table[n].base + table[n].size - 1
    BY <2>1
  <2>3. SectionKey(table[n]) = SectionKey(table[m])
    BY <2>1, <2>2 DEF LayoutInv, WellLaid
  <2> QED BY <1>1, <1>2, <2>3 DEF PlacedIn, KeyOf
<1>4. g.section \in DOMAIN sections /\ h.section \in DOMAIN sections
  BY PointerMeans
<1>5. g.section = h.section
  BY <1>3, <1>4 DEF LayoutInv, KeyOf
<1>6. Pointer(g, a).offset = Pointer(h, a).offset
  <2>1. CASE KeyOf(g).backing = "Owned"
    BY <1>3, <2>1, PointerMeans
  <2>2. CASE KeyOf(g).backing = "Mem1"
    BY <1>3, <2>2, PointerMeans
  <2>3. CASE KeyOf(g).backing = "Mem2"
    BY <1>3, <2>3, PointerMeans
  <2> QED BY <2>1, <2>2, <2>3, PointerMeans
<1> QED BY <1>5, <1>6 DEF Pointer

\* Whichever region of an address one takes, host_pointer gives what it says.
LEMMA PointerOf ==
  ASSUME FlatInv, LayoutInv, active, NEW j \in DOMAIN regions, NEW a \in Nat, Covering(regions[j], a)
  PROVE  HostPointer(a) = Pointer(regions[j], a) /\ HostPointer(a) # NoHost
<1> DEFINE k == CHOOSE i \in Covers(a) : \A m \in Covers(a) : i <= m
<1>1. j \in Covers(a) /\ Covers(a) \subseteq DOMAIN regions /\ Covers(a) \in SUBSET Nat
  BY TableTypes DEF Covers, Covering
<1>2. k \in Covers(a)
  <2>1. \E i \in Covers(a) : \A m \in Covers(a) : i <= m
    BY <1>1, MinProperties
  <2> QED BY <2>1
<1> DEFINE r == regions[k]
<1>3. k \in DOMAIN regions /\ Covering(r, a)
  BY <1>2 DEF Covers, Covering
<1>4. r.section \in DOMAIN sections
  BY <1>3, PointerMeans
<1>5. sections[r.section].view # 0
  BY <1>4 DEF LayoutInv, Views
<1>6. HostPointer(a) = Pointer(r, a)
  <2>1. Covers(a) # {}
    BY <1>1
  <2> HIDE DEF k
  <2>2. HostPointer(a) = IF sections[regions[k].section].view = 0 THEN NoHost
                         ELSE [section |-> regions[k].section, offset |-> regions[k].offset + (a - regions[k].base)]
    BY <2>1 DEF HostPointer, k
  <2> QED BY <1>5, <2>2 DEF Pointer
<1>7. Pointer(r, a) = Pointer(regions[j], a)
  BY <1>3, OverlapsAgree
<1>8. Pointer(r, a) # NoHost
  <2>1. r.section # 0
    BY <1>4, SequenceTypes DEF FlatInv
  <2> QED BY <2>1 DEF Pointer, NoHost
<1> HIDE DEF r
<1> QED BY <1>6, <1>7, <1>8

LEMMA MemoryOf ==
  ASSUME FlatInv, LayoutInv, active, NEW a \in Mapped
  PROVE  \E j \in DOMAIN regions :
           /\ a \in Nat /\ Covering(regions[j], a)
           /\ HostPointer(a) = Pointer(regions[j], a)
           /\ Memory(a) = [backing |-> KeyOf(regions[j]).backing,
                           byte |-> IF KeyOf(regions[j]).backing = "Owned" THEN a ELSE a % Segment]
<1> DEFINE k == CHOOSE i \in Covers(a) : \A m \in Covers(a) : i <= m
<1>1. a \in Nat /\ Covers(a) # {} /\ Covers(a) \subseteq DOMAIN regions /\ Covers(a) \in SUBSET Nat
  BY TableTypes DEF Mapped, Covers
<1>2. k \in Covers(a)
  <2>1. \E i \in Covers(a) : \A m \in Covers(a) : i <= m
    BY <1>1, MinProperties
  <2> QED BY <2>1
<1>3. k \in DOMAIN regions /\ Covering(regions[k], a)
  BY <1>2 DEF Covers, Covering
<1>4. Memory(a) = [backing |-> KeyOf(regions[k]).backing,
                   byte |-> IF KeyOf(regions[k]).backing = "Owned" THEN a ELSE a % Segment]
  BY DEF Memory, KeyOf
<1> HIDE DEF k
<1> QED BY <1>1, <1>3, <1>4, PointerOf

LEMMA LaidCoherent ==
  ASSUME FlatInv, LayoutInv
  PROVE  AliasesCoherent
<1> SUFFICES ASSUME active, NEW a \in Mapped, NEW b \in Mapped
             PROVE  HostPointer(a) = HostPointer(b) <=> Memory(a) = Memory(b)
  BY DEF AliasesCoherent
<1>1. PICK j \in DOMAIN regions :
        /\ a \in Nat /\ Covering(regions[j], a)
        /\ HostPointer(a) = Pointer(regions[j], a)
        /\ Memory(a) = [backing |-> KeyOf(regions[j]).backing,
                        byte |-> IF KeyOf(regions[j]).backing = "Owned" THEN a ELSE a % Segment]
  BY MemoryOf
<1>2. PICK k \in DOMAIN regions :
        /\ b \in Nat /\ Covering(regions[k], b)
        /\ HostPointer(b) = Pointer(regions[k], b)
        /\ Memory(b) = [backing |-> KeyOf(regions[k]).backing,
                        byte |-> IF KeyOf(regions[k]).backing = "Owned" THEN b ELSE b % Segment]
  BY MemoryOf
<1> DEFINE g == regions[j]
           h == regions[k]
           x == Pointer(g, a).offset
           y == Pointer(h, b).offset
<1>3. /\ g.section \in DOMAIN sections /\ h.section \in DOMAIN sections /\ g.base \in Nat /\ h.base \in Nat
      /\ KeyOf(g).backing \in {"Owned", "Mem1", "Mem2"} /\ KeyOf(h).backing \in {"Owned", "Mem1", "Mem2"}
      /\ KeyOf(g).backing = "Owned" => KeyOf(g).owner = g.base /\ x = a - g.base
      /\ KeyOf(g).backing = "Mem1" => KeyOf(g).owner = 0 /\ x = a % Segment
      /\ KeyOf(g).backing = "Mem2" => KeyOf(g).owner = 0 /\ x = (a % Segment) - Half
      /\ KeyOf(h).backing = "Owned" => KeyOf(h).owner = h.base /\ y = b - h.base
      /\ KeyOf(h).backing = "Mem1" => KeyOf(h).owner = 0 /\ y = b % Segment
      /\ KeyOf(h).backing = "Mem2" => KeyOf(h).owner = 0 /\ y = (b % Segment) - Half
  BY <1>1, <1>2, PointerMeans
<1>4. HostPointer(a) = HostPointer(b) <=> g.section = h.section /\ x = y
  BY <1>1, <1>2 DEF Pointer
<1>5. Memory(a) = Memory(b) <=>
        /\ KeyOf(g).backing = KeyOf(h).backing
        /\ IF KeyOf(g).backing = "Owned" THEN a = b ELSE a % Segment = b % Segment
  BY <1>1, <1>2
<1>6. /\ a \in Nat /\ b \in Nat /\ a % Segment \in Nat /\ b % Segment \in Nat /\ Half \in Nat
  BY <1>1, <1>2, TableTypes
<1>7. g.section = h.section <=> KeyOf(g).backing = KeyOf(h).backing /\ KeyOf(g).owner = KeyOf(h).owner
  <2>1. KeyOf(g) \in [backing : {"Owned", "Mem1", "Mem2"}, owner : Nat]
        /\ KeyOf(h) \in [backing : {"Owned", "Mem1", "Mem2"}, owner : Nat]
    BY <1>3, SequenceTypes DEF FlatInv, Sections, KeyOf
  <2>2. KeyOf(g) = KeyOf(h) <=> KeyOf(g).backing = KeyOf(h).backing /\ KeyOf(g).owner = KeyOf(h).owner
    BY <2>1
  <2>3. KeyOf(g) = KeyOf(h) <=> g.section = h.section
    BY <1>3 DEF LayoutInv, KeyOf
  <2> QED BY <2>2, <2>3
<1> HIDE DEF g, h, x, y
<1>8. CASE KeyOf(g).backing # KeyOf(h).backing
  BY <1>4, <1>5, <1>7, <1>8
<1>9. CASE KeyOf(g).backing = "Owned" /\ KeyOf(h).backing = "Owned"
  <2>1. HostPointer(a) = HostPointer(b) => a = b
    BY <1>3, <1>4, <1>6, <1>7, <1>9
  <2> QED BY <1>5, <1>9, <2>1
<1>10. CASE KeyOf(g).backing = "Mem1" /\ KeyOf(h).backing = "Mem1"
  BY <1>3, <1>4, <1>5, <1>7, <1>10
<1>11. CASE KeyOf(g).backing = "Mem2" /\ KeyOf(h).backing = "Mem2"
  BY <1>3, <1>4, <1>5, <1>6, <1>7, <1>11
<1> QED BY <1>3, <1>8, <1>9, <1>10, <1>11

\* While Memory's own table follows the configuration.
Bound ==
  /\ active /\ table = RequestsFor(config) /\ config \in Seq(Configured)
  /\ bound = [i \in DOMAIN config |-> Binding(config[i])]

\* A configured region that is not empty is served from its first byte on.
LEMMA BoundServes ==
  ASSUME FlatInv, LayoutInv, Bound, NEW i \in DOMAIN bound, NEW a \in Nat, Covering(bound[i], a)
  PROVE  \E j \in DOMAIN regions :
           /\ regions[j].base = bound[i].base /\ regions[j].size = bound[i].size
           /\ Covering(regions[j], a)
           /\ [bound[i].storage EXCEPT !.offset = @ + (a - bound[i].base)] = Pointer(regions[j], a)
<1> DEFINE c == config[i]
<1>1. /\ DOMAIN bound = DOMAIN config /\ i \in DOMAIN config /\ bound[i].base = c.base /\ bound[i].size = c.size
      /\ bound[i].storage = Storage(c) /\ DOMAIN table = DOMAIN config /\ table[i] = Request(c)
  BY DEF Bound, Binding, RequestsFor
<1>2. table[i].base = c.base /\ table[i].size = c.size
  BY <1>1 DEF Request
<1>3. /\ DOMAIN table = 1 .. Len(table) /\ Len(table) \in Nat /\ c.base \in Nat /\ c.size \in Nat
  BY <1>1, <1>2, TableTypes
<1>4. c.size # 0 /\ c.base <= a /\ a < c.base + c.size
  BY <1>1, <1>3 DEF Covering
<1>5. PICK j \in DOMAIN regions : PlacedIn(sections, regions[j], table[i])
  <2>1. PlacedBefore(Len(table) + 1)
    BY DEF LayoutInv, Bound
  <2>2. i \in DOMAIN table /\ i < Len(table) + 1 /\ table[i].size # 0
    BY <1>1, <1>2, <1>3, <1>4
  <2> QED BY <2>1, <2>2 DEF PlacedBefore
<1> DEFINE g == regions[j]
<1>6. g.base = c.base /\ g.size = c.size /\ g.offset \in Nat
  BY <1>2, <1>5, TableTypes DEF PlacedIn
<1>7. Covering(g, c.base) /\ Covering(g, a)
  BY <1>3, <1>4, <1>6 DEF Covering
<1>8. Storage(c) = Pointer(g, c.base)
  <2>1. Storage(c) = HostPointer(c.base)
    BY <1>4 DEF Storage
  <2> QED BY <1>3, <1>7, <2>1, PointerOf DEF Bound
<1>9. [Storage(c) EXCEPT !.offset = @ + (a - c.base)] = Pointer(g, a)
  <2>1. Storage(c) = [section |-> g.section, offset |-> g.offset]
    BY <1>3, <1>6, <1>8 DEF Pointer
  <2>2. Pointer(g, a) = [section |-> g.section, offset |-> g.offset + (a - c.base)]
    BY <1>6 DEF Pointer
  <2> QED BY <2>1, <2>2
<1> QED BY <1>1, <1>6, <1>7, <1>9

\* Memory's GetPointer gives a place in live memory for every byte of an access.
LEMMA BoundAccess ==
  ASSUME FlatInv, LayoutInv, Bound, NEW a \in Nat, NEW n \in Nat \ {0}, GetPointer(a, n) # NoHost
  PROVE  \E j \in DOMAIN regions :
           /\ \A k \in 0 .. n - 1 : Covering(regions[j], a + k)
           /\ GetPointer(a, n) = Pointer(regions[j], a)
<1> DEFINE F == Fits(a, n)
           i == CHOOSE x \in F : \A y \in F : x <= y
<1>1. F # {}
  BY DEF GetPointer
<1>2. DOMAIN bound = 1 .. Len(config)
  BY DEF Bound
<1>3. F \in SUBSET Nat /\ F \subseteq DOMAIN bound
  BY <1>2 DEF Fits
<1>4. i \in F
  <2>1. \E x \in F : \A y \in F : x <= y
    BY <1>1, <1>3, MinProperties
  <2> QED BY <2>1
<1>5. GetPointer(a, n) = [bound[i].storage EXCEPT !.offset = @ + (a - bound[i].base)]
  BY DEF GetPointer
<1> HIDE DEF i
<1>6. /\ i \in DOMAIN bound /\ bound[i].base <= a /\ a + n <= bound[i].base + bound[i].size
      /\ bound[i].base \in Nat /\ bound[i].size \in Nat
  <2>1. i \in DOMAIN bound /\ bound[i].base <= a /\ a + n <= bound[i].base + bound[i].size
    BY <1>4 DEF Fits
  <2>2. i \in DOMAIN table /\ bound[i].base = table[i].base /\ bound[i].size = table[i].size
    BY <2>1 DEF Bound, Binding, RequestsFor, Request
  <2> QED BY <2>1, <2>2, TableTypes
<1>7. Covering(bound[i], a)
  BY <1>6 DEF Covering
<1>8. PICK j \in DOMAIN regions :
        /\ regions[j].base = bound[i].base /\ regions[j].size = bound[i].size
        /\ [bound[i].storage EXCEPT !.offset = @ + (a - bound[i].base)] = Pointer(regions[j], a)
  BY <1>6, <1>7, BoundServes
<1>9. \A k \in 0 .. n - 1 : Covering(regions[j], a + k)
  BY <1>6, <1>8 DEF Covering
<1> QED BY <1>5, <1>8, <1>9

LEMMA BoundAgrees ==
  ASSUME FlatInv, LayoutInv, ~memoryReady \/ Bound
  PROVE  AccessesAgree
<1> SUFFICES ASSUME NEW a \in 0 .. GuestSpace - 1, NEW n \in 1 .. MaxAccess, GetPointer(a, n) # NoHost
             PROVE  LET p == GetPointer(a, n)
                    IN  /\ p.section \in Views /\ p.offset + n <= sections[p.section].view
                        /\ \A k \in 0 .. n - 1 : HostPointer(a + k) = [p EXCEPT !.offset = @ + k]
  BY DEF AccessesAgree
<1>1. a \in Nat /\ n \in Nat \ {0} /\ Bound /\ active
  BY TableTypes, SliceAssumption DEF GetPointer, Bound
<1> DEFINE p == GetPointer(a, n)
<1>2. PICK j \in DOMAIN regions :
        /\ \A k \in 0 .. n - 1 : Covering(regions[j], a + k)
        /\ p = Pointer(regions[j], a)
  BY <1>1, BoundAccess
<1> HIDE DEF p
<1> DEFINE g == regions[j]
<1>3. /\ g.base \in Nat /\ g.size \in Nat /\ g.offset \in Nat /\ g.section \in DOMAIN sections
  BY TableTypes
<1>4. p.section = g.section /\ p.offset = g.offset + (a - g.base) /\ p = [section |-> g.section, offset |-> g.offset + (a - g.base)]
  BY <1>2 DEF Pointer
<1>5. g.section \in Views /\ sections[g.section].view = sections[g.section].size /\ sections[g.section].size \in Nat
  <2>1. g.section \in Views
    BY <1>1, <1>3 DEF LayoutInv
  <2>2. sections[g.section].view \in {0, sections[g.section].size} /\ sections[g.section].view # 0
    BY <1>3, <2>1 DEF LayoutInv, Views
  <2>3. sections[g.section].size \in Nat
    BY <1>3, SequenceTypes DEF FlatInv, Sections
  <2> QED BY <2>1, <2>2, <2>3
<1>6. g.offset + g.size <= sections[g.section].size
  BY DEF LayoutInv, PlacedIn
<1>7. p.offset + n <= sections[g.section].view
  <2>1. Covering(g, a + (n - 1))
    BY <1>1, <1>2
  <2>2. a + (n - 1) < g.base + g.size
    BY <2>1 DEF Covering
  <2> HIDE DEF g
  <2> QED BY <1>1, <1>3, <1>4, <1>5, <1>6, <2>2
<1>8. ASSUME NEW k \in 0 .. n - 1 PROVE HostPointer(a + k) = [p EXCEPT !.offset = @ + k]
  <2>1. HostPointer(a + k) = Pointer(g, a + k)
    <3>1. a + k \in Nat
      BY <1>1
    <3> QED BY <1>1, <1>2, <3>1, PointerOf
  <2>2. Pointer(g, a + k) = [section |-> g.section, offset |-> g.offset + ((a + k) - g.base)]
    BY DEF Pointer
  <2>3. g.offset + ((a + k) - g.base) = (g.offset + (a - g.base)) + k
    BY <1>1, <1>3
  <2> HIDE DEF g
  <2> QED BY <1>4, <2>1, <2>2, <2>3
<1> HIDE DEF g
<1> QED BY <1>4, <1>5, <1>7, <1>8 DEF p

\* Whatever a region fits, Memory serves, up to its end.
LEMMA BoundReaches ==
  ASSUME FlatInv, LayoutInv, Bound, memoryReady, NEW a \in Nat, NEW n \in Nat \ {0}, NEW i \in DOMAIN bound,
         bound[i].base <= a, a + n <= bound[i].base + bound[i].size, a + n <= GuestSpace
  PROVE  /\ GetPointer(a, n) # NoHost
         /\ \A k \in 0 .. n - 1 : a + k \in Mapped
<1> DEFINE F == Fits(a, n)
           m == CHOOSE x \in F : \A y \in F : x <= y
<1>1. i \in F /\ F \subseteq DOMAIN bound
  BY DEF Fits
<1>2. F \in SUBSET Nat
  BY <1>1 DEF Bound
<1>3. m \in F
  <2>1. \E x \in F : \A y \in F : x <= y
    BY <1>1, <1>2, MinProperties
  <2> QED BY <2>1
<1>4. GetPointer(a, n) = [bound[m].storage EXCEPT !.offset = @ + (a - bound[m].base)]
  <2>1. F # {} /\ n # 0 /\ ~(a + n > GuestSpace)
    BY <1>1, TableTypes
  <2> QED BY <2>1 DEF GetPointer
<1> HIDE DEF m
<1>5. \A x \in DOMAIN bound : bound[x].base \in Nat /\ bound[x].size \in Nat
  BY TableTypes DEF Bound, Binding, RequestsFor, Request
<1>6. m \in DOMAIN bound /\ Covering(bound[m], a)
  BY <1>3, <1>5 DEF Fits, Covering
<1>7. PICK j \in DOMAIN regions :
        /\ Covering(regions[j], a)
        /\ [bound[m].storage EXCEPT !.offset = @ + (a - bound[m].base)] = Pointer(regions[j], a)
  BY <1>6, BoundServes
<1>8. GetPointer(a, n) # NoHost
  <2>1. Pointer(regions[j], a) # NoHost
    BY <1>7, PointerOf DEF Bound
  <2> QED BY <1>4, <1>7, <2>1
<1>9. ASSUME NEW k \in 0 .. n - 1 PROVE a + k \in Mapped
  <2>1. a + k \in Nat /\ a + k < a + n /\ a + k \in 0 .. GuestSpace - 1
    BY TableTypes
  <2>2. Covering(bound[i], a + k)
    BY <1>5, <2>1 DEF Covering
  <2>3. PICK x \in DOMAIN regions : Covering(regions[x], a + k)
    BY <2>1, <2>2, BoundServes
  <2> QED BY <2>1, <2>3 DEF Mapped, Covers, Covering
<1> QED BY <1>8, <1>9

\* Less than a segment apart, addresses with the same remainder are the same.
LEMMA SameInSegment ==
  ASSUME NEW S \in Nat \ {0}, NEW a \in Nat, NEW b \in Nat, a % S = b % S, a - b < S, b - a < S
  PROVE  a = b
<1> DEFINE q == a \div S
           p == b \div S
           u == a % S
           k == q - p
<1>1. a = S * q + u /\ b = S * p + u /\ q \in Int /\ p \in Int /\ u \in Nat
  OBVIOUS
<1> HIDE DEF q, p, u
<1>2. k \in Int /\ S * q = S * p + S * k
  BY <1>1
<1> HIDE DEF k
<1>3. a - b = S * k
  BY <1>1, <1>2
<1>4. ASSUME k >= 1 PROVE FALSE
  <2>1. S * k >= S
    BY <1>2, <1>4
  <2> QED BY <1>3, <2>1
<1>5. ASSUME k <= -1 PROVE FALSE
  <2>1. S * k <= -S
    BY <1>2, <1>5
  <2> QED BY <1>3, <2>1
<1>6. k = 0
  BY <1>2, <1>4, <1>5
<1> QED BY <1>3, <1>6

\* The addresses of one segment reach different bytes.
LEMMA SegmentInjective ==
  ASSUME FlatInv, LayoutInv, active, NEW a \in Mapped, NEW b \in Mapped, a - b < Segment, b - a < Segment,
         HostPointer(a) = HostPointer(b)
  PROVE  a = b
<1>1. Memory(a) = Memory(b)
  BY LaidCoherent DEF AliasesCoherent
<1>2. a \in Nat /\ b \in Nat /\ Segment \in Nat \ {0}
  BY TableTypes DEF Mapped
<1>3. a = b \/ a % Segment = b % Segment
  <2>1. PICK j \in DOMAIN regions :
          Memory(a) = [backing |-> KeyOf(regions[j]).backing,
                       byte |-> IF KeyOf(regions[j]).backing = "Owned" THEN a ELSE a % Segment]
    BY MemoryOf
  <2>2. PICK k \in DOMAIN regions :
          Memory(b) = [backing |-> KeyOf(regions[k]).backing,
                       byte |-> IF KeyOf(regions[k]).backing = "Owned" THEN b ELSE b % Segment]
    BY MemoryOf
  <2> DEFINE x == KeyOf(regions[j]).backing
             y == KeyOf(regions[k]).backing
  <2> HIDE DEF x, y
  <2>3. [backing |-> x, byte |-> IF x = "Owned" THEN a ELSE a % Segment]
        = [backing |-> y, byte |-> IF y = "Owned" THEN b ELSE b % Segment]
    BY <1>1, <2>1, <2>2 DEF x, y
  <2> QED BY <2>3
<1> QED BY <1>2, <1>3, SameInSegment

(***************************************************************************)
(* Guest memory from the probes to stop                                    *)
(***************************************************************************)
MemoryInv == LayoutInv /\ TableInv

LEMMA MemoryInitially == ExecInit => MemoryInv
<1> SUFFICES ASSUME ExecInit PROVE MemoryInv
  OBVIOUS
<1>1. /\ sections = <<>> /\ regions = <<>> /\ ~active /\ table = <<>> /\ next = 1 /\ phase = "idle" /\ ~memoryReady
      /\ stage \in {"smoke", "services"}
  BY DEF ExecInit, BootInit, Init, SliceInit
<1>2. WellLaid(table) /\ table \in Seq(Requests)
  BY <1>1 DEF WellLaid
<1>3. LayoutInv
  BY <1>1, <1>2, LaidFresh DEF LaidNothing
<1> QED BY <1>1, <1>3 DEF MemoryInv, TableInv

\* Nothing changes in guest memory, and nobody has begun to bring it up.
LEMMA MemoryUntouched ==
  ASSUME MemoryInv, UNCHANGED <<guestVars, memoryVars, config>>,
         stage' = stage \/ (phase = "idle" /\ stage' \notin {"smoke", "api_probe"})
  PROVE  MemoryInv'
<1>1. UNCHANGED <<sections, regions, active, table, phase, next, memoryReady, bound, config>>
  BY DEF guestVars, memoryVars
<1>2. LayoutInv'
  BY <1>1, LaidStays DEF MemoryInv
<1>3. \A r : Binding(r)' = Binding(r)
  BY <1>1 DEF Binding, Storage, HostPointer, Covers
<1>4. TableInv'
  BY <1>1, <1>3 DEF MemoryInv, TableInv
<1> QED BY <1>2, <1>4 DEF MemoryInv

\* Memory::Reset.
LEMMA MemoryTakenDown ==
  ASSUME FlatInv, MemoryInv, Reset, phase = "idle", UNCHANGED <<loopVars, config>>, stage' \notin {"smoke", "api_probe"}
  PROVE  MemoryInv'
<1>1. UNCHANGED <<table, next, phase>> /\ ~memoryReady'
  BY DEF loopVars, Reset
<1>2. WellLaid(table') /\ table' \in Seq(Requests)
  BY <1>1 DEF MemoryInv, LayoutInv, FlatInv, TypeOK
<1>3. CASE active
  BY <1>1, <1>2, <1>3, LaidReleased DEF Reset, MemoryInv, TableInv
<1>4. CASE ~active
  <2>1. UNCHANGED <<sections, regions, active>>
    BY <1>4 DEF Reset
  <2>2. LayoutInv'
    BY <1>1, <2>1, LaidStays DEF MemoryInv
  <2> QED BY <1>1, <2>2 DEF MemoryInv, TableInv
<1> QED BY <1>3, <1>4

\* The probes and Memory::Init bring memory up, each from its own table.
LEMMA MemoryStepsKeepMemory ==
  ASSUME BootInv, MemoryInv
  PROVE  /\ ProbeInitialize => MemoryInv'
         /\ (\E c \in Configurations : MemoryInitialize(c)) => MemoryInv'
         /\ Loop => MemoryInv'
         /\ ProbeDone => MemoryInv'
         /\ MemoryBound => MemoryInv'
         /\ MemoryProbeDone => MemoryInv'
<1>0. FlatInv /\ LayoutInv /\ TableInv /\ WellLaid(table) /\ table \in Seq(Requests)
  BY DEF BootInv, MemoryInv, FlatInv, TypeOK, LayoutInv
<1>1. ASSUME ProbeInitialize PROVE MemoryInv'
  <2>1. PICK t \in {SmokeTable, ProbeTable} : Initialize(t)
    BY <1>1 DEF ProbeInitialize
  <2>2. /\ stage \in {"smoke", "api_probe"} /\ phase = "idle" /\ phase' \in {"failed", "regions"} /\ next' = 1 /\ table' = t
        /\ UNCHANGED <<sections, regions, active, memoryReady, stage, config>>
    BY <1>1, <2>1 DEF ProbeInitialize, Initialize, memoryVars
  <2>3. ~active /\ sections = <<>> /\ regions = <<>>
    BY <1>0, <2>2 DEF TableInv, FlatInv
  <2>4. ~memoryReady
    BY <2>2 DEF BootInv, StageInv, NotReady
  <2>5. WellLaid(t) /\ t \in Seq(Requests)
    BY LayoutsAssumption, ConfigurationsAssumption
  <2>6. WellLaid(table)'
    BY <2>2, <2>5 DEF WellLaid
  <2>7. LaidNothing'
    BY <2>2, <2>3, <2>5, <2>6 DEF LaidNothing
  <2>8. (LaidNothing => LayoutInv)'
    BY LaidFresh, PTL
  <2>9. TableInv'
    BY <2>2, <2>4 DEF TableInv
  <2> QED BY <2>7, <2>8, <2>9 DEF MemoryInv
<1>2. ASSUME NEW c \in Configurations, MemoryInitialize(c) PROVE MemoryInv'
  <2>1. /\ stage \in {"memory_probe", "memory"} /\ phase = "idle" /\ ~memoryReady /\ Reset
        /\ config' = c /\ table' = RequestsFor(c) /\ next' = 1 /\ phase' \in {"failed", "regions"} /\ stage' = stage
    BY <1>2 DEF MemoryInitialize
  <2>2. WellLaid(RequestsFor(c)) /\ RequestsFor(c) \in Seq(Requests)
    BY LayoutsAssumption, ConfigurationsAssumption, RequestsTyped
  <2>3. LayoutInv'
    <3>1. CASE active
      BY <2>1, <2>2, <3>1, LaidReleased DEF Reset
    <3>2. CASE ~active
      <4>1. sections' = <<>> /\ regions' = <<>> /\ ~active'
        BY <1>0, <2>1, <3>2 DEF Reset, FlatInv
      <4>2. WellLaid(table)'
        BY <2>1, <2>2 DEF WellLaid
      <4>3. LaidNothing'
        BY <2>1, <2>2, <4>1, <4>2 DEF LaidNothing
      <4>4. (LaidNothing => LayoutInv)'
        BY LaidFresh, PTL
      <4> QED BY <4>3, <4>4
    <3> QED BY <3>1, <3>2
  <2>4. RequestsFor(config)' = RequestsFor(c)
    BY <2>1 DEF RequestsFor
  <2>5. ~memoryReady'
    BY <2>1 DEF Reset
  <2>6. TableInv'
    BY <2>1, <2>4, <2>5 DEF TableInv
  <2> QED BY <2>3, <2>6 DEF MemoryInv
<1>3. ASSUME Loop PROVE MemoryInv'
  <2>1. InitializeStep /\ UNCHANGED <<memoryReady, bound, stage, config>>
    BY <1>3 DEF Loop, memoryVars
  <2>2. phase \in {"regions", "views"} /\ phase' # "idle" /\ table' = table
    BY <2>1 DEF InitializeStep, PlaceRegion, ReserveWindow, AllocateView, Activate, FailInit
  <2>3. stage \in {"smoke", "api_probe", "memory_probe", "memory"} /\ ~memoryReady
    BY <1>0, <2>2 DEF BootInv, StageInv, Stages, Up, Down, NotReady, TableInv
  <2>4. LayoutInv'
    BY <1>0, <2>1, StepsKeepLaid
  <2>5. TableInv'
    BY <1>0, <2>1, <2>2, <2>3 DEF TableInv, RequestsFor
  <2> QED BY <2>4, <2>5 DEF MemoryInv
<1>4. ASSUME ProbeDone PROVE MemoryInv'
  <2>1. /\ stage \in {"smoke", "api_probe"} /\ phase' = "idle" /\ UNCHANGED <<table, next, memoryReady, config>>
    BY <1>4 DEF ProbeDone, memoryVars
  <2>2. ~memoryReady
    BY <2>1 DEF BootInv, StageInv, NotReady
  <2>3. CASE stage' = "aborted" /\ UNCHANGED flatVars
    <3>1. LayoutInv'
      BY <1>0, <2>1, <2>3, LaidStays DEF flatVars
    <3> QED BY <2>1, <2>2, <2>3, <3>1 DEF MemoryInv, TableInv
  <2>4. CASE stage' = After[stage] /\ Release
    <3>1. LayoutInv' /\ ~active'
      BY <1>0, <2>1, <2>4, LaidReleased DEF Release
    <3>2. stage' \in {"api_probe", "memory_probe"}
      BY <2>1, <2>4 DEF After
    <3> QED BY <2>1, <2>2, <3>1, <3>2 DEF MemoryInv, TableInv
  <2> QED BY <1>4, <2>3, <2>4 DEF ProbeDone
<1>5. ASSUME MemoryBound PROVE MemoryInv'
  <2>1. /\ stage \in {"memory_probe", "memory"} /\ phase \in {"succeeded", "failed"} /\ phase' = "idle"
        /\ UNCHANGED <<sections, regions, active, table, next, config>>
    BY <1>5 DEF MemoryBound, flatVars
  <2>2. LayoutInv'
    BY <1>0, <2>1, LaidStays
  <2>3. table = RequestsFor(config) /\ ~memoryReady
    BY <1>0, <2>1 DEF TableInv, BootInv, StageInv, Up, NotReady
  <2>4. RequestsFor(config)' = RequestsFor(config)
    BY <2>1 DEF RequestsFor
  <2>5. \A r : Binding(r)' = Binding(r)
    BY <2>1 DEF Binding, Storage, HostPointer, Covers
  <2>6. CASE stage' = "aborted" /\ UNCHANGED memoryVars
    BY <2>1, <2>2, <2>3, <2>6 DEF MemoryInv, TableInv, memoryVars
  <2>7. CASE phase # "failed" /\ BindRegions(config) /\ stage' = IF stage = "memory" THEN After[stage] ELSE stage
    <3>1. stage' \in {"memory_probe", "scheduler"} /\ active'
      BY <1>0, <1>5, <2>1, <2>7 DEF After, FlatInv, MemoryBound
    <3>2. bound' = [i \in DOMAIN config |-> Binding(config[i])]
      BY <2>7 DEF BindRegions, Binding
    <3>3. bound' = [i \in DOMAIN config' |-> Binding(config[i])']
      BY <2>1, <2>5, <3>2
    <3>4. table' = RequestsFor(config)'
      BY <2>1, <2>3, <2>4
    <3>5. TableInv'
      BY <2>1, <3>1, <3>3, <3>4 DEF TableInv
    <3> QED BY <2>2, <3>5 DEF MemoryInv
  <2> QED BY <1>5, <2>6, <2>7 DEF MemoryBound
<1>6. ASSUME MemoryProbeDone PROVE MemoryInv'
  <2>1. stage = "memory_probe" /\ memoryReady /\ Reset /\ stage' = "services" /\ UNCHANGED <<loopVars, config>>
    BY <1>6 DEF MemoryProbeDone, After
  <2>2. phase = "idle"
    BY <2>1 DEF BootInv, StageInv, NotReady, Up
  <2> QED BY <1>0, <2>1, <2>2, MemoryTakenDown
<1> QED BY <1>1, <1>2, <1>3, <1>4, <1>5, <1>6

\* start and stop leave it as it is or take all of it down.
LEMMA StartStepsKeepMemory ==
  ASSUME BootInv, MemoryInv
  PROVE  /\ Services => MemoryInv'
         /\ SchedulerRefused => MemoryInv'
         /\ WorkerRefused => MemoryInv'
         /\ SchedulerReady \/ WorkerReady \/ SwitchToWorker \/ WorkerYields \/ DestroyWorker => MemoryInv'
         /\ Inspect \/ InitializeData \/ EnterProduct \/ ProductReturns => MemoryInv'
         /\ Stop => MemoryInv'
<1>1. ASSUME Services PROVE MemoryInv'
  <2>1. UNCHANGED <<guestVars, memoryVars, config>> /\ stage = "services" /\ stage' \notin {"smoke", "api_probe"}
    BY <1>1 DEF Services
  <2>2. phase = "idle"
    BY <2>1 DEF BootInv, StageInv, Down
  <2> QED BY <2>1, <2>2, MemoryUntouched
<1>2. ASSUME SchedulerRefused \/ WorkerRefused PROVE MemoryInv'
  <2>1. stage \in {"scheduler", "worker"} /\ Reset /\ stage' = "waiting" /\ UNCHANGED <<loopVars, config>>
    BY <1>2 DEF SchedulerRefused, WorkerRefused
  <2>2. phase = "idle"
    BY <2>1 DEF BootInv, StageInv, Up
  <2> QED BY <2>1, <2>2, MemoryTakenDown DEF BootInv
<1>3. ASSUME SchedulerReady \/ WorkerReady \/ SwitchToWorker \/ WorkerYields \/ DestroyWorker PROVE MemoryInv'
  <2>1. /\ UNCHANGED <<guestVars, memoryVars, config>>
        /\ stage \in {"scheduler", "worker", "handoff", "on_worker"} /\ stage' \notin {"smoke", "api_probe"}
    BY <1>3 DEF SchedulerReady, WorkerReady, SwitchToWorker, WorkerYields, DestroyWorker
  <2>2. phase = "idle"
    BY <2>1 DEF BootInv, StageInv, Up
  <2> QED BY <2>1, <2>2, MemoryUntouched
<1>4. ASSUME Inspect \/ InitializeData \/ EnterProduct \/ ProductReturns PROVE MemoryInv'
  <2>1. /\ UNCHANGED <<guestVars, memoryVars, config>>
        /\ stage \in {"inspect", "data", "execution", "guest"} /\ stage' \notin {"smoke", "api_probe"}
    BY <1>4 DEF Inspect, InitializeData, EnterProduct, ProductReturns
  <2>2. phase = "idle"
    BY <2>1 DEF BootInv, StageInv, Up
  <2> QED BY <2>1, <2>2, MemoryUntouched
<1>5. ASSUME Stop PROVE MemoryInv'
  <2>1. stage = "waiting" /\ stage' = "stopped" /\ UNCHANGED <<loopVars, config>>
    BY <1>5 DEF Stop
  <2>2. phase = "idle"
    BY <2>1 DEF BootInv, StageInv, Up, Down
  <2>3. CASE memoryReady
    BY <1>5, <2>1, <2>2, <2>3, MemoryTakenDown DEF Stop, BootInv
  <2>4. CASE ~memoryReady
    <3>1. UNCHANGED <<guestVars, memoryVars, config>>
      BY <1>5, <2>1, <2>4 DEF Stop, guestVars, flatVars, loopVars
    <3> QED BY <2>1, <2>2, <3>1, MemoryUntouched
  <2> QED BY <2>3, <2>4
<1> QED BY <1>1, <1>2, <1>3, <1>4, <1>5

\* Translated code never changes the layout, nor, before it returns, what start established.
LEMMA GuestStepsApart ==
  ASSUME [Next]_vars, ~BootNext, ~ProductReturns
  PROVE  /\ UNCHANGED <<guestVars, memoryVars, config, resultVars>>
         /\ stage' = stage \/ (stage = "guest" /\ stage' = "aborted")
<1> DEFINE Apart == /\ UNCHANGED <<guestVars, memoryVars, config, resultVars>>
                    /\ stage' = stage \/ (stage = "guest" /\ stage' = "aborted")
<1>1. ASSUME NEW kind, NEW a, Abort(kind, a), InGuest, UNCHANGED <<guestVars, memoryVars, config, resultVars>> PROVE Apart
  BY <1>1 DEF Abort, InGuest
<1>2. ASSUME UNCHANGED bootVars PROVE Apart
  BY <1>2 DEF bootVars, guestVars, memoryVars, resultVars
<1>3. ASSUME UNCHANGED <<guestVars, memoryVars, config, resultVars, stage>> PROVE Apart
  BY <1>3 DEF guestVars, memoryVars, resultVars
<1> HIDE DEF Apart
<1>4. ASSUME NEW a \in Called, InvokeDirect(a) \/ InvokeIndirect(a) PROVE Apart
  BY <1>1, <1>2, <1>4 DEF InvokeDirect, InvokeIndirect, Push, CanCall, Block
<1>5. ASSUME NEW r \in Guardable, Work(r) PROVE Apart
  BY <1>2, <1>5 DEF Work
<1>6. ASSUME Return PROVE Apart
  BY <1>1, <1>2, <1>6 DEF Return, Block
<1>7. ASSUME NEW h \in Fibers, CreateFiber(h) \/ EnterFiber(h) PROVE Apart
  BY <1>1, <1>3, <1>7 DEF CreateFiber, EnterFiber
<1>8. ASSUME NEW h \in GuestHosts, NEW exits \in BOOLEAN, SwitchThread(h, exits) PROVE Apart
  BY <1>3, <1>8 DEF SwitchThread
<1>9. ASSUME PublishFst \/ DvdInitAlone PROVE Apart
  BY <1>2, <1>9 DEF PublishFst, DvdInitAlone
<1>10. ASSUME DvdInitCallsFsInit PROVE Apart
  BY <1>1, <1>2, <1>10 DEF DvdInitCallsFsInit, Push, CanCall
<1>11. ASSUME UNCHANGED vars PROVE Apart
  BY <1>2, <1>11 DEF vars
<1>12. ~StartProgram /\ ~ReturnFromStart
  BY DEF StartProgram, ReturnFromStart
<1>13. Apart
  BY <1>4, <1>5, <1>6, <1>7, <1>8, <1>9, <1>10, <1>11, <1>12 DEF Next
<1> QED BY <1>13 DEF Apart

LEMMA MemoryStep == BootInv /\ MemoryInv /\ [Next]_vars => MemoryInv'
<1> SUFFICES ASSUME BootInv, MemoryInv, [Next]_vars PROVE MemoryInv'
  OBVIOUS
<1>1. CASE BootNext
  BY <1>1, MemoryStepsKeepMemory, StartStepsKeepMemory DEF BootNext
<1>2. CASE ProductReturns
  BY <1>2, StartStepsKeepMemory
<1>3. CASE ~BootNext /\ ~ProductReturns
  <2>1. UNCHANGED <<guestVars, memoryVars, config>> /\ (stage' = stage \/ (stage = "guest" /\ stage' = "aborted"))
    BY <1>3, GuestStepsApart
  <2>2. stage = "guest" => phase = "idle"
    BY DEF BootInv, StageInv, Up
  <2> QED BY <2>1, <2>2, MemoryUntouched
<1> QED BY <1>1, <1>2, <1>3

\* From the probes to the end of main, the sections are those of the regions, and the
\* regions those of the table that stage lays out.
THEOREM MemoryInvariant == Spec => []MemoryInv
BY MemoryInitially, MemoryStep, BootInvariant, PTL DEF Spec

\* When Memory is ready it is bound to a layout of its own configuration.
LEMMA ReadyIsBound ==
  ASSUME BootInv, MemoryInv, memoryReady
  PROVE  Bound
BY DEF BootInv, MemoryInv, StageInv, TableInv, Bound

\* Whatever configuration or probe memory is brought up with, two addresses reach the
\* same byte of the host exactly if they are views of the same byte of the console, and
\* an access that Memory lets through stays in live memory and agrees, byte by byte,
\* with the pointers GuestFlat gives (horizon_guest_flat.cpp, memory_switch_slice.cpp).
THEOREM MemoryCoherent == Spec => []GuestMemoryCoherent
<1>1. BootInv /\ MemoryInv => GuestMemoryCoherent
  BY ReadyIsBound, LaidCoherent, BoundAgrees DEF GuestMemoryCoherent, BootInv, MemoryInv
<1> QED BY <1>1, BootInvariant, MemoryInvariant, PTL

(***************************************************************************)
(* What start established when translated code runs                        *)
(***************************************************************************)
\* The first unit of MEM1, where the words of low memory are, is there to be written.
LEMMA LowMemorySeeded ==
  ASSUME BootInv, MemoryInv, memoryReady, config = WiiDefaults
  PROVE  Seeded = PinnedLayout
<1>1. Bound
  BY ReadyIsBound
<1>2. 2 \in DOMAIN WiiDefaults /\ WiiDefaults[2].base = Cached /\ WiiDefaults[2].size = Mem1Size
  BY DEF WiiDefaults
<1>3. 2 \in DOMAIN bound /\ bound[2].base = Cached /\ bound[2].size = Mem1Size
  BY <1>1, <1>2 DEF Bound, Binding
<1>4. Cached \in Nat /\ Cached + 1 <= GuestSpace /\ Mem1Size >= 1 /\ Mem1Size \in Nat
  BY SpaceAssumption, SliceAssumption DEF Cached, GuestSpace, Segment
<1>5. GetPointer(Cached, 1) # NoHost
  BY <1>1, <1>3, <1>4, BoundReaches DEF BootInv, MemoryInv
<1> QED BY <1>5 DEF Seeded

LEMMA CoreInitially == ExecInit => CoreInv
BY DEF ExecInit, BootInit, Init, CoreInv

\* The steps of start and stop.
LEMMA StartKeepsCore ==
  ASSUME BootInv, MemoryInv, CoreInv, BootNext
  PROVE  CoreInv'
<1>1. ASSUME ProbeInitialize PROVE CoreInv'
  BY <1>1 DEF ProbeInitialize, CoreInv, resultVars
<1>2. ASSUME NEW c \in Configurations, MemoryInitialize(c) PROVE CoreInv'
  BY <1>2 DEF MemoryInitialize, CoreInv, resultVars
<1>3. ASSUME Loop PROVE CoreInv'
  <2>1. phase # "idle" /\ UNCHANGED <<stage, config, resultVars>>
    BY <1>3 DEF Loop, InitializeStep, PlaceRegion, ReserveWindow, AllocateView, Activate
  <2> QED BY <2>1 DEF CoreInv, resultVars
<1>4. ASSUME ProbeDone \/ MemoryProbeDone PROVE CoreInv'
  <2>1. stage \in {"smoke", "api_probe", "memory_probe"} /\ UNCHANGED <<config, resultVars>>
    BY <1>4 DEF ProbeDone, MemoryProbeDone
  <2>2. stage' \in {"aborted", "api_probe", "memory_probe", "services"}
    BY <1>4 DEF ProbeDone, MemoryProbeDone, After
  <2> QED BY <2>1, <2>2 DEF CoreInv, resultVars
<1>5. ASSUME MemoryBound PROVE CoreInv'
  <2>1. stage \in {"memory_probe", "memory"} /\ phase # "idle" /\ phase' = "idle" /\ UNCHANGED <<config, resultVars>>
    BY <1>5 DEF MemoryBound
  <2>2. stage' = "aborted" \/ stage' = IF stage = "memory" THEN "scheduler" ELSE "memory_probe"
    BY <1>5, <2>1 DEF MemoryBound, After
  <2> QED BY <2>1, <2>2 DEF CoreInv, resultVars
<1>6. ASSUME Services PROVE CoreInv'
  <2>1. phase = "idle"
    BY <1>6 DEF Services, BootInv, StageInv, Down
  <2> QED BY <1>6, <2>1 DEF Services, CoreInv, guestVars, resultVars
<1>7. ASSUME SchedulerRefused \/ WorkerRefused \/ Stop PROVE CoreInv'
  <2>1. stage \in {"scheduler", "worker", "waiting"} /\ stage' \in {"waiting", "stopped"} /\ UNCHANGED <<config, resultVars>>
    BY <1>7 DEF SchedulerRefused, WorkerRefused, Stop
  <2> QED BY <2>1 DEF CoreInv, resultVars
<1>8. ASSUME SchedulerReady \/ WorkerReady \/ SwitchToWorker \/ WorkerYields \/ DestroyWorker PROVE CoreInv'
  <2>1. /\ stage \in {"scheduler", "worker", "handoff", "on_worker"}
        /\ stage' \in {"worker", "handoff", "on_worker", "inspect"} /\ UNCHANGED <<config, resultVars>>
    BY <1>8 DEF SchedulerReady, WorkerReady, SwitchToWorker, WorkerYields, DestroyWorker
  <2> QED BY <2>1 DEF CoreInv, resultVars
<1>9. ASSUME Inspect PROVE CoreInv'
  <2>1. stage = "inspect" /\ stage' \in {"data", "waiting"} /\ UNCHANGED <<config, lowMemory>>
    BY <1>9 DEF Inspect
  <2>2. stage' = "data" => product'.compatible
    BY <1>9 DEF Inspect
  <2>3. stopPoint \notin {"Executed", "ExecutionFailed"}
    BY <2>1 DEF CoreInv
  <2>4. stopPoint' \notin {"Executed", "ExecutionFailed"}
    BY <1>9, <2>3 DEF Inspect
  <2> QED BY <2>1, <2>2, <2>4 DEF CoreInv
<1>10. ASSUME InitializeData PROVE CoreInv'
  <2>1. /\ stage = "data" /\ UNCHANGED <<config, product>>
        /\ \/ stage' = "waiting"
           \/ /\ stage' = "execution" /\ stopPoint' = "DataSectionsInitialized"
              /\ product.initializer /\ lowMemory' = Seeded
    BY <1>10 DEF InitializeData
  <2>2. stopPoint' \in {stopPoint, "WaitingForDataInitializer", "DataSectionsInitialized", "DataSectionInitializationFailed"}
    BY <1>10 DEF InitializeData
  <2>3. stopPoint \notin {"Executed", "ExecutionFailed"}
    BY <2>1 DEF CoreInv
  <2>4. Seeded = PinnedLayout
    BY <2>1, LowMemorySeeded DEF BootInv, StageInv, Up, CoreInv
  <2>5. PinnedLayout' = PinnedLayout
    BY DEF PinnedLayout
  <2> QED BY <2>1, <2>2, <2>3, <2>4, <2>5 DEF CoreInv
<1>11. ASSUME EnterProduct PROVE CoreInv'
  <2>1. /\ stage = "execution" /\ stage' \in {"waiting", "guest"} /\ UNCHANGED <<config, product, lowMemory>>
        /\ stage' = "guest" => product.runner /\ stopPoint' = stopPoint
        /\ stopPoint' \in {stopPoint, "WaitingForTranslatedExecution"}
    BY <1>11 DEF EnterProduct
  <2>2. PinnedLayout' = PinnedLayout
    BY DEF PinnedLayout
  <2> QED BY <2>1, <2>2 DEF CoreInv
<1> QED BY <1>1, <1>2, <1>3, <1>4, <1>5, <1>6, <1>7, <1>8, <1>9, <1>10, <1>11 DEF BootNext

LEMMA CoreStep == BootInv /\ MemoryInv /\ CoreInv /\ [Next]_vars => CoreInv'
<1> SUFFICES ASSUME BootInv, MemoryInv, CoreInv, [Next]_vars PROVE CoreInv'
  OBVIOUS
<1>1. CASE BootNext
  BY <1>1, StartKeepsCore
<1>2. CASE ProductReturns
  BY <1>2 DEF ProductReturns, CoreInv
<1>3. CASE ~BootNext /\ ~ProductReturns
  <2>1. UNCHANGED <<config, resultVars>> /\ (stage' = stage \/ (stage = "guest" /\ stage' = "aborted"))
    BY <1>3, GuestStepsApart
  <2>2. phase' = phase
    BY <1>3, GuestStepsApart DEF guestVars
  <2>3. PinnedLayout' = PinnedLayout
    BY DEF PinnedLayout
  <2> QED BY <2>1, <2>2, <2>3 DEF CoreInv, resultVars
<1> QED BY <1>1, <1>2, <1>3

\* Every stage of start rests on what the stages before it have established.
THEOREM CoreInvariant == Spec => []CoreInv
BY CoreInitially, CoreStep, BootInvariant, MemoryInvariant, PTL DEF Spec

\* An area in one of the two memories: cached MEM1 and MEM2 of the defaults.
InMem1(lo, hi) == Cached <= lo /\ hi <= Cached + Mem1Size
InMem2(lo, hi) == Cached + Half <= lo /\ hi <= Cached + Half + Mem2Size

\* Every area inside one of them can be reached, and all its bytes are mapped.
LEMMA AreaReached ==
  ASSUME FlatInv, LayoutInv, Bound, memoryReady, config = WiiDefaults,
         NEW lo \in Nat, NEW hi \in Nat, lo < hi, InMem1(lo, hi) \/ InMem2(lo, hi)
  PROVE  /\ GetPointer(lo, hi - lo) # NoHost
         /\ \A a \in lo .. hi - 1 : a \in Mapped /\ Cached <= a /\ a < Cached + Segment
<1>1. /\ DOMAIN bound = 1 .. 7 /\ bound[2].base = Cached /\ bound[2].size = Mem1Size
      /\ bound[5].base = Cached + Half /\ bound[5].size = Mem2Size
  BY DEF Bound, Binding, WiiDefaults
<1>2. /\ Cached \in Nat /\ Half \in Nat /\ Segment \in Nat /\ Segment = 2 * Half /\ Cached + Segment <= GuestSpace
      /\ Mem1Size \in Nat /\ Mem1Size <= Half /\ Mem2Size \in Nat /\ Mem2Size <= Half /\ GuestSpace \in Nat
  BY SpaceAssumption, SliceAssumption DEF Cached, GuestSpace, Segment
<1>3. PICK i \in {2, 5} : bound[i].base <= lo /\ hi <= bound[i].base + bound[i].size
  BY <1>1 DEF InMem1, InMem2
<1>4. i \in DOMAIN bound /\ lo + (hi - lo) = hi /\ hi - lo \in Nat \ {0}
  BY <1>1
<1>5. Cached <= lo /\ hi <= Cached + Segment /\ hi <= GuestSpace
  BY <1>2 DEF InMem1, InMem2
<1>6. GetPointer(lo, hi - lo) # NoHost /\ \A k \in 0 .. (hi - lo) - 1 : lo + k \in Mapped
  BY <1>3, <1>4, <1>5, BoundReaches
<1>7. ASSUME NEW a \in lo .. hi - 1 PROVE a \in Mapped /\ Cached <= a /\ a < Cached + Segment
  <2>1. a - lo \in 0 .. (hi - lo) - 1 /\ lo + (a - lo) = a
    OBVIOUS
  <2> QED BY <1>2, <1>5, <1>6, <2>1
<1> QED BY <1>6, <1>7

LEMMA PinnedUsable ==
  ASSUME BootInv, MemoryInv, memoryReady, config = WiiDefaults, lowMemory = PinnedLayout
  PROVE  AreasUsable
<1> DEFINE end == Cached + Half + Mem2Size
           ios == end - IosReserved
           ipc == ios - IpcArena
           A == <<Mem1ArenaLo, Mem1ArenaHi>>
           B == <<Mem2LoFloor, ipc - FstReserve>>
           C == <<ipc, ios>>
           D == <<ios, end>>
<1>1. Areas = {A, B, C, D}
  BY DEF Areas, PinnedLayout
<1>2. /\ Cached \in Nat /\ Half \in Nat /\ Mem1Size \in Nat /\ Mem1Size <= Half /\ Mem2Size \in Nat /\ Mem2Size <= Half
      /\ Segment = 2 * Half
  BY SpaceAssumption, SliceAssumption DEF Cached, Segment
<1>3. /\ Mem1ArenaLo \in Nat /\ Mem1ArenaHi \in Nat /\ Mem2LoFloor \in Nat /\ FstReserve \in Nat
      /\ IpcArena \in Nat \ {0} /\ IosReserved \in Nat \ {0}
      /\ Cached <= Mem1ArenaLo /\ Mem1ArenaLo < Mem1ArenaHi /\ Mem1ArenaHi <= Cached + Mem1Size
      /\ Cached + Half <= Mem2LoFloor /\ Mem2LoFloor + FstReserve + IpcArena + IosReserved < Cached + Half + Mem2Size
  BY LowMemoryAssumption
<1>4. /\ Mem2LoFloor < ipc - FstReserve /\ ipc - FstReserve <= ipc /\ ipc < ios /\ ios < end
      /\ ipc \in Nat /\ ios \in Nat /\ end \in Nat /\ ipc - FstReserve \in Nat /\ end = Cached + Half + Mem2Size
      /\ Mem1ArenaHi <= Mem2LoFloor
  BY <1>2, <1>3
<1> HIDE DEF ipc, ios, end
\* In ascending order, none reaching into the next.
<1>5. \A x \in Areas : x[1] \in Nat /\ x[2] \in Nat /\ x[1] < x[2] /\ (InMem1(x[1], x[2]) \/ InMem2(x[1], x[2]))
  BY <1>1, <1>2, <1>3, <1>4 DEF InMem1, InMem2
<1>6. \A x, y \in Areas : x # y => x[2] <= y[1] \/ y[2] <= x[1]
  <2>1. A[2] <= B[1] /\ B[2] <= C[1] /\ C[2] <= D[1]
    BY <1>4
  <2>2. A[2] <= C[1] /\ A[2] <= D[1] /\ B[2] <= D[1]
    BY <1>3, <1>4
  <2> HIDE DEF A, B, C, D
  <2> QED BY <1>1, <2>1, <2>2
<1>7. A # B /\ A # C /\ A # D /\ B # C /\ B # D /\ C # D
  <2>1. Mem1ArenaLo # Mem2LoFloor /\ Mem1ArenaLo # ipc /\ Mem1ArenaLo # ios /\ Mem2LoFloor # ipc /\ Mem2LoFloor # ios /\ ipc # ios
    BY <1>3, <1>4
  <2> QED BY <2>1
<1> HIDE DEF A, B, C, D
<1>8. Cardinality(Areas) = 4
  <2>1. IsFiniteSet({}) /\ Cardinality({}) = 0
    BY FS_EmptySet
  <2>2. IsFiniteSet({A}) /\ Cardinality({A}) = 1
    BY FS_Singleton
  <2>3. IsFiniteSet({A, B}) /\ Cardinality({A, B}) = 2
    <3>1. {A, B} = {A} \cup {B} /\ B \notin {A}
      BY <1>7
    <3> QED BY <2>2, <3>1, FS_AddElement
  <2>4. IsFiniteSet({A, B, C}) /\ Cardinality({A, B, C}) = 3
    <3>1. {A, B, C} = {A, B} \cup {C} /\ C \notin {A, B}
      BY <1>7
    <3> QED BY <2>3, <3>1, FS_AddElement
  <2>5. {A, B, C, D} = {A, B, C} \cup {D} /\ D \notin {A, B, C}
    BY <1>7
  <2> QED BY <1>1, <2>4, <2>5, FS_AddElement
<1>9. Bound /\ FlatInv /\ LayoutInv /\ active
  BY ReadyIsBound DEF BootInv, MemoryInv, Bound
<1>10. ASSUME NEW x \in Areas
       PROVE  /\ x[1] < x[2] /\ GetPointer(x[1], x[2] - x[1]) # NoHost
              /\ \A a \in x[1] .. x[2] - 1 : a \in Mapped /\ Cached <= a /\ a < Cached + Segment
  BY <1>5, <1>9, AreaReached
<1>11. ASSUME NEW x \in Areas, NEW y \in Areas, x # y, NEW a \in x[1] .. x[2] - 1, NEW b \in y[1] .. y[2] - 1
       PROVE  HostPointer(a) # HostPointer(b)
  <2>1. /\ a \in Mapped /\ b \in Mapped /\ Cached <= a /\ a < Cached + Segment /\ Cached <= b /\ b < Cached + Segment
        /\ a \in Nat /\ b \in Nat /\ x[1] <= a /\ a < x[2] /\ y[1] <= b /\ b < y[2]
    BY <1>5, <1>10
  <2>2. a # b
    BY <1>5, <1>6, <1>11, <2>1
  <2>3. a - b < Segment /\ b - a < Segment
    BY <1>2, <2>1
  <2> QED BY <1>9, <2>1, <2>2, <2>3, SegmentInjective
<1> QED BY <1>8, <1>10, <1>11 DEF AreasUsable

\* Translated code runs only on a core that is ready: in live memory, on the scheduler's
\* context or the stack of a guest thread, after the data sections, with areas published
\* to it that are its own; and the report of a run that got there says so
\* (runtime_bootstrap.cpp, wii_boot_low_memory.cpp).
THEOREM RunsOnReadyCore == Spec => []GuestRunsOnReadyCore
<1>1. BootInv /\ MemoryInv /\ CoreInv => GuestRunsOnReadyCore
  <2> SUFFICES ASSUME BootInv, MemoryInv, CoreInv PROVE GuestRunsOnReadyCore
    OBVIOUS
  <2>1. ASSUME stage = "execution" PROVE AreasUsable
    BY <2>1, PinnedUsable DEF BootInv, StageInv, Up, CoreInv
  <2>2. ASSUME stage = "guest"
        PROVE  /\ MemoryUp /\ OwnContexts = {"scheduler"} /\ current \in contexts
               /\ stopPoint = "DataSectionsInitialized"
    <3>1. "worker" \notin GuestHosts
      BY HostsAssumption DEF GuestHosts
    <3> QED BY <2>2, <3>1 DEF BootInv, StageInv, Up, MemoryUp, GuestContexts, OwnContexts, CoreInv
  <2> QED BY <2>1, <2>2 DEF GuestRunsOnReadyCore, CoreInv
<1> QED BY <1>1, BootInvariant, MemoryInvariant, CoreInvariant, PTL

(***************************************************************************)
(* The calls under way on a host stack                                     *)
(***************************************************************************)
Registers == [Guardable -> 0 .. 1]
Frames == [target : GuestAddresses, function : GuestAddresses, native : BOOLEAN,
           guard : SUBSET Guardable, before : Registers]

\* A translated function runs at the address it was called by, under a guard that puts
\* back whatever it leaves changed; the native DVDInit has no guard and __DVDFSInit above.
Shaped(s) ==
  \A i \in 1 .. Len(s) :
    /\ s[i].function = s[i].target
    /\ ~s[i].native => Clobbers[s[i].function] \subseteq s[i].guard
    /\ s[i].native => s[i].guard = {} /\ i < Len(s) /\ s[i + 1].target = DvdFsInit

\* What the call at i is returned to with, v for the call on top.
Meets(s, v, i) == IF i = Len(s) THEN v ELSE s[i + 1].before

\* Outside its guard a call has left every register as its caller had it.
Chained(s, v) ==
  \A i \in 1 .. Len(s) : \A r \in Guardable : r \notin s[i].guard => Meets(s, v, i)[r] = s[i].before[r]

LEMMA PushOne ==
  ASSUME NEW s \in Seq(Frames), NEW v \in Registers, Shaped(s), Chained(s, v),
         NEW f \in Frames, ~f.native, f.function = f.target, Clobbers[f.function] \subseteq f.guard, f.before = v
  PROVE  /\ s \o <<f>> \in Seq(Frames) /\ Shaped(s \o <<f>>) /\ Chained(s \o <<f>>, v)
         /\ Len(s \o <<f>>) = Len(s) + 1
         /\ {i \in 1 .. Len(s \o <<f>>) : (s \o <<f>>)[i].native} = {i \in 1 .. Len(s) : s[i].native}
<1> DEFINE N == Len(s)
           t == s \o <<f>>
<1>1. N \in Nat /\ t \in Seq(Frames) /\ Len(t) = N + 1 /\ (\A i \in 1 .. N : t[i] = s[i]) /\ t[N + 1] = f
  OBVIOUS
<1> HIDE DEF t, N
<1>2. ASSUME NEW i \in 1 .. N + 1
      PROVE  i = N + 1 \/ (i \in 1 .. N /\ i # N + 1 /\ (i < N => i + 1 \in 1 .. N))
  BY <1>1
<1>3. Shaped(t)
  <2> SUFFICES ASSUME NEW i \in 1 .. N + 1
               PROVE  /\ t[i].function = t[i].target
                      /\ ~t[i].native => Clobbers[t[i].function] \subseteq t[i].guard
                      /\ t[i].native => t[i].guard = {} /\ i < N + 1 /\ t[i + 1].target = DvdFsInit
    BY <1>1 DEF Shaped
  <2>1. CASE i = N + 1
    BY <1>1, <2>1
  <2>2. CASE i \in 1 .. N
    <3>1. t[i] = s[i] /\ (i < N => t[i + 1] = s[i + 1]) /\ i < N + 1
      BY <1>1, <1>2, <2>2
    <3> QED BY <2>2, <3>1 DEF Shaped, N
  <2> QED BY <1>2, <2>1, <2>2
<1>4. Chained(t, v)
  <2> SUFFICES ASSUME NEW i \in 1 .. N + 1, NEW r \in Guardable, r \notin t[i].guard
               PROVE  Meets(t, v, i)[r] = t[i].before[r]
    BY <1>1 DEF Chained
  <2>1. CASE i = N + 1
    BY <1>1, <2>1 DEF Meets
  <2>2. CASE i \in 1 .. N
    <3>1. Meets(t, v, i) = Meets(s, v, i)
      <4>1. CASE i = N
        BY <1>1, <1>2, <2>2, <4>1 DEF Meets, N
      <4>2. CASE i # N
        <5>1. i + 1 \in 1 .. N
          BY <1>1, <2>2, <4>2
        <5> QED BY <1>1, <1>2, <2>2, <4>2, <5>1 DEF Meets, N
      <4> QED BY <4>1, <4>2
    <3> QED BY <1>1, <2>2, <3>1 DEF Chained, N
  <2> QED BY <1>2, <2>1, <2>2
<1>5. {i \in 1 .. N + 1 : t[i].native} = {i \in 1 .. N : s[i].native}
  BY <1>1, <1>2
<1> QED BY <1>1, <1>3, <1>4, <1>5 DEF t, N

\* DVDInit and the __DVDFSInit it calls.
LEMMA PushTwo ==
  ASSUME NEW s \in Seq(Frames), NEW v \in Registers, Shaped(s), Chained(s, v),
         NEW d \in Frames, d.native, d.function = d.target, d.guard = {}, d.before = v,
         NEW f \in Frames, ~f.native, f.function = f.target, Clobbers[f.function] \subseteq f.guard, f.before = v,
         f.target = DvdFsInit
  PROVE  /\ s \o <<d, f>> \in Seq(Frames) /\ Shaped(s \o <<d, f>>) /\ Chained(s \o <<d, f>>, v)
         /\ {i \in 1 .. Len(s \o <<d, f>>) : (s \o <<d, f>>)[i].native} = {i \in 1 .. Len(s) : s[i].native} \cup {Len(s) + 1}
<1> DEFINE N == Len(s)
           t == s \o <<d, f>>
<1>1. /\ N \in Nat /\ t \in Seq(Frames) /\ Len(t) = N + 2 /\ (\A i \in 1 .. N : t[i] = s[i])
      /\ t[N + 1] = d /\ t[N + 2] = f
  OBVIOUS
<1> HIDE DEF t, N
<1>2. ASSUME NEW i \in 1 .. N + 2
      PROVE  i = N + 2 \/ i = N + 1 \/ (i \in 1 .. N /\ i # N + 2 /\ i # N + 1)
  BY <1>1
<1>3. Shaped(t)
  <2> SUFFICES ASSUME NEW i \in 1 .. N + 2
               PROVE  /\ t[i].function = t[i].target
                      /\ ~t[i].native => Clobbers[t[i].function] \subseteq t[i].guard
                      /\ t[i].native => t[i].guard = {} /\ i < N + 2 /\ t[i + 1].target = DvdFsInit
    BY <1>1 DEF Shaped
  <2>1. CASE i = N + 2
    BY <1>1, <2>1
  <2>2. CASE i = N + 1
    <3>1. i + 1 = N + 2 /\ i < N + 2
      BY <1>1, <2>2
    <3> QED BY <1>1, <2>2, <3>1
  <2>3. CASE i \in 1 .. N
    <3>1. t[i] = s[i] /\ (i < N => t[i + 1] = s[i + 1]) /\ i < N + 2
      <4>1. i < N => i + 1 \in 1 .. N
        BY <1>1, <2>3
      <4> QED BY <1>1, <2>3, <4>1
    <3> QED BY <2>3, <3>1 DEF Shaped, N
  <2> QED BY <1>2, <2>1, <2>2, <2>3
<1>4. Chained(t, v)
  <2> SUFFICES ASSUME NEW i \in 1 .. N + 2, NEW r \in Guardable, r \notin t[i].guard
               PROVE  Meets(t, v, i)[r] = t[i].before[r]
    BY <1>1 DEF Chained
  <2>1. CASE i = N + 2
    BY <1>1, <2>1 DEF Meets
  <2>2. CASE i = N + 1
    <3>1. i + 1 = N + 2 /\ i # N + 2
      BY <1>1, <2>2
    <3> QED BY <1>1, <2>2, <3>1 DEF Meets
  <2>3. CASE i \in 1 .. N
    <3>1. Meets(t, v, i) = Meets(s, v, i)
      <4>1. CASE i = N
        <5>1. i + 1 = N + 1 /\ i # N + 2
          BY <1>1, <4>1
        <5> QED BY <1>1, <4>1, <5>1 DEF Meets, N
      <4>2. CASE i # N
        <5>1. i + 1 \in 1 .. N /\ i # N + 2
          BY <1>1, <2>3, <4>2
        <5> QED BY <1>1, <4>2, <5>1 DEF Meets, N
      <4> QED BY <4>1, <4>2
    <3> QED BY <1>1, <2>3, <3>1 DEF Chained, N
  <2> QED BY <1>2, <2>1, <2>2, <2>3
<1>5. {i \in 1 .. N + 2 : t[i].native} = {i \in 1 .. N : s[i].native} \cup {N + 1}
  <2> SUFFICES ASSUME NEW i PROVE i \in 1 .. N + 2 /\ t[i].native <=> (i \in 1 .. N /\ s[i].native) \/ i = N + 1
    OBVIOUS
  <2>1. i \in 1 .. N + 2 <=> i \in 1 .. N \/ i = N + 1 \/ i = N + 2
    BY <1>1
  <2>2. N + 2 \notin 1 .. N /\ N + 2 # N + 1
    BY <1>1
  <2> QED BY <1>1, <2>1, <2>2
<1> QED BY <1>1, <1>3, <1>4, <1>5 DEF t, N

\* A call returns with all the registers its caller had.
LEMMA ReturnedRegisters ==
  ASSUME NEW s \in Seq(Frames), s # <<>>, cpu \in Registers, Chained(s, cpu)
  PROVE  PutBack(s[Len(s)]) = s[Len(s)].before
<1>1. Len(s) \in 1 .. Len(s) /\ s[Len(s)] \in Frames
  <2>1. Len(s) \in Nat /\ Len(s) # 0
    OBVIOUS
  <2>2. Len(s) \in 1 .. Len(s)
    BY <2>1
  <2> QED BY <2>2, ElementOfSeq
<1> DEFINE f == s[Len(s)]
<1>2. \A r \in Guardable : r \notin f.guard => cpu[r] = f.before[r]
  BY <1>1 DEF Chained, Meets
<1>3. f.before = [r \in Guardable |-> f.before[r]]
  BY <1>1 DEF Frames, Registers
<1> HIDE DEF f
<1>4. PutBack(f) = [r \in Guardable |-> f.before[r]]
  BY <1>2 DEF PutBack
<1> QED BY <1>3, <1>4 DEF f

LEMMA FirstCalls ==
  ASSUME NEW s \in Seq(Frames), NEW k \in 0 .. Len(s)
  PROVE  /\ SubSeq(s, 1, k) \in Seq(Frames) /\ Len(SubSeq(s, 1, k)) = k
         /\ \A i \in 1 .. k : SubSeq(s, 1, k)[i] = s[i]
<1>1. Len(s) \in Nat /\ k \in Int /\ 1 \in Int /\ \A i \in 1 .. Len(s) : s[i] \in Frames
  BY ElementOfSeq
<1>2. \A i \in 1 .. k : s[i] \in Frames
  BY <1>1
<1>3. /\ SubSeq(s, 1, k) \in Seq(Frames)
      /\ Len(SubSeq(s, 1, k)) = IF 1 <= k THEN k - 1 + 1 ELSE 0
      /\ \A i \in 1 .. k - 1 + 1 : SubSeq(s, 1, k)[i] = s[1 + i - 1]
  BY <1>1, <1>2, SubSeqProperties
<1> DEFINE t == SubSeq(s, 1, k)
<1> HIDE DEF t
<1>4. k - 1 + 1 = k /\ \A i \in 1 .. k : 1 + i - 1 = i
  BY <1>1
<1>5. Len(t) = k
  BY <1>1, <1>3 DEF t
<1> QED BY <1>3, <1>4, <1>5 DEF t

\* The calls below the one that returns are as they were.
LEMMA PopOne ==
  ASSUME NEW s \in Seq(Frames), s # <<>>, NEW v, Shaped(s), Chained(s, v),
         Len(s) > 1 => ~s[Len(s) - 1].native
  PROVE  LET t == SubSeq(s, 1, Len(s) - 1)
         IN  /\ t \in Seq(Frames) /\ Shaped(t) /\ Chained(t, s[Len(s)].before)
             /\ Len(t) = Len(s) - 1
             /\ {i \in 1 .. Len(t) : t[i].native} = {i \in 1 .. Len(s) : s[i].native}
<1> DEFINE N == Len(s)
           t == SubSeq(s, 1, N - 1)
           w == s[N].before
<1>0. N \in Nat /\ N # 0 /\ N - 1 \in Nat
  OBVIOUS
<1>1. t \in Seq(Frames) /\ Len(t) = N - 1 /\ (\A i \in 1 .. N - 1 : t[i] = s[i])
  <2>1. N - 1 \in 0 .. N
    BY <1>0
  <2> QED BY <2>1, FirstCalls
<1> HIDE DEF t, N, w
<1>2. Shaped(t)
  <2> SUFFICES ASSUME NEW i \in 1 .. N - 1
               PROVE  /\ t[i].function = t[i].target
                      /\ ~t[i].native => Clobbers[t[i].function] \subseteq t[i].guard
                      /\ t[i].native => t[i].guard = {} /\ i < N - 1 /\ t[i + 1].target = DvdFsInit
    BY <1>1 DEF Shaped
  <2>1. i \in 1 .. N /\ i < N /\ i # N
    BY <1>0
  <2>2. CASE i = N - 1
    <3>1. N > 1
      BY <1>0, <2>2
    <3>2. ~s[i].native
      BY <2>2, <3>1 DEF N
    <3> QED BY <1>1, <2>1, <3>2 DEF Shaped, N
  <2>3. CASE i # N - 1
    <3>1. i + 1 \in 1 .. N - 1 /\ i < N - 1
      BY <1>0, <2>3
    <3> QED BY <1>1, <2>1, <3>1 DEF Shaped, N
  <2> QED BY <2>2, <2>3
<1>3. Chained(t, w)
  <2> SUFFICES ASSUME NEW i \in 1 .. N - 1, NEW r \in Guardable, r \notin t[i].guard
               PROVE  Meets(t, w, i)[r] = t[i].before[r]
    BY <1>1 DEF Chained
  <2>1. i \in 1 .. N /\ i # N
    BY <1>0
  <2>2. Meets(t, w, i) = Meets(s, v, i)
    <3>1. CASE i = N - 1
      <4>1. i + 1 = N
        BY <1>0, <3>1
      <4> QED BY <1>1, <2>1, <3>1, <4>1 DEF Meets, N, w
    <3>2. CASE i # N - 1
      <4>1. i + 1 \in 1 .. N - 1
        BY <1>0, <3>2
      <4> QED BY <1>1, <2>1, <3>2, <4>1 DEF Meets, N
    <3> QED BY <3>1, <3>2
  <2> QED BY <1>1, <2>1, <2>2 DEF Chained, N
<1>4. {i \in 1 .. N - 1 : t[i].native} = {i \in 1 .. N : s[i].native}
  <2>1. ~s[N].native
    <3>1. N \in 1 .. N /\ ~(N < N)
      BY <1>0
    <3> QED BY <3>1 DEF Shaped, N
  <2>2. ASSUME NEW i PROVE i \in 1 .. N <=> i \in 1 .. N - 1 \/ i = N
    BY <1>0
  <2> QED BY <1>1, <2>1, <2>2
<1> QED BY <1>1, <1>2, <1>3, <1>4 DEF t, N, w

\* __DVDFSInit returns, and with it the DVDInit that called it.
LEMMA PopTwo ==
  ASSUME NEW s \in Seq(Frames), Len(s) > 1, NEW v, Shaped(s), Chained(s, v), s[Len(s)].before \in Registers,
         s[Len(s) - 1].before \in Registers,
         {i \in 1 .. Len(s) : s[i].native} = {Len(s) - 1}
  PROVE  LET t == SubSeq(s, 1, Len(s) - 2)
         IN  /\ t \in Seq(Frames) /\ Shaped(t) /\ Chained(t, s[Len(s)].before)
             /\ Len(t) = Len(s) - 2 /\ s[Len(s) - 1].before = s[Len(s)].before
             /\ {i \in 1 .. Len(t) : t[i].native} = {}
<1> DEFINE N == Len(s)
           t == SubSeq(s, 1, N - 2)
           w == s[N].before
<1>0. N \in Nat /\ N > 1 /\ N - 2 \in Nat /\ N - 2 \in 0 .. N
  OBVIOUS
<1>1. t \in Seq(Frames) /\ Len(t) = N - 2 /\ (\A i \in 1 .. N - 2 : t[i] = s[i])
  BY <1>0, FirstCalls
<1> HIDE DEF t, N, w
<1>2. \A i \in 1 .. N - 2 : ~s[i].native /\ i \in 1 .. N /\ i # N
  BY <1>0 DEF N
<1>3. Shaped(t)
  BY <1>1, <1>2 DEF Shaped, N
<1>4. s[N - 1].before = w
  <2>1. N - 1 \in 1 .. N /\ N - 1 # N /\ N - 1 + 1 = N
    BY <1>0
  <2>2. s[N - 1].native
    BY DEF N
  <2>3. s[N - 1].guard = {}
    BY <2>1, <2>2 DEF Shaped, N
  <2>4. \A r \in Guardable : w[r] = s[N - 1].before[r]
    <3>1. Meets(s, v, N - 1) = w
      BY <2>1 DEF Meets, N, w
    <3> QED BY <2>1, <2>3, <3>1 DEF Chained, N
  <2>5. w \in Registers /\ s[N - 1].before \in Registers
    BY DEF w, N
  <2> QED BY <2>4, <2>5 DEF Registers
<1>5. Chained(t, w)
  <2> SUFFICES ASSUME NEW i \in 1 .. N - 2, NEW r \in Guardable, r \notin t[i].guard
               PROVE  Meets(t, w, i)[r] = t[i].before[r]
    BY <1>1 DEF Chained
  <2>1. Meets(t, w, i) = Meets(s, v, i)
    <3>1. CASE i = N - 2
      <4>1. i + 1 = N - 1
        BY <1>0, <3>1
      <4> QED BY <1>1, <1>2, <1>4, <3>1, <4>1 DEF Meets, N
    <3>2. CASE i # N - 2
      <4>1. i + 1 \in 1 .. N - 2
        BY <1>0, <3>2
      <4> QED BY <1>1, <1>2, <3>2, <4>1 DEF Meets, N
    <3> QED BY <3>1, <3>2
  <2>2. t[i] = s[i] /\ i \in 1 .. N
    BY <1>1, <1>2
  <2>3. Meets(s, v, i)[r] = s[i].before[r]
    BY <2>2 DEF Chained, N
  <2> QED BY <2>1, <2>2, <2>3
<1>6. {i \in 1 .. N - 2 : t[i].native} = {}
  BY <1>1, <1>2
<1> QED BY <1>1, <1>3, <1>4, <1>5, <1>6 DEF t, N, w

\* The registers a call may change are under its guard.
LEMMA WorkChained ==
  ASSUME NEW s \in Seq(Frames), NEW v, NEW w, Shaped(s), Chained(s, v),
         \A r \in Guardable : s # <<>> /\ r \notin Clobbers[s[Len(s)].function] => w[r] = v[r]
  PROVE  Chained(s, w)
<1>1. Len(s) \in Nat
  OBVIOUS
<1> SUFFICES ASSUME NEW i \in 1 .. Len(s), NEW r \in Guardable, r \notin s[i].guard
             PROVE  Meets(s, w, i)[r] = s[i].before[r]
  BY DEF Chained
<1>2. Meets(s, v, i)[r] = s[i].before[r]
  BY DEF Chained
<1>3. CASE i = Len(s)
  <2>1. s # <<>> /\ ~(i < Len(s))
    BY <1>1, <1>3
  <2>2. ~s[i].native
    BY <2>1 DEF Shaped
  <2>3. r \notin Clobbers[s[i].function]
    BY <2>2 DEF Shaped
  <2> QED BY <1>2, <1>3, <2>1, <2>3 DEF Meets
<1>4. CASE i # Len(s)
  BY <1>2, <1>4 DEF Meets
<1> QED BY <1>3, <1>4

(***************************************************************************)
(* Calls, guest threads and the drive                                      *)
(***************************************************************************)
\* The nonvolatile registers of a host stack: in the CpuContext while it runs, in its
\* record otherwise.
View(h) == IF h = current THEN cpu ELSE saved[h]

Natives(h) == {i \in 1 .. Len(calls[h]) : calls[h][i].native}

CallsTyped ==
  /\ dispatch \in Published
  /\ cpu \in Registers /\ saved \in [GuestHosts -> Registers]
  /\ calls \in [GuestHosts -> Seq(Frames)]

\* Nothing is under way on a stack that has not begun, or on the scheduler's outside the
\* translated product; a fiber that runs has begun.
NothingBefore ==
  /\ current \in Fibers => current \in entered
  /\ \A h \in Fibers \ entered : calls[h] = <<>>
  /\ stage \notin {"guest", "aborted"} => calls["scheduler"] = <<>>

\* At most one native DVDInit is under way, and exactly while the drive initializes, unless
\* the process has aborted.
OneDvdInit ==
  /\ drive \in [called : BOOLEAN, initializing : BOOLEAN]
  /\ drive.called => ~drive.initializing
  /\ prepared = IF drive.called \/ drive.initializing THEN 1 ELSE 0
  /\ drive.initializing /\ stage # "aborted" =>
       \E h \in GuestHosts : /\ \E i \in 1 .. Len(calls[h]) : Natives(h) = {i}
                             /\ \A g \in GuestHosts \ {h} : Natives(g) = {}
  /\ ~drive.initializing => \A h \in GuestHosts : Natives(h) = {}

BlockedRightly == blocked.kind = "INDIRECT" => ~Listed(blocked.address)

ExecInv ==
  /\ CallsTyped
  /\ \A h \in GuestHosts : Shaped(calls[h]) /\ Chained(calls[h], View(h))
  /\ NothingBefore
  /\ OneDvdInit
  /\ BlockedRightly

LEMMA ExecInitially == ExecInit => ExecInv
<1> SUFFICES ASSUME ExecInit PROVE ExecInv
  OBVIOUS
<1>1. /\ dispatch \in Published /\ cpu = Zero /\ saved = [h \in GuestHosts |-> Zero] /\ calls = [h \in GuestHosts |-> <<>>]
      /\ drive = [called |-> FALSE, initializing |-> FALSE] /\ prepared = 0 /\ blocked = NoBlocker
  BY DEF ExecInit
<1>2. Zero \in Registers
  BY DEF Zero, Registers
<1>3. \A h \in GuestHosts : calls[h] = <<>> /\ Len(calls[h]) = 0
  BY <1>1
<1>4. CallsTyped
  <2> HIDE DEF Registers, Frames
  <2>1. <<>> \in Seq(Frames)
    OBVIOUS
  <2> QED BY <1>1, <1>2, <2>1 DEF CallsTyped
<1>5. \A h \in GuestHosts : Shaped(calls[h]) /\ Chained(calls[h], View(h)) /\ Natives(h) = {}
  BY <1>3 DEF Shaped, Chained, Natives
<1>6. NothingBefore
  <2>1. current \notin Fibers
    BY HostsAssumption DEF ExecInit, BootInit
  <2> QED BY <1>3, <2>1 DEF NothingBefore, GuestHosts
<1>7. OneDvdInit
  BY <1>1, <1>5 DEF OneDvdInit
<1>8. BlockedRightly
  BY <1>1 DEF BlockedRightly, NoBlocker
<1> QED BY <1>4, <1>5, <1>6, <1>7, <1>8 DEF ExecInv

\* The calls of the scheduler's stack and those of the fibers are as they were while the
\* host program runs.
LEMMA StartKeepsExec ==
  ASSUME BootInv, ExecInv, BootNext, UNCHANGED execVars, StageInv'
  PROVE  ExecInv'
<1>0. UNCHANGED <<dispatch, cpu, saved, calls, entered, drive, prepared, blocked>>
  BY DEF execVars, callVars, driveVars
<1>1. (stage' = stage /\ current' = current) \/ stage \notin {"guest", "aborted"}
  BY DEF BootNext, ProbeInitialize, Loop, ProbeDone, MemoryBound, MemoryProbeDone, MemoryInitialize, Services,
         SchedulerRefused, SchedulerReady, WorkerRefused, WorkerReady, SwitchToWorker, WorkerYields, DestroyWorker,
         Inspect, InitializeData, EnterProduct, Stop, contextVars
<1>2. ASSUME stage \notin {"guest", "aborted"} PROVE current \notin Fibers /\ current' \notin Fibers
  <2>1. current \in {"none", "scheduler", "worker"}
    BY <1>2 DEF BootInv, StageInv, Stages, NoContexts, OnScheduler
  <2>2. stage = "handoff" => worker = "worker"
    BY DEF BootInv, StageInv
  <2>3. stage = "on_worker" => scheduler = "scheduler"
    BY DEF BootInv, StageInv
  <2>4. current' \in {current, "none", "scheduler", "worker"}
    BY <2>2, <2>3 DEF BootNext, ProbeInitialize, Loop, ProbeDone, MemoryBound, MemoryProbeDone, MemoryInitialize, Services,
         SchedulerRefused, SchedulerReady, WorkerRefused, WorkerReady, SwitchToWorker, WorkerYields, DestroyWorker,
         Inspect, InitializeData, EnterProduct, Stop, contextVars
  <2> QED BY <2>1, <2>4, HostsAssumption
<1>3. CallsTyped' /\ BlockedRightly'
  BY <1>0 DEF ExecInv, CallsTyped, BlockedRightly, Listed
<1>4. OneDvdInit'
  BY <1>0, <1>1 DEF ExecInv, OneDvdInit, Natives
<1>5. NothingBefore'
  BY <1>0, <1>1, <1>2 DEF ExecInv, NothingBefore
<1>6. ASSUME NEW h \in GuestHosts PROVE Shaped(calls'[h]) /\ Chained(calls'[h], View(h)')
  <2>1. CASE View(h)' = View(h)
    BY <1>0, <2>1 DEF ExecInv
  <2>2. CASE stage \notin {"guest", "aborted"}
    <3>1. CASE h = "scheduler"
      <4>1. calls[h] = <<>> /\ Len(calls[h]) = 0
        BY <2>2, <3>1 DEF ExecInv, NothingBefore
      <4> QED BY <1>0, <4>1 DEF Shaped, Chained
    <3>2. CASE h # "scheduler"
      <4>1. h \in Fibers
        BY <3>2 DEF GuestHosts
      <4> QED BY <1>0, <1>2, <2>1, <2>2, <4>1 DEF View
    <3> QED BY <3>1, <3>2
  <2> QED BY <1>0, <1>1, <2>1, <2>2 DEF View
<1> QED BY <1>3, <1>4, <1>5, <1>6 DEF ExecInv

\* In the translated product the CpuContext is the running thread's.
LEMMA InGuestRuns ==
  ASSUME BootInv, ExecInv, InGuest
  PROVE  /\ current \in GuestHosts /\ current \in contexts
         /\ cpu \in Registers /\ calls[current] \in Seq(Frames) /\ Len(calls[current]) \in Nat
         /\ Shaped(calls[current]) /\ Chained(calls[current], cpu)
<1>1. current \in GuestHosts /\ current \in contexts
  BY DEF BootInv, StageInv, InGuest, GuestContexts
<1>2. cpu \in Registers /\ calls[current] \in Seq(Frames)
  BY <1>1 DEF ExecInv, CallsTyped
<1>3. Shaped(calls[current]) /\ Chained(calls[current], cpu)
  BY <1>1 DEF ExecInv, View
<1> QED BY <1>1, <1>2, <1>3

LEMMA FrameTyped ==
  ASSUME NEW a \in GuestAddresses, NEW b \in GuestAddresses, NEW guard \in SUBSET Guardable, NEW v \in Registers
  PROVE  /\ CallOf(a, b, guard, v) \in Frames /\ ~CallOf(a, b, guard, v).native
         /\ CallOf(a, b, guard, v).target = a /\ CallOf(a, b, guard, v).function = b
         /\ CallOf(a, b, guard, v).guard = guard /\ CallOf(a, b, guard, v).before = v
BY DEF CallOf, Frames

\* Two calls of one kind: an address that resolves, and one with a trait.
LEMMA IndirectFrame ==
  ASSUME NEW a \in GuestAddresses, NEW v \in Registers, dispatch \in Published, Resolved(a).linked
  PROVE  LET f == IndirectCall(a, v)
         IN  /\ f \in Frames /\ ~f.native /\ f.function = f.target /\ f.target = a
             /\ Clobbers[f.function] \subseteq f.guard /\ f.before = v
<1> DEFINE e == Resolved(a)
<1>1. e.address = a /\ e.preserves \in SUBSET Guardable /\ Clobbers[a] \subseteq e.preserves
  BY ResolvedIsListed
<1> HIDE DEF e
<1>2. IndirectCall(a, v) = CallOf(a, e.address, e.preserves, v)
  BY DEF IndirectCall, e
<1> QED BY <1>1, <1>2, FrameTyped

LEMMA DirectFrame ==
  ASSUME NEW a \in Called \cap Direct, NEW v \in Registers
  PROVE  LET f == CallOf(a, a, Clobbers[a] \ {"gprs"}, v)
         IN  /\ f \in Frames /\ ~f.native /\ f.function = f.target
             /\ Clobbers[f.function] \subseteq f.guard /\ f.before = v
<1>1. a \in GuestAddresses /\ Clobbers[a] \in SUBSET Guardable /\ "gprs" \notin Clobbers[a]
  BY CallsAssumption
<1>2. Clobbers[a] \ {"gprs"} \in SUBSET Guardable /\ Clobbers[a] \subseteq Clobbers[a] \ {"gprs"}
  BY <1>1
<1> QED BY <1>1, <1>2, FrameTyped

\* What is said of the stacks follows stack by stack.
LEMMA StacksFollow ==
  ASSUME ExecInv, NEW h \in GuestHosts, calls' \in [GuestHosts -> Seq(Frames)],
         \A g \in GuestHosts \ {h} : calls'[g] = calls[g] /\ View(g)' = View(g),
         Shaped(calls'[h]), Chained(calls'[h], View(h)')
  PROVE  \A g \in GuestHosts : Shaped(calls'[g]) /\ Chained(calls'[g], View(g)')
BY DEF ExecInv

LEMMA PushKeepsExec ==
  ASSUME BootInv, ExecInv, InGuest, NEW f \in Frames, ~f.native, f.function = f.target,
         Clobbers[f.function] \subseteq f.guard, f.before = cpu,
         Push(<<f>>), UNCHANGED driveVars
  PROVE  ExecInv'
<1> DEFINE s == calls[current]
<1>1. /\ current \in GuestHosts /\ cpu \in Registers /\ s \in Seq(Frames) /\ Shaped(s) /\ Chained(s, cpu)
  BY InGuestRuns
<1>2. /\ calls' = [calls EXCEPT ![current] = s \o <<f>>]
      /\ UNCHANGED <<dispatch, cpu, saved, entered, blocked, stage, current, drive, prepared>>
  BY DEF Push, bootVars, contextVars, driveVars
<1>3. /\ s \o <<f>> \in Seq(Frames) /\ Shaped(s \o <<f>>) /\ Chained(s \o <<f>>, cpu)
      /\ {i \in 1 .. Len(s \o <<f>>) : (s \o <<f>>)[i].native} = Natives(current)
  BY <1>1, PushOne DEF Natives
<1> HIDE DEF s
<1>4. /\ calls' \in [GuestHosts -> Seq(Frames)] /\ calls'[current] = s \o <<f>>
      /\ \A g \in GuestHosts \ {current} : calls'[g] = calls[g]
  BY <1>1, <1>2, <1>3 DEF ExecInv, CallsTyped
<1>5. CallsTyped' /\ BlockedRightly'
  BY <1>2, <1>4 DEF ExecInv, CallsTyped, BlockedRightly, Listed
<1>6. \A g \in GuestHosts : Natives(g)' = Natives(g)
  BY <1>3, <1>4 DEF Natives
<1>7. OneDvdInit'
  <2>1. /\ drive.initializing => \E h \in GuestHosts : /\ \E i : Natives(h) = {i} /\ i \in 1 .. Len(calls[h])
                                                       /\ \A g \in GuestHosts \ {h} : Natives(g) = {}
    BY DEF ExecInv, OneDvdInit, InGuest
  <2>2. \A h \in GuestHosts : \A i : Natives(h) = {i} => i \in 1 .. Len(calls'[h])
    <3> SUFFICES ASSUME NEW h \in GuestHosts, NEW i, Natives(h) = {i} PROVE i \in 1 .. Len(calls'[h])
      OBVIOUS
    <3>1. i \in Natives(h)'
      BY <1>6
    <3> QED BY <3>1 DEF Natives
  <2> QED BY <1>2, <1>6, <2>2 DEF ExecInv, OneDvdInit
<1>8. NothingBefore'
  BY <1>2, <1>4 DEF ExecInv, NothingBefore, InGuest, GuestHosts
<1>9. \A g \in GuestHosts : Shaped(calls'[g]) /\ Chained(calls'[g], View(g)')
  <2>1. \A g \in GuestHosts : View(g)' = View(g)
    BY <1>2 DEF View
  <2> SUFFICES ASSUME NEW h \in GuestHosts, h = current
               PROVE  \A g \in GuestHosts : Shaped(calls'[g]) /\ Chained(calls'[g], View(g)')
    BY <1>1
  <2>2. View(h)' = cpu
    BY <2>1 DEF View
  <2>3. Shaped(calls'[h]) /\ Chained(calls'[h], View(h)')
    BY <1>3, <1>4, <2>2
  <2> QED BY <1>4, <2>1, <2>3, StacksFollow
<1> QED BY <1>5, <1>7, <1>8, <1>9 DEF ExecInv

\* Steps that leave the stacks, the CpuContext and the drive alone.
LEMMA CallsUnchanged ==
  ASSUME ExecInv, UNCHANGED <<dispatch, callVars, drive, prepared, current>>, BlockedRightly',
         stage' = stage \/ stage' = "aborted" \/ (InGuest /\ stage' = "waiting" /\ calls["scheduler"] = <<>>)
  PROVE  ExecInv'
<1>0. UNCHANGED <<dispatch, cpu, saved, calls, entered, drive, prepared, current>>
  BY DEF callVars
<1>1. CallsTyped' /\ OneDvdInit'
  <2>1. CallsTyped'
    BY <1>0 DEF ExecInv, CallsTyped
  <2>2. OneDvdInit'
    BY <1>0 DEF ExecInv, OneDvdInit, Natives, InGuest
  <2> QED BY <2>1, <2>2
<1>2. NothingBefore'
  BY <1>0 DEF ExecInv, NothingBefore
<1>3. \A h \in GuestHosts : View(h)' = View(h) /\ calls'[h] = calls[h]
  BY <1>0 DEF View
<1> QED BY <1>1, <1>2, <1>3 DEF ExecInv

\* A call gives up only on an address nothing lists.
LEMMA BlockKeepsExec ==
  ASSUME ExecInv, NEW kind, NEW a, Block(kind, a),
         kind = "INDIRECT" => ~Listed(a)
  PROVE  ExecInv'
<1>1. /\ blocked' = [kind |-> kind, address |-> a] /\ stage' = "aborted"
      /\ UNCHANGED <<dispatch, callVars, drive, prepared, current>>
  BY DEF Block, Abort, contextVars, driveVars
<1>2. BlockedRightly'
  BY <1>1 DEF BlockedRightly, Listed
<1> QED BY <1>1, <1>2, CallsUnchanged

LEMMA InvokesKeepExec ==
  ASSUME BootInv, ExecInv, NEW a \in Called, InvokeDirect(a) \/ InvokeIndirect(a)
  PROVE  ExecInv'
<1>0. InGuest /\ a \in GuestAddresses /\ dispatch \in Published /\ cpu \in Registers
  BY CallsAssumption DEF InvokeDirect, InvokeIndirect, CanCall, ExecInv, CallsTyped
<1>1. CASE InvokeDirect(a)
  <2>1. CASE a \in Direct
    <3> DEFINE f == CallOf(a, a, Clobbers[a] \ {"gprs"}, cpu)
    <3>1. /\ f \in Frames /\ ~f.native /\ f.function = f.target
          /\ Clobbers[f.function] \subseteq f.guard /\ f.before = cpu
      BY <1>0, <2>1, DirectFrame
    <3>2. Push(<<f>>) /\ UNCHANGED driveVars
      BY <1>1, <2>1 DEF InvokeDirect
    <3> HIDE DEF f
    <3> QED BY <1>0, <3>1, <3>2, PushKeepsExec
  <2>2. CASE a \notin Direct
    <3>1. Block("DIRECT", a)
      BY <1>1, <2>2 DEF InvokeDirect
    <3> QED BY <3>1, BlockKeepsExec
  <2> QED BY <2>1, <2>2
<1>2. CASE InvokeIndirect(a)
  <2>1. CASE Resolved(a).linked
    <3> DEFINE f == IndirectCall(a, cpu)
    <3>1. /\ f \in Frames /\ ~f.native /\ f.function = f.target
          /\ Clobbers[f.function] \subseteq f.guard /\ f.before = cpu
      BY <1>0, <2>1, IndirectFrame
    <3>2. Push(<<f>>) /\ UNCHANGED driveVars
      BY <1>2, <2>1 DEF InvokeIndirect
    <3> HIDE DEF f
    <3> QED BY <1>0, <3>1, <3>2, PushKeepsExec
  <2>2. CASE ~Resolved(a).linked
    <3>1. Block("INDIRECT", a)
      BY <1>2, <2>2 DEF InvokeIndirect
    <3>2. ~Listed(a)
      BY <1>0, <2>2, ResolvedIsListed
    <3> QED BY <3>1, <3>2, BlockKeepsExec
  <2> QED BY <2>1, <2>2
<1> QED BY <1>1, <1>2

\* DVDInit begins once, whoever calls it.
LEMMA DvdInitKeepsExec ==
  ASSUME BootInv, ExecInv, DvdInitAlone \/ DvdInitCallsFsInit
  PROVE  ExecInv'
<1>0. /\ InGuest /\ DvdFsInit \in GuestAddresses /\ DvdInit \in GuestAddresses
      /\ dispatch \in Published /\ cpu \in Registers /\ ~drive.called /\ ~drive.initializing
      /\ prepared = 0 /\ \A h \in GuestHosts : Natives(h) = {}
  BY CallsAssumption DEF DvdInitAlone, DvdInitCallsFsInit, CanCall, MayInitialize, ExecInv, CallsTyped, OneDvdInit
<1>1. CASE DvdInitAlone
  <2>1. /\ prepared' = 1 /\ drive' = [called |-> TRUE, initializing |-> FALSE]
        /\ UNCHANGED <<dispatch, cpu, saved, calls, entered, blocked, stage, current>>
    BY <1>0, <1>1 DEF DvdInitAlone, bootVars, contextVars, callVars
  <2>2. CallsTyped' /\ BlockedRightly' /\ NothingBefore'
    BY <2>1 DEF ExecInv, CallsTyped, BlockedRightly, Listed, NothingBefore
  <2>3. OneDvdInit'
    BY <1>0, <2>1 DEF OneDvdInit, Natives
  <2>4. \A h \in GuestHosts : View(h)' = View(h) /\ calls'[h] = calls[h]
    BY <2>1 DEF View
  <2> QED BY <2>2, <2>3, <2>4 DEF ExecInv
<1>2. CASE DvdInitCallsFsInit /\ Resolved(DvdFsInit).linked
  <2> DEFINE d == DvdInitCall
             f == IndirectCall(DvdFsInit, cpu)
             s == calls[current]
             t == s \o <<d, f>>
  <2>1. /\ calls' = [calls EXCEPT ![current] = t]
        /\ prepared' = 1 /\ drive' = [drive EXCEPT !.initializing = TRUE]
        /\ UNCHANGED <<dispatch, cpu, saved, entered, blocked, stage, current>>
    BY <1>0, <1>2 DEF DvdInitCallsFsInit, Push, bootVars, contextVars
  <2>2. d \in Frames /\ d.native /\ d.function = d.target /\ d.guard = {} /\ d.before = cpu
    BY <1>0 DEF DvdInitCall, CallOf, Frames
  <2>3. /\ f \in Frames /\ ~f.native /\ f.function = f.target /\ f.target = DvdFsInit
        /\ Clobbers[f.function] \subseteq f.guard /\ f.before = cpu
    BY <1>0, <1>2, IndirectFrame
  <2>4. current \in GuestHosts /\ s \in Seq(Frames) /\ Shaped(s) /\ Chained(s, cpu) /\ Len(s) \in Nat
    BY <1>0, InGuestRuns
  <2> HIDE DEF d, f, s
  <2>5. /\ t \in Seq(Frames) /\ Shaped(t) /\ Chained(t, cpu) /\ Len(t) = Len(s) + 2
        /\ {i \in 1 .. Len(t) : t[i].native} = {i \in 1 .. Len(s) : s[i].native} \cup {Len(s) + 1}
    BY <1>0, <2>2, <2>3, <2>4, PushTwo
  <2> HIDE DEF t
  <2>6. /\ calls' \in [GuestHosts -> Seq(Frames)] /\ calls'[current] = t
        /\ \A g \in GuestHosts \ {current} : calls'[g] = calls[g]
    BY <2>1, <2>4, <2>5 DEF ExecInv, CallsTyped
  <2>7. CallsTyped' /\ BlockedRightly'
    BY <2>1, <2>6 DEF ExecInv, CallsTyped, BlockedRightly, Listed
  <2>8. NothingBefore'
    BY <2>1, <2>6, <1>0 DEF ExecInv, NothingBefore, InGuest, GuestHosts
  <2> SUFFICES ASSUME NEW h \in GuestHosts, h = current PROVE ExecInv'
    BY <2>4
  <2>9. /\ Natives(h)' = {Len(s) + 1} /\ Len(s) + 1 \in 1 .. Len(calls'[h])
        /\ \A g \in GuestHosts \ {h} : Natives(g)' = {}
    <3>1. {i \in 1 .. Len(s) : s[i].native} = {}
      BY <1>0 DEF Natives, s
    <3>2. Natives(h)' = {i \in 1 .. Len(t) : t[i].native}
      BY <2>6 DEF Natives
    <3>3. \A g \in GuestHosts \ {h} : Natives(g)' = {}
      BY <1>0, <2>6 DEF Natives
    <3>4. Len(s) + 1 \in 1 .. Len(t)
      BY <2>4, <2>5
    <3> QED BY <2>5, <2>6, <3>1, <3>2, <3>3, <3>4
  <2>10. drive'.initializing = TRUE /\ drive'.called = drive.called
    <3>1. drive \in [called : BOOLEAN, initializing : BOOLEAN]
      BY DEF ExecInv, OneDvdInit
    <3> QED BY <2>1, <3>1
  <2>11. OneDvdInit'
    <3>1. drive' \in [called : BOOLEAN, initializing : BOOLEAN]
      BY <2>1 DEF ExecInv, OneDvdInit
    <3>2. \E g \in GuestHosts : /\ \E i \in 1 .. Len(calls'[g]) : Natives(g)' = {i}
                               /\ \A k \in GuestHosts \ {g} : Natives(k)' = {}
      BY <2>9
    <3> QED BY <1>0, <2>1, <2>10, <3>1, <3>2 DEF OneDvdInit
  <2>12. \A g \in GuestHosts : View(g)' = View(g)
    BY <2>1 DEF View
  <2>13. View(h)' = cpu
    BY <2>12 DEF View
  <2>14. \A g \in GuestHosts : Shaped(calls'[g]) /\ Chained(calls'[g], View(g)')
    BY <2>5, <2>6, <2>12, <2>13, StacksFollow
  <2> QED BY <2>7, <2>8, <2>11, <2>14 DEF ExecInv
<1>3. CASE DvdInitCallsFsInit /\ ~Resolved(DvdFsInit).linked
  <2>1. /\ prepared' = 1 /\ drive' = [drive EXCEPT !.initializing = TRUE] /\ stage' = "aborted"
        /\ blocked' = [kind |-> "INDIRECT", address |-> DvdFsInit]
        /\ UNCHANGED <<dispatch, cpu, saved, calls, entered, current>>
    BY <1>0, <1>3 DEF DvdInitCallsFsInit, Abort, contextVars, callVars
  <2>2. ~Listed(DvdFsInit)
    BY <1>0, <1>3, ResolvedIsListed
  <2>3. CallsTyped' /\ BlockedRightly' /\ NothingBefore'
    BY <2>1, <2>2 DEF ExecInv, CallsTyped, BlockedRightly, Listed, NothingBefore
  <2>4. OneDvdInit'
    <3>1. drive \in [called : BOOLEAN, initializing : BOOLEAN]
      BY DEF ExecInv, OneDvdInit
    <3> QED BY <1>0, <2>1, <3>1 DEF OneDvdInit
  <2>5. \A h \in GuestHosts : View(h)' = View(h) /\ calls'[h] = calls[h]
    BY <2>1 DEF View
  <2> QED BY <2>3, <2>4, <2>5 DEF ExecInv
<1> QED BY <1>1, <1>2, <1>3

LEMMA WorkKeepsExec ==
  ASSUME BootInv, ExecInv, NEW r \in Guardable, Work(r)
  PROVE  ExecInv'
<1> DEFINE s == calls[current]
<1>1. /\ InGuest /\ cpu' = [cpu EXCEPT ![r] = 1 - @] /\ (s # <<>> => r \in Clobbers[s[Len(s)].function])
      /\ UNCHANGED <<dispatch, saved, calls, entered, drive, prepared, blocked, stage, current>>
  BY DEF Work, Executing, Last, bootVars, contextVars, driveVars
<1>2. /\ current \in GuestHosts /\ cpu \in Registers /\ s \in Seq(Frames) /\ Shaped(s) /\ Chained(s, cpu)
  BY <1>1, InGuestRuns
<1>3. cpu' \in Registers /\ \A q \in Guardable : q # r => cpu'[q] = cpu[q]
  BY <1>1, <1>2 DEF Registers
<1>4. CallsTyped' /\ BlockedRightly'
  BY <1>1, <1>3 DEF ExecInv, CallsTyped, BlockedRightly, Listed
<1>5. NothingBefore'
  BY <1>1 DEF ExecInv, NothingBefore
<1>6. OneDvdInit'
  BY <1>1 DEF ExecInv, OneDvdInit, Natives
<1>7. Chained(s, cpu')
  <2> HIDE DEF s
  <2>1. \A q \in Guardable : s # <<>> /\ q \notin Clobbers[s[Len(s)].function] => cpu'[q] = cpu[q]
    BY <1>1, <1>3
  <2> QED BY <1>2, <2>1, WorkChained
<1> SUFFICES ASSUME NEW h \in GuestHosts, h = current PROVE ExecInv'
  BY <1>2
<1>8. /\ \A g \in GuestHosts \ {h} : calls'[g] = calls[g] /\ View(g)' = View(g)
      /\ View(h)' = cpu' /\ calls'[h] = s
  BY <1>1 DEF View
<1>9. calls' \in [GuestHosts -> Seq(Frames)]
  BY <1>1 DEF ExecInv, CallsTyped
<1> HIDE DEF s
<1>10. \A g \in GuestHosts : Shaped(calls'[g]) /\ Chained(calls'[g], View(g)')
  BY <1>2, <1>7, <1>8, <1>9, StacksFollow
<1> QED BY <1>4, <1>5, <1>6, <1>10 DEF ExecInv

\* What a return leaves: the registers the caller had.
Kept(h) == Len(calls'[h]) < Len(calls[h]) => cpu' = calls[h][Len(calls'[h]) + 1].before

\* One or two calls return; what is above the DVDInit that ends is what it waited for.
LEMMA PopKeepsExec ==
  ASSUME BootInv, ExecInv, InGuest, NEW k \in Nat, NEW t \in Seq(Frames),
         calls[current] # <<>>, Len(t) = Len(calls[current]) - k,
         Shaped(t), Chained(t, calls[current][Len(calls[current])].before),
         cpu' = calls[current][Len(calls[current])].before,
         calls' = [calls EXCEPT ![current] = t],
         UNCHANGED <<dispatch, saved, entered, blocked, stage, current, prepared>>,
         OneDvdInit'
  PROVE  ExecInv'
<1> DEFINE s == calls[current]
<1>1. current \in GuestHosts /\ s \in Seq(Frames) /\ Len(s) \in Nat
  BY InGuestRuns
<1>2. cpu' \in Registers
  <2>1. Len(s) \in 1 .. Len(s)
    BY <1>1
  <2>2. s[Len(s)] \in Frames
    BY <1>1, <2>1, ElementOfSeq
  <2> QED BY <2>2 DEF Frames
<1>3. /\ calls' \in [GuestHosts -> Seq(Frames)] /\ calls'[current] = t
      /\ \A g \in GuestHosts \ {current} : calls'[g] = calls[g]
  BY <1>1 DEF ExecInv, CallsTyped
<1>4. CallsTyped' /\ BlockedRightly'
  BY <1>2, <1>3 DEF ExecInv, CallsTyped, BlockedRightly, Listed
<1>5. NothingBefore'
  BY <1>3 DEF ExecInv, NothingBefore, InGuest, GuestHosts
<1> SUFFICES ASSUME NEW h \in GuestHosts, h = current PROVE ExecInv'
  BY <1>1
<1>6. /\ \A g \in GuestHosts \ {h} : calls'[g] = calls[g] /\ View(g)' = View(g)
      /\ View(h)' = cpu' /\ calls'[h] = t
  BY <1>3 DEF View
<1>7. \A g \in GuestHosts : Shaped(calls'[g]) /\ Chained(calls'[g], View(g)')
  BY <1>3, <1>6, StacksFollow
<1> QED BY <1>4, <1>5, <1>7 DEF ExecInv

LEMMA ReturnKeepsExec ==
  ASSUME BootInv, ExecInv, Return
  PROVE  ExecInv' /\ \A h \in GuestHosts : Kept(h)
<1> DEFINE s == calls[current]
           N == Len(s)
           w == s[N].before
           inDvdInit == N > 1 /\ s[N - 1].native
<1>1. InGuest /\ s # <<>>
  BY DEF Return, Executing
<1>2. /\ current \in GuestHosts /\ cpu \in Registers /\ s \in Seq(Frames) /\ N \in Nat
      /\ Shaped(s) /\ Chained(s, cpu)
  BY <1>1, InGuestRuns
<1>3. CASE N = 1 /\ current \in Fibers
  <2>1. Block("GUEST_FIBER_ENTRY_RETURNED", FiberEntry)
    BY <1>3 DEF Return, Executing
  <2>2. ExecInv'
    BY <2>1, BlockKeepsExec
  <2>3. calls' = calls
    BY <2>1 DEF Block, callVars
  <2>4. \A h \in GuestHosts : ~ (Len(calls[h]) < Len(calls[h]))
    <3>1. \A h \in GuestHosts : Len(calls[h]) \in Nat
      BY DEF ExecInv, CallsTyped
    <3> QED BY <3>1
  <2> QED BY <2>2, <2>3, <2>4 DEF Kept
<1>4. CASE ~(N = 1 /\ current \in Fibers)
  <2> DEFINE t == SubSeq(s, 1, N - (IF inDvdInit THEN 2 ELSE 1))
  <2>1. /\ cpu' = PutBack(s[N]) /\ calls' = [calls EXCEPT ![current] = t]
        /\ drive' = (IF inDvdInit THEN [called |-> TRUE, initializing |-> FALSE] ELSE drive)
        /\ UNCHANGED <<dispatch, saved, entered, blocked, stage, current, prepared>>
    BY <1>4 DEF Return, Executing, Last, bootVars, contextVars
  <2>2. cpu' = w
    BY <1>1, <1>2, <2>1, ReturnedRegisters
  <2>3. N # 0
    BY <1>1, <1>2
  <2>4. /\ t \in Seq(Frames) /\ Shaped(t) /\ Chained(t, w) /\ OneDvdInit'
        /\ \E k \in {1, 2} : Len(t) = N - k /\ s[N - k + 1].before = w
    <3>1. CASE ~inDvdInit
      <4>1. t = SubSeq(s, 1, N - 1)
        BY <3>1
      <4>2. N > 1 => ~s[N - 1].native
        BY <3>1
      <4>3. /\ t \in Seq(Frames) /\ Shaped(t) /\ Chained(t, w) /\ Len(t) = N - 1
            /\ {i \in 1 .. Len(t) : t[i].native} = Natives(current)
        BY <1>1, <1>2, <4>1, <4>2, PopOne DEF Natives
      <4> HIDE DEF t, s
      <4>4. calls'[current] = t /\ \A g \in GuestHosts \ {current} : calls'[g] = calls[g]
        BY <1>2, <2>1 DEF ExecInv, CallsTyped
      <4>5. \A g \in GuestHosts : Natives(g)' = Natives(g)
        BY <4>3, <4>4 DEF Natives
      <4>6. OneDvdInit'
        <5>1. \A h \in GuestHosts : \A i : Natives(h) = {i} => i \in 1 .. Len(calls'[h])
          <6> SUFFICES ASSUME NEW h \in GuestHosts, NEW i, Natives(h) = {i} PROVE i \in 1 .. Len(calls'[h])
            OBVIOUS
          <6>1. i \in Natives(h)'
            BY <4>5
          <6> QED BY <6>1 DEF Natives
        <5>2. drive' = drive
          BY <2>1, <3>1
        <5> QED BY <1>1, <2>1, <4>5, <5>1, <5>2 DEF ExecInv, OneDvdInit, InGuest
      <4>7. N - 1 + 1 = N
        BY <1>2
      <4> QED BY <4>3, <4>6, <4>7
    <3>2. CASE inDvdInit
      <4>1. t = SubSeq(s, 1, N - 2)
        BY <3>2
      <4>2. N - 1 \in Natives(current) /\ N > 1
        BY <1>2, <3>2 DEF Natives
      <4>3. drive.initializing
        BY <1>2, <4>2 DEF ExecInv, OneDvdInit
      <4>4. PICK h \in GuestHosts : /\ \E i \in 1 .. Len(calls[h]) : Natives(h) = {i}
                                    /\ \A g \in GuestHosts \ {h} : Natives(g) = {}
        BY <1>1, <4>3 DEF ExecInv, OneDvdInit, InGuest
      <4>5. h = current
        BY <1>2, <4>2, <4>4
      <4>6. Natives(current) = {N - 1}
        BY <4>2, <4>4, <4>5
      <4>7. s[N].before \in Registers /\ s[N - 1].before \in Registers
        <5>1. N \in 1 .. N /\ N - 1 \in 1 .. N
          BY <1>2, <4>2
        <5>2. s[N] \in Frames /\ s[N - 1] \in Frames
          BY <1>2, <5>1, ElementOfSeq
        <5> QED BY <5>2 DEF Frames
      <4>8. /\ t \in Seq(Frames) /\ Shaped(t) /\ Chained(t, w) /\ Len(t) = N - 2
            /\ s[N - 1].before = w /\ {i \in 1 .. Len(t) : t[i].native} = {}
        <5>1. {i \in 1 .. Len(s) : s[i].native} = {Len(s) - 1}
          BY <4>6 DEF Natives
        <5> QED BY <1>2, <4>1, <4>2, <4>7, <5>1, PopTwo
      <4> HIDE DEF t, s
      <4>9. calls'[current] = t /\ \A g \in GuestHosts \ {current} : calls'[g] = calls[g]
        BY <1>2, <2>1 DEF ExecInv, CallsTyped
      <4>10. \A g \in GuestHosts : Natives(g)' = {}
        BY <4>4, <4>5, <4>8, <4>9 DEF Natives
      <4>11. drive' = [called |-> TRUE, initializing |-> FALSE] /\ prepared' = 1
        BY <2>1, <3>2, <4>3 DEF ExecInv, OneDvdInit
      <4>12. OneDvdInit'
        BY <4>10, <4>11 DEF OneDvdInit
      <4>13. N - 2 + 1 = N - 1
        BY <1>2
      <4> QED BY <4>8, <4>12, <4>13
    <3> QED BY <3>1, <3>2
  <2> HIDE DEF t
  <2>5. PICK k \in {1, 2} : Len(t) = N - k /\ s[N - k + 1].before = w
    BY <2>4
  <2>6. k \in Nat
    OBVIOUS
  <2>7. ExecInv'
    BY <1>1, <2>1, <2>2, <2>4, <2>5, <2>6, PopKeepsExec
  <2>8. \A h \in GuestHosts : Kept(h)
    <3> SUFFICES ASSUME NEW h \in GuestHosts PROVE Kept(h)
      OBVIOUS
    <3>1. CASE h = current
      <4>1. calls'[h] = t
        BY <2>1, <3>1 DEF ExecInv, CallsTyped
      <4> QED BY <2>2, <2>5, <3>1, <4>1 DEF Kept
    <3>2. CASE h # current
      <4>1. calls'[h] = calls[h] /\ Len(calls[h]) \in Nat
        BY <2>1, <3>2 DEF ExecInv, CallsTyped
      <4> QED BY <4>1 DEF Kept
    <3> QED BY <3>1, <3>2
  <2> QED BY <2>7, <2>8
<1> QED BY <1>3, <1>4

\* The thread that is left keeps its registers in its record, and the one that comes finds
\* its own: in the CpuContext and under the calls it had under way.
LEMMA SwitchKeepsExec ==
  ASSUME BootInv, ExecInv, NEW h \in GuestHosts, InGuest, h # current, NEW s \in Seq(Frames),
         Shaped(s), Chained(s, saved[h]),
         saved' = [saved EXCEPT ![current] = cpu], cpu' = saved[h], current' = h,
         calls' = [calls EXCEPT ![h] = s],
         {i \in 1 .. Len(s) : s[i].native} = Natives(h),
         h \in Fibers => h \in entered', entered \subseteq entered',
         UNCHANGED <<dispatch, drive, prepared>>, stage' \in {"guest", "aborted"}, BlockedRightly'
  PROVE  ExecInv'
<1>1. current \in GuestHosts /\ cpu \in Registers /\ saved \in [GuestHosts -> Registers]
  BY InGuestRuns DEF ExecInv, CallsTyped
<1>2. /\ saved' \in [GuestHosts -> Registers] /\ cpu' \in Registers
      /\ saved'[current] = cpu /\ \A g \in GuestHosts \ {current} : saved'[g] = saved[g]
  BY <1>1 DEF Registers
<1>3. /\ calls' \in [GuestHosts -> Seq(Frames)] /\ calls'[h] = s
      /\ \A g \in GuestHosts \ {h} : calls'[g] = calls[g]
  BY DEF ExecInv, CallsTyped
<1>4. CallsTyped'
  BY <1>2, <1>3 DEF ExecInv, CallsTyped
<1>5. NothingBefore'
  BY <1>3 DEF ExecInv, NothingBefore, InGuest
<1>6. \A g \in GuestHosts : Natives(g)' = Natives(g)
  BY <1>3 DEF Natives
<1>7. OneDvdInit'
  <2>1. \A k \in GuestHosts : \A i : Natives(k) = {i} => i \in 1 .. Len(calls'[k])
    <3> SUFFICES ASSUME NEW k \in GuestHosts, NEW i, Natives(k) = {i} PROVE i \in 1 .. Len(calls'[k])
      OBVIOUS
    <3>1. i \in Natives(k)'
      BY <1>6
    <3> QED BY <3>1 DEF Natives
  <2> QED BY <1>6, <2>1 DEF ExecInv, OneDvdInit, InGuest
<1>8. View(h)' = saved[h] /\ \A g \in GuestHosts \ {h} : View(g)' = View(g)
  BY <1>1, <1>2 DEF View
<1>9. \A g \in GuestHosts : Shaped(calls'[g]) /\ Chained(calls'[g], View(g)')
  BY <1>3, <1>8, StacksFollow
<1> QED BY <1>4, <1>5, <1>7, <1>9 DEF ExecInv

LEMMA SwitchesKeepExec ==
  ASSUME BootInv, ExecInv, NEW h \in GuestHosts,
         (h \in Fibers /\ EnterFiber(h)) \/ \E exits \in BOOLEAN : SwitchThread(h, exits)
  PROVE  ExecInv' /\ (calls' = calls \/ \E f : calls' = [calls EXCEPT ![h] = <<f>>] /\ calls[h] = <<>>)
<1>0. saved[h] \in Registers /\ calls[h] \in Seq(Frames) /\ dispatch \in Published /\ FiberEntry \in GuestAddresses
  BY CallsAssumption DEF ExecInv, CallsTyped
<1>1. ASSUME NEW exits \in BOOLEAN, SwitchThread(h, exits)
      PROVE  ExecInv' /\ calls' = calls
  <2>1. /\ InGuest /\ h # current /\ h \in entered \cup {"scheduler"}
        /\ saved' = [saved EXCEPT ![current] = cpu] /\ cpu' = saved[h] /\ current' = h
        /\ UNCHANGED <<dispatch, calls, entered, stage, drive, prepared, blocked>>
    BY <1>1 DEF SwitchThread, Switchable, driveVars
  <2>2. View(h) = saved[h] /\ Shaped(calls[h]) /\ Chained(calls[h], saved[h])
    BY <2>1 DEF ExecInv, View
  <2>3. calls' = [calls EXCEPT ![h] = calls[h]]
    BY <2>1 DEF ExecInv, CallsTyped
  <2>4. h \in Fibers => h \in entered
    BY <2>1, HostsAssumption
  <2>5. {i \in 1 .. Len(calls[h]) : calls[h][i].native} = Natives(h)
    BY DEF Natives
  <2> DEFINE s == calls[h]
  <2>6. s \in Seq(Frames) /\ Shaped(s) /\ Chained(s, saved[h]) /\ calls' = [calls EXCEPT ![h] = s]
        /\ {i \in 1 .. Len(s) : s[i].native} = Natives(h)
    BY <1>0, <2>2, <2>3, <2>5
  <2> HIDE DEF s
  <2>7. BlockedRightly' /\ stage' \in {"guest", "aborted"}
    BY <2>1 DEF ExecInv, BlockedRightly, Listed, InGuest
  <2> QED BY <2>1, <2>4, <2>6, <2>7, SwitchKeepsExec
<1>2. CASE h \in Fibers /\ EnterFiber(h) /\ Resolved(FiberEntry).linked
  <2> DEFINE f == IndirectCall(FiberEntry, saved[h])
  <2>1. /\ InGuest /\ h # current /\ h \notin entered
        /\ entered' = entered \cup {h}
        /\ saved' = [saved EXCEPT ![current] = cpu] /\ cpu' = saved[h] /\ current' = h
        /\ calls' = [calls EXCEPT ![h] = <<f>>]
        /\ UNCHANGED <<dispatch, stage, drive, prepared, blocked>>
    BY <1>2 DEF EnterFiber, Switchable, driveVars
  <2>2. /\ f \in Frames /\ ~f.native /\ f.function = f.target
        /\ Clobbers[f.function] \subseteq f.guard /\ f.before = saved[h]
    BY <1>0, <1>2, IndirectFrame
  <2>3. calls[h] = <<>>
    BY <1>2, <2>1 DEF ExecInv, NothingBefore
  <2> HIDE DEF f
  <2>4. Len(<<f>>) = 1 /\ <<f>>[1] = f /\ <<f>> \in Seq(Frames)
    BY <2>2
  <2> DEFINE s == <<f>>
  <2>5. s \in Seq(Frames) /\ Len(s) = 1 /\ s[1] = f
    BY <2>4
  <2> HIDE DEF s
  <2>6. Shaped(s) /\ Chained(s, saved[h])
    BY <2>2, <2>5 DEF Shaped, Chained, Meets
  <2>7. {i \in 1 .. Len(s) : s[i].native} = Natives(h)
    <3>1. Natives(h) = {}
      BY <2>3 DEF Natives
    <3> QED BY <2>2, <2>5, <3>1
  <2>8. calls' = [calls EXCEPT ![h] = s]
    BY <2>1 DEF s
  <2>9. BlockedRightly' /\ stage' \in {"guest", "aborted"}
    BY <2>1 DEF ExecInv, BlockedRightly, Listed, InGuest
  <2>10. ExecInv'
    BY <2>1, <2>5, <2>6, <2>7, <2>8, <2>9, SwitchKeepsExec
  <2> QED BY <2>1, <2>3, <2>10
<1>3. CASE h \in Fibers /\ EnterFiber(h) /\ ~Resolved(FiberEntry).linked
  <2>1. /\ InGuest /\ h # current /\ h \notin entered
        /\ entered' = entered \cup {h}
        /\ saved' = [saved EXCEPT ![current] = cpu] /\ cpu' = saved[h] /\ current' = h
        /\ stage' = "aborted" /\ blocked' = [kind |-> "INDIRECT", address |-> FiberEntry]
        /\ UNCHANGED <<dispatch, calls, drive, prepared>>
    BY <1>3 DEF EnterFiber, Switchable, Abort, driveVars
  <2>2. ~Listed(FiberEntry)
    BY <1>0, <1>3, ResolvedIsListed
  <2>3. BlockedRightly'
    BY <2>1, <2>2 DEF BlockedRightly, Listed
  <2> DEFINE s == calls[h]
  <2>4. /\ s \in Seq(Frames) /\ Shaped(s) /\ Chained(s, saved[h]) /\ calls' = [calls EXCEPT ![h] = s]
        /\ {i \in 1 .. Len(s) : s[i].native} = Natives(h)
    BY <1>0, <2>1 DEF ExecInv, CallsTyped, View, Natives
  <2> HIDE DEF s
  <2>5. ExecInv'
    BY <2>1, <2>3, <2>4, SwitchKeepsExec
  <2> QED BY <2>1, <2>5
<1> QED BY <1>1, <1>2, <1>3

\* No step but a return takes a call off a stack.
LEMMA ExecStep ==
  BootInv /\ BootInv' /\ ExecInv /\ [Next]_vars => ExecInv' /\ \A h \in GuestHosts : Kept(h)
<1> SUFFICES ASSUME BootInv, BootInv', ExecInv, [Next]_vars
             PROVE  ExecInv' /\ \A h \in GuestHosts : Kept(h)
  OBVIOUS
<1>0. \A h \in GuestHosts : calls[h] \in Seq(Frames) /\ Len(calls[h]) \in Nat
  BY DEF ExecInv, CallsTyped
<1>1. ASSUME calls' = calls PROVE \A h \in GuestHosts : Kept(h)
  BY <1>0, <1>1 DEF Kept
<1>2. ASSUME NEW s, calls' = [calls EXCEPT ![current] = @ \o s], s \in Seq(Frames)
      PROVE  \A h \in GuestHosts : Kept(h)
  <2> SUFFICES ASSUME NEW h \in GuestHosts PROVE ~ (Len(calls'[h]) < Len(calls[h]))
    BY DEF Kept
  <2>1. CASE h = current
    <3>1. calls'[h] = calls[h] \o s
      BY <1>2, <2>1 DEF ExecInv, CallsTyped
    <3>2. Len(calls[h] \o s) = Len(calls[h]) + Len(s) /\ Len(s) \in Nat
      BY <1>0, <1>2
    <3> QED BY <1>0, <3>1, <3>2
  <2>2. CASE h # current
    <3>1. calls'[h] = calls[h]
      BY <1>2, <2>2 DEF ExecInv, CallsTyped
    <3> QED BY <1>0, <3>1
  <2> QED BY <2>1, <2>2
<1>3. CASE StartProgram
  <2>1. BootNext /\ UNCHANGED execVars
    BY <1>3 DEF StartProgram
  <2>2. ExecInv'
    BY <2>1, StartKeepsExec DEF BootInv
  <2>3. calls' = calls
    BY <2>1 DEF execVars, callVars
  <2> QED BY <1>1, <2>2, <2>3
<1>4. ASSUME NEW a \in Called, InvokeDirect(a) \/ InvokeIndirect(a)
      PROVE  ExecInv' /\ \A h \in GuestHosts : Kept(h)
  <2>1. ExecInv'
    BY <1>4, InvokesKeepExec
  <2>2. a \in GuestAddresses /\ dispatch \in Published /\ (InGuest => cpu \in Registers)
    BY CallsAssumption DEF ExecInv, CallsTyped
  <2>3. InGuest
    BY <1>4 DEF InvokeDirect, InvokeIndirect, CanCall
  <2>4. CASE calls' = calls
    BY <1>1, <2>1, <2>4
  <2>5. ASSUME NEW f \in Frames, Push(<<f>>) PROVE \A h \in GuestHosts : Kept(h)
    <3>1. <<f>> \in Seq(Frames)
      OBVIOUS
    <3> QED BY <1>2, <2>5, <3>1 DEF Push
  <2>6. calls' = calls \/ \E f \in Frames : Push(<<f>>)
    <3>1. CASE InvokeDirect(a) /\ a \in Direct
      <4>1. CallOf(a, a, Clobbers[a] \ {"gprs"}, cpu) \in Frames
        BY <2>2, <2>3, <3>1, DirectFrame
      <4> QED BY <3>1, <4>1 DEF InvokeDirect
    <3>2. CASE InvokeIndirect(a) /\ Resolved(a).linked
      <4>1. IndirectCall(a, cpu) \in Frames
        BY <2>2, <2>3, <3>2, IndirectFrame
      <4> QED BY <3>2, <4>1 DEF InvokeIndirect
    <3>3. CASE \E kind : Block(kind, a)
      BY <3>3 DEF Block, callVars
    <3> QED BY <1>4, <3>1, <3>2, <3>3 DEF InvokeDirect, InvokeIndirect
  <2> QED BY <2>1, <2>4, <2>5, <2>6
<1>5. ASSUME NEW r \in Guardable, Work(r)
      PROVE  ExecInv' /\ \A h \in GuestHosts : Kept(h)
  <2>1. calls' = calls
    BY <1>5 DEF Work
  <2> QED BY <1>1, <1>5, <2>1, WorkKeepsExec
<1>6. CASE Return
  BY <1>6, ReturnKeepsExec
<1>7. CASE ReturnFromStart
  <2>1. /\ InGuest /\ current = "scheduler" /\ calls[current] = <<>> /\ stage' = "waiting"
        /\ UNCHANGED <<dispatch, callVars, drive, prepared, current, blocked>>
    BY <1>7 DEF ReturnFromStart, Executing, ProductReturns, InGuest, contextVars, execVars, driveVars
  <2>2. BlockedRightly'
    BY <2>1 DEF ExecInv, BlockedRightly, Listed
  <2>3. ExecInv'
    BY <2>1, <2>2, CallsUnchanged
  <2> QED BY <1>1, <2>1, <2>3 DEF callVars
<1>8. ASSUME NEW h \in Fibers, CreateFiber(h)
      PROVE  ExecInv' /\ \A g \in GuestHosts : Kept(g)
  <2>1. UNCHANGED <<dispatch, callVars, drive, prepared, current, blocked, stage>>
    BY <1>8 DEF CreateFiber, execVars, driveVars
  <2>2. BlockedRightly'
    BY <2>1 DEF ExecInv, BlockedRightly, Listed
  <2>3. ExecInv'
    BY <2>1, <2>2, CallsUnchanged
  <2> QED BY <1>1, <2>1, <2>3 DEF callVars
<1>9. ASSUME NEW h \in GuestHosts, (h \in Fibers /\ EnterFiber(h)) \/ \E exits \in BOOLEAN : SwitchThread(h, exits)
      PROVE  ExecInv' /\ \A g \in GuestHosts : Kept(g)
  <2>1. ExecInv' /\ (calls' = calls \/ \E f : calls' = [calls EXCEPT ![h] = <<f>>] /\ calls[h] = <<>>)
    BY <1>9, SwitchesKeepExec
  <2>2. ASSUME NEW f, calls' = [calls EXCEPT ![h] = <<f>>], calls[h] = <<>>
        PROVE  \A g \in GuestHosts : Kept(g)
    <3> SUFFICES ASSUME NEW g \in GuestHosts PROVE ~ (Len(calls'[g]) < Len(calls[g]))
      BY DEF Kept
    <3>1. CASE g = h
      <4>1. calls'[g] = <<f>> /\ Len(calls[g]) = 0
        BY <2>2, <3>1 DEF ExecInv, CallsTyped
      <4> QED BY <4>1
    <3>2. CASE g # h
      <4>1. calls'[g] = calls[g]
        BY <2>2, <3>2 DEF ExecInv, CallsTyped
      <4> QED BY <1>0, <4>1
    <3> QED BY <3>1, <3>2
  <2> QED BY <1>1, <2>1, <2>2
<1>10. CASE PublishFst
  <2>1. UNCHANGED <<dispatch, callVars, drive, prepared, current, blocked, stage>>
    BY <1>10 DEF PublishFst, bootVars, contextVars
  <2>2. BlockedRightly'
    BY <2>1 DEF ExecInv, BlockedRightly, Listed
  <2>3. ExecInv'
    BY <2>1, <2>2, CallsUnchanged
  <2> QED BY <1>1, <2>1, <2>3 DEF callVars
<1>11. CASE DvdInitAlone \/ DvdInitCallsFsInit
  <2>1. ExecInv'
    BY <1>11, DvdInitKeepsExec
  <2>2. CASE calls' = calls
    BY <1>1, <2>1, <2>2
  <2>3. CASE Push(<<DvdInitCall, IndirectCall(DvdFsInit, cpu)>>) /\ Resolved(DvdFsInit).linked
    <3>1. DvdInitCall \in Frames
      BY CallsAssumption DEF ExecInv, CallsTyped, DvdInitCall, CallOf, Frames
    <3>2. IndirectCall(DvdFsInit, cpu) \in Frames
      BY CallsAssumption, <2>3, IndirectFrame DEF ExecInv, CallsTyped
    <3>3. <<DvdInitCall, IndirectCall(DvdFsInit, cpu)>> \in Seq(Frames)
      BY <3>1, <3>2
    <3> QED BY <1>2, <2>1, <2>3, <3>3 DEF Push
  <2> QED BY <1>11, <2>2, <2>3 DEF DvdInitAlone, DvdInitCallsFsInit, callVars
<1>12. CASE UNCHANGED vars
  <2>1. UNCHANGED <<dispatch, callVars, drive, prepared, current, blocked, stage>>
    BY <1>12 DEF vars, bootVars, contextVars, execVars, driveVars
  <2>2. BlockedRightly'
    BY <2>1 DEF ExecInv, BlockedRightly, Listed
  <2>3. ExecInv'
    BY <2>1, <2>2, CallsUnchanged
  <2> QED BY <1>1, <2>1, <2>3 DEF callVars
<1> QED BY <1>3, <1>4, <1>5, <1>6, <1>7, <1>8, <1>9, <1>10, <1>11, <1>12 DEF Next, GuestHosts

\* With it, while translated code runs: the registers kept by the calls of the host
\* stacks and the fiber records chain up to those in the CpuContext.
THEOREM ExecutionInvariant == Spec => [](BootInv /\ ExecInv)
<1>1. ExecInit => BootInv /\ ExecInv
  BY BootInitially, ExecInitially
<1>2. BootInv /\ ExecInv /\ [Next]_vars => (BootInv /\ ExecInv)'
  BY BootStep, ExecStep
<1> QED BY <1>1, <1>2, PTL DEF Spec

\* A call runs the function of exactly the address asked for, through whatever pages the
\* table has, and an indirect one gives up only on an address the table does not have
\* (switch_indirect_dispatch.cpp, abi_bridge.h).
THEOREM EveryCallArrives == Spec => []CallsReachTheirTargets
<1>1. ExecInv => CallsReachTheirTargets
  <2> SUFFICES ASSUME ExecInv PROVE CallsReachTheirTargets
    OBVIOUS
  <2>1. \A h \in GuestHosts : DOMAIN calls[h] = 1 .. Len(calls[h])
    BY DEF ExecInv, CallsTyped
  <2> QED BY <2>1 DEF ExecInv, Shaped, BlockedRightly, CallsReachTheirTargets
<1> QED BY <1>1, ExecutionInvariant, PTL

\* Every call that returns gives its caller back the nonvolatile registers it had, whatever
\* the calls and the threads in between did to the one CpuContext (abi_bridge.h,
\* switch_indirect_dispatch.cpp, switch_guest_fiber.cpp).
THEOREM CallersFindTheirRegisters == Spec => NonvolatilesKept
<1>1. BootInv /\ ExecInv /\ BootInv' /\ [Next]_vars =>
        [\A h \in GuestHosts :
           Len(calls'[h]) < Len(calls[h]) => cpu' = calls[h][Len(calls'[h]) + 1].before]_vars
  BY ExecStep DEF Kept
<1> QED BY <1>1, ExecutionInvariant, PTL DEF Spec, NonvolatilesKept

\* DVDInit resets the guest's drive state once, however its callers interleave
\* (switch_dvd_hle_traits.hpp).
THEOREM DriveResetOnce == Spec => []DriveInitializedOnce
<1>1. ExecInv => DriveInitializedOnce
  <2> SUFFICES ASSUME ExecInv PROVE DriveInitializedOnce
    OBVIOUS
  <2>0. \A h \in GuestHosts : DOMAIN calls[h] = 1 .. Len(calls[h]) /\ Len(calls[h]) \in Nat
    BY DEF ExecInv, CallsTyped
  <2>1. DvdInits = UNION {{h} \X Natives(h) : h \in GuestHosts}
    BY <2>0 DEF DvdInits, Natives
  <2>2. \A c \in DvdInits : c[1] \in GuestHosts /\ c[2] \in Natives(c[1])
    BY <2>1
  <2>3. \A c \in DvdInits : /\ c[2] + 1 \in DOMAIN calls[c[1]]
                            /\ calls[c[1]][c[2] + 1].target = DvdFsInit
    <3> SUFFICES ASSUME NEW h \in GuestHosts, NEW i \in Natives(h)
                 PROVE  i + 1 \in DOMAIN calls[h] /\ calls[h][i + 1].target = DvdFsInit
      BY <2>2
    <3>1. i \in 1 .. Len(calls[h]) /\ calls[h][i].native
      BY DEF Natives
    <3>2. i < Len(calls[h]) /\ calls[h][i + 1].target = DvdFsInit
      BY <3>1 DEF ExecInv, Shaped
    <3> QED BY <2>0, <3>1, <3>2
  <2>4. stage # "aborted" => Cardinality(DvdInits) = IF drive.initializing THEN 1 ELSE 0
    <3>1. CASE drive.initializing /\ stage # "aborted"
      <4>1. PICK h \in GuestHosts : /\ \E i \in 1 .. Len(calls[h]) : Natives(h) = {i}
                                    /\ \A g \in GuestHosts \ {h} : Natives(g) = {}
        BY <3>1 DEF ExecInv, OneDvdInit
      <4>2. PICK i : Natives(h) = {i}
        BY <4>1
      <4>3. DvdInits = {<<h, i>>}
        <5>1. <<h, i>> \in DvdInits
          BY <2>1, <4>2
        <5>2. ASSUME NEW c \in DvdInits PROVE c = <<h, i>>
          <6>1. PICK g \in GuestHosts : c \in {g} \X Natives(g)
            BY <2>1
          <6> QED BY <4>1, <4>2, <6>1
        <5> QED BY <5>1, <5>2
      <4> QED BY <3>1, <4>3, FS_Singleton
    <3>2. CASE ~drive.initializing
      <4>1. \A h \in GuestHosts : Natives(h) = {}
        BY <3>2 DEF ExecInv, OneDvdInit
      <4>2. DvdInits = {}
        BY <2>2, <4>1
      <4> QED BY <3>2, <4>2, FS_EmptySet
    <3> QED BY <3>1, <3>2
  <2> QED BY <2>3, <2>4 DEF ExecInv, OneDvdInit, DriveInitializedOnce
<1> QED BY <1>1, ExecutionInvariant, PTL

==============================================================================
