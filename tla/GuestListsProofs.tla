--------------------------- MODULE GuestListsProofs ---------------------------
(***************************************************************************)
(* The doubly linked lists of guest memory, for every number of lists and  *)
(* nodes: an operation of LinkedList on one list does to the sequence the  *)
(* list represents what its name says, and nothing to any other list.      *)
(* From that follow the theorems about the lists' two users, OSMutex and   *)
(* ThreadQueue.                                                            *)
(***************************************************************************)
EXTENDS MCGuestLists, QueueTheorems, FiniteSetTheorems

-----------------------------------------------------------------------------
(* The lists.                                                               *)

LEMMA Elements ==
  ASSUME NEW Nodes, NEW s \in Seq(Nodes)
  PROVE  /\ Len(s) \in Nat /\ DOMAIN s = 1 .. Len(s)
         /\ \A i \in 1 .. Len(s) : s[i] \in Nodes /\ s[i] \in Range(s)
         /\ s = <<>> <=> Len(s) = 0
BY LenProperties, ElementOfSeq, EmptySeq DEF Range

\* What an operation leaves of a list none of whose words it writes.
LEMMA UntouchedList ==
  ASSUME NEW s, NEW q, NEW k, NEW l, Represents(k, q, s),
         l.head[q] = k.head[q], l.tail[q] = k.tail[q],
         \A x \in Range(s) : l.next[x] = k.next[x] /\ l.prev[x] = k.prev[x]
  PROVE  Represents(l, q, s)
BY DEF Represents, Range

\* The words LinkLast writes.
LEMMA LinkLastWords ==
  ASSUME NEW Lists, NEW Nodes, NEW k \in LinkWords(Lists, Nodes), NEW q \in Lists, NEW n \in Nodes
  PROVE  LET l == LinkLast(k, q, n)
         IN  /\ l \in LinkWords(Lists, Nodes)
             /\ l.head[q] = IF k.tail[q] = Null THEN n ELSE k.head[q]
             /\ l.tail[q] = n
             /\ \A r \in Lists \ {q} : l.head[r] = k.head[r] /\ l.tail[r] = k.tail[r]
             /\ \A x \in Nodes :
                  /\ l.next[x] = IF x = n THEN Null ELSE IF x = k.tail[q] THEN n ELSE k.next[x]
                  /\ l.prev[x] = IF x = n THEN k.tail[q] ELSE k.prev[x]
BY DEF LinkLast, LinkWords, Written

LEMMA LinkLastAppends ==
  ASSUME NEW Lists, NEW Nodes, Null \notin Nodes,
         NEW k \in LinkWords(Lists, Nodes), NEW q \in Lists, NEW n \in Nodes,
         NEW s \in Seq(Nodes), Distinct(s), n \notin Range(s), Represents(k, q, s)
  PROVE  Represents(LinkLast(k, q, n), q, Append(s, n))
<1> DEFINE l == LinkLast(k, q, n)
           a == Append(s, n)
<1>1. /\ l.head[q] = IF k.tail[q] = Null THEN n ELSE k.head[q]
      /\ l.tail[q] = n
      /\ \A x \in Nodes :
           /\ l.next[x] = IF x = n THEN Null ELSE IF x = k.tail[q] THEN n ELSE k.next[x]
           /\ l.prev[x] = IF x = n THEN k.tail[q] ELSE k.prev[x]
  BY LinkLastWords
<1>2. /\ Len(s) \in Nat /\ DOMAIN s = 1 .. Len(s)
      /\ \A i \in 1 .. Len(s) : s[i] \in Nodes /\ s[i] \in Range(s)
      /\ s = <<>> <=> Len(s) = 0
  BY Elements
<1>3. /\ a # <<>> /\ Len(a) = Len(s) + 1 /\ DOMAIN a = 1 .. Len(s) + 1
      /\ \A i \in 1 .. Len(s) : a[i] = s[i]
      /\ a[Len(s) + 1] = n
  BY AppendProperties, AppendQueue, LenProperties
<1> HIDE DEF l, a
<1>4. l.head[q] = a[1] /\ l.tail[q] = a[Len(a)]
  BY <1>1, <1>2, <1>3 DEF Represents
<1>5. ASSUME NEW i \in 1 .. Len(s)
      PROVE  /\ l.next[s[i]] = IF i = Len(s) THEN n ELSE s[i + 1]
             /\ l.prev[s[i]] = IF i = 1 THEN Null ELSE s[i - 1]
  <2>1. s[i] \in Nodes /\ s[i] # n /\ Len(s) \in 1 .. Len(s) /\ i \in DOMAIN s /\ s # <<>>
    BY <1>2
  <2>2. s[i] = s[Len(s)] <=> i = Len(s)
    BY <1>2, <2>1 DEF Distinct
  <2>3. /\ k.tail[q] = s[Len(s)]
        /\ k.next[s[i]] = IF i = Len(s) THEN Null ELSE s[i + 1]
        /\ k.prev[s[i]] = IF i = 1 THEN Null ELSE s[i - 1]
    BY <2>1 DEF Represents
  <2> QED BY <1>1, <2>1, <2>2, <2>3
<1>6. /\ l.next[n] = Null
      /\ l.prev[n] = IF Len(s) = 0 THEN Null ELSE s[Len(s)]
  BY <1>1, <1>2 DEF Represents
<1>7. ASSUME NEW i \in DOMAIN a
      PROVE  /\ l.next[a[i]] = IF i = Len(a) THEN Null ELSE a[i + 1]
             /\ l.prev[a[i]] = IF i = 1 THEN Null ELSE a[i - 1]
  <2>1. CASE i \in 1 .. Len(s)
    <3>1. /\ i # Len(a) /\ a[i] = s[i] /\ (i # 1 => a[i - 1] = s[i - 1])
          /\ a[i + 1] = IF i = Len(s) THEN n ELSE s[i + 1]
      BY <1>2, <1>3, <2>1
    <3> QED BY <1>5, <2>1, <3>1
  <2>2. CASE i = Len(s) + 1
    BY <1>2, <1>3, <1>6, <2>2
  <2> QED BY <1>2, <1>3, <2>1, <2>2
<1>8. Represents(l, q, a)
  BY <1>3, <1>4, <1>7 DEF Represents
<1> QED BY <1>8 DEF l, a

\* The words of a list and of its nodes name its nodes and nobody else's.
LEMMA Inside ==
  ASSUME NEW Nodes, NEW s \in Seq(Nodes), NEW k, NEW q, Represents(k, q, s)
  PROVE  /\ Range(s) \subseteq Nodes
         /\ k.head[q] \in Range(s) \cup {Null} /\ k.tail[q] \in Range(s) \cup {Null}
         /\ \A x \in Range(s) :
              k.next[x] \in Range(s) \cup {Null} /\ k.prev[x] \in Range(s) \cup {Null}
<1>1. /\ Len(s) \in Nat /\ DOMAIN s = 1 .. Len(s)
      /\ \A i \in 1 .. Len(s) : s[i] \in Nodes /\ s[i] \in Range(s)
      /\ s = <<>> <=> Len(s) = 0
  BY Elements
<1>2. \A x \in Range(s) : \E i \in 1 .. Len(s) : s[i] = x
  BY <1>1 DEF Range
<1>3. Range(s) \subseteq Nodes
  BY <1>1, <1>2
<1>4. k.head[q] \in Range(s) \cup {Null}
  <2>1. s # <<>> => 1 \in 1 .. Len(s)
    BY <1>1
  <2> QED BY <1>1, <2>1 DEF Represents
<1>5. k.tail[q] \in Range(s) \cup {Null}
  <2>1. s # <<>> => Len(s) \in 1 .. Len(s)
    BY <1>1
  <2> QED BY <1>1, <2>1 DEF Represents
<1>6. ASSUME NEW i \in 1 .. Len(s)
      PROVE  k.next[s[i]] \in Range(s) \cup {Null} /\ k.prev[s[i]] \in Range(s) \cup {Null}
  <2>1. Len(s) \in Nat
    BY <1>1
  <2>2. (i # Len(s) => i + 1 \in 1 .. Len(s)) /\ (i # 1 => i - 1 \in 1 .. Len(s))
    BY <2>1
  <2> QED BY <1>1, <2>2 DEF Represents
<1> QED BY <1>2, <1>3, <1>4, <1>5, <1>6

LEMMA LinkLastElsewhere ==
  ASSUME NEW Lists, NEW Nodes, NEW k \in LinkWords(Lists, Nodes),
         NEW q \in Lists, NEW n \in Nodes,
         NEW s \in Seq(Nodes), Represents(k, q, s),
         NEW r \in Lists \ {q}, NEW z \in Seq(Nodes), Represents(k, r, z),
         Range(z) \cap Range(s) = {}, n \notin Range(z), Null \notin Nodes
  PROVE  Represents(LinkLast(k, q, n), r, z)
<1> DEFINE l == LinkLast(k, q, n)
<1>1. /\ l.head[r] = k.head[r] /\ l.tail[r] = k.tail[r]
      /\ \A x \in Nodes :
           /\ l.next[x] = IF x = n THEN Null ELSE IF x = k.tail[q] THEN n ELSE k.next[x]
           /\ l.prev[x] = IF x = n THEN k.tail[q] ELSE k.prev[x]
  BY LinkLastWords
<1> HIDE DEF l
<1>2. k.tail[q] \in Range(s) \cup {Null} /\ Range(z) \subseteq Nodes
  BY Inside
<1>3. \A x \in Range(z) : l.next[x] = k.next[x] /\ l.prev[x] = k.prev[x]
  BY <1>1, <1>2
<1>4. Represents(l, r, z)
  BY <1>1, <1>3, UntouchedList
<1> QED BY <1>4 DEF l

\* The words Unlink writes.
LEMMA UnlinkWords ==
  ASSUME NEW Lists, NEW Nodes, NEW k \in LinkWords(Lists, Nodes), NEW q \in Lists, NEW n \in Nodes
  PROVE  LET l == Unlink(k, q, n)
         IN  /\ l \in LinkWords(Lists, Nodes)
             /\ l.head[q] = IF k.prev[n] = Null THEN k.next[n] ELSE k.head[q]
             /\ l.tail[q] = IF k.next[n] = Null THEN k.prev[n] ELSE k.tail[q]
             /\ \A r \in Lists \ {q} : l.head[r] = k.head[r] /\ l.tail[r] = k.tail[r]
             /\ \A x \in Nodes :
                  /\ l.next[x] = IF x = k.prev[n] THEN k.next[n] ELSE k.next[x]
                  /\ l.prev[x] = IF x = k.next[n] THEN k.prev[n] ELSE k.prev[x]
BY DEF Unlink, LinkWords, Written

LEMMA UnlinkRemoves ==
  ASSUME NEW Lists, NEW Nodes, Null \notin Nodes,
         NEW k \in LinkWords(Lists, Nodes), NEW q \in Lists,
         NEW s \in Seq(Nodes), Distinct(s), NEW i \in 1 .. Len(s), Represents(k, q, s)
  PROVE  Represents(Unlink(k, q, s[i]), q, RemoveAt(s, i))
<1> DEFINE N == Len(s)
           l == Unlink(k, q, s[i])
           r == RemoveAt(s, i)
           after == IF i = N THEN Null ELSE s[i + 1]
           before == IF i = 1 THEN Null ELSE s[i - 1]
<1>1. N \in Nat \ {0} /\ i \in 1 .. N
  BY LenProperties
<1>2. /\ DOMAIN s = 1 .. N
      /\ \A j \in 1 .. N : s[j] \in Nodes /\ s[j] # Null
      /\ \A j, m \in 1 .. N : s[j] = s[m] => j = m
  BY Elements DEF Distinct
<1>3. /\ k.head[q] = s[1] /\ k.tail[q] = s[N]
      /\ \A j \in 1 .. N :
           /\ k.next[s[j]] = IF j = N THEN Null ELSE s[j + 1]
           /\ k.prev[s[j]] = IF j = 1 THEN Null ELSE s[j - 1]
  BY <1>1, <1>2, EmptySeq DEF Represents
<1>4. k.next[s[i]] = after /\ k.prev[s[i]] = before /\ s[i] \in Nodes
  BY <1>2, <1>3
<1>5. /\ r \in Seq(Nodes) /\ Len(r) = N - 1
      /\ \A j \in 1 .. N - 1 : r[j] = IF j < i THEN s[j] ELSE s[j + 1]
  BY RemoveAtElements
<1>6. DOMAIN r = 1 .. N - 1 /\ (r = <<>> <=> N = 1)
  <2>1. DOMAIN r = 1 .. Len(r) /\ (r = <<>> <=> Len(r) = 0)
    BY <1>5, Elements
  <2> QED BY <1>1, <1>5, <2>1
<1>7. /\ l.head[q] = IF before = Null THEN after ELSE s[1]
      /\ l.tail[q] = IF after = Null THEN before ELSE s[N]
      /\ \A x \in Nodes :
           /\ l.next[x] = IF x = before THEN after ELSE k.next[x]
           /\ l.prev[x] = IF x = after THEN before ELSE k.prev[x]
  <2> HIDE DEF before, after
  <2>1. /\ l.head[q] = IF k.prev[s[i]] = Null THEN k.next[s[i]] ELSE k.head[q]
        /\ l.tail[q] = IF k.next[s[i]] = Null THEN k.prev[s[i]] ELSE k.tail[q]
        /\ \A x \in Nodes :
             /\ l.next[x] = IF x = k.prev[s[i]] THEN k.next[s[i]] ELSE k.next[x]
             /\ l.prev[x] = IF x = k.next[s[i]] THEN k.prev[s[i]] ELSE k.prev[x]
    BY <1>4, UnlinkWords
  <2> QED BY <1>3, <1>4, <2>1
<1> HIDE DEF N, l, r
<1>8. (i # 1 => i - 1 \in 1 .. N) /\ (i # N => i + 1 \in 1 .. N)
  BY ONLY <1>1
<1>9. /\ i # 1 => before = s[i - 1] /\ before # Null
      /\ i # N => after = s[i + 1] /\ after # Null
      /\ i = 1 => before = Null
      /\ i = N => after = Null
  BY <1>2, <1>8
<1> HIDE DEF before, after
<1>10. l.head[q] = IF r = <<>> THEN Null ELSE r[1]
  <2>1. l.head[q] = IF i = 1 THEN after ELSE s[1]
    BY <1>7, <1>9
  <2>2. N # 1 => 1 \in 1 .. N - 1 /\ (1 < i <=> i # 1) /\ 1 + 1 = 2 /\ (i = 1 => i # N)
    BY ONLY <1>1
  <2>3. N = 1 => i = 1 /\ i = N
    BY ONLY <1>1
  <2> QED BY <1>5, <1>6, <1>9, <2>1, <2>2, <2>3
<1>11. l.tail[q] = IF r = <<>> THEN Null ELSE r[Len(r)]
  <2>1. l.tail[q] = IF i = N THEN before ELSE s[N]
    BY <1>7, <1>9
  <2>2. N # 1 => /\ N - 1 \in 1 .. N - 1 /\ (N - 1) + 1 = N /\ (N - 1 < i <=> i = N)
                 /\ (i = N => i # 1)
    BY ONLY <1>1
  <2>3. N = 1 => i = 1 /\ i = N
    BY ONLY <1>1
  <2>4. CASE N = 1
    BY <1>6, <1>9, <2>1, <2>3, <2>4
  <2>5. CASE N # 1
    <3>1. r[Len(r)] = IF i = N THEN s[N - 1] ELSE s[N]
      BY <1>5, <2>2, <2>5
    <3> QED BY <1>6, <1>9, <2>1, <2>2, <2>5, <3>1
  <2> QED BY <2>4, <2>5
<1>12. ASSUME NEW j \in 1 .. N, j # i
       PROVE  /\ l.next[s[j]] = IF j = i - 1 THEN after ELSE IF j = N THEN Null ELSE s[j + 1]
              /\ l.prev[s[j]] = IF j = i + 1 THEN before ELSE IF j = 1 THEN Null ELSE s[j - 1]
  <2>1. (i = 1 => j # i - 1) /\ (i = N => j # i + 1)
    BY ONLY <1>1, j \in 1 .. N
  <2>2. s[j] = before <=> j = i - 1
    BY <1>2, <1>8, <1>9, <2>1
  <2>3. s[j] = after <=> j = i + 1
    BY <1>2, <1>8, <1>9, <2>1
  <2> QED BY <1>2, <1>3, <1>7, <2>2, <2>3
<1>13. ASSUME NEW j \in 1 .. N - 1
       PROVE  /\ l.next[r[j]] = IF j = Len(r) THEN Null ELSE r[j + 1]
              /\ l.prev[r[j]] = IF j = 1 THEN Null ELSE r[j - 1]
  <2>1. CASE j < i
    <3>1. /\ j \in 1 .. N /\ j # i /\ j # N /\ j # i + 1
          /\ j # N - 1 => j + 1 \in 1 .. N - 1
          /\ j # 1 => j - 1 \in 1 .. N - 1 /\ j - 1 < i
          /\ j + 1 < i <=> j # i - 1
          /\ j = i - 1 => (j = N - 1 <=> i = N) /\ (j + 1) + 1 = i + 1
          /\ j # i - 1 => j # N - 1
      BY ONLY <1>1, <2>1, j \in 1 .. N - 1
    <3>2. r[j] = s[j] /\ (j # 1 => r[j - 1] = s[j - 1])
      BY <1>5, <2>1, <3>1
    <3>3. j # Len(r) => r[j + 1] = IF j = i - 1 THEN s[i + 1] ELSE s[j + 1]
      BY <1>5, <3>1
    <3> QED BY <1>5, <1>9, <1>12, <3>1, <3>2, <3>3
  <2>2. CASE ~(j < i)
    <3>1. /\ j + 1 \in 1 .. N /\ j + 1 # i /\ j + 1 # i - 1 /\ j + 1 # 1
          /\ (j + 1) - 1 = j /\ (j - 1) + 1 = j
          /\ j # N - 1 => j + 1 \in 1 .. N - 1 /\ ~(j + 1 < i)
          /\ j # 1 => j - 1 \in 1 .. N - 1 /\ (j - 1 < i <=> j = i)
          /\ j = N - 1 <=> j + 1 = N
          /\ j + 1 = i + 1 <=> j = i
          /\ j # i => j # 1
      BY ONLY <1>1, <2>2, j \in 1 .. N - 1
    <3>2. r[j] = s[j + 1] /\ (j # 1 => r[j - 1] = IF j = i THEN s[i - 1] ELSE s[j])
      BY <1>5, <2>2, <3>1
    <3>3. j # Len(r) => r[j + 1] = s[(j + 1) + 1]
      BY <1>5, <3>1
    <3>4. l.next[s[j + 1]] = IF j + 1 = N THEN Null ELSE s[(j + 1) + 1]
      BY <1>12, <3>1
    <3>5. l.prev[s[j + 1]] = IF j = i THEN before ELSE s[j]
      BY <1>12, <3>1
    <3> QED BY <1>5, <1>9, <3>1, <3>2, <3>3, <3>4, <3>5
  <2> QED BY <2>1, <2>2
<1>14. Represents(l, q, r)
  BY <1>5, <1>6, <1>10, <1>11, <1>13 DEF Represents
<1> QED BY <1>14 DEF l, r

LEMMA UnlinkElsewhere ==
  ASSUME NEW Lists, NEW Nodes, NEW k \in LinkWords(Lists, Nodes), NEW q \in Lists,
         NEW s \in Seq(Nodes), NEW n \in Range(s), Represents(k, q, s),
         NEW r \in Lists \ {q}, NEW z \in Seq(Nodes), Represents(k, r, z),
         Range(z) \cap Range(s) = {}, Null \notin Nodes
  PROVE  Represents(Unlink(k, q, n), r, z)
<1> DEFINE l == Unlink(k, q, n)
<1>1. /\ Range(s) \subseteq Nodes /\ Range(z) \subseteq Nodes
      /\ k.next[n] \in Range(s) \cup {Null} /\ k.prev[n] \in Range(s) \cup {Null}
  BY Inside
<1>2. /\ l.head[r] = k.head[r] /\ l.tail[r] = k.tail[r]
      /\ \A x \in Nodes :
           /\ l.next[x] = IF x = k.prev[n] THEN k.next[n] ELSE k.next[x]
           /\ l.prev[x] = IF x = k.next[n] THEN k.prev[n] ELSE k.prev[x]
  BY <1>1, UnlinkWords
<1> HIDE DEF l
<1>3. \A x \in Range(z) : l.next[x] = k.next[x] /\ l.prev[x] = k.prev[x]
  BY <1>1, <1>2
<1>4. Represents(l, r, z)
  BY <1>2, <1>3, UntouchedList
<1> QED BY <1>4 DEF l

\* The words LinkBefore writes.
LEMMA LinkBeforeWords ==
  ASSUME NEW Lists, NEW Nodes, Null \notin Nodes,
         NEW k \in LinkWords(Lists, Nodes), NEW q \in Lists, NEW n \in Nodes, NEW x \in Nodes
  PROVE  LET l == LinkBefore(k, q, n, x)
         IN  /\ l \in LinkWords(Lists, Nodes)
             /\ l.head[q] = IF k.prev[x] = Null THEN n ELSE k.head[q]
             /\ l.tail[q] = k.tail[q]
             /\ \A r \in Lists \ {q} : l.head[r] = k.head[r] /\ l.tail[r] = k.tail[r]
             /\ \A y \in Nodes :
                  /\ l.next[y] = IF y = k.prev[x] THEN n ELSE IF y = n THEN x ELSE k.next[y]
                  /\ l.prev[y] = IF y = n THEN k.prev[x] ELSE IF y = x THEN n ELSE k.prev[y]
BY DEF LinkBefore, LinkWords, Written

LEMMA LinkBeforeInserts ==
  ASSUME NEW Lists, NEW Nodes, Null \notin Nodes,
         NEW k \in LinkWords(Lists, Nodes), NEW q \in Lists, NEW n \in Nodes,
         NEW s \in Seq(Nodes), Distinct(s), n \notin Range(s), NEW i \in 1 .. Len(s),
         Represents(k, q, s)
  PROVE  Represents(LinkBefore(k, q, n, s[i]), q, InsertAt(s, i, n))
<1> DEFINE N == Len(s)
           l == LinkBefore(k, q, n, s[i])
           a == InsertAt(s, i, n)
           before == IF i = 1 THEN Null ELSE s[i - 1]
<1>1. N \in Nat \ {0} /\ i \in 1 .. N /\ i \in 1 .. N + 1
  BY LenProperties
<1>2. /\ DOMAIN s = 1 .. N
      /\ \A j \in 1 .. N : s[j] \in Nodes /\ s[j] # Null /\ s[j] # n
      /\ \A j, m \in 1 .. N : s[j] = s[m] => j = m
  BY Elements DEF Distinct
<1>3. /\ k.head[q] = s[1] /\ k.tail[q] = s[N]
      /\ \A j \in 1 .. N :
           /\ k.next[s[j]] = IF j = N THEN Null ELSE s[j + 1]
           /\ k.prev[s[j]] = IF j = 1 THEN Null ELSE s[j - 1]
  BY <1>1, <1>2, EmptySeq DEF Represents
<1>4. k.prev[s[i]] = before /\ s[i] \in Nodes
  BY <1>2, <1>3
<1>5. /\ a \in Seq(Nodes) /\ Len(a) = N + 1
      /\ \A j \in 1 .. N + 1 : a[j] = IF j < i THEN s[j] ELSE IF j = i THEN n ELSE s[j - 1]
  BY <1>1, InsertAtElements
<1>6. DOMAIN a = 1 .. N + 1 /\ a # <<>>
  <2>1. DOMAIN a = 1 .. Len(a) /\ (a = <<>> <=> Len(a) = 0)
    BY <1>5, Elements
  <2> QED BY <1>1, <1>5, <2>1
<1>7. /\ l.head[q] = IF before = Null THEN n ELSE s[1]
      /\ l.tail[q] = s[N]
      /\ \A y \in Nodes :
           /\ l.next[y] = IF y = before THEN n ELSE IF y = n THEN s[i] ELSE k.next[y]
           /\ l.prev[y] = IF y = n THEN before ELSE IF y = s[i] THEN n ELSE k.prev[y]
  <2> HIDE DEF before
  <2>1. /\ l.head[q] = IF k.prev[s[i]] = Null THEN n ELSE k.head[q]
        /\ l.tail[q] = k.tail[q]
        /\ \A y \in Nodes :
             /\ l.next[y] = IF y = k.prev[s[i]] THEN n ELSE IF y = n THEN s[i] ELSE k.next[y]
             /\ l.prev[y] = IF y = n THEN k.prev[s[i]] ELSE IF y = s[i] THEN n ELSE k.prev[y]
    <3> DEFINE x == s[i]
    <3>1. x \in Nodes
      BY <1>4
    <3> HIDE DEF x
    <3>2. LET m == LinkBefore(k, q, n, x)
          IN  /\ m.head[q] = IF k.prev[x] = Null THEN n ELSE k.head[q]
              /\ m.tail[q] = k.tail[q]
              /\ \A y \in Nodes :
                   /\ m.next[y] = IF y = k.prev[x] THEN n ELSE IF y = n THEN x ELSE k.next[y]
                   /\ m.prev[y] = IF y = n THEN k.prev[x] ELSE IF y = x THEN n ELSE k.prev[y]
      BY <3>1, LinkBeforeWords
    <3> QED BY <3>2 DEF x
  <2> QED BY <1>3, <1>4, <2>1
<1> HIDE DEF N, l, a
<1>8. /\ i # 1 => i - 1 \in 1 .. N
      /\ 1 \in 1 .. N + 1 /\ (1 < i <=> i # 1)
      /\ N + 1 \in 1 .. N + 1 /\ ~(N + 1 < i) /\ N + 1 # i /\ (N + 1) - 1 = N
  BY ONLY <1>1
<1>9. /\ i # 1 => before = s[i - 1] /\ before # Null
      /\ i = 1 => before = Null
      /\ before # n
  BY <1>2, <1>8
<1> HIDE DEF before
<1>10. l.head[q] = a[1] /\ l.tail[q] = a[Len(a)]
  BY <1>5, <1>7, <1>8, <1>9
<1>11. ASSUME NEW j \in 1 .. N
       PROVE  /\ l.next[s[j]] = IF j = i - 1 THEN n ELSE IF j = N THEN Null ELSE s[j + 1]
              /\ l.prev[s[j]] = IF j = i THEN n ELSE IF j = 1 THEN Null ELSE s[j - 1]
  <2>1. i = 1 => j # i - 1
    BY ONLY <1>1, j \in 1 .. N
  <2>2. s[j] = before <=> j = i - 1
    BY <1>2, <1>8, <1>9, <2>1
  <2>3. s[j] \in Nodes /\ s[j] # n /\ (s[j] = s[i] <=> j = i)
    BY <1>1, <1>2
  <2> QED BY <1>3, <1>7, <2>2, <2>3
<1>12. l.next[n] = s[i] /\ l.prev[n] = before
  BY <1>7, <1>9
<1>13. ASSUME NEW j \in 1 .. N + 1
       PROVE  /\ l.next[a[j]] = IF j = Len(a) THEN Null ELSE a[j + 1]
              /\ l.prev[a[j]] = IF j = 1 THEN Null ELSE a[j - 1]
  <2>1. CASE j < i
    <3>1. /\ j \in 1 .. N /\ j # N /\ j # i /\ j # N + 1 /\ j + 1 \in 1 .. N + 1
          /\ j # 1 => j - 1 \in 1 .. N + 1 /\ j - 1 < i
          /\ j = i - 1 <=> j + 1 = i
          /\ j # i - 1 => j + 1 < i
      BY ONLY <1>1, <2>1, j \in 1 .. N + 1
    <3> QED BY <1>5, <1>11, <2>1, <3>1
  <2>2. CASE j = i
    <3>1. /\ j # N + 1 /\ j + 1 \in 1 .. N + 1 /\ ~(j + 1 < i) /\ j + 1 # i /\ (j + 1) - 1 = i
          /\ ~(j < i)
          /\ j # 1 => j - 1 \in 1 .. N + 1 /\ j - 1 < i
      BY ONLY <1>1, <2>2, j \in 1 .. N + 1
    <3>2. a[j] = n /\ a[j + 1] = s[i] /\ (j # 1 => a[j - 1] = s[i - 1])
      BY <1>5, <2>2, <3>1
    <3> QED BY <1>5, <1>9, <1>12, <2>2, <3>1, <3>2
  <2>3. CASE i < j
    <3>1. /\ j - 1 \in 1 .. N /\ ~(j < i) /\ j # i /\ j # 1 /\ (j - 1) + 1 = j
          /\ j - 1 # i - 1
          /\ j # N + 1 => j + 1 \in 1 .. N + 1 /\ ~(j + 1 < i) /\ j + 1 # i /\ (j + 1) - 1 = j
          /\ j = N + 1 <=> j - 1 = N
          /\ j - 1 \in 1 .. N + 1 /\ ~(j - 1 < i) /\ (j - 1 # i => j - 1 # 1)
      BY ONLY <1>1, <2>3, j \in 1 .. N + 1
    <3>2. a[j] = s[j - 1] /\ (j # N + 1 => a[j + 1] = s[j])
      BY <1>5, <3>1
    <3>3. a[j - 1] = IF j - 1 = i THEN n ELSE s[(j - 1) - 1]
      BY <1>5, <3>1
    <3>4. /\ l.next[s[j - 1]] = IF j - 1 = N THEN Null ELSE s[j]
          /\ l.prev[s[j - 1]] = IF j - 1 = i THEN n ELSE IF j - 1 = 1 THEN Null ELSE s[(j - 1) - 1]
      BY <1>11, <3>1
    <3> QED BY <1>5, <3>1, <3>2, <3>3, <3>4
  <2>4. j < i \/ j = i \/ i < j
    BY ONLY <1>1, j \in 1 .. N + 1
  <2> QED BY <2>1, <2>2, <2>3, <2>4
<1>14. Represents(l, q, a)
  BY <1>5, <1>6, <1>10, <1>13 DEF Represents
<1> QED BY <1>14 DEF l, a

LEMMA LinkBeforeElsewhere ==
  ASSUME NEW Lists, NEW Nodes, NEW k \in LinkWords(Lists, Nodes), NEW q \in Lists,
         NEW s \in Seq(Nodes), NEW n \in Nodes, NEW x \in Range(s), Represents(k, q, s),
         NEW r \in Lists \ {q}, NEW z \in Seq(Nodes), Represents(k, r, z),
         Range(z) \cap Range(s) = {}, n \notin Range(z), Null \notin Nodes
  PROVE  Represents(LinkBefore(k, q, n, x), r, z)
<1> DEFINE l == LinkBefore(k, q, n, x)
<1>1. /\ Range(s) \subseteq Nodes /\ Range(z) \subseteq Nodes
      /\ k.prev[x] \in Range(s) \cup {Null}
  BY Inside
<1>2. /\ l.head[r] = k.head[r] /\ l.tail[r] = k.tail[r]
      /\ \A y \in Nodes :
           /\ l.next[y] = IF y = k.prev[x] THEN n ELSE IF y = n THEN x ELSE k.next[y]
           /\ l.prev[y] = IF y = n THEN k.prev[x] ELSE IF y = x THEN n ELSE k.prev[y]
  BY <1>1, LinkBeforeWords
<1> HIDE DEF l
<1>3. \A y \in Range(z) : l.next[y] = k.next[y] /\ l.prev[y] = k.prev[y]
  BY <1>1, <1>2
<1>4. Represents(l, r, z)
  BY <1>2, <1>3, UntouchedList
<1> QED BY <1>4 DEF l

\* The words UnlinkHead writes.
LEMMA UnlinkHeadWords ==
  ASSUME NEW Lists, NEW Nodes, NEW k \in LinkWords(Lists, Nodes), NEW q \in Lists,
         k.head[q] \in Nodes
  PROVE  LET l == UnlinkHead(k, q)
             second == k.next[k.head[q]]
         IN  /\ l \in LinkWords(Lists, Nodes)
             /\ l.head[q] = second
             /\ l.tail[q] = IF second = Null THEN Null ELSE k.tail[q]
             /\ \A r \in Lists \ {q} : l.head[r] = k.head[r] /\ l.tail[r] = k.tail[r]
             /\ l.next = k.next
             /\ \A x \in Nodes : l.prev[x] = IF x = second THEN Null ELSE k.prev[x]
BY DEF UnlinkHead, LinkWords, Written

LEMMA UnlinkHeadPops ==
  ASSUME NEW Lists, NEW Nodes, Null \notin Nodes,
         NEW k \in LinkWords(Lists, Nodes), NEW q \in Lists,
         NEW s \in Seq(Nodes), Distinct(s), s # <<>>, Represents(k, q, s)
  PROVE  Represents(UnlinkHead(k, q), q, Tail(s))
<1> DEFINE N == Len(s)
           l == UnlinkHead(k, q)
           r == Tail(s)
           second == IF 1 = N THEN Null ELSE s[1 + 1]
<1>1. N \in Nat \ {0}
  BY LenProperties, EmptySeq
<1>2. /\ DOMAIN s = 1 .. N
      /\ \A j \in 1 .. N : s[j] \in Nodes /\ s[j] # Null
      /\ \A j, m \in 1 .. N : s[j] = s[m] => j = m
  BY Elements DEF Distinct
<1>3. /\ k.head[q] = s[1] /\ k.tail[q] = s[N]
      /\ \A j \in 1 .. N :
           /\ k.next[s[j]] = IF j = N THEN Null ELSE s[j + 1]
           /\ k.prev[s[j]] = IF j = 1 THEN Null ELSE s[j - 1]
  BY <1>2 DEF Represents
<1>4. r \in Seq(Nodes) /\ Len(r) = N - 1 /\ \A j \in 1 .. N - 1 : r[j] = s[j + 1]
  BY HeadTailProperties
<1>5. DOMAIN r = 1 .. N - 1 /\ (r = <<>> <=> N = 1)
  <2>1. DOMAIN r = 1 .. Len(r) /\ (r = <<>> <=> Len(r) = 0)
    BY <1>4, Elements
  <2> QED BY <1>1, <1>4, <2>1
<1>6. 1 \in 1 .. N
  BY <1>1
<1>7. /\ l.head[q] = second
      /\ l.tail[q] = IF second = Null THEN Null ELSE s[N]
      /\ l.next = k.next
      /\ \A x \in Nodes : l.prev[x] = IF x = second THEN Null ELSE k.prev[x]
  <2>1. k.head[q] = s[1] /\ s[1] \in Nodes /\ k.next[s[1]] = second
    BY <1>2, <1>3, <1>6
  <2> HIDE DEF second
  <2>2. /\ l.head[q] = k.next[k.head[q]]
        /\ l.tail[q] = IF k.next[k.head[q]] = Null THEN Null ELSE k.tail[q]
        /\ l.next = k.next
        /\ \A x \in Nodes : l.prev[x] = IF x = k.next[k.head[q]] THEN Null ELSE k.prev[x]
    BY <2>1, UnlinkHeadWords
  <2> QED BY <1>3, <2>1, <2>2
<1> HIDE DEF N, l, r
<1>8. N # 1 => /\ 1 + 1 \in 1 .. N /\ N - 1 \in 1 .. N - 1 /\ (N - 1) + 1 = N /\ 1 \in 1 .. N - 1
  BY ONLY <1>1
<1>9. (N # 1 => second = s[1 + 1] /\ second # Null) /\ (N = 1 => second = Null)
  BY <1>2, <1>8
<1> HIDE DEF second
<1>10. /\ l.head[q] = IF r = <<>> THEN Null ELSE r[1]
       /\ l.tail[q] = IF r = <<>> THEN Null ELSE r[Len(r)]
  BY <1>4, <1>5, <1>7, <1>8, <1>9
<1>11. ASSUME NEW j \in 1 .. N - 1
       PROVE  /\ l.next[r[j]] = IF j = Len(r) THEN Null ELSE r[j + 1]
              /\ l.prev[r[j]] = IF j = 1 THEN Null ELSE r[j - 1]
  <2>1. /\ j + 1 \in 1 .. N /\ (j = N - 1 <=> j + 1 = N) /\ N # 1 /\ j + 1 # 1
        /\ j # N - 1 => j + 1 \in 1 .. N - 1
        /\ j # 1 => j - 1 \in 1 .. N - 1 /\ (j - 1) + 1 = j
        /\ (j + 1) - 1 = j /\ (j + 1 = 1 + 1 <=> j = 1)
    BY ONLY <1>1, j \in 1 .. N - 1
  <2>2. s[j + 1] = second <=> j = 1
    BY <1>2, <1>8, <1>9, <2>1
  <2>3. l.next[s[j + 1]] = IF j + 1 = N THEN Null ELSE s[(j + 1) + 1]
    BY <1>3, <1>7, <2>1
  <2>4. l.prev[s[j + 1]] = IF j = 1 THEN Null ELSE s[j]
    BY <1>2, <1>3, <1>7, <2>1, <2>2
  <2> QED BY <1>4, <2>1, <2>3, <2>4
<1>12. Represents(l, q, r)
  BY <1>4, <1>5, <1>10, <1>11 DEF Represents
<1> QED BY <1>12 DEF l, r

LEMMA UnlinkHeadElsewhere ==
  ASSUME NEW Lists, NEW Nodes, NEW k \in LinkWords(Lists, Nodes), NEW q \in Lists,
         NEW s \in Seq(Nodes), s # <<>>, Represents(k, q, s),
         NEW r \in Lists \ {q}, NEW z \in Seq(Nodes), Represents(k, r, z),
         Range(z) \cap Range(s) = {}, Null \notin Nodes
  PROVE  Represents(UnlinkHead(k, q), r, z)
<1> DEFINE l == UnlinkHead(k, q)
<1>1. /\ Range(s) \subseteq Nodes /\ Range(z) \subseteq Nodes
      /\ k.head[q] \in Range(s) /\ k.next[k.head[q]] \in Range(s) \cup {Null}
  <2>1. k.head[q] = s[1] /\ Len(s) \in Nat /\ Len(s) # 0
    BY EmptySeq, LenProperties DEF Represents
  <2>2. 1 \in 1 .. Len(s)
    BY <2>1
  <2>3. s[1] \in Range(s)
    BY <2>2, Elements
  <2> QED BY <2>1, <2>3, Inside
<1>2. /\ l.head[r] = k.head[r] /\ l.tail[r] = k.tail[r] /\ l.next = k.next
      /\ \A x \in Nodes : l.prev[x] = IF x = k.next[k.head[q]] THEN Null ELSE k.prev[x]
  BY <1>1, UnlinkHeadWords
<1> HIDE DEF l
<1>3. \A x \in Range(z) : l.next[x] = k.next[x] /\ l.prev[x] = k.prev[x]
  BY <1>1, <1>2
<1>4. Represents(l, r, z)
  BY <1>2, <1>3, UntouchedList
<1> QED BY <1>4 DEF l

-----------------------------------------------------------------------------
(* Mutexes and the lists of their owners.                                   *)

\* The mutexes of a thread are those it owns; of a thread that does not exist, none.
Ownership ==
  /\ running \in alive \cup {Null}
  /\ \A m \in Mutexes : owner[m] \in alive \cup {Null}
  /\ \A t \in Threads :
       Distinct(acquired[t]) /\ Range(acquired[t]) = {m \in Mutexes : owner[m] = t}

\* A count belongs to an owner.
Counts ==
  /\ fault # "OSUNLOCKMUTEX_BAD_COUNT"
  /\ \A m \in Mutexes :
       /\ owner[m] = Null <=> count[m] = 0
       /\ \A t \in Threads : depth[t][m] = IF owner[m] = t THEN count[m] ELSE 0

MutexInv == TypeOK /\ Ownership /\ Counts /\ HeldListsRepresent

\* The first occurrence of an element is a place it has.
LEMMA RemoveFirstPlace ==
  ASSUME NEW S, NEW s \in Seq(S), NEW e \in Range(s)
  PROVE  \E i \in 1 .. Len(s) : s[i] = e /\ RemoveFirst(s, e) = RemoveAt(s, i)
<1> DEFINE I == {i \in 1 .. Len(s) : s[i] = e}
<1>1. I # {} /\ I \in SUBSET Nat
  BY Elements DEF Range
<1>2. Min(I) \in I
  BY <1>1, MinProperties
<1>3. RemoveFirst(s, e) = RemoveAt(s, Min(I))
  BY <1>2 DEF RemoveFirst, SelectInSeq
<1> QED BY <1>2, <1>3

\* Lists of different threads share no mutex.
LEMMA ListsApart ==
  ASSUME Ownership, NEW t \in Threads, NEW u \in Threads \ {t}
  PROVE  Range(acquired[t]) \cap Range(acquired[u]) = {}
BY DEF Ownership

LEMMA MutexInit == Init => MutexInv
<1> SUFFICES ASSUME Init PROVE MutexInv
  OBVIOUS
<1>1. PICK stale \in [Threads -> Mutexes \cup {Null}] :
        /\ stale[DefaultThread] = Null
        /\ held = [head |-> stale, tail |-> stale, next |-> [m \in Mutexes |-> Null],
                   prev |-> [m \in Mutexes |-> Null]]
  BY DEF Init
<1>2. TypeOK
  BY <1>1, MutexAssumption DEF Init, TypeOK, LinkWords
<1>3. Ownership
  BY MutexAssumption DEF Init, Ownership, Distinct, Range
<1>4. Counts
  BY MutexAssumption DEF Init, Counts
<1>5. HeldListsRepresent
  BY <1>1, MutexAssumption DEF Init, HeldListsRepresent, Represents
<1> QED BY <1>2, <1>3, <1>4, <1>5 DEF MutexInv

LEMMA LockFreeStep ==
  ASSUME MutexInv, NEW m \in Mutexes, LockFree(m)
  PROVE  MutexInv'
<1> DEFINE s == acquired[running]
<1>1. /\ running \in Threads /\ running \in alive /\ owner[m] = Null /\ m \in Mutexes
      /\ held \in LinkWords(Threads, Mutexes) /\ alive \subseteq Threads
      /\ s \in Seq(Mutexes) /\ Distinct(s) /\ m \notin Range(s)
      /\ Represents(held, running, s)
      /\ Null \notin Threads /\ Null \notin Mutexes
  BY MutexAssumption DEF MutexInv, TypeOK, Ownership, HeldListsRepresent, LockFree
<1>2. /\ owner' = [owner EXCEPT ![m] = running]
      /\ count' = [count EXCEPT ![m] = @ + 1]
      /\ held' = LinkLast(held, running, m)
      /\ acquired' = [acquired EXCEPT ![running] = Append(s, m)]
      /\ depth' = [depth EXCEPT ![running][m] = @ + 1]
      /\ running' = running /\ alive' = alive /\ fault' = fault
  BY DEF LockFree, LinkMutexToThread
<1>3. /\ Append(s, m) \in Seq(Mutexes) /\ Range(Append(s, m)) = Range(s) \cup {m}
      /\ Distinct(Append(s, m))
  BY <1>1, AppendQueue
<1>4. held' \in LinkWords(Threads, Mutexes)
  BY <1>1, <1>2, LinkLastWords
<1>5. Represents(held', running, Append(s, m))
  BY <1>1, <1>2, LinkLastAppends
<1>6. ASSUME NEW t \in alive, t # running PROVE Represents(held', t, acquired[t])
  <2>1. /\ acquired[t] \in Seq(Mutexes) /\ Represents(held, t, acquired[t])
        /\ m \notin Range(acquired[t]) /\ t \in Threads \ {running}
    BY <1>1, <1>6 DEF MutexInv, TypeOK, Ownership, HeldListsRepresent
  <2>2. Range(acquired[t]) \cap Range(s) = {}
    BY <1>1, <2>1, ListsApart DEF MutexInv
  <2> QED BY <1>1, <1>2, <2>1, <2>2, LinkLastElsewhere
<1> HIDE DEF s
<1>7. TypeOK'
  BY <1>1, <1>2, <1>3, <1>4 DEF MutexInv, TypeOK
<1>8. HeldListsRepresent'
  BY <1>1, <1>2, <1>5, <1>6 DEF MutexInv, TypeOK, HeldListsRepresent
<1>9. Ownership'
  <2>1. ASSUME NEW t \in Threads
        PROVE  /\ Distinct(acquired'[t])
               /\ Range(acquired'[t]) = {x \in Mutexes : owner'[x] = t}
    <3>1. CASE t = running
      BY <1>1, <1>2, <1>3, <3>1 DEF MutexInv, TypeOK, Ownership, s
    <3>2. CASE t # running
      BY <1>1, <1>2, <3>2 DEF MutexInv, TypeOK, Ownership
    <3> QED BY <3>1, <3>2
  <2> QED BY <1>1, <1>2, <2>1 DEF MutexInv, TypeOK, Ownership
<1>10. Counts'
  BY <1>1, <1>2 DEF MutexInv, TypeOK, Counts
<1> QED BY <1>7, <1>8, <1>9, <1>10 DEF MutexInv

LEMMA LockAgainStep ==
  ASSUME MutexInv, NEW m \in Mutexes, LockAgain(m)
  PROVE  MutexInv'
<1>1. /\ running \in Threads /\ owner[m] = running /\ Null \notin Threads
      /\ count' = [count EXCEPT ![m] = @ + 1]
      /\ depth' = [depth EXCEPT ![running][m] = @ + 1]
      /\ owner' = owner /\ held' = held /\ running' = running /\ alive' = alive
      /\ acquired' = acquired /\ fault' = fault
  BY MutexAssumption DEF MutexInv, TypeOK, LockAgain
<1>2. TypeOK' /\ Counts'
  BY <1>1 DEF MutexInv, TypeOK, Counts
<1> QED BY <1>1, <1>2 DEF MutexInv, Ownership, HeldListsRepresent

LEMMA UnlockStep ==
  ASSUME MutexInv, NEW m \in Mutexes, Unlock(m)
  PROVE  MutexInv'
<1> DEFINE s == acquired[running]
<1>1. /\ running \in Threads /\ running \in alive /\ owner[m] = running /\ m \in Mutexes
      /\ held \in LinkWords(Threads, Mutexes) /\ alive \subseteq Threads
      /\ s \in Seq(Mutexes) /\ Distinct(s) /\ m \in Range(s)
      /\ Represents(held, running, s)
      /\ Null \notin Threads /\ Null \notin Mutexes
      /\ count[m] \in Nat \ {0}
  BY MutexAssumption DEF MutexInv, TypeOK, Ownership, HeldListsRepresent, Counts, Unlock
<1>2. /\ count' = [count EXCEPT ![m] = @ - 1]
      /\ depth' = [depth EXCEPT ![running][m] = @ - 1]
      /\ running' = running /\ alive' = alive /\ fault' = fault
  BY <1>1 DEF Unlock, Released
<1>3. CASE count[m] # 1
  <2>1. owner' = owner /\ held' = held /\ acquired' = acquired
    BY <1>1, <1>3 DEF Unlock, Released
  <2>2. count[m] - 1 \in Nat \ {0} /\ depth[running][m] = count[m]
    BY <1>1, <1>3 DEF MutexInv, Counts
  <2>3. TypeOK' /\ Counts'
    BY <1>1, <1>2, <2>1, <2>2 DEF MutexInv, TypeOK, Counts
  <2> QED BY <1>2, <2>1, <2>3 DEF MutexInv, Ownership, HeldListsRepresent
<1>4. CASE count[m] = 1
  <2>1. /\ owner' = [owner EXCEPT ![m] = Null]
        /\ held' = Unlink(held, running, m)
        /\ acquired' = [acquired EXCEPT ![running] = RemoveFirst(s, m)]
    BY <1>1, <1>4 DEF Unlock, Released, UnlinkMutexFromThread
  <2>2. PICK i \in 1 .. Len(s) : s[i] = m /\ RemoveFirst(s, m) = RemoveAt(s, i)
    BY <1>1, RemoveFirstPlace
  <2> DEFINE r == RemoveAt(s, i)
  <2>3. r \in Seq(Mutexes) /\ Range(r) = Range(s) \ {m} /\ Distinct(r)
    BY <1>1, <2>2, RemoveAtQueue
  <2>4. Represents(held', running, r) /\ held' \in LinkWords(Threads, Mutexes)
    BY <1>1, <2>1, <2>2, UnlinkRemoves, UnlinkWords
  <2>5. ASSUME NEW t \in alive, t # running PROVE Represents(held', t, acquired[t])
    <3>1. /\ acquired[t] \in Seq(Mutexes) /\ Represents(held, t, acquired[t])
          /\ t \in Threads \ {running}
      BY <1>1, <2>5 DEF MutexInv, TypeOK, HeldListsRepresent
    <3>2. Range(acquired[t]) \cap Range(s) = {}
      BY <1>1, <3>1, ListsApart DEF MutexInv
    <3> QED BY <1>1, <2>1, <3>1, <3>2, UnlinkElsewhere
  <2>6. acquired' = [acquired EXCEPT ![running] = r]
    BY <2>1, <2>2
  <2> HIDE DEF r, s
  <2>7. TypeOK'
    BY <1>1, <1>2, <1>4, <2>1, <2>3, <2>4, <2>6 DEF MutexInv, TypeOK, Counts
  <2>8. HeldListsRepresent'
    BY <1>1, <1>2, <2>4, <2>5, <2>6 DEF MutexInv, TypeOK, HeldListsRepresent
  <2>9. Ownership'
    <3>1. ASSUME NEW t \in Threads
          PROVE  /\ Distinct(acquired'[t])
                 /\ Range(acquired'[t]) = {x \in Mutexes : owner'[x] = t}
      <4>1. CASE t = running
        BY <1>1, <2>1, <2>3, <2>6, <4>1 DEF MutexInv, TypeOK, Ownership, s
      <4>2. CASE t # running
        BY <1>1, <2>1, <2>6, <4>2 DEF MutexInv, TypeOK, Ownership
      <4> QED BY <4>1, <4>2
    <3> QED BY <1>1, <1>2, <2>1, <3>1 DEF MutexInv, TypeOK, Ownership
  <2>10. Counts'
    <3>1. /\ count'[m] = 0 /\ owner'[m] = Null /\ depth'[running][m] = 0
          /\ \A x \in Mutexes \ {m} : count'[x] = count[x] /\ owner'[x] = owner[x]
          /\ \A t \in Threads, x \in Mutexes :
               t # running \/ x # m => depth'[t][x] = depth[t][x]
      BY <1>1, <1>2, <1>4, <2>1 DEF MutexInv, TypeOK, Counts
    <3> QED BY <1>1, <1>2, <3>1 DEF MutexInv, Counts
  <2> QED BY <2>7, <2>8, <2>9, <2>10 DEF MutexInv
<1> QED BY <1>3, <1>4

LEMMA CreateThreadStep ==
  ASSUME MutexInv, NEW t \in Threads, CreateThread(t)
  PROVE  MutexInv'
<1>1. /\ t \notin alive /\ alive' = alive \cup {t}
      /\ held' = [held EXCEPT !.head[t] = Null, !.tail[t] = Null]
      /\ held \in LinkWords(Threads, Mutexes) /\ alive \subseteq Threads
      /\ owner' = owner /\ count' = count /\ running' = running /\ fault' = fault
      /\ acquired' = acquired /\ depth' = depth
      /\ Null \notin Threads
  BY MutexAssumption DEF MutexInv, TypeOK, CreateThread, history
<1>2. /\ held' \in LinkWords(Threads, Mutexes)
      /\ held'.head[t] = Null /\ held'.tail[t] = Null
      /\ \A u \in Threads \ {t} : held'.head[u] = held.head[u] /\ held'.tail[u] = held.tail[u]
      /\ held'.next = held.next /\ held'.prev = held.prev
  BY <1>1 DEF LinkWords
<1>3. acquired[t] = <<>>
  <2>1. acquired[t] \in Seq(Mutexes) /\ Range(acquired[t]) = {}
    BY <1>1 DEF MutexInv, TypeOK, Ownership
  <2>2. 1 \notin 1 .. Len(acquired[t]) /\ Len(acquired[t]) \in Nat
    BY <2>1, Elements
  <2> QED BY <2>1, <2>2, EmptySeq
<1>4. HeldListsRepresent'
  <2>1. Represents(held', t, acquired[t])
    BY <1>2, <1>3 DEF Represents
  <2>2. ASSUME NEW u \in alive PROVE Represents(held', u, acquired[u])
    <3>1. Represents(held, u, acquired[u]) /\ u \in Threads \ {t}
      BY <1>1 DEF MutexInv, HeldListsRepresent
    <3> QED BY <1>2, <3>1, UntouchedList
  <2> QED BY <1>1, <2>1, <2>2 DEF HeldListsRepresent
<1>5. TypeOK'
  BY <1>1, <1>2 DEF MutexInv, TypeOK
<1>6. Ownership' /\ Counts'
  BY <1>1 DEF MutexInv, Ownership, Counts
<1> QED BY <1>4, <1>5, <1>6 DEF MutexInv

\* A walk along a list meets the list's nodes and nothing else.
LEMMA WalkMeetsList ==
  ASSUME NEW t \in Threads, NEW s \in Seq(Mutexes), Represents(held, t, s)
  PROVE  Listed(t) = Range(s)
<1>1. /\ Len(s) \in Nat /\ DOMAIN s = 1 .. Len(s)
      /\ \A i \in 1 .. Len(s) : s[i] \in Mutexes /\ s[i] # Null
      /\ s = <<>> <=> Len(s) = 0
  BY Elements, MutexAssumption
<1>2. Listed(t) \subseteq Range(s)
  <2>1. /\ Range(s) \in SUBSET Mutexes
        /\ held.head[t] \in Range(s) \cup {Null}
        /\ \A n \in Range(s) : held.next[n] \in Range(s) \cup {Null}
    BY Inside
  <2> QED BY <2>1 DEF Listed
<1>3. ASSUME NEW S \in SUBSET Mutexes,
             held.head[t] \in S \cup {Null},
             \A n \in S : held.next[n] \in S \cup {Null}
      PROVE  Range(s) \subseteq S
  <2> DEFINE missed == {i \in 1 .. Len(s) : s[i] \notin S}
  <2>1. SUFFICES ASSUME missed # {} PROVE FALSE
    BY <1>1 DEF Range
  <2>2. Min(missed) \in missed /\ \A j \in missed : Min(missed) <= j
    <3>1. missed \in SUBSET Nat
      OBVIOUS
    <3> HIDE DEF missed
    <3> QED BY <2>1, <3>1, MinProperties
  <2>3. PICK i \in 1 .. Len(s) : s[i] \notin S /\ \A j \in 1 .. Len(s) : s[j] \notin S => i <= j
    BY <2>2
  <2> HIDE DEF missed
  <2>4. CASE i = 1
    <3>1. held.head[t] = s[1]
      BY <1>1, <2>4 DEF Represents
    <3> QED BY <1>1, <1>3, <2>3, <2>4, <3>1
  <2>5. CASE i # 1
    <3>1. i - 1 \in 1 .. Len(s) /\ ~(i <= i - 1) /\ i - 1 # Len(s) /\ (i - 1) + 1 = i
      BY ONLY <2>5, i \in 1 .. Len(s), Len(s) \in Nat, <1>1
    <3>2. s[i - 1] \in S
      BY <2>3, <3>1
    <3>3. held.next[s[i - 1]] = s[i]
      BY <1>1, <3>1 DEF Represents
    <3> QED BY <1>1, <1>3, <2>3, <3>2, <3>3
  <2> QED BY <2>4, <2>5
<1>4. Range(s) \subseteq Listed(t)
  <2>1. Range(s) \subseteq Mutexes
    BY Inside
  <2> QED BY <1>3, <2>1 DEF Listed
<1> QED BY <1>2, <1>4

LEMMA ExitThreadStep ==
  ASSUME MutexInv, NEW t \in Threads, ExitThread(t)
  PROVE  MutexInv'
<1> DEFINE mine == {m \in Mutexes : owner[m] = running}
<1>1. /\ running \in Threads /\ running \in alive /\ t \in alive /\ t # running
      /\ held \in LinkWords(Threads, Mutexes) /\ alive \subseteq Threads
      /\ acquired[running] \in Seq(Mutexes) /\ Represents(held, running, acquired[running])
      /\ Null \notin Threads /\ Null \notin Mutexes
  BY MutexAssumption DEF MutexInv, TypeOK, Ownership, HeldListsRepresent, ExitThread
<1>2. Listed(running) = mine
  BY <1>1, WalkMeetsList DEF MutexInv, Ownership
<1>3. /\ owner' = [m \in Mutexes |-> IF m \in mine THEN Null ELSE owner[m]]
      /\ count' = [m \in Mutexes |-> IF m \in mine THEN 0 ELSE count[m]]
      /\ held' = [held EXCEPT !.head[running] = Null, !.tail[running] = Null]
      /\ acquired' = [acquired EXCEPT ![running] = <<>>]
      /\ depth' = [depth EXCEPT ![running] = [m \in Mutexes |-> 0]]
      /\ alive' = alive \ {running}
      /\ running' = t
      /\ fault' = fault
  BY <1>2 DEF ExitThread
<1>4. /\ held' \in LinkWords(Threads, Mutexes)
      /\ \A u \in Threads \ {running} :
           held'.head[u] = held.head[u] /\ held'.tail[u] = held.tail[u]
      /\ held'.next = held.next /\ held'.prev = held.prev
  BY <1>1, <1>3 DEF LinkWords
<1>5. TypeOK'
  BY <1>1, <1>3, <1>4 DEF MutexInv, TypeOK
<1>6. HeldListsRepresent'
  <2>1. ASSUME NEW u \in alive, u # running PROVE Represents(held', u, acquired[u])
    <3>1. Represents(held, u, acquired[u]) /\ u \in Threads \ {running}
      BY <1>1, <2>1 DEF MutexInv, HeldListsRepresent
    <3> QED BY <1>4, <3>1, UntouchedList
  <2> QED BY <1>1, <1>3, <2>1 DEF MutexInv, TypeOK, HeldListsRepresent
<1>7. Ownership'
  <2>1. ASSUME NEW u \in Threads
        PROVE  Distinct(acquired'[u]) /\ Range(acquired'[u]) = {m \in Mutexes : owner'[m] = u}
    <3>1. CASE u = running
      <4>1. acquired'[u] = <<>>
        BY <1>3, <3>1 DEF MutexInv, TypeOK
      <4>2. Distinct(<<>>) /\ Range(<<>>) = {}
        BY DEF Distinct, Range
      <4> QED BY <1>1, <1>3, <3>1, <4>1, <4>2
    <3>2. CASE u # running
      BY <1>1, <1>3, <3>2 DEF MutexInv, TypeOK, Ownership
    <3> QED BY <3>1, <3>2
  <2> QED BY <1>1, <1>3, <2>1 DEF MutexInv, Ownership
<1>8. Counts'
  BY <1>1, <1>3 DEF MutexInv, TypeOK, Counts
<1> QED BY <1>5, <1>6, <1>7, <1>8 DEF MutexInv

LEMMA MutexNext == MutexInv /\ [Next]_vars => MutexInv'
<1> SUFFICES ASSUME MutexInv, [Next]_vars PROVE MutexInv'
  OBVIOUS
<1>1. ASSUME UNCHANGED vars PROVE MutexInv'
  BY <1>1 DEF vars, words, history, MutexInv, TypeOK, Ownership, Counts, HeldListsRepresent
<1>2. ASSUME NEW m \in Mutexes, LockIgnored(m) \/ UnlockIgnored(m) PROVE MutexInv'
  BY <1>1, <1>2 DEF LockIgnored, UnlockIgnored
<1>3. ASSUME NEW m \in Mutexes, LockContended(m) PROVE MutexInv'
  BY <1>3 DEF LockContended, words, history, MutexInv, TypeOK, Ownership, Counts, HeldListsRepresent
<1>4. ASSUME NEW t \in Threads, SwitchTo(t) PROVE MutexInv'
  BY <1>4 DEF SwitchTo, words, history, MutexInv, TypeOK, Ownership, Counts, HeldListsRepresent
<1>5. CASE Aborted
  BY <1>1, <1>5 DEF Aborted
<1> QED BY <1>1, <1>2, <1>3, <1>4, <1>5, LockFreeStep, LockAgainStep, UnlockStep, CreateThreadStep,
          ExitThreadStep DEF Next

\* The words of every living thread's list of held mutexes are the mutexes it locked and
\* has not unlocked, whatever stale links mutexes and new threads' storage hold.
THEOREM HeldListsRight == Spec => []HeldListsRepresent
<1>1. MutexInv => HeldListsRepresent
  BY DEF MutexInv
<1> QED BY MutexInit, MutexNext, <1>1, PTL DEF Spec

\* Mutual exclusion, exact counts and one place in one list for every owned mutex.
THEOREM OwnersRight == Spec => []OwnersExact
<1>1. MutexInv => OwnersExact
  <2> SUFFICES ASSUME MutexInv, NEW m \in Mutexes, NEW t \in Threads
               PROVE  Cardinality({i \in DOMAIN acquired[t] : acquired[t][i] = m})
                        = IF owner[m] = t THEN 1 ELSE 0
    BY DEF OwnersExact, MutexInv, Counts
  <2> DEFINE places == {i \in DOMAIN acquired[t] : acquired[t][i] = m}
  <2>1. CASE owner[m] = t
    <3>1. m \in Range(acquired[t])
      BY <2>1 DEF MutexInv, Ownership
    <3>2. PICK i \in DOMAIN acquired[t] : acquired[t][i] = m
      BY <3>1 DEF Range
    <3>3. places = {i}
      BY <3>2 DEF MutexInv, Ownership, Distinct
    <3> QED BY <2>1, <3>3, FS_Singleton
  <2>2. CASE owner[m] # t
    <3>1. m \notin Range(acquired[t])
      BY <2>2 DEF MutexInv, Ownership
    <3>2. places = {}
      BY <3>1 DEF Range
    <3> QED BY <2>2, <3>2, FS_EmptySet
  <2> QED BY <2>1, <2>2
<1> QED BY MutexInit, MutexNext, <1>1, PTL DEF Spec

-----------------------------------------------------------------------------
(* The thread queues.                                                       *)

\* Every thread is in one place of one queue at most, and that is its queue word.
QueuesApart ==
  \A q \in Queues!Queues :
    /\ Distinct(lists.queues[q])
    /\ \A t \in Range(lists.queues[q]) : lists.queueOf[t] = q
    /\ \A r \in Queues!Queues \ {q} : Range(lists.queues[q]) \cap Range(lists.queues[r]) = {}

QueueTypes ==
  /\ links \in LinkWords(Queues!Queues, QueuedThreads)
  /\ lists \in [queues : [Queues!Queues -> Seq(QueuedThreads)],
                queueOf : [QueuedThreads -> Queues!Queues \cup {NoQueue}],
                prio : [QueuedThreads -> Nat],
                pending : SUBSET Queues!Priorities,
                resched : BOOLEAN]

QueueInv == QueueTypes /\ QueuesApart /\ LinksRepresentLists

\* ThreadQueue's operators are those of the lemmas above.
LEMMA SameLinks ==
  ASSUME NEW k, NEW q, NEW n, NEW x, NEW s
  PROVE  /\ Queues!LinkLast(k, q, n) = LinkLast(k, q, n)
         /\ Queues!LinkBefore(k, q, n, x) = LinkBefore(k, q, n, x)
         /\ Queues!Unlink(k, q, n) = Unlink(k, q, n)
         /\ Queues!UnlinkHead(k, q) = UnlinkHead(k, q)
         /\ Queues!Represents(k, q, s) <=> Represents(k, q, s)
BY DEF Queues!LinkLast, LinkLast, Queues!LinkBefore, LinkBefore, Queues!Unlink, Unlink,
       Queues!UnlinkHead, UnlinkHead, Queues!Written, Written, Queues!Represents, Represents

LEMMA SameSequences ==
  ASSUME NEW s, NEW i, NEW e
  PROVE  /\ Queues!InsertAt(s, i, e) = InsertAt(s, i, e)
         /\ Queues!RemoveAt(s, i) = RemoveAt(s, i)
         /\ Queues!Min(s) = Min(s)
BY DEF Queues!InsertAt, InsertAt, Queues!RemoveAt, RemoveAt, Queues!Min, Min

LEMMA QueueFacts ==
  ASSUME QueueInv
  PROVE  /\ \A q \in Queues!Queues :
              /\ lists.queues[q] \in Seq(QueuedThreads)
              /\ Distinct(lists.queues[q])
              /\ Represents(links, q, lists.queues[q])
              /\ \A r \in Queues!Queues \ {q} :
                   Range(lists.queues[q]) \cap Range(lists.queues[r]) = {}
         /\ links \in LinkWords(Queues!Queues, QueuedThreads)
         /\ lists.queueOf = queueOf /\ lists.prio = prio /\ lists.pending = pending
         /\ Null \notin QueuedThreads
BY SameLinks, QueuedAssumption
   DEF QueueInv, QueueTypes, QueuesApart, LinksRepresentLists, Queues!LinksRepresentLists

LEMMA UnlinkedThread ==
  ASSUME QueueInv, NEW t, ~Queues!Linked(t), NEW q \in Queues!Queues
  PROVE  t \notin Range(lists.queues[q])
BY DEF Queues!Linked, Range

\* A step that puts the sequence z in the place of queue q.
LEMMA QueueStep ==
  ASSUME QueueInv, QueueTypes', NEW q \in Queues!Queues, NEW z \in Seq(QueuedThreads),
         lists'.queues = [lists.queues EXCEPT ![q] = z],
         Distinct(z),
         \A t \in Range(z) : /\ lists'.queueOf[t] = q
                             /\ \A r \in Queues!Queues \ {q} : t \notin Range(lists.queues[r]),
         \A r \in Queues!Queues \ {q} : \A t \in Range(lists.queues[r]) :
           lists'.queueOf[t] = lists.queueOf[t],
         Represents(links', q, z),
         \A r \in Queues!Queues \ {q} : Represents(links', r, lists.queues[r]),
         lists'.queueOf = queueOf', lists'.prio = prio', lists'.pending = pending'
  PROVE  QueueInv'
<1>1. lists.queues \in [Queues!Queues -> Seq(QueuedThreads)]
  BY DEF QueueInv, QueueTypes
<1>2. lists'.queues[q] = z /\ \A r \in Queues!Queues \ {q} : lists'.queues[r] = lists.queues[r]
  BY <1>1
<1>3. \A r \in Queues!Queues : Represents(links', r, lists'.queues[r])
  BY <1>2
<1>4. LinksRepresentLists'
  BY <1>3, SameLinks DEF LinksRepresentLists, Queues!LinksRepresentLists
<1>5. ASSUME NEW r \in Queues!Queues
      PROVE  /\ Distinct(lists'.queues[r])
             /\ \A t \in Range(lists'.queues[r]) : lists'.queueOf[t] = r
             /\ \A u \in Queues!Queues \ {r} : Range(lists'.queues[r]) \cap Range(lists'.queues[u]) = {}
  <2>1. CASE r = q
    BY <1>2, <2>1
  <2>2. CASE r # q
    <3>1. /\ Distinct(lists.queues[r])
          /\ \A t \in Range(lists.queues[r]) : lists.queueOf[t] = r
          /\ \A u \in Queues!Queues \ {r} : Range(lists.queues[r]) \cap Range(lists.queues[u]) = {}
      BY DEF QueueInv, QueuesApart
    <3> QED BY <1>2, <2>2, <3>1
  <2> QED BY <2>1, <2>2
<1> QED BY <1>4, <1>5 DEF QueueInv, QueuesApart

LEMMA QueueInit == Queues!Init => QueueInv
<1> SUFFICES ASSUME Queues!Init PROVE QueueInv
  OBVIOUS
<1>1. /\ links = [head |-> [q \in Queues!Queues |-> Null], tail |-> [q \in Queues!Queues |-> Null],
                  next |-> [t \in QueuedThreads |-> Null], prev |-> [t \in QueuedThreads |-> Null]]
      /\ queueOf = [t \in QueuedThreads |-> NoQueue] /\ pending = {}
      /\ prio \in [QueuedThreads -> 0 .. NumPriorities]
      /\ lists = [queues |-> [q \in Queues!Queues |-> <<>>], queueOf |-> queueOf,
                  prio |-> prio, pending |-> {}, resched |-> FALSE]
  BY DEF Queues!Init, Queues!LowestPriority
<1>2. prio \in [QueuedThreads -> Nat]
  BY <1>1, QueuedAssumption
<1>3. <<>> \in Seq(QueuedThreads) /\ Distinct(<<>>) /\ Range(<<>>) = {}
  BY DEF Distinct, Range
<1>4. QueueTypes
  BY <1>1, <1>2, <1>3 DEF QueueTypes, LinkWords
<1>5. QueuesApart
  BY <1>1, <1>3 DEF QueuesApart
<1>6. LinksRepresentLists
  BY <1>1 DEF LinksRepresentLists, Queues!LinksRepresentLists, Queues!Represents
<1> QED BY <1>4, <1>5, <1>6 DEF QueueInv

LEMMA SetPriorityStep ==
  ASSUME QueueInv, NEW t \in QueuedThreads, NEW p \in 0 .. NumPriorities, Queues!SetPriority(t, p)
  PROVE  QueueInv'
<1>1. /\ lists' = [lists EXCEPT !.prio[t] = p] /\ prio' = [prio EXCEPT ![t] = p]
      /\ links' = links /\ queueOf' = queueOf /\ pending' = pending
      /\ lists.prio = prio /\ lists.queueOf = queueOf /\ lists.pending = pending
      /\ p \in Nat
  BY QueueFacts, QueuedAssumption DEF Queues!SetPriority
<1>2. /\ lists'.queues = lists.queues /\ lists'.queueOf = lists.queueOf
      /\ lists'.prio = prio' /\ lists'.pending = lists.pending
      /\ QueueTypes'
  BY <1>1 DEF QueueInv, QueueTypes
<1>3. \A q \in Queues!Queues : Represents(links', q, lists'.queues[q])
  BY <1>1, <1>2, QueueFacts
<1>4. LinksRepresentLists'
  BY <1>1, <1>2, <1>3, SameLinks DEF LinksRepresentLists, Queues!LinksRepresentLists
<1> QED BY <1>2, <1>4 DEF QueueInv, QueuesApart

\* A thread that is in no queue goes to the end of one.
LEMMA AppendStep ==
  ASSUME QueueInv, NEW t \in QueuedThreads, ~Queues!Linked(t), NEW q \in Queues!Queues,
         links' = LinkLast(links, q, t), QueueTypes',
         lists'.queues = [lists.queues EXCEPT ![q] = Append(@, t)],
         lists'.queueOf = [lists.queueOf EXCEPT ![t] = q],
         lists'.queueOf = queueOf', lists'.prio = prio', lists'.pending = pending'
  PROVE  QueueInv'
<1> DEFINE s == lists.queues[q]
           z == Append(s, t)
<1>1. /\ s \in Seq(QueuedThreads) /\ Distinct(s) /\ Represents(links, q, s)
      /\ \A r \in Queues!Queues : t \notin Range(lists.queues[r])
      /\ links \in LinkWords(Queues!Queues, QueuedThreads) /\ Null \notin QueuedThreads
  BY QueueFacts, UnlinkedThread
<1>2. /\ z \in Seq(QueuedThreads) /\ Range(z) = Range(s) \cup {t} /\ Distinct(z)
  BY <1>1, AppendQueue
<1>3. Represents(links', q, z)
  BY <1>1, LinkLastAppends
<1>4. ASSUME NEW r \in Queues!Queues \ {q} PROVE Represents(links', r, lists.queues[r])
  <2>1. /\ lists.queues[r] \in Seq(QueuedThreads) /\ Represents(links, r, lists.queues[r])
        /\ Range(lists.queues[r]) \cap Range(s) = {}
    BY QueueFacts
  <2> QED BY <1>1, <2>1, LinkLastElsewhere
<1>5. ASSUME NEW x \in Range(z)
      PROVE  /\ lists'.queueOf[x] = q
             /\ \A r \in Queues!Queues \ {q} : x \notin Range(lists.queues[r])
  <2>1. CASE x = t
    BY <1>1, <2>1 DEF QueueInv, QueueTypes
  <2>2. CASE x # t
    <3>1. x \in Range(s) /\ lists.queueOf[x] = q /\ x \in QueuedThreads
      BY <1>1, <1>2, <2>2, Inside DEF QueueInv, QueuesApart
    <3> QED BY <2>2, <3>1, QueueFacts DEF QueueInv, QueueTypes
  <2> QED BY <2>1, <2>2
<1>6. \A r \in Queues!Queues \ {q} : \A x \in Range(lists.queues[r]) :
        lists'.queueOf[x] = lists.queueOf[x]
  <2>1. ASSUME NEW r \in Queues!Queues, NEW x \in Range(lists.queues[r])
        PROVE  lists'.queueOf[x] = lists.queueOf[x]
    <3>1. x # t /\ x \in QueuedThreads
      BY <1>1, QueueFacts, Inside
    <3> QED BY <3>1 DEF QueueInv, QueueTypes
  <2> QED BY <2>1
<1>7. lists'.queues = [lists.queues EXCEPT ![q] = z]
  OBVIOUS
<1> HIDE DEF s, z
<1> QED BY <1>2, <1>3, <1>4, <1>5, <1>6, <1>7, QueueStep

LEMMA LinkThreadStep ==
  ASSUME QueueInv, NEW t \in QueuedThreads, Queues!LinkThreadOnRunQueue(t)
  PROVE  QueueInv'
<1>1. /\ prio[t] \in Queues!Priorities /\ prio[t] \in Queues!Queues
      /\ ~Queues!Linked(t)
      /\ links' = LinkLast(links, prio[t], t)
      /\ queueOf' = [queueOf EXCEPT ![t] = prio[t]]
      /\ pending' = pending \cup {prio[t]}
      /\ prio' = prio
      /\ lists' = [lists EXCEPT !.queueOf[t] = lists.prio[t],
                                !.queues[lists.prio[t]] = Append(@, t),
                                !.pending = @ \cup {lists.prio[t]},
                                !.resched = TRUE]
  BY SameLinks DEF Queues!LinkThreadOnRunQueue, Queues!LinkOnRunQueue, Queues!Queues
<1>2. /\ lists.queueOf = queueOf /\ lists.prio = prio /\ lists.pending = pending
      /\ links \in LinkWords(Queues!Queues, QueuedThreads)
      /\ lists.queues \in [Queues!Queues -> Seq(QueuedThreads)]
  BY QueueFacts DEF QueueInv, QueueTypes
<1>3. /\ lists'.queues = [lists.queues EXCEPT ![prio[t]] = Append(@, t)]
      /\ lists'.queueOf = [lists.queueOf EXCEPT ![t] = prio[t]]
      /\ lists'.queueOf = queueOf' /\ lists'.prio = prio' /\ lists'.pending = pending'
      /\ lists'.resched = TRUE
      /\ lists' = [queues |-> lists'.queues, queueOf |-> lists'.queueOf, prio |-> lists'.prio,
                   pending |-> lists'.pending, resched |-> lists'.resched]
  BY <1>1, <1>2 DEF QueueInv, QueueTypes
<1>4. QueueTypes'
  <2>1. links' \in LinkWords(Queues!Queues, QueuedThreads)
    BY <1>1, <1>2, LinkLastWords
  <2>2. lists'.queues \in [Queues!Queues -> Seq(QueuedThreads)]
    <3>1. Append(lists.queues[prio[t]], t) \in Seq(QueuedThreads)
      BY <1>1, <1>2, AppendQueue
    <3> QED BY <1>2, <1>3, <3>1
  <2>3. lists'.queueOf \in [QueuedThreads -> Queues!Queues \cup {NoQueue}]
    BY <1>1, <1>3 DEF QueueInv, QueueTypes
  <2>4. /\ lists'.prio \in [QueuedThreads -> Nat]
        /\ lists'.pending \in SUBSET Queues!Priorities
    BY <1>1, <1>2, <1>3 DEF QueueInv, QueueTypes
  <2> QED BY <1>3, <2>1, <2>2, <2>3, <2>4 DEF QueueTypes
<1> QED BY <1>1, <1>3, <1>4, AppendStep

\* The walk of an insertion stops at the first thread that is less urgent, or at the end.
LEMMA WalkStops ==
  ASSUME QueueInv, NEW q \in Queues!Queues, NEW p \in Nat,
         NEW x \in QueuedThreads \cup {Null}, Queues!StopsAt(q, p, x)
  PROVE  LET s == lists.queues[q]
             i == Queues!InsertionPoint(lists, q, p)
         IN  \/ x = Null /\ i = Len(s) + 1
             \/ i \in 1 .. Len(s) /\ x = s[i]
<1> DEFINE s == lists.queues[q]
           after == {j \in DOMAIN s : lists.prio[s[j]] > p}
<1>1. /\ s \in Seq(QueuedThreads) /\ Represents(links, q, s) /\ Null \notin QueuedThreads
      /\ lists.prio = prio /\ prio \in [QueuedThreads -> Nat]
  BY QueueFacts DEF QueueInv, QueueTypes
<1>2. Len(s) \in Nat /\ DOMAIN s = 1 .. Len(s) /\ \A j \in 1 .. Len(s) : s[j] \in QueuedThreads
  BY <1>1, Elements
<1>3. Queues!InsertionPoint(lists, q, p) = IF after = {} THEN Len(s) + 1 ELSE Min(after)
  BY SameSequences DEF Queues!InsertionPoint
<1>4. PICK passed \in SUBSET QueuedThreads :
        /\ links.head[q] \in passed \cup {x}
        /\ \A u \in passed : prio[u] <= p /\ links.next[u] \in passed \cup {x}
        /\ x # Null => prio[x] > p
  BY DEF Queues!StopsAt
<1> HIDE DEF s
\* Whatever stands before the first less urgent thread is passed.
<1>5. ASSUME NEW j \in 1 .. Len(s), \A m \in 1 .. j - 1 : s[m] \in passed
      PROVE  s[j] \in passed \cup {x}
  <2>1. CASE j = 1
    <3>1. links.head[q] = s[1]
      BY <1>1, <1>2, <2>1, EmptySeq DEF Represents
    <3> QED BY <1>4, <2>1, <3>1
  <2>2. CASE j # 1
    <3>1. j - 1 \in 1 .. Len(s) /\ j - 1 \in 1 .. j - 1 /\ j - 1 # Len(s) /\ (j - 1) + 1 = j
      BY ONLY <1>2, <2>2, j \in 1 .. Len(s)
    <3>2. links.next[s[j - 1]] = s[j]
      BY <1>1, <1>2, <3>1 DEF Represents
    <3> QED BY <1>4, <1>5, <3>1, <3>2
  <2> QED BY <2>1, <2>2
<1>6. ASSUME NEW n \in 1 .. Len(s) + 1, \A m \in 1 .. n - 1 : prio[s[m]] <= p
      PROVE  \A m \in 1 .. n - 1 : s[m] \in passed
  <2> DEFINE missed == {m \in 1 .. n - 1 : s[m] \notin passed}
  <2>1. SUFFICES ASSUME missed # {} PROVE FALSE
    OBVIOUS
  <2>2. Min(missed) \in missed /\ \A m \in missed : Min(missed) <= m
    <3>1. missed \in SUBSET Nat
      BY <1>2
    <3> HIDE DEF missed
    <3> QED BY <2>1, <3>1, MinProperties
  <2>3. PICK j \in 1 .. n - 1 : s[j] \notin passed /\ \A m \in 1 .. n - 1 : s[m] \notin passed => j <= m
    BY <2>2
  <2> HIDE DEF missed
  <2>4. j \in 1 .. Len(s) /\ \A m \in 1 .. j - 1 : m \in 1 .. n - 1 /\ ~(j <= m)
    BY ONLY <1>2, n \in 1 .. Len(s) + 1, j \in 1 .. n - 1
  <2>5. s[j] \in passed \cup {x}
    BY <1>5, <2>3, <2>4
  <2>6. x \in QueuedThreads /\ prio[x] > p /\ x = s[j]
    BY <1>1, <1>2, <1>4, <2>3, <2>4, <2>5
  <2>7. prio[s[j]] <= p /\ prio[s[j]] \in Nat
    BY <1>1, <1>2, <1>6, <2>4
  <2> QED BY <2>6, <2>7
<1>7. CASE after = {}
  <2>1. \A m \in 1 .. Len(s) : prio[s[m]] <= p
    <3>1. ASSUME NEW m \in 1 .. Len(s) PROVE prio[s[m]] <= p
      <4>1. prio[s[m]] \in Nat /\ ~(prio[s[m]] > p)
        BY <1>1, <1>2, <1>7
      <4> QED BY <4>1
    <3> QED BY <3>1
  <2>2. Len(s) + 1 \in 1 .. Len(s) + 1 /\ (Len(s) + 1) - 1 = Len(s)
    BY <1>2
  <2>3. \A m \in 1 .. Len(s) : s[m] \in passed
    BY <1>6, <2>1, <2>2
  <2>4. Null \in passed \cup {x}
    <3>1. CASE Len(s) = 0
      <4>1. links.head[q] = Null
        BY <1>1, <3>1, EmptySeq DEF Represents
      <4> QED BY <1>4, <4>1
    <3>2. CASE Len(s) # 0
      <4>1. Len(s) \in 1 .. Len(s)
        BY <1>2, <3>2
      <4>2. links.next[s[Len(s)]] = Null
        BY <1>1, <1>2, <4>1 DEF Represents
      <4> QED BY <1>4, <2>3, <4>1, <4>2
    <3> QED BY <3>1, <3>2
  <2> QED BY <1>1, <1>3, <1>4, <1>7, <2>4 DEF s
<1>8. CASE after # {}
  <2> DEFINE i == Min(after)
  <2>1. i \in after /\ \A j \in after : i <= j
    <3>1. after \in SUBSET Nat
      BY <1>2
    <3> HIDE DEF after
    <3> QED BY <1>8, <3>1, MinProperties
  <2>2. i \in 1 .. Len(s) /\ prio[s[i]] > p
    BY <1>1, <1>2, <2>1
  <2>3. \A m \in 1 .. i - 1 : prio[s[m]] <= p
    <3>1. ASSUME NEW m \in 1 .. i - 1 PROVE prio[s[m]] <= p
      <4>1. m \in 1 .. Len(s) /\ ~(i <= m)
        BY ONLY <1>2, <2>2, m \in 1 .. i - 1
      <4>2. prio[s[m]] \in Nat /\ ~(prio[s[m]] > p)
        BY <1>1, <1>2, <2>1, <4>1
      <4> QED BY <4>2
    <3> QED BY <3>1
  <2>4. i \in 1 .. Len(s) + 1
    BY <1>2, <2>2
  <2> HIDE DEF i
  <2>5. s[i] \in passed \cup {x}
    BY <1>5, <1>6, <2>2, <2>3, <2>4
  <2>6. prio[s[i]] \in Nat
    BY <1>1, <1>2, <2>2
  <2>7. s[i] \notin passed
    <3>1. ~(prio[s[i]] <= p)
      BY <2>2, <2>6
    <3> QED BY <1>4, <3>1
  <2>8. x = s[i]
    BY <2>5, <2>7
  <2> QED BY <1>3, <1>8, <2>2, <2>8 DEF i, s
<1> QED BY <1>7, <1>8

\* A thread that is in no queue goes before the i-th of one.
LEMMA InsertStep ==
  ASSUME QueueInv, NEW t \in QueuedThreads, ~Queues!Linked(t), NEW q \in Queues!Queues,
         NEW i \in 1 .. Len(lists.queues[q]),
         links' = LinkBefore(links, q, t, lists.queues[q][i]), QueueTypes',
         lists'.queues = [lists.queues EXCEPT ![q] = InsertAt(@, i, t)],
         lists'.queueOf = [lists.queueOf EXCEPT ![t] = q],
         lists'.queueOf = queueOf', lists'.prio = prio', lists'.pending = pending'
  PROVE  QueueInv'
<1> DEFINE s == lists.queues[q]
           z == InsertAt(s, i, t)
<1>1. /\ s \in Seq(QueuedThreads) /\ Distinct(s) /\ Represents(links, q, s)
      /\ \A r \in Queues!Queues : t \notin Range(lists.queues[r])
      /\ links \in LinkWords(Queues!Queues, QueuedThreads) /\ Null \notin QueuedThreads
      /\ i \in 1 .. Len(s)
  BY QueueFacts, UnlinkedThread
<1>2. /\ z \in Seq(QueuedThreads) /\ Range(z) = Range(s) \cup {t} /\ Distinct(z)
      /\ s[i] \in Range(s)
  <2>1. Len(s) \in Nat /\ s[i] \in Range(s)
    BY <1>1, Elements
  <2>2. i \in 1 .. Len(s) + 1
    BY <1>1, <2>1
  <2> QED BY <1>1, <2>1, <2>2, InsertAtQueue
<1>3. Represents(links', q, z)
  BY <1>1, LinkBeforeInserts
<1>4. ASSUME NEW r \in Queues!Queues \ {q} PROVE Represents(links', r, lists.queues[r])
  <2>1. /\ lists.queues[r] \in Seq(QueuedThreads) /\ Represents(links, r, lists.queues[r])
        /\ Range(lists.queues[r]) \cap Range(s) = {}
    BY QueueFacts
  <2> QED BY <1>1, <1>2, <2>1, LinkBeforeElsewhere
<1>5. ASSUME NEW x \in Range(z)
      PROVE  /\ lists'.queueOf[x] = q
             /\ \A r \in Queues!Queues \ {q} : x \notin Range(lists.queues[r])
  <2>1. CASE x = t
    BY <1>1, <2>1 DEF QueueInv, QueueTypes
  <2>2. CASE x # t
    <3>1. x \in Range(s) /\ lists.queueOf[x] = q /\ x \in QueuedThreads
      BY <1>1, <1>2, <2>2, Inside DEF QueueInv, QueuesApart
    <3> QED BY <2>2, <3>1, QueueFacts DEF QueueInv, QueueTypes
  <2> QED BY <2>1, <2>2
<1>6. \A r \in Queues!Queues \ {q} : \A x \in Range(lists.queues[r]) :
        lists'.queueOf[x] = lists.queueOf[x]
  <2>1. ASSUME NEW r \in Queues!Queues, NEW x \in Range(lists.queues[r])
        PROVE  lists'.queueOf[x] = lists.queueOf[x]
    <3>1. x # t /\ x \in QueuedThreads
      BY <1>1, QueueFacts, Inside
    <3> QED BY <3>1 DEF QueueInv, QueueTypes
  <2> QED BY <2>1
<1>7. lists'.queues = [lists.queues EXCEPT ![q] = z]
  OBVIOUS
<1> HIDE DEF s, z
<1> QED BY <1>2, <1>3, <1>4, <1>5, <1>6, <1>7, QueueStep

LEMMA InsertAtEnd ==
  ASSUME NEW S, NEW s \in Seq(S), NEW e \in S
  PROVE  InsertAt(s, Len(s) + 1, e) = Append(s, e)
<1> DEFINE a == InsertAt(s, Len(s) + 1, e)
           b == Append(s, e)
<1>1. Len(s) \in Nat
  BY Elements
<1>2. Len(s) + 1 \in 1 .. Len(s) + 1
  BY <1>1
<1>3. /\ a \in Seq(S) /\ Len(a) = Len(s) + 1
      /\ \A j \in 1 .. Len(s) + 1 :
           a[j] = IF j < Len(s) + 1 THEN s[j] ELSE IF j = Len(s) + 1 THEN e ELSE s[j - 1]
  BY <1>2, InsertAtElements
<1>4. /\ b \in Seq(S) /\ Len(b) = Len(s) + 1
      /\ \A j \in 1 .. Len(s) : b[j] = s[j]
      /\ b[Len(s) + 1] = e
  BY AppendProperties
<1> HIDE DEF a, b
<1>5. ASSUME NEW j \in 1 .. Len(s) + 1 PROVE a[j] = b[j]
  <2>1. \/ j = Len(s) + 1 /\ ~(j < Len(s) + 1)
        \/ j \in 1 .. Len(s) /\ j < Len(s) + 1
    BY ONLY <1>1, j \in 1 .. Len(s) + 1
  <2> QED BY <1>3, <1>4, <2>1
<1>6. a = b
  BY <1>3, <1>4, <1>5, SeqEqual
<1> QED BY <1>6 DEF a, b

LEMMA InsertThreadStep ==
  ASSUME QueueInv, NEW q \in Queues!Queues, NEW t \in QueuedThreads,
         Queues!InsertThreadByPriority(q, t)
  PROVE  QueueInv'
<1> DEFINE s == lists.queues[q]
           i == Queues!InsertionPoint(lists, q, prio[t])
<1>1. /\ lists.queueOf = queueOf /\ lists.prio = prio /\ lists.pending = pending
      /\ links \in LinkWords(Queues!Queues, QueuedThreads)
      /\ lists.queues \in [Queues!Queues -> Seq(QueuedThreads)]
      /\ Null \notin QueuedThreads /\ prio[t] \in Nat
      /\ s \in Seq(QueuedThreads)
  BY QueueFacts DEF QueueInv, QueueTypes
<1>2. /\ ~Queues!Linked(t)
      /\ queueOf' = [queueOf EXCEPT ![t] = q]
      /\ pending' = IF q \in Queues!Priorities THEN pending \cup {q} ELSE pending
      /\ prio' = prio
      /\ lists' = [lists EXCEPT !.queueOf[t] = q,
                                !.queues[q] = InsertAt(@, i, t),
                                !.pending = IF q \in Queues!Priorities THEN @ \cup {q} ELSE @]
  BY <1>1, SameSequences DEF Queues!InsertThreadByPriority, Queues!InsertByPriority
<1>3. PICK x \in QueuedThreads \cup {Null} :
        /\ Queues!StopsAt(q, prio[t], x)
        /\ links' = IF x = Null THEN LinkLast(links, q, t) ELSE LinkBefore(links, q, t, x)
  BY SameLinks DEF Queues!InsertThreadByPriority
<1>4. \/ x = Null /\ i = Len(s) + 1
      \/ i \in 1 .. Len(s) /\ x = s[i]
  BY <1>1, <1>3, WalkStops
<1> HIDE DEF i
<1>5. /\ lists'.queues = [lists.queues EXCEPT ![q] = InsertAt(s, i, t)]
      /\ lists'.queueOf = [lists.queueOf EXCEPT ![t] = q]
      /\ lists'.queueOf = queueOf' /\ lists'.prio = prio' /\ lists'.pending = pending'
      /\ lists'.resched = lists.resched
      /\ lists' = [queues |-> lists'.queues, queueOf |-> lists'.queueOf, prio |-> lists'.prio,
                   pending |-> lists'.pending, resched |-> lists'.resched]
  BY <1>1, <1>2 DEF QueueInv, QueueTypes
<1>6. QueueTypes'
  <2>1. links' \in LinkWords(Queues!Queues, QueuedThreads)
    BY <1>1, <1>3, LinkLastWords, LinkBeforeWords
  <2>2. InsertAt(s, i, t) \in Seq(QueuedThreads)
    <3>1. Len(s) \in Nat
      BY <1>1, Elements
    <3>2. i \in 1 .. Len(s) + 1
      BY <1>4, <3>1
    <3> QED BY <1>1, <3>2, InsertAtQueue
  <2>3. lists'.queues \in [Queues!Queues -> Seq(QueuedThreads)]
    BY <1>1, <1>5, <2>2
  <2>4. lists'.queueOf \in [QueuedThreads -> Queues!Queues \cup {NoQueue}]
    BY <1>5 DEF QueueInv, QueueTypes
  <2>5. lists'.prio \in [QueuedThreads -> Nat]
    BY <1>1, <1>2, <1>5 DEF QueueInv, QueueTypes
  <2>6. lists'.pending \in SUBSET Queues!Priorities /\ lists'.resched \in BOOLEAN
    BY <1>1, <1>2, <1>5 DEF QueueInv, QueueTypes
  <2> QED BY <1>5, <2>1, <2>3, <2>4, <2>5, <2>6 DEF QueueTypes
<1>7. CASE x = Null
  <2>1. InsertAt(s, i, t) = Append(s, t) /\ links' = LinkLast(links, q, t)
    BY <1>1, <1>3, <1>4, <1>7, InsertAtEnd, Elements
  <2>2. lists'.queues = [lists.queues EXCEPT ![q] = Append(@, t)]
    BY <1>5, <2>1
  <2> QED BY <1>2, <1>5, <1>6, <2>1, <2>2, AppendStep
<1>8. CASE x # Null
  <2>1. i \in 1 .. Len(s) /\ links' = LinkBefore(links, q, t, s[i])
    BY <1>3, <1>4, <1>8
  <2>2. lists'.queues = [lists.queues EXCEPT ![q] = InsertAt(@, i, t)]
    BY <1>5
  <2>3. QueueInv /\ ~Queues!Linked(t) /\ i \in 1 .. Len(lists.queues[q])
    BY <1>2, <2>1
  <2>4. links' = LinkBefore(links, q, t, lists.queues[q][i])
    BY <2>1
  <2>5. /\ lists'.queueOf = [lists.queueOf EXCEPT ![t] = q]
        /\ lists'.queueOf = queueOf' /\ lists'.prio = prio' /\ lists'.pending = pending'
    BY <1>5
  <2> HIDE DEF i, s
  <2> QED BY <1>2, <1>6, <2>2, <2>3, <2>4, <2>5, InsertStep
<1> QED BY <1>7, <1>8

\* Clearing the words of a node that is in no list.
LEMMA ClearedWords ==
  ASSUME NEW k \in LinkWords(Queues!Queues, QueuedThreads), NEW t \in QueuedThreads
  PROVE  LET l == Queues!Cleared(k, t)
         IN  /\ l \in LinkWords(Queues!Queues, QueuedThreads)
             /\ l.head = k.head /\ l.tail = k.tail
             /\ \A x \in QueuedThreads \ {t} : l.next[x] = k.next[x] /\ l.prev[x] = k.prev[x]
BY DEF Queues!Cleared, LinkWords

LEMMA RemoveThreadStep ==
  ASSUME QueueInv, NEW t \in QueuedThreads, Queues!RemoveThread(t)
  PROVE  QueueInv'
<1> DEFINE q == queueOf[t]
           s == lists.queues[q]
           i == Queues!Position(s, t)
           z == RemoveAt(s, i)
           l == Unlink(links, q, t)
<1>1. /\ lists.queueOf = queueOf /\ lists.prio = prio /\ lists.pending = pending
      /\ links \in LinkWords(Queues!Queues, QueuedThreads)
      /\ lists.queues \in [Queues!Queues -> Seq(QueuedThreads)]
      /\ Null \notin QueuedThreads
  BY QueueFacts DEF QueueInv, QueueTypes
<1>2. /\ links' = Queues!Cleared(l, t)
      /\ pending' = IF links'.head[q] = Null THEN pending \ {q} ELSE pending
      /\ queueOf' = [queueOf EXCEPT ![t] = NoQueue]
      /\ prio' = prio
      /\ lists' = [lists EXCEPT !.queueOf[t] = NoQueue,
                                !.queues[q] = z,
                                !.pending = IF z = <<>> THEN @ \ {q} ELSE @]
  BY <1>1, SameLinks, SameSequences DEF Queues!RemoveThread, Queues!RemoveFromQueue
<1>3. q \in Queues!Queues /\ t \in Range(s)
  <2>1. PICK r \in Queues!Queues : t \in Range(lists.queues[r])
    BY DEF Queues!RemoveThread, Queues!Linked, Range
  <2>2. lists.queueOf[t] = r
    BY <2>1 DEF QueueInv, QueuesApart
  <2> QED BY <1>1, <2>1, <2>2
<1>4. /\ s \in Seq(QueuedThreads) /\ Distinct(s) /\ Represents(links, q, s)
      /\ i \in 1 .. Len(s) /\ s[i] = t
  <2>1. s \in Seq(QueuedThreads) /\ Distinct(s) /\ Represents(links, q, s)
    BY <1>3, QueueFacts
  <2>2. DOMAIN s = 1 .. Len(s)
    BY <2>1, Elements
  <2>3. \E j \in DOMAIN s : s[j] = t
    BY <1>3 DEF Range
  <2> QED BY <2>1, <2>2, <2>3 DEF Queues!Position
<1> HIDE DEF q, i
<1>5. z \in Seq(QueuedThreads) /\ Range(z) = Range(s) \ {t} /\ Distinct(z)
  BY <1>4, RemoveAtQueue
<1>6. l \in LinkWords(Queues!Queues, QueuedThreads) /\ Represents(l, q, z)
  BY <1>1, <1>3, <1>4, UnlinkWords, UnlinkRemoves
<1>7. /\ links' \in LinkWords(Queues!Queues, QueuedThreads)
      /\ links'.head = l.head /\ links'.tail = l.tail
      /\ \A x \in QueuedThreads \ {t} : links'.next[x] = l.next[x] /\ links'.prev[x] = l.prev[x]
  BY <1>2, <1>6, ClearedWords
<1>8. Represents(links', q, z)
  <2>1. Range(z) \subseteq QueuedThreads \ {t}
    BY <1>4, <1>5, Inside
  <2> QED BY <1>6, <1>7, <2>1, UntouchedList
<1>9. ASSUME NEW r \in Queues!Queues \ {q} PROVE Represents(links', r, lists.queues[r])
  <2>1. /\ lists.queues[r] \in Seq(QueuedThreads) /\ Represents(links, r, lists.queues[r])
        /\ Range(lists.queues[r]) \cap Range(s) = {}
    BY <1>3, QueueFacts
  <2>2. Represents(l, r, lists.queues[r])
    BY <1>1, <1>3, <1>4, <2>1, UnlinkElsewhere
  <2>3. Range(lists.queues[r]) \subseteq QueuedThreads \ {t}
    BY <1>3, <2>1, Inside
  <2> QED BY <1>7, <2>2, <2>3, UntouchedList
<1>10. z = <<>> <=> links'.head[q] = Null
  <2>1. \A j \in 1 .. Len(z) : z[j] # Null
    BY <1>1, <1>5, Elements
  <2>2. z # <<>> => 1 \in 1 .. Len(z)
    <3>1. Len(z) \in Nat /\ (z = <<>> <=> Len(z) = 0)
      BY <1>5, Elements
    <3> QED BY <3>1
  <2> QED BY <1>8, <2>1, <2>2 DEF Represents
<1> HIDE DEF s, z, l
<1>11. /\ lists'.queues = [lists.queues EXCEPT ![q] = z]
       /\ lists'.queueOf = [queueOf EXCEPT ![t] = NoQueue]
       /\ lists'.queueOf = queueOf' /\ lists'.prio = prio' /\ lists'.pending = pending'
       /\ lists'.resched = lists.resched
       /\ lists' = [queues |-> lists'.queues, queueOf |-> lists'.queueOf, prio |-> lists'.prio,
                    pending |-> lists'.pending, resched |-> lists'.resched]
  BY <1>1, <1>2, <1>10 DEF QueueInv, QueueTypes
<1>12. QueueTypes'
  <2>1. lists'.queues \in [Queues!Queues -> Seq(QueuedThreads)]
    BY <1>1, <1>5, <1>11
  <2>2. lists'.queueOf \in [QueuedThreads -> Queues!Queues \cup {NoQueue}]
    BY <1>1, <1>11 DEF QueueInv, QueueTypes
  <2>3. lists'.prio \in [QueuedThreads -> Nat]
    BY <1>1, <1>2, <1>11 DEF QueueInv, QueueTypes
  <2>4. lists'.pending \in SUBSET Queues!Priorities /\ lists'.resched \in BOOLEAN
    BY <1>1, <1>2, <1>11 DEF QueueInv, QueueTypes
  <2> QED BY <1>7, <1>11, <2>1, <2>2, <2>3, <2>4 DEF QueueTypes
<1>13. ASSUME NEW r \in Queues!Queues, NEW x \in Range(lists.queues[r]), x # t
       PROVE  lists'.queueOf[x] = r
  <2>1. lists.queueOf[x] = r /\ x \in QueuedThreads
    BY QueueFacts, Inside DEF QueueInv, QueuesApart
  <2> QED BY <1>1, <1>11, <1>13, <2>1 DEF QueueInv, QueueTypes
<1>14. ASSUME NEW r \in Queues!Queues \ {q}, NEW x \in Range(lists.queues[r])
       PROVE  x # t /\ lists'.queueOf[x] = lists.queueOf[x]
  <2>1. x # t /\ lists.queueOf[x] = r
    BY <1>3, QueueFacts DEF QueueInv, QueuesApart, s
  <2> QED BY <1>13, <2>1
<1>15. ASSUME NEW x \in Range(z)
       PROVE  /\ lists'.queueOf[x] = q
              /\ \A r \in Queues!Queues \ {q} : x \notin Range(lists.queues[r])
  <2>1. x \in Range(s) /\ x # t
    BY <1>5
  <2> QED BY <1>3, <1>13, <2>1, QueueFacts DEF s
<1> QED BY <1>3, <1>5, <1>8, <1>9, <1>11, <1>12, <1>14, <1>15, QueueStep

\* The head of a queue names a thread exactly when the queue is not empty.
LEMMA QueueHead ==
  ASSUME QueueInv, NEW q \in Queues!Queues
  PROVE  LET s == lists.queues[q]
         IN  /\ links.head[q] # Null <=> s # <<>>
             /\ s # <<>> => /\ links.head[q] = Head(s) /\ Head(s) \in QueuedThreads
                            /\ links.next[Head(s)] = Null <=> Len(s) = 1
<1> DEFINE s == lists.queues[q]
<1>1. s \in Seq(QueuedThreads) /\ Represents(links, q, s) /\ Null \notin QueuedThreads
  BY QueueFacts
<1>2. /\ Len(s) \in Nat /\ DOMAIN s = 1 .. Len(s)
      /\ \A i \in 1 .. Len(s) : s[i] \in QueuedThreads
      /\ s = <<>> <=> Len(s) = 0
  BY <1>1, Elements
<1> HIDE DEF s
<1>3. CASE s = <<>>
  BY <1>1, <1>3 DEF Represents, s
<1>4. CASE s # <<>>
  <2>1. 1 \in 1 .. Len(s) /\ (1 # Len(s) => 1 + 1 \in 1 .. Len(s))
    BY <1>2, <1>4
  <2>2. links.head[q] = s[1] /\ s[1] \in QueuedThreads /\ Head(s) = s[1]
    BY <1>1, <1>2, <1>4, <2>1 DEF Represents
  <2>3. links.next[s[1]] = IF 1 = Len(s) THEN Null ELSE s[1 + 1]
    BY <1>1, <1>2, <2>1 DEF Represents
  <2>4. links.next[s[1]] = Null <=> Len(s) = 1
    BY <1>1, <1>2, <2>1, <2>3
  <2> QED BY <1>1, <1>4, <2>2, <2>4 DEF s
<1> QED BY <1>3, <1>4

\* The head of a queue leaves it; nobody else's queue word changes.
LEMMA PopStep ==
  ASSUME QueueInv, NEW q \in Queues!Queues, lists.queues[q] # <<>>,
         links' = UnlinkHead(links, q), QueueTypes',
         lists'.queues = [lists.queues EXCEPT ![q] = Tail(@)],
         \A x \in QueuedThreads \ {Head(lists.queues[q])} : lists'.queueOf[x] = lists.queueOf[x],
         lists'.queueOf = queueOf', lists'.prio = prio', lists'.pending = pending'
  PROVE  QueueInv'
<1> DEFINE s == lists.queues[q]
           z == Tail(s)
<1>1. /\ s \in Seq(QueuedThreads) /\ Distinct(s) /\ Represents(links, q, s) /\ s # <<>>
      /\ links \in LinkWords(Queues!Queues, QueuedThreads) /\ Null \notin QueuedThreads
  BY QueueFacts
<1>2. /\ z \in Seq(QueuedThreads) /\ Range(z) = Range(s) \ {Head(s)} /\ Distinct(z)
      /\ Head(s) \in Range(s)
  BY <1>1, TailQueue
<1>3. Represents(links', q, z)
  BY <1>1, UnlinkHeadPops
<1>4. ASSUME NEW r \in Queues!Queues \ {q} PROVE Represents(links', r, lists.queues[r])
  <2>1. /\ lists.queues[r] \in Seq(QueuedThreads) /\ Represents(links, r, lists.queues[r])
        /\ Range(lists.queues[r]) \cap Range(s) = {}
    BY QueueFacts
  <2> QED BY <1>1, <2>1, UnlinkHeadElsewhere
<1>5. ASSUME NEW r \in Queues!Queues, NEW x \in Range(lists.queues[r]), x # Head(s)
      PROVE  lists'.queueOf[x] = r /\ lists.queueOf[x] = r
  <2>1. lists.queueOf[x] = r /\ x \in QueuedThreads
    BY QueueFacts, Inside DEF QueueInv, QueuesApart
  <2> QED BY <1>5, <2>1
<1>6. lists'.queues = [lists.queues EXCEPT ![q] = z]
  OBVIOUS
<1>7. ASSUME NEW r \in Queues!Queues \ {q}, NEW x \in Range(lists.queues[r])
      PROVE  lists'.queueOf[x] = lists.queueOf[x]
  <2>1. x # Head(s)
    BY <1>2, QueueFacts
  <2> QED BY <1>5, <2>1
<1>8. ASSUME NEW x \in Range(z)
      PROVE  /\ lists'.queueOf[x] = q
             /\ \A r \in Queues!Queues \ {q} : x \notin Range(lists.queues[r])
  <2>1. x \in Range(s) /\ x # Head(s)
    BY <1>2
  <2> QED BY <1>5, <2>1, QueueFacts
<1> HIDE DEF s, z
<1> QED BY <1>2, <1>3, <1>4, <1>6, <1>7, <1>8, QueueStep

LEMMA PopThreadStep ==
  ASSUME QueueInv, NEW p \in Queues!Priorities, Queues!PopThread(p)
  PROVE  QueueInv'
<1> DEFINE s == lists.queues[p]
           t == links.head[p]
<1>1. /\ lists.queueOf = queueOf /\ lists.prio = prio /\ lists.pending = pending
      /\ links \in LinkWords(Queues!Queues, QueuedThreads)
      /\ lists.queues \in [Queues!Queues -> Seq(QueuedThreads)]
      /\ p \in Queues!Queues
  BY QueueFacts DEF QueueInv, QueueTypes, Queues!Queues
<1>2. /\ s # <<>> /\ t = Head(s) /\ t \in QueuedThreads
      /\ links.next[t] = Null <=> Len(s) = 1
      /\ Tail(s) \in Seq(QueuedThreads)
  <2>1. t # Null
    BY DEF Queues!PopThread
  <2>2. s # <<>> /\ t = Head(s) /\ t \in QueuedThreads /\ (links.next[t] = Null <=> Len(s) = 1)
    BY <1>1, <2>1, QueueHead
  <2> QED BY <1>1, <2>2
<1>3. /\ links' = UnlinkHead(links, p)
      /\ pending' = IF links.next[t] = Null THEN pending \ {p} ELSE pending
      /\ queueOf' = [queueOf EXCEPT ![t] = NoQueue]
      /\ prio' = prio
      /\ lists' = [lists EXCEPT !.queues[p] = Tail(@),
                                !.pending = IF Len(s) = 1 THEN @ \ {p} ELSE @,
                                !.queueOf[Head(s)] = NoQueue]
  BY SameLinks DEF Queues!PopThread
<1> HIDE DEF t
<1>4. /\ lists'.queues = [lists.queues EXCEPT ![p] = Tail(s)]
      /\ lists'.queueOf = [queueOf EXCEPT ![t] = NoQueue]
      /\ lists'.queueOf = queueOf' /\ lists'.prio = prio' /\ lists'.pending = pending'
      /\ lists'.resched = lists.resched
      /\ lists' = [queues |-> lists'.queues, queueOf |-> lists'.queueOf, prio |-> lists'.prio,
                   pending |-> lists'.pending, resched |-> lists'.resched]
  BY <1>1, <1>2, <1>3 DEF QueueInv, QueueTypes
<1>5. QueueTypes'
  <2>1. links' \in LinkWords(Queues!Queues, QueuedThreads)
    <3>1. links.head[p] \in QueuedThreads
      BY <1>2 DEF t
    <3> QED BY <1>1, <1>3, <3>1, UnlinkHeadWords
  <2>2. lists'.queues \in [Queues!Queues -> Seq(QueuedThreads)]
    BY <1>1, <1>2, <1>4
  <2>3. lists'.queueOf \in [QueuedThreads -> Queues!Queues \cup {NoQueue}]
    BY <1>1, <1>4 DEF QueueInv, QueueTypes
  <2>4. lists'.prio \in [QueuedThreads -> Nat]
    BY <1>1, <1>3, <1>4 DEF QueueInv, QueueTypes
  <2>5. lists'.pending \in SUBSET Queues!Priorities /\ lists'.resched \in BOOLEAN
    BY <1>1, <1>3, <1>4 DEF QueueInv, QueueTypes
  <2> QED BY <1>4, <2>1, <2>2, <2>3, <2>4, <2>5 DEF QueueTypes
<1>6. \A x \in QueuedThreads \ {Head(s)} : lists'.queueOf[x] = lists.queueOf[x]
  BY <1>1, <1>2, <1>4 DEF QueueInv, QueueTypes
<1>7. lists'.queues = [lists.queues EXCEPT ![p] = Tail(@)]
  BY <1>4
<1> QED BY <1>1, <1>2, <1>3, <1>4, <1>5, <1>6, <1>7, PopStep

LEMMA WakeThreadStep ==
  ASSUME QueueInv, NEW q \in WaitQueues, Queues!WakeThread(q)
  PROVE  QueueInv'
<1> DEFINE s == lists.queues[q]
<1>1. /\ lists.queueOf = queueOf /\ lists.prio = prio /\ lists.pending = pending
      /\ links \in LinkWords(Queues!Queues, QueuedThreads)
      /\ lists.queues \in [Queues!Queues -> Seq(QueuedThreads)]
      /\ q \in Queues!Queues
  BY QueueFacts DEF QueueInv, QueueTypes, Queues!Queues
<1>2. s # <<>> /\ links.head[q] \in QueuedThreads /\ Tail(s) \in Seq(QueuedThreads)
  <2>1. links.head[q] # Null
    BY DEF Queues!WakeThread
  <2>2. s # <<>> /\ links.head[q] = Head(s) /\ Head(s) \in QueuedThreads
    BY <1>1, <2>1, QueueHead
  <2> QED BY <1>1, <2>2
<1>3. /\ links' = UnlinkHead(links, q)
      /\ pending' = pending /\ queueOf' = queueOf /\ prio' = prio
      /\ lists' = [lists EXCEPT !.queues[q] = Tail(@)]
  BY SameLinks DEF Queues!WakeThread
<1>4. /\ lists'.queues = [lists.queues EXCEPT ![q] = Tail(s)]
      /\ lists'.queueOf = lists.queueOf /\ lists'.prio = lists.prio
      /\ lists'.pending = lists.pending /\ lists'.resched = lists.resched
      /\ lists' = [queues |-> lists'.queues, queueOf |-> lists'.queueOf, prio |-> lists'.prio,
                   pending |-> lists'.pending, resched |-> lists'.resched]
  BY <1>3 DEF QueueInv, QueueTypes
<1>5. QueueTypes'
  <2>1. links' \in LinkWords(Queues!Queues, QueuedThreads)
    BY <1>1, <1>2, <1>3, UnlinkHeadWords
  <2>2. lists'.queues \in [Queues!Queues -> Seq(QueuedThreads)]
    BY <1>1, <1>2, <1>4
  <2> QED BY <1>4, <2>1, <2>2 DEF QueueInv, QueueTypes
<1>6. lists'.queues = [lists.queues EXCEPT ![q] = Tail(@)]
  BY <1>4
<1> QED BY <1>1, <1>2, <1>3, <1>4, <1>5, <1>6, PopStep

LEMMA QueueNext == QueueInv /\ [Queues!Next]_(Queues!vars) => QueueInv'
<1> SUFFICES ASSUME QueueInv, [Queues!Next]_(Queues!vars) PROVE QueueInv'
  OBVIOUS
<1>1. CASE UNCHANGED Queues!vars
  BY <1>1 DEF Queues!vars, QueueInv, QueueTypes, QueuesApart, LinksRepresentLists,
              Queues!LinksRepresentLists
<1> QED BY <1>1, SetPriorityStep, LinkThreadStep, InsertThreadStep, RemoveThreadStep, PopThreadStep,
          WakeThreadStep DEF Queues!Next, Queues!LowestPriority

\* The link words, pending mask and queue words the helpers of the thread queues leave are
\* those of the queues as sequences, in whatever order the helpers are called.
THEOREM LinksRight == Queues!Spec => []LinksRepresentLists
<1>1. QueueInv => LinksRepresentLists
  BY DEF QueueInv
<1> QED BY QueueInit, QueueNext, <1>1, PTL DEF Queues!Spec

==============================================================================
