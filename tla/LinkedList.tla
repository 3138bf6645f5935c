------------------------------ MODULE LinkedList ------------------------------
(***************************************************************************)
(* The intrusive doubly linked lists of guest memory: a head and a tail    *)
(* word per list, a next and a prev word in every node, 0 for nobody.      *)
(* Thread queues are such lists (module ThreadQueue), and so are the lists *)
(* of mutexes a thread holds (module OSMutex).                             *)
(*                                                                         *)
(* An operator takes the words k before and gives those after.  The lists  *)
(* share the nodes' words, so nothing but its callers keeps a node from    *)
(* being linked twice.                                                     *)
(***************************************************************************)
EXTENDS Naturals, Sequences

CONSTANT Null  \* guest address 0

LinkWords(Lists, Nodes) ==
  [head : [Lists -> Nodes \cup {Null}], tail : [Lists -> Nodes \cup {Null}],
   next : [Nodes -> Nodes \cup {Null}], prev : [Nodes -> Nodes \cup {Null}]]

\* The word of m becomes v; the code tests for Null before it writes.
Written(f, m, v) == [n \in DOMAIN f |-> IF n = m THEN v ELSE f[n]]

\* Faulty variant: a list that has a tail gets a new head.
LinkLastOverHead(k, q, n) ==
  [k EXCEPT !.head[q] = n,
            !.tail[q] = n,
            !.next = Written(Written(k.next, k.tail[q], n), n, Null),
            !.prev[n] = k.tail[q]]

LinkLast(k, q, n) ==
  [k EXCEPT !.head[q] = IF k.tail[q] = Null THEN n ELSE @,
            !.tail[q] = n,
            !.next = Written(Written(k.next, k.tail[q], n), n, Null),
            !.prev[n] = k.tail[q]]

LinkBefore(k, q, n, x) ==
  [k EXCEPT !.head[q] = IF k.prev[x] = Null THEN n ELSE @,
            !.next = Written(Written(k.next, n, x), k.prev[x], n),
            !.prev = Written(Written(k.prev, x, n), n, k.prev[x])]

\* Faulty variant: the last node's predecessor does not become the tail.
UnlinkKeepingTail(k, q, n) ==
  [k EXCEPT !.head[q] = IF k.prev[n] = Null THEN k.next[n] ELSE @,
            !.prev = Written(k.prev, k.next[n], k.prev[n]),
            !.next = Written(k.next, k.prev[n], k.next[n])]

Unlink(k, q, n) ==
  [k EXCEPT !.tail[q] = IF k.next[n] = Null THEN k.prev[n] ELSE @,
            !.head[q] = IF k.prev[n] = Null THEN k.next[n] ELSE @,
            !.prev = Written(k.prev, k.next[n], k.prev[n]),
            !.next = Written(k.next, k.prev[n], k.next[n])]

\* The words of the node that leaves stay as they are.
UnlinkHead(k, q) ==
  LET second == k.next[k.head[q]]
  IN  [k EXCEPT !.head[q] = second,
                !.tail[q] = IF second = Null THEN Null ELSE @,
                !.prev = Written(k.prev, second, Null)]

\* The list q is the sequence s: followed from either end, and from every node.
Represents(k, q, s) ==
  /\ k.head[q] = IF s = <<>> THEN Null ELSE s[1]
  /\ k.tail[q] = IF s = <<>> THEN Null ELSE s[Len(s)]
  /\ \A i \in DOMAIN s :
       /\ k.next[s[i]] = IF i = Len(s) THEN Null ELSE s[i + 1]
       /\ k.prev[s[i]] = IF i = 1 THEN Null ELSE s[i - 1]
===============================================================================
