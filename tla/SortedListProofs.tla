--------------------------- MODULE SortedListProofs ---------------------------
(*****************************************************************************)
(* Facts on the lists of problem 3, for whatever number of nodes, and the    *)
(* invariant of the program with one mutex.  A whole list is a permutation   *)
(* s of the nodes: s[k] is the node at place k.  What a swap, an added       *)
(* node and a step of the sort do to the links is stated of it.              *)
(*****************************************************************************)
EXTENDS SortedList, Integers, TLAPS

\* A permutation of the N nodes, and the node at a place, or NULL beside the list.
Perm(s, N) ==
  /\ s \in [1 .. N -> 1 .. N]
  /\ \A j, k \in 1 .. N : s[j] = s[k] => j = k
  /\ \A a \in 1 .. N : \E k \in 1 .. N : s[k] = a

At(s, N, k) == IF k \in 1 .. N THEN s[k] ELSE NULL

\* The links of the nodes are those of s.
Linked(s, N, nx, pv) ==
  \A k \in 1 .. N : nx[s[k]] = At(s, N, k + 1) /\ pv[s[k]] = At(s, N, k - 1)

\* The lines from place e on are in order, and none before them is greater.
TailSorted(s, N, ln, e) == \A j \in 1 .. N, k \in e .. N : j < k => ln[s[j]] <= ln[s[k]]

\* The lines up to place c: the last is the greatest; they are in order.
PrefixMax(s, ln, c) == \A j \in 1 .. c : ln[s[j]] <= ln[s[c]]
PrefixSorted(s, ln, c) == \A j, k \in 1 .. c : j < k => ln[s[j]] <= ln[s[k]]

\* The sort, at its pc: `end' is at place e, and current, in the inner loop, at place c.
\* What a pass has carried along is the greatest line so far; a pass that has swapped
\* is past the first place, so the next one has a node before its end.
InSort(s, N, ln, pc, cr, en, sw) ==
  /\ pc = "pass" => \E e \in 2 .. N + 1 : en = At(s, N, e) /\ TailSorted(s, N, ln, e)
  /\ pc = "compare" =>
       \E e \in 2 .. N + 1, c \in 1 .. N :
         /\ c < e /\ en = At(s, N, e) /\ cr = s[c]
         /\ TailSorted(s, N, ln, e) /\ PrefixMax(s, ln, c)
         /\ IF sw THEN c >= 2 ELSE PrefixSorted(s, ln, c)
  /\ pc = "unlock" => TailSorted(s, N, ln, 1)

\* The nodes that are not allocated yet.
Fresh == \A a \in Node : a > n => next[a] = NULL /\ prev[a] = NULL

Order == [1 .. n -> 1 .. n]

-------------------------------------------------------------------------------
\* What a swap and an added node do to the order.

Swapped(s, c) == [s EXCEPT ![c] = s[c + 1], ![c + 1] = s[c]]

\* Where the nodes are after the swap of places c and c + 1.
LEMMA SwappedAt ==
  ASSUME NEW N \in Nat, NEW s, Perm(s, N), NEW c \in 1 .. N, c + 1 \in 1 .. N
  PROVE  /\ Swapped(s, c) \in [1 .. N -> 1 .. N]
         /\ Swapped(s, c)[c] = s[c + 1] /\ Swapped(s, c)[c + 1] = s[c]
         /\ \A k \in 1 .. N : k # c /\ k # c + 1 => Swapped(s, c)[k] = s[k]
  BY Zenon DEF Perm, Swapped

\* A swap permutes the nodes.
LEMMA SwappedPerm ==
  ASSUME NEW N \in Nat, NEW s, Perm(s, N), NEW c \in 1 .. N, c + 1 \in 1 .. N
  PROVE  Perm(Swapped(s, c), N)
<1>. DEFINE z == Swapped(s, c)
<1>1. /\ z \in [1 .. N -> 1 .. N] /\ z[c] = s[c + 1] /\ z[c + 1] = s[c]
      /\ \A k \in 1 .. N : k # c /\ k # c + 1 => z[k] = s[k]
  BY SwappedAt
<1>. HIDE DEF z
<1>2. ASSUME NEW j \in 1 .. N, NEW k \in 1 .. N, z[j] = z[k] PROVE j = k
  <2>. DEFINE q(i) == IF i = c THEN c + 1 ELSE IF i = c + 1 THEN c ELSE i
  <2>1. \A i \in 1 .. N : q(i) \in 1 .. N /\ z[i] = s[q(i)]
    BY <1>1, Zenon
  <2>2. q(j) = q(k)
    BY <1>2, <2>1, ZenonT(30) DEF Perm
  <2>. QED
    BY <2>2
<1>3. ASSUME NEW a \in 1 .. N PROVE \E k \in 1 .. N : z[k] = a
  <2>1. PICK k \in 1 .. N : s[k] = a
    BY DEF Perm
  <2>. QED
    BY <1>1, <2>1, Zenon
<1>4. Perm(z, N)
  BY <1>1, <1>2, Zenon DEF Perm
<1>. QED
  BY <1>4 DEF z

\* swap(l, r), of the nodes at places c and c + 1, links the nodes in the new order.
LEMMA SwappedLinked ==
  ASSUME NEW N \in 0 .. MaxNodes, NEW s, Perm(s, N), NEW nx, NEW pv, Linked(s, N, nx, pv),
         NEW c \in 1 .. N, c + 1 \in 1 .. N, NEW l, l = s[c], NEW r, r = s[c + 1],
         NEW nx2, NEW pv2,
         nx2 = [a \in Node |-> IF a = r THEN l ELSE IF a = pv[l] THEN r
                               ELSE IF a = l THEN nx[r] ELSE nx[a]],
         pv2 = [a \in Node |-> IF a = l THEN r ELSE IF a = r THEN pv[l]
                               ELSE IF a = nx[r] THEN l ELSE pv[a]]
  PROVE  Linked(Swapped(s, c), N, nx2, pv2)
<1>. DEFINE z == Swapped(s, c)
<1>0. N \in Nat /\ MaxNodes \in Nat
  BY ListAssumption
<1>1. /\ z \in [1 .. N -> 1 .. N] /\ z[c] = r /\ z[c + 1] = l
      /\ \A k \in 1 .. N : k # c /\ k # c + 1 => z[k] = s[k]
  BY SwappedAt
<1>. HIDE DEF z
<1>2. \A k \in 1 .. N : s[k] \in 1 .. N /\ s[k] \in Node /\ s[k] # NULL
  <2>1. \A a \in 1 .. N : a \in Node /\ a # NULL
    BY <1>0 DEF Node, NULL
  <2>. QED
    BY <2>1, Zenon DEF Perm
<1>3. \A j, k \in 1 .. N : s[j] = s[k] => j = k
  BY DEF Perm
<1>4. l \in Node /\ r \in Node /\ l # r /\ l # NULL /\ r # NULL
  BY <1>2, <1>3
<1>5. pv[l] = At(s, N, c - 1) /\ nx[r] = At(s, N, c + 2) /\ nx[l] = r /\ pv[r] = l
  BY DEF Linked, At
<1>n. /\ nx2[l] = nx[r] /\ nx2[r] = l
      /\ \A a \in Node : a # l /\ a # r => nx2[a] = IF a = pv[l] THEN r ELSE nx[a]
  <2>1. pv[l] # l
    BY <1>3, <1>4, <1>5 DEF At
  <2>. QED
    BY <1>4, <2>1
<1>p. /\ pv2[l] = r /\ pv2[r] = pv[l]
      /\ \A a \in Node : a # l /\ a # r => pv2[a] = IF a = nx[r] THEN l ELSE pv[a]
  BY <1>4
<1>a. /\ \A j \in Int : j # c /\ j # c + 1 => At(z, N, j) = At(s, N, j)
      /\ At(z, N, c) = r /\ At(z, N, c + 1) = l
  BY <1>1, Zenon DEF At
<1>b. /\ \A k \in 1 .. N : nx[s[k]] = At(s, N, k + 1) /\ pv[s[k]] = At(s, N, k - 1)
      /\ \A k \in 1 .. N : At(s, N, k) = s[k] /\ s[k] \in Node /\ s[k] # NULL
      /\ \A j \in Int, k \in 1 .. N : At(s, N, j) = s[k] => j = k
  <2>1. ASSUME NEW j \in Int, NEW k \in 1 .. N, At(s, N, j) = s[k] PROVE j = k
    <3>1. j \in 1 .. N
      BY <1>2, <2>1 DEF At
    <3>. QED
      BY <1>3, <2>1, <3>1 DEF At
  <2>. QED
    BY <1>2, <2>1 DEF Linked, At
<1>6. ASSUME NEW k \in 1 .. N PROVE nx2[z[k]] = At(z, N, k + 1)
  <2>1. CASE k = c
    BY <1>1, <1>n, <1>a, <2>1
  <2>2. CASE k = c + 1
    <3>1. k + 1 = c + 2 /\ c + 2 \in Int /\ c + 2 # c /\ c + 2 # c + 1
      BY <2>2
    <3>2. nx2[z[k]] = At(s, N, c + 2)
      BY <1>1, <1>5, <1>n, <2>2
    <3>. QED
      BY <1>a, <3>1, <3>2
  <2>3. CASE k # c /\ k # c + 1
    <3>1. z[k] = s[k] /\ s[k] # l /\ s[k] # r /\ s[k] \in Node
      BY <1>1, <1>2, <1>3, <2>3, Zenon
    <3>2. CASE k = c - 1
      <4>1. s[k] = pv[l] /\ k + 1 = c
        BY <1>b, <3>2
      <4>. QED
        BY <1>a, <3>1, <4>1
    <3>3. CASE k # c - 1
      <4>1. s[k] # pv[l]
        BY <1>b, <3>3
      <4>2. k + 1 \in Int /\ k + 1 # c /\ k + 1 # c + 1
        BY <2>3, <3>3
      <4>. QED
        BY <1>a, <1>b, <3>1
    <3>. QED
      BY <3>2, <3>3
  <2>. QED
    BY <2>1, <2>2, <2>3
<1>7. ASSUME NEW k \in 1 .. N PROVE pv2[z[k]] = At(z, N, k - 1)
  <2>1. CASE k = c
    <3>1. c - 1 \in Int /\ c - 1 # c /\ c - 1 # c + 1
      OBVIOUS
    <3>. QED
      BY <1>1, <1>5, <1>p, <1>a, <2>1, <3>1
  <2>2. CASE k = c + 1
    <3>1. k - 1 = c
      BY <2>2
    <3>. QED
      BY <1>1, <1>p, <1>a, <2>2, <3>1
  <2>3. CASE k # c /\ k # c + 1
    <3>1. z[k] = s[k] /\ s[k] # l /\ s[k] # r /\ s[k] \in Node
      BY <1>1, <1>2, <1>3, <2>3, Zenon
    <3>2. CASE k = c + 2
      <4>1. s[k] = nx[r] /\ k - 1 = c + 1
        BY <1>5, <1>b, <3>2
      <4>. QED
        BY <1>a, <3>1, <4>1
    <3>3. CASE k # c + 2
      <4>1. s[k] # nx[r]
        BY <1>b, <3>3
      <4>2. k - 1 \in Int /\ k - 1 # c /\ k - 1 # c + 1
        BY <2>3, <3>3
      <4>. QED
        BY <1>a, <1>b, <3>1, <4>1
    <3>. QED
      BY <3>2, <3>3
  <2>. QED
    BY <2>1, <2>2, <2>3
<1>8. Linked(z, N, nx2, pv2)
  BY <1>6, <1>7 DEF Linked
<1>. QED
  BY <1>8 DEF z

\* The lines of the nodes are numbers.
Lines(ln, N) == \A a \in 1 .. N : ln[a] \in Nat

\* A swap of two lines out of order: the greater one is the greatest so far, one place on.
LEMMA SwappedOrder ==
  ASSUME NEW N \in Nat, NEW s, Perm(s, N), NEW ln, Lines(ln, N), NEW e \in 2 .. N + 1,
         NEW c \in 1 .. N, c + 1 \in 1 .. N, c + 1 < e,
         TailSorted(s, N, ln, e), PrefixMax(s, ln, c), ln[s[c]] > ln[s[c + 1]]
  PROVE  TailSorted(Swapped(s, c), N, ln, e) /\ PrefixMax(Swapped(s, c), ln, c + 1)
<1>. DEFINE z == Swapped(s, c)
<1>1. /\ z \in [1 .. N -> 1 .. N] /\ z[c] = s[c + 1] /\ z[c + 1] = s[c]
      /\ \A k \in 1 .. N : k # c /\ k # c + 1 => z[k] = s[k]
  BY SwappedAt
<1>. HIDE DEF z
<1>0. \A k \in 1 .. N : s[k] \in 1 .. N /\ ln[s[k]] \in Nat
  BY Zenon DEF Perm, Lines
<1>2. ASSUME NEW j \in 1 .. N, NEW k \in e .. N, j < k PROVE ln[z[j]] <= ln[z[k]]
  <2>1. k \in 1 .. N /\ k # c /\ k # c + 1 /\ c < k /\ c + 1 < k
    OBVIOUS
  <2>2. z[k] = s[k]
    BY <1>1, <2>1
  <2>3. ln[s[j]] <= ln[s[k]] /\ ln[s[c]] <= ln[s[k]] /\ ln[s[c + 1]] <= ln[s[k]]
    BY <1>2 DEF TailSorted
  <2>. QED
    BY <1>1, <2>2, <2>3, Zenon
<1>3. ASSUME NEW j \in 1 .. c + 1 PROVE ln[z[j]] <= ln[z[c + 1]]
  <2>1. CASE j = c + 1
    BY <1>0, <1>1, <2>1
  <2>2. CASE j = c
    <3>1. ln[s[c]] \in Nat /\ ln[s[c + 1]] \in Nat
      BY <1>0
    <3>2. ln[s[c + 1]] <= ln[s[c]]
      BY <3>1
    <3>. QED
      BY <1>1, <2>2, <3>2
  <2>3. CASE j \in 1 .. c /\ j # c
    <3>1. ln[s[j]] <= ln[s[c]]
      BY <2>3 DEF PrefixMax
    <3>2. j \in 1 .. N /\ j # c + 1
      BY <2>3
    <3>. QED
      BY <1>1, <2>3, <3>1, <3>2
  <2>. QED
    BY <2>1, <2>2, <2>3
<1>4. TailSorted(z, N, ln, e) /\ PrefixMax(z, ln, c + 1)
  BY <1>2, <1>3 DEF TailSorted, PrefixMax
<1>. QED
  BY <1>4 DEF z

\* Two lines in order: the next one is the greatest so far.
LEMMA AdvanceOrder ==
  ASSUME NEW N \in Nat, NEW s, Perm(s, N), NEW ln, Lines(ln, N), NEW c \in 1 .. N,
         c + 1 \in 1 .. N, PrefixMax(s, ln, c), ln[s[c]] <= ln[s[c + 1]]
  PROVE  PrefixMax(s, ln, c + 1) /\ (PrefixSorted(s, ln, c) => PrefixSorted(s, ln, c + 1))
<1>0. \A k \in 1 .. N : s[k] \in 1 .. N /\ ln[s[k]] \in Nat
  BY Zenon DEF Perm, Lines
<1>1. ASSUME NEW j \in 1 .. c + 1 PROVE ln[s[j]] <= ln[s[c + 1]]
  <2>1. CASE j = c + 1
    BY <1>0, <2>1
  <2>2. CASE j \in 1 .. c
    <3>1. ln[s[j]] <= ln[s[c]] /\ j \in 1 .. N
      BY <2>2 DEF PrefixMax
    <3>. QED
      BY <1>0, <3>1
  <2>. QED
    BY <2>1, <2>2
<1>2. ASSUME PrefixSorted(s, ln, c), NEW j \in 1 .. c + 1, NEW k \in 1 .. c + 1, j < k
      PROVE  ln[s[j]] <= ln[s[k]]
  <2>1. CASE k = c + 1
    BY <1>1, <2>1
  <2>2. CASE k # c + 1
    <3>1. j \in 1 .. c /\ k \in 1 .. c
      BY <1>2, <2>2
    <3>. QED
      BY <1>2, <3>1 DEF PrefixSorted
  <2>. QED
    BY <2>1, <2>2
<1>. QED
  BY <1>1 DEF PrefixMax, PrefixSorted

\* The pass has met `end': the sorted tail has one line more, or is the whole list.
LEMMA EndOrder ==
  ASSUME NEW N \in Nat, NEW s, Perm(s, N), NEW ln, Lines(ln, N), NEW c \in 1 .. N,
         TailSorted(s, N, ln, c + 1), PrefixMax(s, ln, c)
  PROVE  TailSorted(s, N, ln, c) /\ (PrefixSorted(s, ln, c) => TailSorted(s, N, ln, 1))
<1>1. ASSUME NEW j \in 1 .. N, NEW k \in c .. N, j < k PROVE ln[s[j]] <= ln[s[k]]
  <2>1. CASE k = c
    <3>1. j \in 1 .. c
      BY <1>1, <2>1
    <3>. QED
      BY <2>1, <3>1 DEF PrefixMax
  <2>2. CASE k # c
    <3>1. k \in c + 1 .. N
      BY <2>2
    <3>. QED
      BY <1>1, <3>1 DEF TailSorted
  <2>. QED
    BY <2>1, <2>2
<1>2. ASSUME PrefixSorted(s, ln, c), NEW j \in 1 .. N, NEW k \in 1 .. N, j < k
      PROVE  ln[s[j]] <= ln[s[k]]
  <2>1. CASE k \in 1 .. c
    <3>1. j \in 1 .. c
      BY <1>2, <2>1
    <3>. QED
      BY <1>2, <2>1 DEF PrefixSorted
  <2>2. CASE k \notin 1 .. c
    <3>1. k \in c + 1 .. N
      BY <2>2
    <3>. QED
      BY <1>2, <3>1 DEF TailSorted
  <2>. QED
    BY <2>1, <2>2
<1>. QED
  BY <1>1, <1>2 DEF TailSorted

-------------------------------------------------------------------------------
\* The steps of the sort, which the two programs with a mutex share.

\* The places of a chain and its nodes.
LEMMA ChainFacts ==
  ASSUME NEW N \in 0 .. MaxNodes, NEW s, Perm(s, N), NEW nx, NEW pv, Linked(s, N, nx, pv)
  PROVE  /\ N \in Nat
         /\ \A k \in 1 .. N : /\ s[k] \in 1 .. N /\ s[k] \in Node /\ s[k] # NULL
                              /\ At(s, N, k) = s[k]
                              /\ nx[s[k]] = At(s, N, k + 1) /\ pv[s[k]] = At(s, N, k - 1)
         /\ \A k \in Int : k \notin 1 .. N => At(s, N, k) = NULL
         /\ \A j, k \in 1 .. N + 1 : At(s, N, j) = At(s, N, k) => j = k
<1>0. N \in Nat /\ MaxNodes \in Nat
  BY ListAssumption
<1>1. \A a \in 1 .. N : a \in Node /\ a # NULL
  BY <1>0 DEF Node, NULL
<1>2. \A k \in 1 .. N : s[k] \in 1 .. N
  BY DEF Perm
<1>3. ASSUME NEW j \in 1 .. N + 1, NEW k \in 1 .. N + 1, At(s, N, j) = At(s, N, k) PROVE j = k
  <2>1. CASE j \in 1 .. N
    <3>1. k \in 1 .. N
      BY <1>1, <1>2, <1>3, <2>1 DEF At
    <3>. QED
      BY <1>3, <2>1, <3>1 DEF At, Perm
  <2>2. CASE j \notin 1 .. N
    <3>1. k \notin 1 .. N
      BY <1>1, <1>2, <1>3, <2>2 DEF At
    <3>. QED
      BY <2>2, <3>1
  <2>. QED
    BY <2>1, <2>2
<1>. QED
  BY <1>1, <1>2, <1>3 DEF At, Linked

\* Each step of a sort leaves one chain of all nodes, in which the sort is further on.
LEMMA SortStep ==
  ASSUME n \in 0 .. MaxNodes, n >= 1, NEW s, Perm(s, n), Linked(s, n, next, prev),
         Lines(line, n), list = At(s, n, 1), is_swapped \in BOOLEAN,
         InSort(s, n, line, sortpc, current, end, is_swapped),
         StartPass \/ CompareLines \/ EndPass("unlock")
  PROVE  /\ n' = n /\ line' = line /\ freed' = freed
         /\ \E z \in Order : /\ Perm(z, n) /\ Linked(z, n, next', prev') /\ list' = At(z, n, 1)
                             /\ InSort(z, n, line, sortpc', current', end', is_swapped')
<1>0. /\ n \in Nat
      /\ \A k \in 1 .. n : /\ s[k] \in 1 .. n /\ s[k] \in Node /\ s[k] # NULL
                           /\ At(s, n, k) = s[k]
                           /\ next[s[k]] = At(s, n, k + 1) /\ prev[s[k]] = At(s, n, k - 1)
      /\ \A j, k \in 1 .. n + 1 : At(s, n, j) = At(s, n, k) => j = k
  BY ChainFacts
<1>1. s \in Order /\ 1 \in 1 .. n /\ list = s[1]
  <2>1. 1 \in 1 .. n
    OBVIOUS
  <2>. QED
    BY <1>0, <2>1, Zenon DEF Perm, Order
<1>2. CASE StartPass
  <2>1. /\ sortpc = "pass" /\ sortpc' = "compare" /\ is_swapped' = FALSE /\ current' = s[1]
        /\ UNCHANGED <<freed, n, list, next, prev, line, end>>
    BY <1>1, <1>2 DEF StartPass, GotoSort, listVars
  <2>2. PICK e \in 2 .. n + 1 : end = At(s, n, e) /\ TailSorted(s, n, line, e)
    BY <2>1 DEF InSort
  <2>3. PrefixMax(s, line, 1) /\ PrefixSorted(s, line, 1)
    BY <1>0 DEF PrefixMax, PrefixSorted, Lines
  <2>4. 1 < e
    OBVIOUS
  <2>5. InSort(s, n, line, sortpc', current', end', is_swapped')
    BY <2>1, <2>3 DEF InSort
  <2>. QED
    BY <1>1, <2>1, <2>5
<1>3. ASSUME sortpc = "compare"
      PROVE  \E e \in 2 .. n + 1, c \in 1 .. n :
               /\ c < e /\ end = At(s, n, e) /\ current = s[c] /\ next[current] = At(s, n, c + 1)
               /\ next[current] = end <=> c + 1 = e
               /\ TailSorted(s, n, line, e) /\ PrefixMax(s, line, c)
               /\ IF is_swapped THEN c >= 2 ELSE PrefixSorted(s, line, c)
  <2>1. PICK e \in 2 .. n + 1, c \in 1 .. n :
           /\ c < e /\ end = At(s, n, e) /\ current = s[c]
           /\ TailSorted(s, n, line, e) /\ PrefixMax(s, line, c)
           /\ IF is_swapped THEN c >= 2 ELSE PrefixSorted(s, line, c)
    BY <1>3 DEF InSort
  <2>2. next[current] = At(s, n, c + 1)
    BY <1>0, <2>1
  <2>3. next[current] = end <=> c + 1 = e
    <3>1. c + 1 \in 1 .. n + 1 /\ e \in 1 .. n + 1
      OBVIOUS
    <3>. QED
      BY <1>0, <2>1
  <2>. QED
    BY <2>1, <2>2, <2>3
<1>4. CASE EndPass("unlock")
  <2>1. /\ sortpc = "compare" /\ next[current] = end /\ end' = current
        /\ sortpc' = IF is_swapped THEN "pass" ELSE "unlock"
        /\ UNCHANGED <<freed, n, list, next, prev, line, current, is_swapped>>
    BY <1>4 DEF EndPass, listVars
  <2>2. PICK e \in 2 .. n + 1, c \in 1 .. n :
               /\ c < e /\ end = At(s, n, e) /\ current = s[c] /\ next[current] = At(s, n, c + 1)
               /\ next[current] = end <=> c + 1 = e
               /\ TailSorted(s, n, line, e) /\ PrefixMax(s, line, c)
               /\ IF is_swapped THEN c >= 2 ELSE PrefixSorted(s, line, c)
    BY <1>3, <2>1
  <2>3. TailSorted(s, n, line, c) /\ (PrefixSorted(s, line, c) => TailSorted(s, n, line, 1))
    <3>1. TailSorted(s, n, line, c + 1)
      BY <2>1, <2>2
    <3>. QED
      BY <2>2, <3>1, EndOrder
  <2>4. end' = At(s, n, c)
    BY <1>0, <2>1, <2>2
  <2>5. is_swapped => c \in 2 .. n + 1
    BY <2>2
  <2>6. InSort(s, n, line, sortpc', current', end', is_swapped')
    BY <2>1, <2>2, <2>3, <2>4 DEF InSort
  <2>. QED
    BY <1>1, <2>1, <2>6
<1>5. CASE CompareLines
  <2>1. /\ sortpc = "compare" /\ sortpc' = "compare" /\ next[current] # end
        /\ UNCHANGED <<freed, n, line, end>>
    BY <1>5 DEF CompareLines
  <2>2. PICK e \in 2 .. n + 1, c \in 1 .. n :
               /\ c < e /\ end = At(s, n, e) /\ current = s[c] /\ next[current] = At(s, n, c + 1)
               /\ next[current] = end <=> c + 1 = e
               /\ TailSorted(s, n, line, e) /\ PrefixMax(s, line, c)
               /\ IF is_swapped THEN c >= 2 ELSE PrefixSorted(s, line, c)
    BY <1>3, <2>1
  <2>3. c + 1 \in 1 .. n /\ c + 1 < e
    BY <2>1, <2>2
  <2>4. next[current] = s[c + 1]
    BY <1>0, <2>2, <2>3
  <2>5. CASE /\ line[current] <= line[next[current]] /\ current' = next[current]
             /\ UNCHANGED <<list, next, prev, is_swapped>>
    <3>1. PrefixMax(s, line, c + 1) /\ (PrefixSorted(s, line, c) => PrefixSorted(s, line, c + 1))
      BY <2>2, <2>3, <2>4, <2>5, AdvanceOrder
    <3>2. c >= 2 => c + 1 >= 2
      OBVIOUS
    <3>3. InSort(s, n, line, sortpc', current', end', is_swapped')
      BY <2>1, <2>2, <2>3, <2>4, <2>5, <3>1 DEF InSort
    <3>. QED
      BY <1>1, <2>1, <2>5, <3>3
  <2>6. CASE /\ line[current] > line[next[current]]
             /\ list' = IF current = list THEN next[current] ELSE list
             /\ swap(current, next[current])
             /\ is_swapped' = TRUE /\ UNCHANGED current
    <3>. DEFINE z == Swapped(s, c)
    <3>1. /\ z \in [1 .. n -> 1 .. n] /\ z[c] = s[c + 1] /\ z[c + 1] = s[c]
          /\ \A k \in 1 .. n : k # c /\ k # c + 1 => z[k] = s[k]
      BY <2>3, SwappedAt
    <3>2. Perm(z, n)
      BY <2>3, SwappedPerm
    <3>3. Linked(z, n, next', prev')
      BY <2>2, <2>3, <2>4, <2>6, SwappedLinked DEF swap
    <3>4. TailSorted(z, n, line, e) /\ PrefixMax(z, line, c + 1)
      BY <2>2, <2>3, <2>4, <2>6, SwappedOrder
    <3>. HIDE DEF z
    <3>5. list' = At(z, n, 1)
      <4>1. CASE c = 1
        BY <2>2, <2>4, <2>6, <3>1, <4>1 DEF At
      <4>2. CASE c # 1
        <5>1. current # list /\ z[1] = s[1]
          BY <1>0, <2>2, <3>1, <4>2 DEF Perm
        <5>. QED
          BY <2>6, <5>1 DEF At
      <4>. QED
        BY <4>1, <4>2
    <3>6. end' = At(z, n, e) /\ current' = z[c + 1] /\ c + 1 >= 2
      <4>1. e # c /\ e # c + 1
        BY <2>3
      <4>2. At(z, n, e) = At(s, n, e)
        BY <3>1, <4>1 DEF At
      <4>3. c + 1 >= 2
        OBVIOUS
      <4>. QED
        BY <2>1, <2>2, <2>6, <3>1, <4>2
    <3>7. InSort(z, n, line, sortpc', current', end', is_swapped')
      BY <2>1, <2>3, <2>6, <3>4, <3>6 DEF InSort
    <3>8. z \in Order
      BY <3>1 DEF Order
    <3>. QED
      BY <2>1, <3>2, <3>3, <3>5, <3>7, <3>8
  <2>. QED
    BY <1>5, <2>5, <2>6, Zenon DEF CompareLines
<1>. QED
  BY <1>2, <1>4, <1>5

\* The links and the variables of the sort keep their types.
LEMMA SortTypes ==
  ASSUME n \in 0 .. MaxNodes, NEW s, Perm(s, n), Linked(s, n, next, prev), Fresh,
         InSort(s, n, line, sortpc, current, end, is_swapped), list = At(s, n, 1), n >= 1,
         list \in Ptr, next \in [Node -> Ptr], prev \in [Node -> Ptr],
         current \in Ptr, end \in Ptr, is_swapped \in BOOLEAN,
         StartPass \/ CompareLines \/ EndPass("unlock")
  PROVE  /\ list' \in Ptr /\ next' \in [Node -> Ptr] /\ prev' \in [Node -> Ptr]
         /\ current' \in Ptr /\ end' \in Ptr /\ is_swapped' \in BOOLEAN /\ Fresh'
<1>0. /\ n \in Nat
      /\ \A k \in 1 .. n : /\ s[k] \in 1 .. n /\ s[k] \in Node
                           /\ next[s[k]] = At(s, n, k + 1) /\ prev[s[k]] = At(s, n, k - 1)
  BY ChainFacts
<1>1. CASE StartPass \/ EndPass("unlock")
  BY <1>1, Zenon DEF StartPass, EndPass, listVars, Fresh
<1>2. CASE CompareLines
  <2>1. PICK e \in 2 .. n + 1, c \in 1 .. n : c < e /\ end = At(s, n, e) /\ current = s[c]
    BY <1>2 DEF CompareLines, InSort
  <2>2. current \in Node /\ current \in 1 .. n /\ next[current] = At(s, n, c + 1) /\ prev[current] = At(s, n, c - 1)
    BY <1>0, <2>1
  <2>3. \A k \in Int : At(s, n, k) \in 1 .. n \/ At(s, n, k) = NULL
    BY <1>0 DEF At
  <2>4. CASE UNCHANGED <<list, next, prev, is_swapped>> /\ current' = next[current]
    BY <1>2, <2>2, <2>4 DEF CompareLines, Fresh
  <2>5. CASE /\ list' = IF current = list THEN next[current] ELSE list
             /\ swap(current, next[current]) /\ is_swapped' = TRUE /\ UNCHANGED current
    <3>1. n' = n /\ end' = end
      BY <1>2 DEF CompareLines
    <3>2. next[current] \in 1 .. n /\ next[current] \in Node
      <4>1. c + 1 # e
        BY <1>2, <2>1, <2>2 DEF CompareLines
      <4>2. c + 1 \in 1 .. n
        BY <2>1, <4>1
      <4>. QED
        BY <1>0, <2>2, <4>2 DEF At
    <3>3. next' \in [Node -> Ptr] /\ prev' \in [Node -> Ptr]
      BY <2>2, <2>5, <3>2 DEF swap, Ptr
    <3>4. ASSUME NEW a \in Node, a > n PROVE next'[a] = NULL /\ prev'[a] = NULL
      <4>1. next[next[current]] \in 1 .. n \/ next[next[current]] = NULL
        <5>1. PICK k \in 1 .. n : next[current] = s[k]
          BY <3>2, Zenon DEF Perm
        <5>. QED
          BY <1>0, <2>3, <5>1
      <4>2. a \notin 1 .. n /\ a # NULL
        BY <3>4 DEF Node, NULL
      <4>3. a # current /\ a # next[current] /\ a # prev[current] /\ a # next[next[current]]
        BY <2>2, <2>3, <4>1, <4>2
      <4>. QED
        BY <2>5, <3>4, <4>3 DEF swap, Fresh
    <3>5. Fresh'
      BY <3>1, <3>4 DEF Fresh
    <3>6. list' \in Ptr
      BY <2>5, <3>2 DEF Ptr
    <3>. QED
      BY <2>5, <3>1, <3>3, <3>5, <3>6
  <2>. QED
    BY <1>2, <2>4, <2>5, Zenon DEF CompareLines
<1>. QED
  BY <1>1, <1>2

\* Two nodes are what the sorter waits for, and what the sort starts with.
LEMMA TwoNodes ==
  ASSUME n \in 0 .. MaxNodes, NEW s, Perm(s, n), Linked(s, n, next, prev), list = At(s, n, 1),
         list # NULL, next[list] # NULL
  PROVE  n >= 2
<1>0. /\ n \in Nat /\ \A k \in Int : k \notin 1 .. n => At(s, n, k) = NULL
      /\ \A k \in 1 .. n : At(s, n, k) = s[k] /\ next[s[k]] = At(s, n, k + 1)
  BY ChainFacts
<1>1. 1 \in 1 .. n
  BY <1>0
<1>2. 1 + 1 \in 1 .. n
  BY <1>0
<1>. QED
  BY <1>2

\* A sort begins with a pass over the whole list.
LEMMA SortStart ==
  ASSUME n \in 0 .. MaxNodes, n >= 2, NEW s
  PROVE  InSort(s, n, line, "pass", current, NULL, is_swapped)
<1>1. n \in Nat /\ n + 1 \in 2 .. n + 1 /\ n + 1 \notin 1 .. n /\ n + 1 .. n = {}
  OBVIOUS
<1>2. NULL = At(s, n, n + 1) /\ TailSorted(s, n, line, n + 1)
  BY DEF At, TailSorted
<1>. QED
  BY <1>2 DEF InSort

-------------------------------------------------------------------------------
\* A node more, at the head or at the tail.

Pushed(s, N) == [k \in 1 .. N + 1 |-> IF k = 1 THEN N + 1 ELSE s[k - 1]]
Extended(s, N) == [k \in 1 .. N + 1 |-> IF k = N + 1 THEN N + 1 ELSE s[k]]

\* add_to_head puts the new node before the chain.
LEMMA PushedChain ==
  ASSUME NEW N \in 0 .. MaxNodes, N < MaxNodes, NEW s, Perm(s, N),
         NEW nx \in [Node -> Ptr], NEW pv \in [Node -> Ptr], Linked(s, N, nx, pv), pv[N + 1] = NULL,
         NEW nx2, NEW pv2, nx2 = [nx EXCEPT ![N + 1] = At(s, N, 1)],
         pv2 = IF At(s, N, 1) = NULL THEN pv ELSE [pv EXCEPT ![At(s, N, 1)] = N + 1]
  PROVE  Perm(Pushed(s, N), N + 1) /\ Linked(Pushed(s, N), N + 1, nx2, pv2)
<1>. DEFINE z == Pushed(s, N)
<1>0. N \in Nat /\ MaxNodes \in Nat /\ N + 1 \in Node /\ N + 1 # NULL
  BY ListAssumption DEF Node, NULL
<1>1. \A k \in 1 .. N : /\ s[k] \in 1 .. N /\ s[k] \in Node /\ s[k] # NULL /\ s[k] # N + 1
                        /\ At(s, N, k) = s[k]
                        /\ nx[s[k]] = At(s, N, k + 1) /\ pv[s[k]] = At(s, N, k - 1)
  <2>1. \A a \in 1 .. N : a # N + 1
    OBVIOUS
  <2>. QED
    BY ChainFacts
<1>2. z \in [1 .. N + 1 -> 1 .. N + 1] /\ z[1] = N + 1 /\ \A k \in 1 .. N : z[k + 1] = s[k]
  <2>1. ASSUME NEW k \in 1 .. N + 1 PROVE (IF k = 1 THEN N + 1 ELSE s[k - 1]) \in 1 .. N + 1
    <3>1. CASE k = 1
      BY <3>1
    <3>2. CASE k # 1
      <4>1. k - 1 \in 1 .. N
        BY <3>2
      <4>2. s[k - 1] \in 1 .. N
        BY <1>1, <4>1
      <4>. QED
        BY <4>2
    <3>. QED
      BY <3>2
  <2>2. 1 \in 1 .. N + 1 /\ \A k \in 1 .. N : k + 1 \in 1 .. N + 1 /\ k + 1 # 1 /\ (k + 1) - 1 = k
    OBVIOUS
  <2>. QED
    BY <2>1 DEF Pushed
<1>. HIDE DEF z
<1>3. \A k \in 1 .. N + 1 : k = 1 \/ \E j \in 1 .. N : k = j + 1
  <2>1. \A k \in 1 .. N + 1 : k # 1 => k - 1 \in 1 .. N /\ k = (k - 1) + 1
    OBVIOUS
  <2>. QED
    OBVIOUS
<1>4. Perm(z, N + 1)
  <2>1. ASSUME NEW j \in 1 .. N + 1, NEW k \in 1 .. N + 1, z[j] = z[k] PROVE j = k
    <3>0. ASSUME NEW i \in 1 .. N + 1, i # 1 PROVE z[i] # N + 1
      <4>1. PICK o \in 1 .. N : i = o + 1
        BY <3>0
      <4>2. z[i] = s[o] /\ s[o] # N + 1
        BY <1>1, <1>2, <4>1
      <4>. QED
        BY <4>2
    <3>1. CASE j = 1
      BY <1>2, <2>1, <3>0, <3>1
    <3>2. CASE k = 1
      BY <1>2, <2>1, <3>0, <3>2
    <3>3. CASE j # 1 /\ k # 1
      <4>1. PICK i, o \in 1 .. N : j = i + 1 /\ k = o + 1
        BY <3>3
      <4>2. s[i] = s[o]
        BY <1>2, <2>1, <4>1
      <4>3. i = o
        BY <4>2 DEF Perm
      <4>. QED
        BY <4>1, <4>3
    <3>. QED
      BY <3>1, <3>2, <3>3
  <2>2. ASSUME NEW a \in 1 .. N + 1 PROVE \E k \in 1 .. N + 1 : z[k] = a
    <3>1. CASE a = N + 1
      BY <1>2, <3>1
    <3>2. CASE a # N + 1
      <4>0. a \in 1 .. N
        BY <3>2
      <4>1. PICK k \in 1 .. N : s[k] = a
        BY <4>0 DEF Perm
      <4>2. k + 1 \in 1 .. N + 1
        OBVIOUS
      <4>. QED
        BY <1>2, <4>1, <4>2, Zenon
    <3>. QED
      BY <3>1, <3>2
  <2>. QED
    BY <1>2, <2>1, <2>2, Zenon DEF Perm
<1>5. /\ \A j \in 0 .. N + 1 : At(z, N + 1, j + 1) = IF j = 0 THEN N + 1 ELSE At(s, N, j)
      /\ At(z, N + 1, 0) = NULL
  <2>1. At(z, N + 1, 0) = NULL /\ At(z, N + 1, 1) = N + 1
    BY <1>2 DEF At
  <2>2. ASSUME NEW j \in 1 .. N PROVE At(z, N + 1, j + 1) = At(s, N, j)
    BY <1>2 DEF At
  <2>3. At(z, N + 1, (N + 1) + 1) = NULL /\ At(s, N, N + 1) = NULL
    BY DEF At
  <2>4. \A j \in 0 .. N + 1 : j = 0 \/ j \in 1 .. N \/ j = N + 1
    OBVIOUS
  <2>. QED
    BY <2>1, <2>2, <2>3
<1>6. ASSUME NEW k \in 1 .. N + 1
      PROVE  nx2[z[k]] = At(z, N + 1, k + 1) /\ pv2[z[k]] = At(z, N + 1, k - 1)
  <2>1. CASE k = 1
    <3>1. nx2[z[k]] = At(s, N, 1)
      BY <1>0, <1>2, <2>1
    <3>2. At(z, N + 1, 1 + 1) = At(s, N, 1) /\ k + 1 = 1 + 1 /\ k - 1 = 0
      BY <1>5, <2>1
    <3>3. pv2[z[k]] = NULL
      <4>1. At(s, N, 1) # N + 1
        BY <1>0, <1>1 DEF At
      <4>. QED
        BY <1>2, <2>1, <4>1
    <3>. QED
      BY <1>5, <3>1, <3>2, <3>3
  <2>2. ASSUME NEW j \in 1 .. N, k = j + 1
        PROVE  nx2[z[k]] = At(z, N + 1, k + 1) /\ pv2[z[k]] = At(z, N + 1, k - 1)
    <3>1. z[k] = s[j] /\ nx2[z[k]] = At(s, N, j + 1) 
      BY <1>0, <1>1, <1>2, <2>2, Zenon
    <3>0. j + 1 \in 0 .. N + 1 /\ j + 1 # 0
      OBVIOUS
    <3>2. nx2[z[k]] = At(z, N + 1, k + 1)
      BY <1>5, <2>2, <3>1
    <3>3. CASE j = 1
      <4>1. pv2[z[k]] = N + 1 /\ k - 1 = 1
        BY <1>1, <2>2, <3>1, <3>3
      <4>2. At(z, N + 1, 1) = N + 1
        BY <1>2 DEF At
      <4>. QED
        BY <3>2, <4>1, <4>2
    <3>4. CASE j # 1
      <4>1. j - 1 \in 0 .. N + 1 /\ j - 1 # 0 /\ (j - 1) + 1 = k - 1 /\ 1 \in 1 .. N
        BY <2>2, <3>4
      <4>2. At(s, N, 1) = s[1] /\ s[1] # s[j]
        BY <1>1, <4>1 DEF Perm
      <4>3. pv2[z[k]] = At(s, N, j - 1)
        BY <1>1, <3>1, <4>2
      <4>. QED
        BY <1>5, <3>2, <4>1, <4>3
    <3>. QED
      BY <3>3, <3>4
  <2>. QED
    BY <2>1, <2>2
<1>7. Linked(z, N + 1, nx2, pv2)
  BY <1>6 DEF Linked
<1>. QED
  BY <1>4, <1>7 DEF z

\* add_to_tail puts the new node behind the chain.
LEMMA ExtendedChain ==
  ASSUME NEW N \in 0 .. MaxNodes, N < MaxNodes, N >= 1, NEW s, Perm(s, N),
         NEW nx \in [Node -> Ptr], NEW pv \in [Node -> Ptr], Linked(s, N, nx, pv),
         nx[N + 1] = NULL, NEW nx2, NEW pv2,
         nx2 = [nx EXCEPT ![s[N]] = N + 1], pv2 = [pv EXCEPT ![N + 1] = s[N]]
  PROVE  Perm(Extended(s, N), N + 1) /\ Linked(Extended(s, N), N + 1, nx2, pv2)
<1>. DEFINE z == Extended(s, N)
<1>0. N \in Nat /\ MaxNodes \in Nat /\ N + 1 \in Node /\ N + 1 # NULL /\ N \in 1 .. N
  BY ListAssumption DEF Node, NULL
<1>1. \A k \in 1 .. N : /\ s[k] \in 1 .. N /\ s[k] \in Node /\ s[k] # NULL /\ s[k] # N + 1
                        /\ At(s, N, k) = s[k]
                        /\ nx[s[k]] = At(s, N, k + 1) /\ pv[s[k]] = At(s, N, k - 1)
  <2>1. \A a \in 1 .. N : a # N + 1
    OBVIOUS
  <2>. QED
    BY ChainFacts
<1>2. z \in [1 .. N + 1 -> 1 .. N + 1] /\ z[N + 1] = N + 1 /\ \A k \in 1 .. N : z[k] = s[k]
  <2>1. ASSUME NEW k \in 1 .. N + 1 PROVE (IF k = N + 1 THEN N + 1 ELSE s[k]) \in 1 .. N + 1
    <3>1. CASE k = N + 1
      BY <3>1
    <3>2. CASE k # N + 1
      <4>1. s[k] \in 1 .. N
        BY <1>1, <3>2
      <4>. QED
        BY <4>1
    <3>. QED
      BY <3>2
  <2>2. N + 1 \in 1 .. N + 1 /\ \A k \in 1 .. N : k \in 1 .. N + 1 /\ k # N + 1
    OBVIOUS
  <2>. QED
    BY <2>1 DEF Extended
<1>. HIDE DEF z
<1>3. \A k \in 1 .. N + 1 : k = N + 1 \/ k \in 1 .. N
  OBVIOUS
<1>4. Perm(z, N + 1)
  <2>1. ASSUME NEW j \in 1 .. N + 1, NEW k \in 1 .. N + 1, z[j] = z[k] PROVE j = k
    <3>1. CASE j = N + 1
      BY <1>1, <1>2, <2>1, <3>1
    <3>2. CASE k = N + 1
      BY <1>1, <1>2, <2>1, <3>2
    <3>3. CASE j \in 1 .. N /\ k \in 1 .. N
      <4>1. s[j] = s[k]
        BY <1>2, <2>1, <3>3
      <4>. QED
        BY <3>3, <4>1 DEF Perm
    <3>. QED
      BY <3>1, <3>2, <3>3
  <2>2. ASSUME NEW a \in 1 .. N + 1 PROVE \E k \in 1 .. N + 1 : z[k] = a
    <3>1. CASE a = N + 1
      BY <1>2, <3>1
    <3>2. CASE a # N + 1
      <4>1. PICK k \in 1 .. N : s[k] = a
        BY <3>2 DEF Perm
      <4>2. k \in 1 .. N + 1
        OBVIOUS
      <4>. QED
        BY <1>2, <4>1
    <3>. QED
      BY <3>1, <3>2
  <2>. QED
    BY <1>2, <2>1, <2>2, Zenon DEF Perm
<1>5. /\ \A j \in 0 .. N : At(z, N + 1, j) = At(s, N, j)
      /\ At(z, N + 1, N + 1) = N + 1 /\ At(z, N + 1, (N + 1) + 1) = NULL
  <2>1. ASSUME NEW j \in 0 .. N PROVE At(z, N + 1, j) = At(s, N, j)
    <3>1. j \in 1 .. N + 1 <=> j \in 1 .. N
      OBVIOUS
    <3>. QED
      BY <1>2 DEF At
  <2>2. N + 1 \in 1 .. N + 1 /\ (N + 1) + 1 \notin 1 .. N + 1
    OBVIOUS
  <2>. QED
    BY <1>2, <2>2 DEF At
<1>6. ASSUME NEW k \in 1 .. N + 1
      PROVE  nx2[z[k]] = At(z, N + 1, k + 1) /\ pv2[z[k]] = At(z, N + 1, k - 1)
  <2>1. CASE k = N + 1
    <3>1. nx2[z[k]] = NULL /\ pv2[z[k]] = s[N]
      BY <1>0, <1>1, <1>2, <2>1
    <3>2. k - 1 = N /\ N \in 0 .. N
      BY <2>1
    <3>. QED
      BY <1>1, <1>5, <2>1, <3>1
  <2>2. CASE k = N
    <3>1. z[k] = s[N] /\ nx2[z[k]] = N + 1 /\ pv2[z[k]] = At(s, N, N - 1)
      BY <1>0, <1>1, <1>2, <2>2, Zenon
    <3>2. N - 1 \in 0 .. N
      OBVIOUS
    <3>. QED
      BY <1>5, <2>2, <3>1, <3>2
  <2>3. CASE k # N + 1 /\ k # N
    <3>1. k \in 1 .. N /\ k + 1 \in 0 .. N /\ k - 1 \in 0 .. N
      BY <2>3
    <3>2. s[k] # s[N]
      BY <3>1 DEF Perm
    <3>3. z[k] = s[k] /\ nx2[z[k]] = At(s, N, k + 1) /\ pv2[z[k]] = At(s, N, k - 1)
      BY <1>0, <1>1, <1>2, <3>1, <3>2, Zenon
    <3>. QED
      BY <1>5, <3>1, <3>3
  <2>. QED
    BY <2>1, <2>2, <2>3
<1>7. Linked(z, N + 1, nx2, pv2)
  BY <1>6 DEF Linked
<1>. QED
  BY <1>4, <1>7 DEF z

\* The empty list is the chain of no nodes.
LEMMA EmptyChain ==
  /\ Perm([k \in 1 .. 0 |-> k], 0) /\ \A nx, pv : Linked([k \in 1 .. 0 |-> k], 0, nx, pv)
  /\ \A k \in Int : At([j \in 1 .. 0 |-> j], 0, k) = NULL
  BY DEF Perm, Linked, At

-------------------------------------------------------------------------------
\* What the runs check of the list follows.

\* Links in the order of s, from list, are one chain.
LEMMA ChainIsOne ==
  ASSUME n \in 0 .. MaxNodes, NEW s \in Order, Perm(s, n), Linked(s, n, next, prev), list = At(s, n, 1)
  PROVE  OneChain
<1>0. /\ n \in Nat /\ \A k \in Int : k \notin 1 .. n => At(s, n, k) = NULL
      /\ \A k \in 1 .. n : /\ s[k] \in 1 .. n /\ At(s, n, k) = s[k]
                           /\ next[s[k]] = At(s, n, k + 1) /\ prev[s[k]] = At(s, n, k - 1)
  BY ChainFacts
<1>1. CASE n = 0
  BY <1>0, <1>1 DEF OneChain
<1>2. CASE n > 0
  <2>1. 1 \in 1 .. n /\ n \in 1 .. n /\ n + 1 \notin 1 .. n /\ 1 - 1 \notin 1 .. n
    BY <1>2
  <2>2. list = s[1] /\ prev[s[1]] = NULL /\ next[s[n]] = NULL
    BY <1>0, <2>1
  <2>3. ASSUME NEW k \in 1 .. n - 1 PROVE next[s[k]] = s[k + 1] /\ prev[s[k + 1]] = s[k]
    <3>1. k \in 1 .. n /\ k + 1 \in 1 .. n /\ (k + 1) - 1 = k
      OBVIOUS
    <3>. QED
      BY <1>0
  <2>4. {s[k] : k \in 1 .. n} = Allocated
    BY DEF Perm, Allocated
  <2>5. IsChain(s)
    BY <2>2, <2>3, <2>4 DEF IsChain
  <2>. QED
    BY <1>2, <2>5 DEF OneChain, Order, Allocated
<1>. QED
  BY <1>1, <1>2

\* While nothing has been freed the inner loop is inside the list.
LEMMA SortIsInside ==
  ASSUME n \in 0 .. MaxNodes, NEW s, Perm(s, n), Linked(s, n, next, prev), freed = {},
         InSort(s, n, line, sortpc, current, end, is_swapped)
  PROVE  InnerLoopInside
<1>0. /\ n \in Nat
      /\ \A k \in 1 .. n : s[k] # NULL /\ At(s, n, k) = s[k] /\ next[s[k]] = At(s, n, k + 1)
  BY ChainFacts
<1>. SUFFICES ASSUME sortpc = "compare"
              PROVE  current # NULL /\ (next[current] # end => next[current] # NULL)
  BY DEF InnerLoopInside
<1>1. PICK e \in 2 .. n + 1, c \in 1 .. n : c < e /\ end = At(s, n, e) /\ current = s[c]
  BY DEF InSort
<1>2. next[current] = At(s, n, c + 1)
  BY <1>0, <1>1
<1>3. c + 1 = e \/ c + 1 \in 1 .. n
  BY <1>1
<1>. QED
  BY <1>0, <1>1, <1>3

\* A sort that is through has left neighbours in order.
LEMMA SortIsDone ==
  ASSUME n \in 0 .. MaxNodes, NEW s, Perm(s, n), Linked(s, n, next, prev),
         InSort(s, n, line, sortpc, current, end, is_swapped), sortpc = "unlock"
  PROVE  Sorted
<1>0. /\ n \in Nat /\ \A k \in Int : k \notin 1 .. n => At(s, n, k) = NULL
      /\ \A k \in 1 .. n : At(s, n, k) = s[k] /\ next[s[k]] = At(s, n, k + 1)
  BY ChainFacts
<1>1. ASSUME NEW a \in Allocated, next[a] # NULL PROVE line[a] <= line[next[a]]
  <2>1. PICK k \in 1 .. n : s[k] = a
    BY DEF Perm, Allocated
  <2>2. next[a] = At(s, n, k + 1) /\ k + 1 \in 1 .. n
    BY <1>0, <1>1, <2>1
  <2>3. k < k + 1
    OBVIOUS
  <2>. QED
    BY <1>0, <2>1, <2>2, <2>3 DEF InSort, TailSorted
<1>. QED
  BY <1>1 DEF Sorted

\* The program with one mutex: whoever works on the list has it, the sorter has seen two
\* nodes, and main frees them when the sorter is done; list is then at place p.
MutexGuards ==
  /\ m = "sort" <=> sortpc \in {"pass", "compare", "unlock"}
  /\ m = "main" <=> mainpc \in {"work", "unlock"}
  /\ sortpc \in {"lock", "pass", "compare", "unlock"} => n >= 2
  /\ mainpc \in {"free", "exit"} => sortpc = "done"

MutexList ==
  \E s \in Order :
    /\ Perm(s, n) /\ Linked(s, n, next, prev)
    /\ InSort(s, n, line, sortpc, current, end, is_swapped)
    /\ \E p \in 1 .. n + 1 :
         /\ list = At(s, n, p) /\ freed = {s[k] : k \in 1 .. p - 1}
         /\ mainpc \notin {"free", "exit"} => p = 1
         /\ mainpc = "exit" => p = n + 1

MutexInv == TypeOK /\ MutexGuards /\ Fresh /\ MutexList

\* The list starts empty, with nothing to free.
LEMMA InitMutexInv == Init => MutexInv
<1>. SUFFICES ASSUME Init PROVE MutexInv
  OBVIOUS
<1>0. MaxNodes \in Nat /\ MaxLine \in Nat
  BY ListAssumption
<1>1. TypeOK /\ MutexGuards /\ Fresh
  <2>1. NULL \in Ptr /\ 0 \in 0 .. MaxNodes /\ 0 \in 0 .. MaxLine
    BY <1>0 DEF Ptr, NULL
  <2>2. TypeOK
    BY <2>1, Zenon DEF Init, NodesInit, TypeOK
  <2>3. MutexGuards /\ Fresh
    BY DEF Init, NodesInit, MutexGuards, Fresh
  <2>. QED
    BY <2>2, <2>3
<1>2. MutexList
  <2>. DEFINE s == [k \in 1 .. 0 |-> k]
  <2>1. n = 0 /\ list = NULL /\ freed = {} /\ sortpc = "test" /\ mainpc = "read"
    BY DEF Init, NodesInit
  <2>2. Perm(s, n) /\ Linked(s, n, next, prev) /\ At(s, n, 1) = NULL
    BY <2>1, EmptyChain
  <2>3. InSort(s, n, line, sortpc, current, end, is_swapped)
    BY <2>1 DEF InSort
  <2>4. s \in Order
    BY <2>1 DEF Order
  <2>. HIDE DEF s
  <2>5. 1 \in 1 .. n + 1 /\ {s[k] : k \in 1 .. 1 - 1} = {}
    BY <2>1
  <2>. QED
    BY <2>1, <2>2, <2>3, <2>4 DEF MutexList
<1>. QED
  BY <1>1, <1>2 DEF MutexInv

\* A step that leaves the list and the sort's variables as they are.
LEMMA MutexQuietStep ==
  ASSUME MutexInv, UNCHANGED <<freed, listVars, sortVars>>,
         sortpc' = sortpc \/ sortpc' \in {"test", "check", "lock", "done"},
         mainpc' = mainpc \/ (mainpc \notin {"free", "exit"} /\ mainpc' # "exit")
  PROVE  Fresh' /\ MutexList'
<1>1. /\ n' = n /\ list' = list /\ next' = next /\ prev' = prev /\ line' = line /\ freed' = freed
      /\ current' = current /\ end' = end /\ is_swapped' = is_swapped
  BY DEF listVars, sortVars
<1>2. Fresh'
  BY <1>1 DEF MutexInv, Fresh
<1>3. PICK s \in Order :
        /\ Perm(s, n) /\ Linked(s, n, next, prev)
        /\ InSort(s, n, line, sortpc, current, end, is_swapped)
        /\ \E p \in 1 .. n + 1 :
             /\ list = At(s, n, p) /\ freed = {s[k] : k \in 1 .. p - 1}
             /\ mainpc \notin {"free", "exit"} => p = 1
             /\ mainpc = "exit" => p = n + 1
  BY DEF MutexInv, MutexList
<1>4. InSort(s, n, line, sortpc', current, end, is_swapped)
  BY <1>3 DEF InSort
<1>5. s \in Order'
  BY <1>1 DEF Order
<1>. QED
  BY <1>1, <1>2, <1>3, <1>4, <1>5 DEF MutexList

\* The steps that touch the list: main adds a node ...
LEMMA MutexAddStep ==
  ASSUME MutexInv, add_to_head
  PROVE  MutexInv'
<1>0. /\ n \in 0 .. MaxNodes /\ n < MaxNodes /\ n \in Nat /\ MaxNodes \in Nat /\ n' = n + 1
      /\ n + 1 \in Node /\ n + 1 # NULL
  BY ListAssumption DEF MutexInv, TypeOK, add_to_head, new_node, Node, NULL
<1>1. /\ mainpc = "work" /\ mainpc' = "unlock" /\ list' = n + 1 /\ m = "main"
      /\ next' = [next EXCEPT ![n + 1] = list]
      /\ prev' = IF list = NULL THEN prev ELSE [prev EXCEPT ![list] = n + 1]
      /\ UNCHANGED <<sortpc, m, stop_sort_thread, freed, current, end, is_swapped>>
  BY DEF MutexInv, MutexGuards, add_to_head, GotoMain, sortVars
<1>2. sortpc \notin {"pass", "compare", "unlock"}
  BY <1>1 DEF MutexInv, MutexGuards
<1>3. PICK v \in 0 .. MaxLine : line' = [line EXCEPT ![n + 1] = v]
  BY Zenon DEF add_to_head, new_node
<1>4. TypeOK'
  <2>1. next' \in [Node -> Ptr] /\ prev' \in [Node -> Ptr] /\ line' \in [Node -> 0 .. MaxLine]
    BY <1>0, <1>1, <1>3 DEF MutexInv, TypeOK, Ptr
  <2>2. n' \in 0 .. MaxNodes /\ list' \in Ptr
    BY <1>0, <1>1 DEF Ptr
  <2>. QED
    BY <1>1, <2>1, <2>2 DEF MutexInv, TypeOK
<1>5. MutexGuards'
  BY <1>0, <1>1 DEF MutexInv, MutexGuards
<1>6. PICK s \in Order : /\ Perm(s, n) /\ Linked(s, n, next, prev) /\ list = At(s, n, 1)
                         /\ freed = {s[k] : k \in 1 .. 1 - 1}
  BY <1>1 DEF MutexInv, MutexList
<1>7. Fresh'
  <2>1. ASSUME NEW a \in Node, a > n' PROVE next'[a] = NULL /\ prev'[a] = NULL
    <3>1. a > n /\ a # n + 1
      BY <1>0, <2>1 DEF Node
    <3>2. list # a
      <4>1. list \in 1 .. n \/ list = NULL
        BY <1>6 DEF At, Perm
      <4>. QED
        BY <1>0, <2>1, <4>1 DEF Node, NULL
    <3>. QED
      BY <1>1, <3>1, <3>2 DEF MutexInv, Fresh, TypeOK
  <2>. QED
    BY <2>1 DEF Fresh
<1>8. MutexList'
  <2>. DEFINE z == Pushed(s, n)
  <2>1. Perm(z, n + 1) /\ Linked(z, n + 1, next', prev')
    <3>1. prev[n + 1] = NULL
      BY <1>0 DEF MutexInv, Fresh
    <3>. QED
      BY <1>0, <1>1, <1>6, <3>1, PushedChain, Zenon DEF MutexInv, TypeOK
  <2>2. z[1] = n + 1 /\ 1 \in 1 .. n + 1
    BY <1>0 DEF Pushed
  <2>. HIDE DEF z
  <2>3. z \in Order' /\ At(z, n', 1) = list'
    BY <1>0, <1>1, <2>1, <2>2 DEF Order, Perm, At
  <2>4. InSort(z, n', line', sortpc', current', end', is_swapped')
    BY <1>1, <1>2 DEF InSort
  <2>5. 1 \in 1 .. n' + 1 /\ freed' = {z[k] : k \in 1 .. 1 - 1}
    BY <1>0, <1>1, <1>6
  <2>. QED
    BY <1>0, <1>1, <2>1, <2>3, <2>4, <2>5 DEF MutexList
<1>. QED
  BY <1>4, <1>5, <1>7, <1>8 DEF MutexInv

\* ... the sorter takes a step of a sort ...
LEMMA MutexSortStep ==
  ASSUME MutexInv, SortPass \/ Compare \/ PassEnd
  PROVE  MutexInv'
<1>0. /\ StartPass \/ CompareLines \/ EndPass("unlock")
      /\ UNCHANGED <<mainpc, m, stop_sort_thread>> /\ sortpc \in {"pass", "compare"}
      /\ sortpc' \in {"pass", "compare", "unlock"}
  BY DEF SortPass, Compare, PassEnd, StartPass, CompareLines, EndPass, GotoSort
<1>1. /\ n \in 0 .. MaxNodes /\ n >= 1 /\ n \in Nat /\ is_swapped \in BOOLEAN /\ Lines(line, n)
      /\ mainpc \notin {"free", "exit"} /\ m = "sort"
  <2>1. n \in Nat /\ \A a \in 1 .. n : a \in Node
    BY ListAssumption DEF MutexInv, TypeOK, Node
  <2>2. n >= 2 /\ m = "sort" /\ mainpc \notin {"free", "exit"}
    BY <1>0 DEF MutexInv, MutexGuards
  <2>. QED
    BY <2>1, <2>2 DEF MutexInv, TypeOK, Lines
<1>2. PICK s \in Order : /\ Perm(s, n) /\ Linked(s, n, next, prev)
                         /\ InSort(s, n, line, sortpc, current, end, is_swapped)
                         /\ list = At(s, n, 1) /\ freed = {s[k] : k \in 1 .. 1 - 1}
  BY <1>1 DEF MutexInv, MutexList
<1>3. /\ n' = n /\ line' = line /\ freed' = freed
      /\ \E z \in Order : /\ Perm(z, n) /\ Linked(z, n, next', prev') /\ list' = At(z, n, 1)
                          /\ InSort(z, n, line, sortpc', current', end', is_swapped')
  BY <1>0, <1>1, <1>2, SortStep
<1>4. MutexList'
  <2>1. freed' = {} /\ 1 \in 1 .. n' + 1 /\ Order' = Order /\ \A z : {z[k] : k \in 1 .. 1 - 1} = {}
    BY <1>1, <1>2, <1>3 DEF Order
  <2>. QED
    BY <1>0, <1>1, <1>3, <2>1 DEF MutexList
<1>5. MutexGuards'
  BY <1>0, <1>3 DEF MutexInv, MutexGuards
<1>6. TypeOK' /\ Fresh'
  BY <1>0, <1>1, <1>2, <1>3, SortTypes DEF MutexInv, TypeOK
<1>. QED
  BY <1>4, <1>5, <1>6 DEF MutexInv

\* ... or main frees the node at place p.
LEMMA MutexFreeStep ==
  ASSUME MutexInv, list_free
  PROVE  MutexInv'
<1>0. /\ mainpc = "free" /\ sortpc = "done"
      /\ UNCHANGED <<sortpc, m, stop_sort_thread, n, next, prev, line, current, end, is_swapped>>
  BY DEF MutexInv, MutexGuards, list_free, sortVars
<1>1. n \in 0 .. MaxNodes /\ n \in Nat
  BY DEF MutexInv, TypeOK
<1>2. PICK s \in Order : /\ Perm(s, n) /\ Linked(s, n, next, prev)
                         /\ \E p \in 1 .. n + 1 : list = At(s, n, p) /\ freed = {s[k] : k \in 1 .. p - 1}
  BY DEF MutexInv, MutexList
<1>3. PICK p \in 1 .. n + 1 : list = At(s, n, p) /\ freed = {s[k] : k \in 1 .. p - 1}
  BY <1>2
<1>4. /\ \A k \in 1 .. n : /\ s[k] \in 1 .. n /\ s[k] \in Node /\ s[k] # NULL
                           /\ At(s, n, k) = s[k] /\ next[s[k]] = At(s, n, k + 1)
      /\ \A k \in Int : k \notin 1 .. n => At(s, n, k) = NULL
  BY <1>1, <1>2, ChainFacts
<1>5. InSort(s, n', line', sortpc', current', end', is_swapped')
  BY <1>0 DEF InSort
<1>6. s \in Order'
  BY <1>0 DEF Order
<1>7. Fresh' /\ MutexGuards'
  BY DEF MutexInv, Fresh, MutexGuards, list_free
<1>8. CASE list = NULL
  <2>1. mainpc' = "exit" /\ UNCHANGED <<freed, list>>
    BY <1>8 DEF list_free
  <2>2. p = n + 1
    <3>1. p \notin 1 .. n
      BY <1>3, <1>4, <1>8, Zenon
    <3>. QED
      BY <1>1, <3>1
  <2>3. MutexList'
    BY <1>0, <1>2, <1>3, <1>5, <1>6, <2>1, <2>2 DEF MutexList
  <2>4. TypeOK'
    BY <1>0, <2>1 DEF MutexInv, TypeOK
  <2>. QED
    BY <1>7, <2>3, <2>4 DEF MutexInv
<1>9. CASE list # NULL
  <2>1. freed' = freed \union {list} /\ list' = next[list] /\ mainpc' = "free"
    BY <1>9 DEF list_free
  <2>2. p \in 1 .. n /\ list = s[p] /\ list' = At(s, n, p + 1) /\ p + 1 \in 1 .. n + 1
    BY <1>1, <1>3, <1>4, <1>9, <2>1
  <2>3. freed' = {s[k] : k \in 1 .. (p + 1) - 1}
    <3>1. 1 .. (p + 1) - 1 = (1 .. p - 1) \union {p}
      OBVIOUS
    <3>. QED
      BY <1>3, <2>1, <2>2
  <2>4. MutexList'
    BY <1>0, <1>2, <1>5, <1>6, <2>1, <2>2, <2>3 DEF MutexList
  <2>5. list \in Node /\ list' \in Ptr
    BY <1>4, <2>2 DEF MutexInv, TypeOK
  <2>6. TypeOK'
    BY <1>0, <2>1, <2>5 DEF MutexInv, TypeOK
  <2>. QED
    BY <1>7, <2>4, <2>6 DEF MutexInv
<1>. QED
  BY <1>8, <1>9

\* Every step of the program preserves the invariant.
LEMMA MutexStep ==
  ASSUME MutexInv, [Next]_vars
  PROVE  MutexInv'
<1>1. CASE UNCHANGED vars
  <2>1. Fresh' /\ MutexList'
    <3>1. UNCHANGED <<freed, listVars, sortVars>> /\ mainpc' = mainpc /\ sortpc' = sortpc
      BY <1>1 DEF vars
    <3>. QED
      BY <3>1, MutexQuietStep
  <2>. QED
    BY <1>1, <2>1 DEF vars, listVars, sortVars, MutexInv, TypeOK, MutexGuards
<1>2. CASE ReadLine \/ Lock \/ print_list \/ Unlock \/ SetStop \/ Join
  <2>1. Fresh' /\ MutexList'
    <3>1. UNCHANGED <<freed, listVars, sortVars>>
      BY <1>2 DEF ReadLine, Lock, print_list, Unlock, SetStop, Join
    <3>2. mainpc \notin {"free", "exit"} /\ mainpc' # "exit" /\ sortpc' = sortpc
      BY <1>2 DEF ReadLine, Lock, print_list, Unlock, SetStop, Join, GotoMain
    <3>. QED
      BY <3>1, <3>2, MutexQuietStep
  <2>2. TypeOK'
    BY <1>2, ZenonT(30) DEF MutexInv, TypeOK, ReadLine, Lock, print_list, Unlock, SetStop, Join,
       GotoMain,
                listVars, sortVars
  <2>3. MutexGuards'
    BY <1>2 DEF MutexInv, MutexGuards, ReadLine, Lock, print_list, Unlock, SetStop, Join, GotoMain,
                listVars, sortVars
  <2>. QED
    BY <2>1, <2>2, <2>3 DEF MutexInv
<1>3. CASE SortTest \/ SortCheck \/ Crash \/ SortUnlock
  <2>1. Fresh' /\ MutexList'
    <3>1. UNCHANGED <<freed, listVars, sortVars>>
      BY <1>3 DEF SortTest, SortCheck, Crash, SortUnlock
    <3>2. /\ sortpc # "done" /\ mainpc' \in {mainpc, "crash"}
          /\ sortpc' = sortpc \/ sortpc' \in {"test", "check", "lock", "done"}
      BY <1>3 DEF SortTest, SortCheck, Crash, SortUnlock, NullLine, GotoSort
    <3>3. mainpc \notin {"free", "exit"}
      BY <3>2 DEF MutexInv, MutexGuards
    <3>. QED
      BY <3>1, <3>2, <3>3, MutexQuietStep
  <2>2. TypeOK'
    BY <1>3 DEF MutexInv, TypeOK, SortTest, SortCheck, Crash, SortUnlock, GotoSort, listVars,
       sortVars
  <2>3. SortCheck => n >= 2
    <3>. SUFFICES ASSUME SortCheck PROVE n >= 2
      OBVIOUS
    <3>1. list # NULL /\ next[list] # NULL /\ mainpc \notin {"free", "exit"}
      BY DEF SortCheck, GotoSort, MutexInv, MutexGuards
    <3>2. PICK s : Perm(s, n) /\ Linked(s, n, next, prev) /\ list = At(s, n, 1)
      BY <3>1 DEF MutexInv, MutexList
    <3>3. n \in 0 .. MaxNodes
      BY DEF MutexInv, TypeOK
    <3>. QED
      BY <3>1, <3>2, <3>3, TwoNodes
  <2>4. MutexGuards'
    <3>1. CASE SortCheck
      BY <2>3, <3>1 DEF MutexInv, MutexGuards, SortCheck, GotoSort, listVars
    <3>2. CASE SortTest \/ Crash \/ SortUnlock
      BY <3>2 DEF MutexInv, MutexGuards, SortTest, Crash, SortUnlock, GotoSort, NullLine, listVars
    <3>. QED
      BY <1>3, <3>1, <3>2
  <2>. QED
    BY <2>1, <2>2, <2>4 DEF MutexInv
<1>4. CASE SortLock
  <2>1. /\ sortpc = "lock" /\ sortpc' = "pass" /\ m = "free" /\ m' = "sort" /\ end' = NULL
        /\ UNCHANGED <<mainpc, stop_sort_thread, freed, n, list, next, prev, line, current,
                       is_swapped>>
    BY <1>4 DEF SortLock, GotoSort, listVars
  <2>2. TypeOK' /\ MutexGuards' /\ Fresh'
    BY <2>1 DEF MutexInv, TypeOK, MutexGuards, Fresh, Ptr
  <2>3. MutexList'
    <3>1. PICK s \in Order :
            /\ Perm(s, n) /\ Linked(s, n, next, prev)
            /\ \E p \in 1 .. n + 1 :
                 /\ list = At(s, n, p) /\ freed = {s[k] : k \in 1 .. p - 1}
                 /\ mainpc \notin {"free", "exit"} => p = 1
                 /\ mainpc = "exit" => p = n + 1
      BY DEF MutexInv, MutexList
    <3>2. InSort(s, n', line', sortpc', current', end', is_swapped')
      <4>1. n \in 0 .. MaxNodes /\ n >= 2
        BY <2>1 DEF MutexInv, TypeOK, MutexGuards
      <4>. QED
        BY <2>1, <4>1, SortStart
    <3>3. s \in Order'
      BY <2>1 DEF Order
    <3>. QED
      BY <2>1, <3>1, <3>2, <3>3 DEF MutexList
  <2>. QED
    BY <2>2, <2>3 DEF MutexInv
<1>6. CASE SortPass \/ Compare \/ PassEnd
  BY <1>6, MutexSortStep
<1>. QED
  BY <1>1, <1>2, <1>3, <1>4, <1>6, MutexAddStep, MutexFreeStep DEF Next, main, bubble_sort_mt

\* In every state of the invariant what the run checks holds.
LEMMA MutexInvHolds == MutexInv => ListInv /\ SortedOnUnlock /\ AllFreed
<1>. SUFFICES ASSUME MutexInv PROVE ListInv /\ SortedOnUnlock /\ AllFreed
  OBVIOUS
<1>0. n \in 0 .. MaxNodes /\ n \in Nat
  BY ListAssumption DEF MutexInv, TypeOK
<1>1. PICK s \in Order :
        /\ Perm(s, n) /\ Linked(s, n, next, prev)
        /\ InSort(s, n, line, sortpc, current, end, is_swapped)
        /\ \E p \in 1 .. n + 1 :
             /\ list = At(s, n, p) /\ freed = {s[k] : k \in 1 .. p - 1}
             /\ mainpc \notin {"free", "exit"} => p = 1
             /\ mainpc = "exit" => p = n + 1
  BY DEF MutexInv, MutexList
<1>2. mainpc \notin {"free", "exit"} => freed = {} /\ list = At(s, n, 1)
  BY <1>1
<1>3. ListInv
  <2>1. mainpc \notin {"free", "exit"} => OneChain /\ InnerLoopInside
    BY <1>0, <1>1, ChainIsOne, SortIsInside
  <2>2. mainpc \in {"free", "exit"} => InnerLoopInside
    BY DEF MutexInv, MutexGuards, InnerLoopInside
  <2>. QED
    BY <2>1, <2>2 DEF ListInv
<1>4. SortedOnUnlock
  BY <1>0, <1>1, SortIsDone DEF SortedOnUnlock
<1>5. AllFreed
  <2>. SUFFICES ASSUME mainpc = "exit" PROVE freed = Allocated
    BY DEF AllFreed
  <2>1. freed = {s[k] : k \in 1 .. (n + 1) - 1} /\ (n + 1) - 1 = n
    BY <1>0, <1>1
  <2>2. freed = {s[k] : k \in 1 .. n}
    BY <2>1
  <2>3. /\ \A k \in 1 .. n : s[k] \in 1 .. n
        /\ \A a \in 1 .. n : \E k \in 1 .. n : s[k] = a
    BY <1>1 DEF Perm
  <2>. QED
    BY <2>2, <2>3 DEF Allocated
<1>. QED
  BY <1>3, <1>4, <1>5

-------------------------------------------------------------------------------
\* The program with the condition variable.
===============================================================================
