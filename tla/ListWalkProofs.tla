---------------------------- MODULE ListWalkProofs ----------------------------
(*****************************************************************************)
(* Facts on a list that a race has taken nodes from: a set of nodes on one   *)
(* way along next.  What a swap, an added node and a step of the sort do     *)
(* to the links is stated of it.                                             *)
(*****************************************************************************)
EXTENDS SortedListProofs

-------------------------------------------------------------------------------
\* A list of which a race may have taken nodes: what is left is the set P of nodes on the
\* way along next from h, ranked by f.
Way(P, f, h, nx) ==
  /\ \A a, b \in P : f[a] = f[b] => a = b
  /\ \A a \in P : nx[a] # NULL => nx[a] \in P /\ f[a] < f[nx[a]]
  /\ \A a, b \in P : f[a] < f[b] => nx[a] # NULL /\ f[nx[a]] <= f[b]
  /\ IF h = NULL THEN P = {} ELSE h \in P /\ \A a \in P : f[h] <= f[a]

\* prev leads to the node before, or off the way; x is a node whose prev is yet to be set.
Back(P, nx, pv, x) == \A a \in P : pv[a] \in P => nx[pv[a]] = a \/ a = x

Exempt(pc, nn) == IF pc = "swaphead" THEN nn ELSE NULL

\* a is on the way, before `end'.
Before(P, f, a, en) == a \in P /\ (en # NULL => en \in P /\ f[a] < f[en])

\* current and the node behind it are to be swapped ...
Pair(P, f, nx, cr, en, nn) == cr \in P /\ nn = nx[cr] /\ Before(P, f, nn, en)

\* ... and the head has been moved past current, which has left the way.
Passed(P, f, nx, pv, cr, en, nn) ==
  /\ cr \in Node \ P /\ nn = nx[cr] /\ Before(P, f, nn, en)
  /\ pv[cr] \notin P /\ pv[cr] # cr /\ \A a \in P : pv[a] = cr => a = nn

\* The sort, on the way from h.
Sorting(P, f, h, nx, pv, pc, cr, en, nn, sw) ==
  /\ pc = "pass" => Before(P, f, h, en)
  /\ pc = "compare" => Before(P, f, cr, en) /\ (sw => cr # h)
  /\ pc = "sethead" => Pair(P, f, nx, cr, en, nn)
  /\ pc = "swap" => Pair(P, f, nx, cr, en, nn) /\ cr # h
  /\ pc = "swaphead" => (Pair(P, f, nx, cr, en, nn) /\ cr # h) \/ Passed(P, f, nx, pv, cr, en, nn)

Walk(P, f, h, nx, pv, pc, cr, en, nn, sw) ==
  /\ Way(P, f, h, nx) /\ Back(P, nx, pv, Exempt(pc, nn)) /\ Sorting(P, f, h, nx, pv, pc, cr, en, nn, sw)

Rank == [Node -> Int]

\* What a way says of a node and of the one behind it.
LEMMA WayFacts ==
  ASSUME NEW P, NEW f \in Rank, P \subseteq Node, NEW h, NEW nx, Way(P, f, h, nx), NEW a \in P,
         NEW en,
         Before(P, f, a, en), nx[a] # en
  PROVE  /\ nx[a] # NULL /\ nx[a] \in P /\ nx[a] # h /\ nx[a] # a /\ f[a] < f[nx[a]]
         /\ Before(P, f, nx[a], en)
<1>0. \A b \in P : f[b] \in Int
  BY DEF Rank
<1>1. nx[a] # NULL /\ nx[a] \in P /\ f[a] < f[nx[a]]
  BY DEF Way, Before
<1>2. nx[a] # a
  BY <1>0, <1>1
<1>3. nx[a] # h
  <2>. SUFFICES ASSUME nx[a] = h PROVE FALSE
    OBVIOUS
  <2>1. f[h] <= f[a] /\ h \in P
    BY DEF Way
  <2>. QED
    BY <1>0, <1>1, <2>1
<1>4. Before(P, f, nx[a], en)
  <2>. SUFFICES ASSUME en # NULL PROVE en \in P /\ f[nx[a]] < f[en]
    BY <1>1 DEF Before
  <2>1. en \in P /\ f[a] < f[en]
    BY DEF Before
  <2>2. f[nx[a]] <= f[en] /\ f[nx[a]] # f[en]
    BY <2>1 DEF Way
  <2>. QED
    BY <1>0, <1>1, <2>1, <2>2
<1>. QED
  BY <1>1, <1>2, <1>3, <1>4

\* a is linked to h, and nothing else is changed.
LinkedTo(nx, nx2, a, h) == nx2[a] = h /\ \A b \in Node : b # a => nx2[b] = nx[b]

\* The new node a leads to h and becomes the head.
LEMMA WalkPushed ==
  ASSUME NEW P, NEW f \in Rank, P \subseteq Node, NEW h, NEW nx, NEW pv, NEW pc, NEW cr, NEW en,
         NEW nn,
         NEW sw, Walk(P, f, h, nx, pv, pc, cr, en, nn, sw), NEW a \in Node, a \notin P,
         NEW nx2, LinkedTo(nx, nx2, a, h),
         \A b \in P : pv[b] = a => b = h, pv[a] = NULL, pc = "swaphead" => cr # a /\ pv[cr] # a
  PROVE  \E g \in Rank : Walk(P \union {a}, g, a, nx2, pv, pc, cr, en, nn, sw)
<1>. DEFINE Q == P \union {a}
            g == [f EXCEPT ![a] = f[h] - 1]
<1>0. /\ a # NULL /\ NULL \notin P /\ nx2[a] = h
      /\ \A b \in P : b # a /\ b \in Node /\ f[b] \in Int /\ nx2[b] = nx[b]
  BY DEF Rank, Node, NULL, LinkedTo
<1>1. CASE h = NULL
  <2>. DEFINE k == [b \in Node |-> 0]
  <2>1. P = {} /\ k \in Rank
    BY <1>1 DEF Walk, Way, Rank
  <2>2. Way(Q, k, a, nx2)
    BY <1>0, <1>1, <2>1 DEF Way
  <2>3. Back(Q, nx2, pv, Exempt(pc, nn))
    BY <1>0, <2>1 DEF Back
  <2>4. Sorting(Q, k, a, nx2, pv, pc, cr, en, nn, sw)
    BY <2>1 DEF Walk, Sorting, Before, Pair, Passed
  <2>. HIDE DEF k
  <2>. QED
    BY <2>1, <2>2, <2>3, <2>4 DEF Walk
<1>2. CASE h # NULL
  <2>1. h \in P /\ \A b \in P : f[h] <= f[b]
    BY <1>2 DEF Walk, Way
  <2>2. /\ g \in Rank /\ g[a] = f[h] - 1 /\ (\A b \in P : g[b] = f[b])
        /\ g[a] \in Int /\ \A b \in P : g[a] < g[b] /\ g[b] \in Int
    <3>1. g \in Rank /\ g[a] = f[h] - 1 /\ \A b \in P : g[b] = f[b]
      BY <2>1 DEF Rank
    <3>. QED
      BY <1>0, <2>1, <3>1
  <2>. HIDE DEF g
  <2>3. Way(Q, g, a, nx2)
    <3>1. \A b, c \in Q : g[b] = g[c] => b = c
      BY <2>2 DEF Walk, Way
    <3>2. ASSUME NEW b \in Q, nx2[b] # NULL PROVE nx2[b] \in Q /\ g[b] < g[nx2[b]]
      <4>1. CASE b = a
        BY <1>0, <2>1, <2>2, <4>1
      <4>2. CASE b \in P
        BY <1>0, <2>2, <3>2, <4>2 DEF Walk, Way
      <4>. QED
        BY <4>1, <4>2
    <3>3. ASSUME NEW b \in Q, NEW c \in Q, g[b] < g[c] PROVE nx2[b] # NULL /\ g[nx2[b]] <= g[c]
      <4>1. c \in P
        BY <2>2, <3>3
      <4>2. CASE b = a
        BY <1>0, <2>1, <2>2, <4>1, <4>2
      <4>3. CASE b \in P
        <5>1. f[b] < f[c] /\ nx2[b] = nx[b]
          BY <1>0, <2>2, <3>3, <4>1, <4>3
        <5>2. nx[b] # NULL /\ f[nx[b]] <= f[c] /\ nx[b] \in P
          BY <4>1, <4>3, <5>1 DEF Walk, Way
        <5>. QED
          BY <2>2, <4>1, <5>1, <5>2
      <4>. QED
        BY <4>2, <4>3
    <3>4. \A b \in Q : g[a] <= g[b]
      BY <2>2
    <3>. QED
      BY <1>0, <3>1, <3>2, <3>3, <3>4 DEF Way
  <2>4. Back(Q, nx2, pv, Exempt(pc, nn))
    BY <1>0 DEF Walk, Back
  <2>5. \A b : Before(P, f, b, en) => Before(Q, g, b, en)
    BY <2>2 DEF Before
  <2>6. Before(P, f, h, en) => Before(Q, g, a, en)
    BY <2>2 DEF Before
  <2>7. Sorting(Q, g, a, nx2, pv, pc, cr, en, nn, sw)
    <3>1. pc = "pass" => Before(Q, g, a, en)
      BY <2>6 DEF Walk, Sorting
    <3>2. pc = "compare" => Before(Q, g, cr, en) /\ cr # a
      BY <2>5 DEF Walk, Sorting, Before
    <3>3. Pair(P, f, nx, cr, en, nn) => Pair(Q, g, nx2, cr, en, nn) /\ cr # a
      BY <1>0, <2>5 DEF Pair
    <3>4. pc = "swaphead" /\ Passed(P, f, nx, pv, cr, en, nn) => Passed(Q, g, nx2, pv, cr, en, nn)
      <4>. SUFFICES ASSUME pc = "swaphead", Passed(P, f, nx, pv, cr, en, nn)
                    PROVE  Passed(Q, g, nx2, pv, cr, en, nn)
        OBVIOUS
      <4>1. cr \in Node \ Q /\ nx2[cr] = nx[cr] /\ pv[cr] \notin Q
        BY DEF Passed, LinkedTo
      <4>2. \A b \in Q : pv[b] = cr => b = nn
        BY DEF Passed, NULL, Node
      <4>. QED
        BY <2>5, <4>1, <4>2 DEF Passed
    <3>. QED
      BY <3>1, <3>2, <3>3, <3>4 DEF Walk, Sorting
  <2>. QED
    BY <2>2, <2>3, <2>4, <2>7 DEF Walk
<1>. QED
  BY <1>1, <1>2

\* *list = next_node: what is left is the way from there.
LEMMA WalkPassed ==
  ASSUME NEW P, NEW f \in Rank, P \subseteq Node, NEW h, NEW nx, NEW pv, NEW cr, NEW en, NEW nn,
         NEW sw,
         Walk(P, f, h, nx, pv, "sethead", cr, en, nn, sw)
  PROVE  \E Q \in SUBSET P : Walk(Q, f, nn, nx, pv, "swaphead", cr, en, nn, sw)
<1>. DEFINE Q == {b \in P : f[nn] <= f[b]}
<1>0. \A b \in P : f[b] \in Int /\ b # NULL
  BY DEF Rank, Node, NULL
<1>1. cr \in P /\ nn = nx[cr] /\ nn \in P /\ Before(P, f, nn, en) /\ nn # NULL /\ f[cr] < f[nn]
  BY <1>0 DEF Walk, Sorting, Pair, Before, Way
<1>2. nn \in Q /\ cr \notin Q /\ Q \subseteq P /\ \A b \in Q : f[nn] <= f[b]
  BY <1>0, <1>1
<1>3. Way(Q, f, nn, nx)
  <2>1. ASSUME NEW b \in Q, nx[b] # NULL PROVE nx[b] \in Q /\ f[b] < f[nx[b]]
    <3>1. nx[b] \in P /\ f[b] < f[nx[b]]
      BY <2>1 DEF Walk, Way
    <3>. QED
      BY <1>0, <1>2, <3>1
  <2>. QED
    BY <1>1, <2>1 DEF Walk, Way
<1>4. Back(Q, nx, pv, nn)
  BY <1>0 DEF Walk, Back, Exempt
<1>5. Before(Q, f, nn, en)
  BY <1>0, <1>1 DEF Before
<1>6. pv[cr] \notin Q /\ pv[cr] # cr
  <2>1. pv[cr] \in P => nx[pv[cr]] = cr
    BY <1>0, <1>1 DEF Walk, Back, Exempt
  <2>2. pv[cr] \in P => f[pv[cr]] < f[cr]
    BY <1>0, <1>1, <2>1 DEF Walk, Way
  <2>. QED
    BY <1>0, <1>1, <2>2
<1>7. Passed(Q, f, nx, pv, cr, en, nn)
  BY <1>0, <1>1, <1>2, <1>5, <1>6 DEF Passed, Walk, Back, Exempt
<1>8. Walk(Q, f, nn, nx, pv, "swaphead", cr, en, nn, sw)
  BY <1>3, <1>4, <1>7 DEF Walk, Sorting, Exempt
<1>. QED
  BY <1>8

\* swap(l, r), as it is in ListNodes.
NextSwapped(nx, pv, l, r) ==
  [a \in Node |-> IF a = r THEN l ELSE IF a = pv[l] THEN r ELSE IF a = l THEN nx[r] ELSE nx[a]]
PrevSwapped(nx, pv, l, r) ==
  [a \in Node |-> IF a = l THEN r ELSE IF a = r THEN pv[l] ELSE IF a = nx[r] THEN l ELSE pv[a]]

\* A node has one before it.
LEMMA OneBefore ==
  ASSUME NEW P, NEW f \in Rank, P \subseteq Node, NEW h, NEW nx, Way(P, f, h, nx),
         NEW a \in P, NEW b \in P, nx[a] = nx[b], nx[a] # NULL
  PROVE  a = b
<1>0. f[a] \in Int /\ f[b] \in Int /\ f[nx[a]] \in Int /\ f[a] < f[nx[a]] /\ f[b] < f[nx[a]]
  BY DEF Way, Rank
<1>1. ~(f[a] < f[b]) /\ ~(f[b] < f[a])
  BY <1>0 DEF Way
<1>2. f[a] = f[b]
  BY <1>0, <1>1
<1>. QED
  BY <1>2 DEF Way

\* The swap on the way, when prev of current leads to the node before it ...
LEMMA WalkSwapped ==
  ASSUME NEW P, NEW f \in Rank, P \subseteq Node, NEW h, h # NULL, NEW nx, NEW pv, NEW l, NEW r,
         NEW en, NEW x,
         Way(P, f, h, nx), Back(P, nx, pv, x), x # l, x \in {r, NULL}, Pair(P, f, nx, l, en, r),
         l # h,
         pv[l] \in P, NEW nx2, NEW pv2,
         nx2 = NextSwapped(nx, pv, l, r), pv2 = PrevSwapped(nx, pv, l, r)
  PROVE  \E g \in Rank : /\ Way(P, g, h, nx2) /\ Back(P, nx2, pv2, NULL) /\ Before(P, g, l, en)
<1>. DEFINE g == [f EXCEPT ![l] = f[r], ![r] = f[l]]
            p == pv[l]
            q == nx[r]
<1>0. \A b \in P : f[b] \in Int /\ b # NULL /\ b \in Node
  BY DEF Rank, Node, NULL
<1>1. l \in P /\ r \in P /\ r = nx[l] /\ p \in P /\ nx[p] = l /\ h \in P
  BY DEF Pair, Before, Back, Way
<1>2. f[p] < f[l] /\ f[l] < f[r] /\ (q # NULL => q \in P /\ f[r] < f[q])
  BY <1>0, <1>1 DEF Way
<1>3. p # l /\ p # r /\ l # r /\ q # l /\ q # r /\ q # p
  BY <1>0, <1>1, <1>2
<1>4. \A b \in P : (nx[b] = l => b = p) /\ (nx[b] = r => b = l) /\ (q # NULL /\ nx[b] = q => b = r)
  BY <1>0, <1>1, OneBefore
<1>5. /\ nx2[r] = l /\ nx2[p] = r /\ nx2[l] = q /\ \A b \in P \ {l, r, p} : nx2[b] = nx[b]
      /\ pv2[l] = r /\ pv2[r] = p /\ (q # NULL => pv2[q] = l) /\ \A b \in P \ {l, r, q} : pv2[b] = pv[b]
  BY <1>1, <1>2, <1>3 DEF NextSwapped, PrevSwapped
<1>6. /\ g \in Rank /\ g[l] = f[r] /\ g[r] = f[l] /\ \A b \in P \ {l, r} : g[b] = f[b]
      /\ \A b \in P : g[b] \in Int
  BY <1>1 DEF Rank
<1>. HIDE DEF g, p, q
<1>7. Way(P, g, h, nx2)
  <2>1. \A b, c \in P : g[b] = g[c] => b = c
    BY <1>1, <1>6 DEF Way
  <2>2. ASSUME NEW b \in P, nx2[b] # NULL PROVE nx2[b] \in P /\ g[b] < g[nx2[b]]
    <3>1. CASE b = r
      BY <1>1, <1>2, <1>5, <1>6, <3>1
    <3>2. CASE b = p
      BY <1>1, <1>2, <1>5, <1>6, <3>2
    <3>3. CASE b = l
      BY <1>1, <1>2, <1>3, <1>5, <1>6, <2>2, <3>3
    <3>4. CASE b \notin {l, r, p}
      <4>1. nx2[b] = nx[b] /\ nx[b] # l /\ nx[b] # r
        BY <1>4, <1>5, <3>4
      <4>2. nx[b] \in P /\ f[b] < f[nx[b]]
        BY <2>2, <4>1 DEF Way
      <4>. QED
        BY <1>6, <3>4, <4>1, <4>2
    <3>. QED
      BY <3>1, <3>2, <3>3, <3>4
  <2>3. ASSUME NEW b \in P, NEW c \in P, g[b] < g[c] PROVE nx2[b] # NULL /\ g[nx2[b]] <= g[c]
    <3>0. /\ \A d \in P : f[p] < f[d] => f[l] <= f[d]
          /\ \A d \in P : f[l] < f[d] => f[r] <= f[d]
          /\ \A d \in P : f[r] < f[d] => q # NULL /\ f[q] <= f[d]
      BY <1>1 DEF Way, q
    <3>1. CASE b = r
      <4>1. g[l] <= g[c]
        BY <1>0, <1>1, <1>2, <1>6, <2>3, <3>0, <3>1
      <4>. QED
        BY <1>0, <1>1, <1>5, <3>1, <4>1
    <3>2. CASE b = p
      <4>1. g[r] <= g[c]
        BY <1>0, <1>1, <1>2, <1>3, <1>6, <2>3, <3>0, <3>2
      <4>. QED
        BY <1>0, <1>1, <1>5, <3>2, <4>1
    <3>3. CASE b = l
      <4>1. c \notin {l, r}
        BY <1>0, <1>2, <1>6, <2>3, <3>3
      <4>2. q # NULL /\ f[q] <= f[c]
        BY <1>6, <2>3, <3>0, <3>3, <4>1
      <4>. QED
        BY <1>2, <1>5, <1>6, <3>3, <4>1, <4>2
    <3>4. CASE b \notin {l, r, p}
      <4>1. nx2[b] = nx[b] /\ nx[b] # l /\ nx[b] # r /\ g[b] = f[b]
        BY <1>4, <1>5, <1>6, <3>4
      <4>2. \A d \in P : f[b] < f[d] => nx[b] # NULL /\ nx[b] \in P /\ f[nx[b]] <= f[d]
        BY DEF Way
      <4>3. nx[b] # NULL /\ nx[b] \in P => g[nx[b]] = f[nx[b]]
        BY <1>6, <4>1
      <4>4. CASE c \notin {l, r}
        BY <1>6, <2>3, <4>1, <4>2, <4>4
      <4>5. CASE c = l
        <5>1. f[b] < f[l] \/ f[l] < f[b]
          BY <1>0, <1>1, <3>4 DEF Way
        <5>2. ~(f[l] < f[b])
          BY <1>0, <1>1, <1>6, <2>3, <3>0, <4>1, <4>5
        <5>3. nx[b] # NULL /\ nx[b] \in P /\ f[nx[b]] <= f[l]
          BY <1>1, <4>2, <5>1, <5>2
        <5>. QED
          BY <1>0, <1>2, <1>6, <4>1, <4>5, <5>3
      <4>6. CASE c = r
        <5>1. nx[b] # NULL /\ nx[b] \in P /\ f[nx[b]] <= f[l]
          BY <1>1, <1>6, <2>3, <4>1, <4>2, <4>6
        <5>. QED
          BY <1>6, <4>1, <4>6, <5>1
      <4>. QED
        BY <4>4, <4>5, <4>6
    <3>. QED
      BY <3>1, <3>2, <3>3, <3>4
  <2>4. \A b \in P : g[h] <= g[b]
    <3>1. \A b \in P : f[h] <= f[b]
      BY DEF Way
    <3>2. h # l /\ h # r
      BY <1>0, <1>1, <1>2, <3>1
    <3>. QED
      BY <1>0, <1>1, <1>6, <3>1, <3>2
  <2>. QED
    BY <2>1, <2>2, <2>3, <2>4 DEF Way
<1>8. Back(P, nx2, pv2, NULL)
  <2>. SUFFICES ASSUME NEW a \in P, pv2[a] \in P PROVE nx2[pv2[a]] = a
    BY DEF Back
  <2>1. CASE a = l \/ a = r \/ a = q
    BY <1>0, <1>1, <1>5, <2>1
  <2>2. CASE a \notin {l, r, q}
    <3>1. pv2[a] = pv[a] /\ nx[pv[a]] = a
      BY <1>0, <1>5, <2>2 DEF Back
    <3>2. pv[a] \notin {l, r, p}
      BY <1>1, <2>2, <3>1 DEF q
    <3>. QED
      BY <1>5, <3>1, <3>2
  <2>. QED
    BY <2>1, <2>2
<1>9. Before(P, g, l, en)
  <2>. SUFFICES ASSUME en # NULL PROVE en \in P /\ g[l] < g[en]
    BY <1>1 DEF Before
  <2>1. en \in P /\ f[r] < f[en]
    BY DEF Pair, Before
  <2>2. en # l /\ en # r
    BY <1>0, <1>1, <1>2, <2>1
  <2>. QED
    BY <1>6, <2>1, <2>2
<1>. QED
  BY <1>6, <1>7, <1>8, <1>9

\* The links that the walk does not look at may change.
LEMMA WalkSame ==
  ASSUME NEW P, NEW f, NEW h, NEW nx, NEW pv, NEW pc, NEW cr, NEW en, NEW nn, NEW sw,
         Walk(P, f, h, nx, pv, pc, cr, en, nn, sw), NEW nx2, \A b \in P : nx2[b] = nx[b],
         pc = "swaphead" => nx2[cr] = nx[cr]
  PROVE  Walk(P, f, h, nx2, pv, pc, cr, en, nn, sw)
<1>1. Way(P, f, h, nx2)
  BY DEF Walk, Way
<1>2. Back(P, nx2, pv, Exempt(pc, nn))
  BY DEF Walk, Back
<1>3. Sorting(P, f, h, nx2, pv, pc, cr, en, nn, sw)
  BY DEF Walk, Sorting, Pair, Passed
<1>. QED
  BY <1>1, <1>2, <1>3 DEF Walk

\* The sort between two swaps.
LEMMA WalkOn ==
  ASSUME NEW P, NEW f \in Rank, P \subseteq Node, NEW h, NEW nx, NEW pv, NEW pc, pc # "swaphead",
         NEW cr, NEW en, NEW nn, NEW sw, Walk(P, f, h, nx, pv, pc, cr, en, nn, sw)
  PROVE  /\ \A cr2, en2, nn2, sw2 : \A pc2 \in {"test", "check", "done"} :
              Walk(P, f, h, nx, pv, pc2, cr2, en2, nn2, sw2)
         /\ \A sw2 : h # NULL => Walk(P, f, h, nx, pv, "pass", cr, NULL, nn, sw2)
         /\ pc = "pass" => h # NULL /\ Walk(P, f, h, nx, pv, "compare", h, en, nn, FALSE)
         /\ pc = "compare" => cr \in P
         /\ pc = "compare" /\ nx[cr] # en =>
              /\ nx[cr] # NULL /\ nx[cr] \in P
              /\ Walk(P, f, h, nx, pv, "compare", nx[cr], en, nn, sw)
              /\ Walk(P, f, h, nx, pv, "sethead", cr, en, nx[cr], sw)
              /\ cr # h => Walk(P, f, h, nx, pv, "swap", cr, en, nx[cr], sw)
         /\ pc = "compare" /\ sw => Walk(P, f, h, nx, pv, "pass", cr, cr, nn, sw)
<1>0. \A b \in P : b # NULL /\ f[b] \in Int
  BY DEF Node, NULL, Rank
<1>1. Way(P, f, h, nx) /\ Back(P, nx, pv, NULL) /\ Sorting(P, f, h, nx, pv, pc, cr, en, nn, sw)
  BY DEF Walk, Exempt
<1>2. \A pc2, cr2, en2, nn2, sw2 : pc2 # "swaphead" /\ Sorting(P, f, h, nx, pv, pc2, cr2, en2, nn2, sw2)
        => Walk(P, f, h, nx, pv, pc2, cr2, en2, nn2, sw2)
  BY DEF Walk, Exempt
<1>3. \A cr2, en2, nn2, sw2 : \A pc2 \in {"test", "check", "done"} :
        Walk(P, f, h, nx, pv, pc2, cr2, en2, nn2, sw2)
  BY <1>2 DEF Sorting
<1>4. \A sw2 : h # NULL => Walk(P, f, h, nx, pv, "pass", cr, NULL, nn, sw2)
  <2>1. h # NULL => Before(P, f, h, NULL)
    BY <1>1 DEF Way, Before
  <2>. QED
    BY <1>2, <2>1 DEF Sorting
<1>5. pc = "pass" => h # NULL /\ Walk(P, f, h, nx, pv, "compare", h, en, nn, FALSE)
  <2>1. pc = "pass" => h # NULL /\ Before(P, f, h, en)
    BY <1>0, <1>1 DEF Sorting, Before
  <2>. QED
    BY <1>2, <2>1, ZenonT(30) DEF Sorting
<1>6. pc = "compare" => cr \in P /\ Before(P, f, cr, en)
  BY <1>1 DEF Sorting, Before
<1>7. ASSUME pc = "compare", nx[cr] # en
      PROVE  /\ nx[cr] # NULL /\ nx[cr] \in P
             /\ Walk(P, f, h, nx, pv, "compare", nx[cr], en, nn, sw)
             /\ Walk(P, f, h, nx, pv, "sethead", cr, en, nx[cr], sw)
             /\ cr # h => Walk(P, f, h, nx, pv, "swap", cr, en, nx[cr], sw)
  <2>1. nx[cr] # NULL /\ nx[cr] \in P /\ nx[cr] # h /\ Before(P, f, nx[cr], en)
    BY <1>1, <1>6, <1>7, WayFacts
  <2>2. Pair(P, f, nx, cr, en, nx[cr])
    BY <1>6, <1>7, <2>1 DEF Pair
  <2>. QED
    BY <1>2, <2>1, <2>2 DEF Sorting
<1>8. ASSUME pc = "compare", sw PROVE Walk(P, f, h, nx, pv, "pass", cr, cr, nn, sw)
  <2>1. cr # h /\ h \in P /\ f[h] <= f[cr] /\ f[h] # f[cr]
    BY <1>1, <1>6, <1>8 DEF Sorting, Way
  <2>2. Before(P, f, h, cr)
    BY <1>0, <1>6, <1>8, <2>1 DEF Before
  <2>. QED
    BY <1>2, <2>2 DEF Sorting
<1>. QED
  BY <1>3, <1>4, <1>5, <1>6, <1>7, <1>8, Zenon

\* (*list)->prev = node changes the prev of one node, a.
LEMMA WalkBacked ==
  ASSUME NEW P, NEW f, NEW h, NEW nx, NEW pv, NEW pc, NEW cr, NEW en, NEW nn, NEW sw,
         Walk(P, f, h, nx, pv, pc, cr, en, nn, sw), NEW pv2, NEW a, NEW v, v # cr,
         LinkedTo(pv, pv2, a, v), P \subseteq Node,
         pc = "swaphead" /\ cr \notin P => cr # a,
         a \in P /\ v \in P => nx[v] = a \/ a = Exempt(pc, nn)
  PROVE  Walk(P, f, h, nx, pv2, pc, cr, en, nn, sw)
<1>1. Back(P, nx, pv2, Exempt(pc, nn))
  BY DEF Walk, Back, LinkedTo
<1>2. ASSUME pc = "swaphead", Passed(P, f, nx, pv, cr, en, nn) PROVE Passed(P, f, nx, pv2, cr, en, nn)
  <2>1. cr \in Node \ P /\ cr # a /\ pv2[cr] = pv[cr]
    BY <1>2 DEF Passed, LinkedTo
  <2>2. \A b \in P : pv2[b] = cr => b = nn
    BY <1>2 DEF Passed, LinkedTo
  <2>. QED
    BY <1>2, <2>1, <2>2 DEF Passed
<1>3. Sorting(P, f, h, nx, pv2, pc, cr, en, nn, sw)
  BY <1>2 DEF Walk, Sorting
<1>. QED
  BY <1>1, <1>3 DEF Walk

\* swap(l, r) where the head is ahead of it, or is another node than l.
SwapAhead(s, N, nx, pv, l, r, h, nx2, pv2) ==
  /\ r = nx[l] /\ r \in 1 .. N
  /\ (l = s[1] /\ h = At(s, N, 2)) \/ (l # h /\ h = At(s, N, 1))
  /\ nx2 = NextSwapped(nx, pv, l, r) /\ pv2 = PrevSwapped(nx, pv, l, r)

\* Then the nodes are one chain from the head.
LEMMA SwapKeepsChain ==
  ASSUME NEW N \in 0 .. MaxNodes, NEW s, Perm(s, N), NEW nx, NEW pv, Linked(s, N, nx, pv),
         NEW l \in 1 .. N,
         NEW r, NEW h, NEW nx2, NEW pv2, SwapAhead(s, N, nx, pv, l, r, h, nx2, pv2)
  PROVE  \E z \in [1 .. N -> 1 .. N] : Perm(z, N) /\ Linked(z, N, nx2, pv2) /\ h = At(z, N, 1)
<1>1. /\ N \in Nat
      /\ \A k \in 1 .. N : s[k] # NULL /\ At(s, N, k) = s[k] /\ nx[s[k]] = At(s, N, k + 1)
      /\ \A k \in Int : k \notin 1 .. N => At(s, N, k) = NULL
  BY ChainFacts
<1>2. PICK c \in 1 .. N : l = s[c]
  BY DEF Perm
<1>3. c + 1 \in 1 .. N /\ r = s[c + 1]
  <2>1. r = At(s, N, c + 1) /\ r # NULL
    BY <1>1, <1>2 DEF SwapAhead, NULL
  <2>2. c + 1 \in Int
    OBVIOUS
  <2>3. c + 1 \in 1 .. N
    BY <1>1, <2>1
  <2>. QED
    BY <1>1, <2>1
<1>. DEFINE z == Swapped(s, c)
<1>4. Perm(z, N) /\ z \in [1 .. N -> 1 .. N]
  <2>1. Perm(z, N)
    BY <1>3, SwappedPerm
  <2>. QED
    BY <2>1, Zenon DEF Perm
<1>5. Linked(z, N, nx2, pv2)
  BY <1>2, <1>3, SwappedLinked DEF SwapAhead, NextSwapped, PrevSwapped
<1>6. z[c] = s[c + 1] /\ \A k \in 1 .. N : k # c /\ k # c + 1 => z[k] = s[k]
  BY <1>3, SwappedAt
<1>. HIDE DEF z
<1>7. h = At(z, N, 1)
  <2>0. 1 \in 1 .. N
    OBVIOUS
  <2>1. CASE l = s[1] /\ h = At(s, N, 2)
    <3>1. c = 1
      BY <1>2, <2>0, <2>1, ZenonT(30) DEF Perm
    <3>2. 2 \in 1 .. N /\ h = s[2] /\ 1 + 1 = 2
      BY <1>1, <1>3, <2>1
    <3>. QED
      BY <1>6, <3>1, <3>2 DEF At
  <2>2. CASE l # h /\ h = At(s, N, 1)
    <3>1. h = s[1] /\ c # 1 /\ 1 # c + 1
      BY <1>1, <1>2, <2>2
    <3>. QED
      BY <1>6, <3>1 DEF At
  <2>. QED
    BY <2>1, <2>2 DEF SwapAhead
<1>. QED
  BY <1>4, <1>5, <1>7

\* ... when it leads elsewhere: the node behind current is lost ...
LEMMA WalkLoses ==
  ASSUME NEW P, NEW f \in Rank, P \subseteq Node, NEW h, h # NULL, NEW nx, NEW pv, NEW l, NEW r,
         NEW en, NEW x,
         Way(P, f, h, nx), Back(P, nx, pv, x), x \in {r, NULL}, Pair(P, f, nx, l, en, r), l # h,
         pv[l] \notin P, NEW nx2, NEW pv2,
         nx2 = NextSwapped(nx, pv, l, r), pv2 = PrevSwapped(nx, pv, l, r)
  PROVE  LET Q == P \ {r}
         IN  Way(Q, f, h, nx2) /\ Back(Q, nx2, pv2, NULL) /\ Before(Q, f, l, en)
<1>. DEFINE Q == P \ {r}
            q == nx[r]
<1>0. \A b \in P : f[b] \in Int /\ b # NULL /\ b \in Node
  BY DEF Rank, Node, NULL
<1>1. l \in P /\ r \in P /\ r = nx[l] /\ h \in P
  BY DEF Pair, Before, Way
<1>2. f[l] < f[r] /\ (q # NULL => q \in P /\ f[r] < f[q])
  BY <1>0, <1>1 DEF Way
<1>3. l # r /\ q # l /\ q # r
  BY <1>0, <1>1, <1>2
<1>4. \A b \in P : (nx[b] = r => b = l) /\ (q # NULL /\ nx[b] = q => b = r)
  BY <1>0, <1>1, OneBefore
<1>5. /\ nx2[l] = q /\ \A b \in Q \ {l} : nx2[b] = nx[b]
      /\ pv2[l] = r /\ (q # NULL => pv2[q] = l) /\ \A b \in Q \ {l, q} : pv2[b] = pv[b]
  BY <1>1, <1>2, <1>3 DEF NextSwapped, PrevSwapped
<1>. HIDE DEF q
<1>6. Way(Q, f, h, nx2)
  <2>1. ASSUME NEW b \in Q, nx2[b] # NULL PROVE nx2[b] \in Q /\ f[b] < f[nx2[b]]
    <3>1. CASE b = l
      BY <1>0, <1>1, <1>2, <1>3, <1>5, <2>1, <3>1
    <3>2. CASE b # l
      BY <1>4, <1>5, <2>1, <3>2 DEF Way
    <3>. QED
      BY <3>1, <3>2
  <2>2. ASSUME NEW b \in Q, NEW c \in Q, f[b] < f[c] PROVE nx2[b] # NULL /\ f[nx2[b]] <= f[c]
    <3>1. CASE b = l
      <4>1. f[r] <= f[c] /\ f[r] # f[c]
        BY <1>1, <2>2, <3>1 DEF Way
      <4>2. f[r] < f[c]
        BY <1>0, <1>1, <4>1
      <4>. QED
        BY <1>1, <1>5, <3>1, <4>2 DEF Way, q
    <3>2. CASE b # l
      BY <1>5, <2>2, <3>2 DEF Way
    <3>. QED
      BY <3>1, <3>2
  <2>3. h \in Q /\ \A b \in Q : f[h] <= f[b]
    <3>1. \A b \in P : f[h] <= f[b]
      BY DEF Way
    <3>. QED
      BY <1>0, <1>1, <1>2, <3>1
  <2>4. \A b, c \in Q : f[b] = f[c] => b = c
    BY DEF Way
  <2>. QED
    BY <2>1, <2>2, <2>3, <2>4 DEF Way
<1>7. Back(Q, nx2, pv2, NULL)
  <2>. SUFFICES ASSUME NEW a \in Q, pv2[a] \in Q PROVE nx2[pv2[a]] = a
    BY DEF Back
  <2>1. CASE a = l \/ a = q
    BY <1>0, <1>3, <1>5, <2>1
  <2>2. CASE a \notin {l, q}
    <3>1. pv2[a] = pv[a] /\ nx[pv[a]] = a
      BY <1>0, <1>5, <2>2 DEF Back
    <3>2. pv[a] # l
      BY <1>1, <3>1
    <3>. QED
      BY <1>5, <3>1, <3>2
  <2>. QED
    BY <2>1, <2>2
<1>8. Before(Q, f, l, en)
  <2>1. en # NULL => en \in P /\ f[r] < f[en]
    BY DEF Pair, Before
  <2>. QED
    BY <1>0, <1>1, <1>2, <1>3, <2>1 DEF Before
<1>. QED
  BY <1>6, <1>7, <1>8

\* ... or when the head has been moved past current, which comes back behind it.
LEMMA WalkComesBack ==
  ASSUME NEW P, NEW f \in Rank, P \subseteq Node, NEW h, h # NULL, NEW nx, NEW pv, NEW l, NEW r,
         NEW en,
         Way(P, f, h, nx), Back(P, nx, pv, r), Passed(P, f, nx, pv, l, en, r), NEW nx2, NEW pv2,
         nx2 = NextSwapped(nx, pv, l, r), pv2 = PrevSwapped(nx, pv, l, r)
  PROVE  LET Q == P \union {l}
         IN  \E g \in Rank : Way(Q, g, h, nx2) /\ Back(Q, nx2, pv2, NULL) /\ Before(Q, g, l, en) /\ l # h
<1>. DEFINE Q == P \union {l}
            q == nx[r]
            g == [a \in Node |-> IF a = l THEN 2 * f[r] + 1 ELSE 2 * f[a]]
<1>0. /\ \A b \in P : f[b] \in Int /\ b # NULL /\ b \in Node /\ b # l
      /\ l \in Node /\ l # NULL
  BY DEF Rank, Node, NULL, Passed
<1>1. /\ r \in P /\ r = nx[l] /\ h \in P /\ l \notin P /\ pv[l] \notin Q
      /\ \A b \in P : f[h] <= f[b]
  BY DEF Passed, Before, Way
<1>2. q # NULL => q \in P /\ f[r] < f[q] /\ q # r /\ q # l
  BY <1>0, <1>1 DEF Way
<1>3. /\ nx2[l] = q /\ nx2[r] = l /\ \A b \in P \ {r} : nx2[b] = nx[b]
      /\ pv2[l] = r /\ pv2[r] = pv[l] /\ (q # NULL => pv2[q] = l)
      /\ \A b \in P \ {r, q} : pv2[b] = pv[b]
  BY <1>0, <1>1, <1>2 DEF NextSwapped, PrevSwapped
<1>4. g \in Rank /\ g[l] = 2 * f[r] + 1 /\ \A b \in P : g[b] = 2 * f[b]
  <2>1. \A b \in Node : f[b] \in Int
    BY DEF Rank
  <2>2. r \in Node
    BY <1>1
  <2>. QED
    BY <1>0, <2>2 DEF Rank
<1>. HIDE DEF g, q
<1>5. Way(Q, g, h, nx2)
  <2>1. ASSUME NEW b \in Q, NEW c \in Q, g[b] = g[c] PROVE b = c
    <3>1. CASE b \in P /\ c \in P
      <4>1. f[b] = f[c]
        BY <1>0, <1>4, <2>1, <3>1
      <4>. QED
        BY <3>1, <4>1 DEF Way
    <3>2. CASE b = l /\ c \in P
      BY <1>0, <1>1, <1>4, <2>1, <3>2
    <3>3. CASE b \in P /\ c = l
      BY <1>0, <1>1, <1>4, <2>1, <3>3
    <3>. QED
      BY <3>1, <3>2, <3>3
  <2>2. ASSUME NEW b \in Q, nx2[b] # NULL PROVE nx2[b] \in Q /\ g[b] < g[nx2[b]]
    <3>1. CASE b = r
      BY <1>0, <1>1, <1>3, <1>4, <3>1
    <3>2. CASE b = l
      BY <1>0, <1>1, <1>2, <1>3, <1>4, <2>2, <3>2
    <3>3. CASE b \in P \ {r}
      <4>1. nx2[b] = nx[b] /\ nx[b] \in P /\ f[b] < f[nx[b]]
        BY <1>3, <2>2, <3>3 DEF Way
      <4>. QED
        BY <1>0, <1>4, <3>3, <4>1
    <3>. QED
      BY <3>1, <3>2, <3>3
  <2>3. ASSUME NEW b \in Q, NEW c \in Q, g[b] < g[c] PROVE nx2[b] # NULL /\ g[nx2[b]] <= g[c]
    <3>1. CASE b = r
      <4>1. g[l] <= g[c]
        BY <1>0, <1>1, <1>4, <2>3, <3>1
      <4>. QED
        BY <1>0, <1>3, <3>1, <4>1
    <3>2. CASE b = l
      <4>1. c \in P /\ f[r] < f[c]
        BY <1>0, <1>1, <1>4, <2>3, <3>2
      <4>2. q # NULL /\ f[q] <= f[c]
        BY <1>1, <4>1 DEF Way, q
      <4>3. g[q] = 2 * f[q] /\ g[c] = 2 * f[c] /\ f[q] \in Int /\ f[c] \in Int
        BY <1>0, <1>2, <1>4, <4>1, <4>2
      <4>. QED
        BY <1>3, <3>2, <4>2, <4>3
    <3>3. CASE b \in P \ {r} /\ c \in P
      <4>1. f[b] < f[c]
        BY <1>0, <1>4, <2>3, <3>3
      <4>2. nx[b] # NULL /\ nx[b] \in P /\ f[nx[b]] <= f[c]
        BY <3>3, <4>1 DEF Way
      <4>3. g[nx[b]] = 2 * f[nx[b]] /\ g[c] = 2 * f[c] /\ f[nx[b]] \in Int /\ f[c] \in Int
        BY <1>0, <1>4, <3>3, <4>2
      <4>. QED
        BY <1>3, <3>3, <4>2, <4>3
    <3>4. CASE b \in P \ {r} /\ c = l
      <4>1. f[b] <= f[r]
        BY <1>0, <1>1, <1>4, <2>3, <3>4
      <4>2. f[b] # f[r]
        BY <1>1, <3>4 DEF Way
      <4>3. f[b] < f[r]
        BY <1>0, <1>1, <3>4, <4>1, <4>2
      <4>4. nx[b] # NULL /\ nx[b] \in P /\ f[nx[b]] <= f[r]
        BY <1>1, <3>4, <4>3 DEF Way
      <4>5. g[nx[b]] = 2 * f[nx[b]] /\ g[c] = 2 * f[r] + 1 /\ f[nx[b]] \in Int /\ f[r] \in Int
        BY <1>0, <1>1, <1>4, <3>4, <4>4
      <4>. QED
        BY <1>3, <3>4, <4>4, <4>5
    <3>. QED
      BY <3>1, <3>2, <3>3, <3>4
  <2>4. \A b \in Q : g[h] <= g[b]
    BY <1>0, <1>1, <1>4
  <2>. QED
    BY <2>1, <2>2, <2>3, <2>4 DEF Way
<1>6. Back(Q, nx2, pv2, NULL)
  <2>. SUFFICES ASSUME NEW a \in Q, pv2[a] \in Q PROVE nx2[pv2[a]] = a
    BY DEF Back
  <2>1. CASE a = l \/ a = q
    BY <1>0, <1>1, <1>2, <1>3, <2>1
  <2>2. CASE a = r
    BY <1>1, <1>3, <2>2
  <2>3. CASE a \notin {l, r, q}
    <3>1. pv2[a] = pv[a] /\ pv[a] # l
      BY <1>3, <2>3 DEF Passed
    <3>2. nx[pv[a]] = a /\ pv[a] \in P
      BY <2>3, <3>1 DEF Back
    <3>3. pv[a] # r
      BY <2>3, <3>2 DEF q
    <3>. QED
      BY <1>3, <3>1, <3>2, <3>3
  <2>. QED
    BY <2>1, <2>2, <2>3
<1>7. Before(Q, g, l, en)
  <2>1. en # NULL => en \in P /\ f[r] < f[en]
    BY DEF Passed, Before
  <2>. QED
    BY <1>0, <1>1, <1>4, <2>1 DEF Before
<1>. QED
  BY <1>1, <1>4, <1>5, <1>6, <1>7

SwapOnWay(P, f, h, nx, pv, pc, l, en, r, sw, nx2, pv2) ==
  /\ pc \in {"swap", "swaphead"} /\ Walk(P, f, h, nx, pv, pc, l, en, r, sw)
  /\ nx2 = NextSwapped(nx, pv, l, r) /\ pv2 = PrevSwapped(nx, pv, l, r)

\* The three together: current is the node it was, and not the head.
LEMMA WalkSwap ==
  ASSUME NEW P, NEW f, NEW h, NEW nx, NEW pv, NEW pc, NEW l, NEW r, NEW en, NEW sw, NEW nx2,
         NEW pv2,
         f \in Rank, P \subseteq Node, SwapOnWay(P, f, h, nx, pv, pc, l, en, r, sw, nx2, pv2)
  PROVE  \E Q, g : /\ Q \subseteq P \union {l} /\ g \in Rank /\ l # h
                  /\ Walk(Q, g, h, nx2, pv2, "compare", l, en, r, sw)
<1>. USE DEF SwapOnWay
<1>0. \A b \in P : b # NULL /\ f[b] \in Int
  BY DEF Node, NULL, Rank
<1>1. r \in P /\ h # NULL
  BY DEF Walk, Sorting, Pair, Passed, Before, Way
<1>2. ASSUME NEW Q, Q \subseteq P \union {l}, NEW g \in Rank, Way(Q, g, h, nx2), Back(Q, nx2, pv2, NULL),
             Before(Q, g, l, en), l # h
      PROVE  Walk(Q, g, h, nx2, pv2, "compare", l, en, r, sw)
  BY <1>2 DEF Walk, Sorting, Exempt
<1>3. Way(P, f, h, nx) /\ Back(P, nx, pv, Exempt(pc, r)) /\ Exempt(pc, r) \in {r, NULL}
  BY DEF Walk, Exempt
<1>4. CASE Pair(P, f, nx, l, en, r) /\ l # h
  <2>1. l \in P /\ r = nx[l] /\ l # r
    BY <1>0, <1>4 DEF Pair, Walk, Way
  <2>2. CASE pv[l] \in P
    <3>1. Exempt(pc, r) # l
      BY <1>0, <1>3, <2>1
    <3>2. \E g \in Rank : /\ Way(P, g, h, nx2) /\ Back(P, nx2, pv2, NULL) /\ Before(P, g, l, en)
      BY <1>1, <1>3, <1>4, <2>2, <3>1, WalkSwapped
    <3>3. P \subseteq P \union {l}
      OBVIOUS
    <3>. QED
      BY <1>2, <1>4, <3>2, <3>3
  <2>3. CASE pv[l] \notin P
    <3>. DEFINE Q == P \ {r}
    <3>1. Way(Q, f, h, nx2) /\ Back(Q, nx2, pv2, NULL) /\ Before(Q, f, l, en)
      BY <1>1, <1>3, <1>4, <2>3, WalkLoses
    <3>2. Q \subseteq P \union {l}
      OBVIOUS
    <3>. HIDE DEF Q
    <3>. QED
      BY <1>2, <1>4, <3>1, <3>2
  <2>. QED
    BY <2>2, <2>3
<1>5. CASE pc = "swaphead" /\ Passed(P, f, nx, pv, l, en, r)
  <2>. DEFINE Q == P \union {l}
  <2>1. Back(P, nx, pv, r)
    BY <1>3, <1>5 DEF Exempt
  <2>2. \E g \in Rank : Way(Q, g, h, nx2) /\ Back(Q, nx2, pv2, NULL) /\ Before(Q, g, l, en) /\ l # h
    BY <1>1, <1>3, <1>5, <2>1, WalkComesBack
  <2>3. Q \subseteq P \union {l}
    OBVIOUS
  <2>. HIDE DEF Q
  <2>. QED
    BY <1>2, <2>2, <2>3
<1>. QED
  BY <1>4, <1>5 DEF Walk, Sorting

-------------------------------------------------------------------------------
===============================================================================
