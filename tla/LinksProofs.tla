----------------------------- MODULE LinksProofs -----------------------------
(***************************************************************************)
(* Links, for every number of threads and semaphores: whatever is inserted *)
(* and removed, the links lead through the elements the lists have.        *)
(***************************************************************************)
EXTENDS Links, SyncProofs, SequenceTheorems, FunctionTheorems,
        FiniteSetTheorems, WellFoundedInduction

\* The tags that lists link.
Tag == {general_tag(t) : t \in Thread} \cup {all_list_tag(t) : t \in Thread}

\* L gives each list its tags; Node, what lies from its head to its tail.
Node(L, l, k) ==
    IF k = 0 THEN head(l) ELSE IF k = Len(L[l]) + 1 THEN tail(l) ELSE L[l][k]

\* x is an element of q; no element is in q twice.
Among(q, x) == \E i \in 1 .. Len(q) : q[i] = x
Distinct(q) == \A i, j \in 1 .. Len(q) : q[i] = q[j] => i = j

InList(L, x) == \E l \in List : Among(L[l], x)

\* No tag is in two places.
Layout(L) ==
    /\ L \in [List -> Seq(Tag)]
    /\ \A l \in List : Distinct(L[l])
    /\ \A l, m \in List : \A x : Among(L[l], x) /\ Among(L[m], x) => l = m

Heap == [next : [Elem -> Elem \cup {NULL}], prev : [Elem -> Elem \cup {NULL}]]

Linked(h, L) ==
    \A l \in List : \A k \in 0 .. Len(L[l]) :
        /\ h.next[Node(L, l, k)] = Node(L, l, k + 1)
        /\ h.prev[Node(L, l, k + 1)] = Node(L, l, k)

\* What is in no list has no links; nothing follows a tail.
Loose(h, L) ==
    \A e \in Tag \ {general_tag(main)} :
        ~ InList(L, e) => h.next[e] = NULL /\ h.prev[e] = NULL
Ends(h) == \A l \in List : h.next[tail(l)] = NULL

HeapOK(h, L) ==
    h \in Heap /\ Layout(L) /\ Linked(h, L) /\ Loose(h, L) /\ Ends(h)

-----------------------------------------------------------------------------
(* The elements of lists. *)

\* Heads, tails and tags are different things, and none is NULL.
LEMMA ElemKinds ==
    /\ \A l \in List : head(l) \in Elem /\ tail(l) \in Elem
    /\ Tag \subseteq Elem
    /\ \A l, m \in List : /\ head(l) # tail(m)
                          /\ head(l) = head(m) => l = m
                          /\ tail(l) = tail(m) => l = m
    /\ \A l \in List : head(l) \notin Tag /\ tail(l) \notin Tag
    /\ NULL \notin Elem
    /\ \A t, u : /\ general_tag(t) # all_list_tag(u)
                 /\ general_tag(t) = general_tag(u) => t = u
                 /\ all_list_tag(t) = all_list_tag(u) => t = u
BY DEF Elem, Tag, head, tail, general_tag, all_list_tag, NULL

LEMMA NodeElem ==
    ASSUME NEW L, Layout(L), NEW l \in List
    PROVE  /\ Len(L[l]) \in Nat /\ L[l] \in Seq(Tag)
           /\ \A k \in 0 .. Len(L[l]) + 1 : Node(L, l, k) \in Elem
           /\ \A k \in 1 .. Len(L[l]) :
                  Node(L, l, k) = L[l][k] /\ L[l][k] \in Tag
           /\ Node(L, l, 0) = head(l) /\ Node(L, l, Len(L[l]) + 1) = tail(l)
<1>1. L[l] \in Seq(Tag)
  BY DEF Layout
<1>2. Len(L[l]) \in Nat /\ \A k \in 1 .. Len(L[l]) : L[l][k] \in Tag
  BY <1>1
<1> QED
  BY <1>1, <1>2, ElemKinds DEF Node

LEMMA NodesDistinct ==
    ASSUME NEW L, Layout(L), NEW l \in List, NEW m \in List,
           NEW i \in 0 .. Len(L[l]) + 1, NEW j \in 0 .. Len(L[m]) + 1,
           Node(L, l, i) = Node(L, m, j)
    PROVE  l = m /\ i = j
<1>1. /\ Len(L[l]) \in Nat /\ Len(L[m]) \in Nat
      /\ \A k \in 1 .. Len(L[l]) : L[l][k] \in Tag
      /\ \A k \in 1 .. Len(L[m]) : L[m][k] \in Tag
  BY NodeElem
<1>2. CASE i = 0
  BY <1>1, <1>2, ElemKinds DEF Node
<1>3. CASE i = Len(L[l]) + 1
  BY <1>1, <1>3, ElemKinds DEF Node
<1>4. CASE i \in 1 .. Len(L[l])
  <2>1. Node(L, l, i) = L[l][i] /\ L[l][i] \in Tag
    BY <1>1, <1>4 DEF Node
  <2>2. j \in 1 .. Len(L[m])
    BY <1>1, <2>1, ElemKinds DEF Node
  <2>3. Node(L, m, j) = L[m][j]
    BY <1>1, <2>2 DEF Node
  <2> QED
    BY <1>4, <2>1, <2>2, <2>3 DEF Layout, Among, Distinct
<1> QED
  BY <1>1, <1>2, <1>3, <1>4

\* An element that is in no list is no node.
LEMMA NoNode ==
    ASSUME NEW L, Layout(L), NEW e \in Tag, ~ InList(L, e), NEW l \in List,
           NEW k \in 0 .. Len(L[l]) + 1
    PROVE  Node(L, l, k) # e
BY NodeElem, ElemKinds DEF Node, InList, Among

-----------------------------------------------------------------------------
(* The stores of list.c. *)

LEMMA InsertEffect ==
    ASSUME NEW h \in Heap, NEW b \in Elem, NEW e \in Elem, NEW a \in Elem,
           a = h.prev[b], e # b, e # a
    PROVE  LET g == insert_before(h, b, e) IN
           /\ g \in Heap
           /\ \A x \in Elem :
                /\ g.next[x] = IF x = a THEN e ELSE IF x = e THEN b ELSE h.next[x]
                /\ g.prev[x] = IF x = b THEN e ELSE IF x = e THEN a ELSE h.prev[x]
<1> DEFINE n == [[h.next EXCEPT ![e] = b] EXCEPT ![a] = e]
           p == [[h.prev EXCEPT ![e] = a] EXCEPT ![b] = e]
           h0 == Next(h, e, b)
           h1 == Prev(h0, e, h.prev[b])
           h2 == Next(h1, h1.prev[b], e)
<1>1. /\ h.next \in [Elem -> Elem \cup {NULL}]
      /\ h.prev \in [Elem -> Elem \cup {NULL}]
      /\ h = [next |-> h.next, prev |-> h.prev]
  BY DEF Heap
<1>0. h0 = [next |-> [h.next EXCEPT ![e] = b], prev |-> h.prev]
  BY <1>1 DEF Next
<1>2. h1 = [next |-> [h.next EXCEPT ![e] = b], prev |-> [h.prev EXCEPT ![e] = a]]
  <2> HIDE DEF h0
  <2> QED
    BY <1>0 DEF Prev
<1>3. h1.prev[b] = a
  BY <1>1, <1>2
<1>4. h2 = [next |-> n, prev |-> [h.prev EXCEPT ![e] = a]]
  <2> HIDE DEF h1
  <2> QED
    BY <1>2, <1>3 DEF Next
<1>5. insert_before(h, b, e) = [next |-> n, prev |-> p]
  <2>1. insert_before(h, b, e) = Prev(h2, b, e)
    BY DEF insert_before
  <2> HIDE DEF h2, n
  <2> QED
    BY <1>4, <2>1 DEF Prev
<1>6. /\ n \in [Elem -> Elem \cup {NULL}] /\ p \in [Elem -> Elem \cup {NULL}]
      /\ \A x \in Elem :
           /\ n[x] = IF x = a THEN e ELSE IF x = e THEN b ELSE h.next[x]
           /\ p[x] = IF x = b THEN e ELSE IF x = e THEN a ELSE h.prev[x]
  BY <1>1
<1> HIDE DEF n, p
<1> QED
  BY <1>5, <1>6 DEF Heap

LEMMA RemoveEffect ==
    ASSUME NEW h \in Heap, NEW e \in Elem, NEW a \in Elem, NEW c \in Elem,
           a = h.prev[e], c = h.next[e], e # a, e # c
    PROVE  LET g == remove(h, e) IN
           /\ g \in Heap
           /\ \A x \in Elem :
                /\ g.next[x] = IF x = e THEN NULL ELSE IF x = a THEN c ELSE h.next[x]
                /\ g.prev[x] = IF x = e THEN NULL ELSE IF x = c THEN a ELSE h.prev[x]
<1> DEFINE n == [[h.next EXCEPT ![a] = c] EXCEPT ![e] = NULL]
           p == [[h.prev EXCEPT ![c] = a] EXCEPT ![e] = NULL]
           h1 == Next(h, h.prev[e], h.next[e])
           h2 == Prev(h1, h1.next[e], h1.prev[e])
           h3 == Next(h2, e, NULL)
<1>1. /\ h.next \in [Elem -> Elem \cup {NULL}]
      /\ h.prev \in [Elem -> Elem \cup {NULL}]
      /\ h = [next |-> h.next, prev |-> h.prev]
  BY DEF Heap
<1>2. h1 = [next |-> [h.next EXCEPT ![a] = c], prev |-> h.prev]
  BY <1>1 DEF Next
<1>3. h1.next[e] = c /\ h1.prev[e] = a
  BY <1>1, <1>2
<1>4. h2 = [next |-> [h.next EXCEPT ![a] = c], prev |-> [h.prev EXCEPT ![c] = a]]
  <2> HIDE DEF h1
  <2> QED
    BY <1>2, <1>3 DEF Prev
<1>5. h3 = [next |-> n, prev |-> [h.prev EXCEPT ![c] = a]]
  <2> HIDE DEF h2
  <2> QED
    BY <1>4 DEF Next
<1>6. remove(h, e) = [next |-> n, prev |-> p]
  <2>1. remove(h, e) = Prev(h3, e, NULL)
    BY DEF remove
  <2> HIDE DEF h3, n
  <2> QED
    BY <1>5, <2>1 DEF Prev
<1>7. /\ n \in [Elem -> Elem \cup {NULL}] /\ p \in [Elem -> Elem \cup {NULL}]
      /\ \A x \in Elem :
           /\ n[x] = IF x = e THEN NULL ELSE IF x = a THEN c ELSE h.next[x]
           /\ p[x] = IF x = e THEN NULL ELSE IF x = c THEN a ELSE h.prev[x]
  BY <1>1
<1> HIDE DEF n, p
<1> QED
  BY <1>6, <1>7 DEF Heap

\* list_insert_before, anywhere in a list.
Inserted(q, p, e) ==
    [k \in 1 .. Len(q) + 1 |->
        IF k <= p THEN q[k] ELSE IF k = p + 1 THEN e ELSE q[k - 1]]

\* r is q with e inserted after the first p elements.
Splice(r, q, p, e) ==
    /\ Len(r) = Len(q) + 1
    /\ \A k \in 1 .. p : r[k] = q[k]
    /\ r[p + 1] = e
    /\ \A k \in p + 2 .. Len(q) + 1 : r[k] = q[k - 1]

LEMMA InsertedSeq ==
    ASSUME NEW S, NEW q \in Seq(S), NEW p \in 0 .. Len(q), NEW e \in S
    PROVE  /\ Inserted(q, p, e) \in Seq(S)
           /\ Splice(Inserted(q, p, e), q, p, e)
<1> DEFINE n == Len(q)
           r == Inserted(q, p, e)
<1>0. n \in Nat /\ p \in 0 .. n /\ \A k \in 1 .. n : q[k] \in S
  OBVIOUS
<1>1. r \in [1 .. n + 1 -> S]
  <2> SUFFICES ASSUME NEW k \in 1 .. n + 1
               PROVE  (IF k <= p THEN q[k] ELSE IF k = p + 1 THEN e ELSE q[k - 1])
                          \in S
    BY DEF Inserted
  <2> QED
    BY <1>0
<1>2. r \in Seq(S) /\ Len(r) = n + 1
  <2>1. n + 1 \in Nat
    BY <1>0
  <2> HIDE DEF r, n
  <2>2. r \in Seq(S)
    BY <1>1, <2>1, SeqDef
  <2>3. DOMAIN r = 1 .. n + 1
    BY <1>1
  <2> QED
    BY <2>1, <2>2, <2>3
<1>3. \A k \in 1 .. p : r[k] = q[k]
  BY <1>0 DEF Inserted
<1>4. r[p + 1] = e
  BY <1>0 DEF Inserted
<1>5. \A k \in p + 2 .. n + 1 : r[k] = q[k - 1]
  BY <1>0 DEF Inserted
<1> QED
  BY <1>2, <1>3, <1>4, <1>5 DEF Splice

\* The elements are those there were and the new one.
LEMMA InsertedElements ==
    ASSUME NEW q, NEW r, NEW e, Len(q) \in Nat, NEW p \in 0 .. Len(q),
           Splice(r, q, p, e)
    PROVE  /\ \A x : Among(r, x) => x = e \/ Among(q, x)
           /\ \A x : x = e \/ Among(q, x) => Among(r, x)
           /\ ~ Among(q, e) /\ Distinct(q) => Distinct(r)
<1> DEFINE n == Len(q)
<1>0. /\ n \in Nat /\ p \in 0 .. n
      /\ Len(r) = n + 1
      /\ \A k \in 1 .. p : r[k] = q[k]
      /\ r[p + 1] = e
      /\ \A k \in p + 2 .. n + 1 : r[k] = q[k - 1]
  BY DEF Splice
<1> HIDE DEF n
<1>1. ASSUME NEW i \in 1 .. n + 1 PROVE r[i] = e \/ \E k \in 1 .. n : r[i] = q[k]
  <2>1. CASE i \in 1 .. p
    <3>1. i \in 1 .. n /\ r[i] = q[i]
      BY <1>0, <2>1
    <3> QED
      BY <3>1
  <2>2. CASE i \in p + 2 .. n + 1
    <3>1. i - 1 \in 1 .. n /\ r[i] = q[i - 1]
      BY <1>0, <2>2
    <3> QED
      BY <3>1
  <2> QED
    BY <1>0, <2>1, <2>2
<1>2. ASSUME NEW k \in 1 .. n PROVE \E i \in 1 .. n + 1 : r[i] = q[k]
  <2>1. CASE k <= p
    <3>1. k \in 1 .. n + 1 /\ r[k] = q[k]
      BY <1>0, <2>1
    <3> QED
      BY <3>1
  <2>2. CASE k > p
    <3>1. k + 1 \in p + 2 .. n + 1 /\ (k + 1) - 1 = k /\ k + 1 \in 1 .. n + 1
      BY <1>0, <2>2
    <3>2. r[k + 1] = q[k]
      BY <1>0, <3>1
    <3> QED
      BY <3>1, <3>2
  <2> QED
    BY <1>0, <2>1, <2>2
<1>3. ASSUME \A k \in 1 .. n : q[k] # e,
             \A i, j \in 1 .. n : q[i] = q[j] => i = j,
             NEW i \in 1 .. n + 1, NEW j \in 1 .. n + 1, r[i] = r[j]
      PROVE  i = j
  <2>1. ASSUME NEW x \in 1 .. n + 1, x # p + 1
        PROVE  \E y \in 1 .. n : /\ r[x] = q[y]
                                 /\ y = IF x <= p THEN x ELSE x - 1
    <3>1. CASE x <= p
      BY <1>0, <3>1
    <3>2. CASE x > p + 1
      <4>1. x \in p + 2 .. n + 1 /\ x - 1 \in 1 .. n
        BY <1>0, <3>2
      <4>2. r[x] = q[x - 1]
        BY <1>0, <4>1
      <4> QED
        BY <3>2, <4>1, <4>2
    <3> QED
      BY <1>0, <2>1, <3>1, <3>2
  <2>2. CASE i = p + 1 \/ j = p + 1
    BY <1>0, <1>3, <2>1, <2>2
  <2>3. CASE i # p + 1 /\ j # p + 1
    <3>1. PICK y \in 1 .. n : r[i] = q[y] /\ y = IF i <= p THEN i ELSE i - 1
      BY <2>1, <2>3
    <3>2. PICK z \in 1 .. n : r[j] = q[z] /\ z = IF j <= p THEN j ELSE j - 1
      BY <2>1, <2>3
    <3>3. y = z
      BY <1>3, <3>1, <3>2
    <3> QED
      BY <1>0, <2>3, <3>1, <3>2, <3>3
  <2> QED
    BY <2>2, <2>3
<1>4. \A x : Among(r, x) => x = e \/ Among(q, x)
  BY <1>0, <1>1 DEF Among, n
<1>5. \A x : x = e \/ Among(q, x) => Among(r, x)
  BY <1>0, <1>2 DEF Among, n
<1>6. ~ Among(q, e) /\ Distinct(q) => Distinct(r)
  BY <1>0, <1>3 DEF Among, Distinct, n
<1> QED
  BY <1>4, <1>5, <1>6

LEMMA InsertedLayout ==
    ASSUME NEW L, Layout(L), NEW l \in List, NEW p \in 0 .. Len(L[l]),
           NEW e \in Tag, ~ InList(L, e),
           NEW M \in [List -> Seq(Tag)], M[l] = Inserted(L[l], p, e),
           \A m \in List \ {l} : M[m] = L[m]
    PROVE  /\ Layout(M)
           /\ Len(M[l]) = Len(L[l]) + 1
           /\ \A x : InList(M, x) <=> x = e \/ InList(L, x)
           /\ \A k \in 0 .. p : Node(M, l, k) = Node(L, l, k)
           /\ Node(M, l, p + 1) = e
           /\ \A k \in p + 2 .. Len(L[l]) + 2 :
                Node(M, l, k) = Node(L, l, k - 1)
           /\ \A m \in List \ {l} : \A k : Node(M, m, k) = Node(L, m, k)
<1> DEFINE q == L[l]
           r == M[l]
<1>0. Len(q) \in Nat /\ q \in Seq(Tag) /\ p \in 0 .. Len(q)
  BY NodeElem
<1>1. r = Inserted(q, p, e) /\ L[l] = q /\ M[l] = r
  OBVIOUS
<1>2. Layout(L) /\ ~ InList(L, e)
  OBVIOUS
<1> HIDE DEF q, r
<1>3. Splice(r, q, p, e)
  BY <1>0, <1>1, InsertedSeq
<1>4. /\ \A x : Among(r, x) => x = e \/ Among(q, x)
      /\ \A x : x = e \/ Among(q, x) => Among(r, x)
      /\ ~ Among(q, e) /\ Distinct(q) => Distinct(r)
  BY <1>0, <1>3, InsertedElements, Zenon
<1>5. Layout(M)
  <2>1. Distinct(r)
    BY <1>1, <1>2, <1>4, Zenon DEF Layout, InList
  <2>2. \A m \in List : Distinct(M[m])
    BY <1>1, <1>2, <2>1, Zenon DEF Layout
  <2>3. ASSUME NEW x \in List, NEW y \in List, NEW z, Among(M[x], z), Among(M[y], z)
        PROVE  x = y
    <3>1. ASSUME NEW m \in List, m # l, Among(M[m], z) PROVE ~ Among(r, z)
      <4>1. Among(L[m], z) /\ z # e
        BY <1>2, <3>1, Zenon DEF InList
      <4> QED
        BY <1>1, <1>2, <1>4, <3>1, <4>1, Zenon DEF Layout
    <3> QED
      BY <1>1, <1>2, <2>3, <3>1, Zenon DEF Layout
  <2> QED
    BY <2>2, <2>3, Zenon DEF Layout
<1>6. ASSUME NEW x PROVE InList(M, x) <=> x = e \/ InList(L, x)
  <2>1. InList(M, x) => x = e \/ InList(L, x)
    BY <1>1, <1>4, Zenon DEF InList
  <2>2. x = e \/ InList(L, x) => InList(M, x)
    BY <1>1, <1>4, Zenon DEF InList
  <2> QED
    BY <2>1, <2>2
<1> DEFINE n == Len(q)
<1>7. /\ n \in Nat /\ p \in 0 .. n
      /\ Len(r) = n + 1
      /\ \A k \in 1 .. p : r[k] = q[k]
      /\ r[p + 1] = e
      /\ \A k \in p + 2 .. n + 1 : r[k] = q[k - 1]
  BY <1>0, <1>3 DEF Splice
<1>8. \A j : /\ Node(L, l, j) = IF j = 0 THEN head(l)
                                ELSE IF j = n + 1 THEN tail(l) ELSE q[j]
             /\ Node(M, l, j) = IF j = 0 THEN head(l)
                                ELSE IF j = (n + 1) + 1 THEN tail(l) ELSE r[j]
  BY <1>1, <1>7 DEF Node
<1>9. n = Len(L[l]) /\ Len(M[l]) = n + 1
  BY <1>1, <1>7
<1> HIDE DEF n
<1>10. \A k \in 0 .. p : Node(M, l, k) = Node(L, l, k)
  BY <1>7, <1>8
<1>11. Node(M, l, p + 1) = e
  BY <1>7, <1>8
<1>12. ASSUME NEW k \in p + 2 .. n + 2 PROVE Node(M, l, k) = Node(L, l, k - 1)
  <2>1. CASE k = n + 2
    <3>1. k # 0 /\ k = (n + 1) + 1 /\ k - 1 # 0 /\ k - 1 = n + 1
      BY <1>7, <2>1
    <3> QED
      BY <1>8, <3>1
  <2>2. CASE k # n + 2
    <3>0. n \in Nat /\ p \in Nat /\ k \in Nat /\ p + 2 <= k /\ k <= n + 2
      BY <1>7
    <3>1. k \in p + 2 .. n + 1 /\ k # 0 /\ k # (n + 1) + 1 /\ k - 1 # 0
          /\ k - 1 # n + 1
      BY <2>2, <3>0
    <3>2. r[k] = q[k - 1]
      BY <1>7, <3>1
    <3> QED
      BY <1>8, <3>1, <3>2
  <2> QED
    BY <2>1, <2>2
<1>13. \A m \in List \ {l} : \A k : Node(M, m, k) = Node(L, m, k)
  BY DEF Node
<1> QED
  BY <1>5, <1>6, <1>9, <1>10, <1>11, <1>12, <1>13

LEMMA InsertKeepsHeap ==
    ASSUME NEW h, NEW L, HeapOK(h, L), NEW l \in List, NEW p \in 0 .. Len(L[l]),
           NEW e \in Tag, ~ InList(L, e),
           NEW M \in [List -> Seq(Tag)], M[l] = Inserted(L[l], p, e),
           \A m \in List \ {l} : M[m] = L[m]
    PROVE  HeapOK(insert_before(h, Node(L, l, p + 1), e), M)
<1> DEFINE n == Len(L[l])
           a == Node(L, l, p)
           b == Node(L, l, p + 1)
           g == insert_before(h, b, e)
<1>0. /\ h \in Heap /\ Layout(L) /\ Linked(h, L) /\ Loose(h, L) /\ Ends(h)
      /\ n \in Nat /\ p \in 0 .. n
  BY NodeElem DEF HeapOK
<1>1. /\ Layout(M) /\ Len(M[l]) = n + 1
      /\ \A x : InList(M, x) <=> x = e \/ InList(L, x)
      /\ \A k \in 0 .. p : Node(M, l, k) = Node(L, l, k)
      /\ Node(M, l, p + 1) = e
      /\ \A k \in p + 2 .. n + 2 : Node(M, l, k) = Node(L, l, k - 1)
      /\ \A m \in List \ {l} : \A k : Node(M, m, k) = Node(L, m, k)
  BY <1>0, InsertedLayout
<1>2. /\ a \in Elem /\ b \in Elem /\ e \in Elem /\ a # e /\ b # e
      /\ a = h.prev[b]
  <2>1. p \in 0 .. n + 1 /\ p + 1 \in 0 .. n + 1
    BY <1>0
  <2>2. a \in Elem /\ b \in Elem /\ e \in Elem
    BY <1>0, <2>1, NodeElem, ElemKinds
  <2>3. a # e /\ b # e
    BY <1>0, <2>1, NoNode
  <2>4. a = h.prev[b]
    BY <1>0 DEF Linked
  <2> QED
    BY <2>2, <2>3, <2>4
<1>3. /\ g \in Heap
      /\ \A x \in Elem :
           /\ g.next[x] = IF x = a THEN e ELSE IF x = e THEN b ELSE h.next[x]
           /\ g.prev[x] = IF x = b THEN e ELSE IF x = e THEN a ELSE h.prev[x]
  <2> HIDE DEF a, b
  <2> QED
    BY <1>0, <1>2, InsertEffect
<1>4. \A m \in List : \A k \in 0 .. Len(L[m]) + 1 :
         /\ Node(L, m, k) \in Elem /\ Node(L, m, k) # e
         /\ Node(L, m, k) = a => m = l /\ k = p
         /\ Node(L, m, k) = b => m = l /\ k = p + 1
  BY <1>0, NodeElem, NoNode, NodesDistinct
<1>5. \A m \in List : \A k \in 0 .. Len(L[m]) :
         /\ h.next[Node(L, m, k)] = Node(L, m, k + 1)
         /\ h.prev[Node(L, m, k + 1)] = Node(L, m, k)
  BY <1>0 DEF Linked
<1> HIDE DEF g
<1>6. ASSUME NEW m \in List, NEW k \in 0 .. Len(M[m])
      PROVE  /\ g.next[Node(M, m, k)] = Node(M, m, k + 1)
             /\ g.prev[Node(M, m, k + 1)] = Node(M, m, k)
  <2>1. CASE m # l
    <3>1. k \in 0 .. Len(L[m]) /\ Len(L[m]) \in Nat
      BY <1>0, <1>1, <2>1, NodeElem
    <3>2. /\ Node(L, m, k) \in Elem /\ Node(L, m, k) \notin {a, e}
          /\ Node(L, m, k + 1) \in Elem /\ Node(L, m, k + 1) \notin {b, e}
      BY <1>4, <2>1, <3>1
    <3>3. Node(M, m, k) = Node(L, m, k) /\ Node(M, m, k + 1) = Node(L, m, k + 1)
      BY <1>1, <2>1
    <3> QED
      BY <1>3, <1>5, <3>1, <3>2, <3>3
  <2>2. CASE m = l /\ k < p
    <3>1. k \in 0 .. n /\ k + 1 \in 0 .. n
      BY <1>0, <1>1, <2>2
    <3>2. /\ Node(L, l, k) \in Elem /\ Node(L, l, k) \notin {a, e}
          /\ Node(L, l, k + 1) \in Elem /\ Node(L, l, k + 1) \notin {b, e}
      BY <1>0, <1>4, <2>2, <3>1
    <3>3. Node(M, l, k) = Node(L, l, k) /\ Node(M, l, k + 1) = Node(L, l, k + 1)
      BY <1>0, <1>1, <2>2, <3>1
    <3> QED
      BY <1>3, <1>5, <2>2, <3>1, <3>2, <3>3
  <2>3. CASE m = l /\ k = p
    <3>1. Node(M, l, k) = a /\ Node(M, l, k + 1) = e
      BY <1>0, <1>1, <2>3
    <3> QED
      BY <1>2, <1>3, <2>3, <3>1
  <2>4. CASE m = l /\ k = p + 1
    <3>1. Node(M, l, k) = e /\ Node(M, l, k + 1) = b
      BY <1>0, <1>1, <2>4
    <3> QED
      BY <1>2, <1>3, <2>4, <3>1
  <2>5. CASE m = l /\ k > p + 1
    <3>0. k \in 0 .. n + 1 /\ n \in Nat /\ p \in Nat /\ p <= n
      BY <1>0, <1>1, <2>5
    <3>1. k - 1 \in 0 .. n /\ (k - 1) + 1 = k /\ k \in 0 .. n + 1
          /\ k \in p + 2 .. n + 2 /\ k + 1 \in p + 2 .. n + 2 /\ (k + 1) - 1 = k
          /\ k - 1 # p /\ k # p + 1
      BY <2>5, <3>0
    <3>2. /\ Node(L, l, k - 1) \in Elem /\ Node(L, l, k - 1) \notin {a, e}
          /\ Node(L, l, k) \in Elem /\ Node(L, l, k) \notin {b, e}
      <4>1. k - 1 \in 0 .. Len(L[l]) + 1 /\ k \in 0 .. Len(L[l]) + 1
        BY <3>0, <3>1
      <4> QED
        BY <1>4, <3>1, <4>1
    <3>3. Node(M, l, k) = Node(L, l, k - 1) /\ Node(M, l, k + 1) = Node(L, l, k)
      BY <1>1, <3>1
    <3>4. h.next[Node(L, l, k - 1)] = Node(L, l, k)
          /\ h.prev[Node(L, l, k)] = Node(L, l, k - 1)
      BY <1>5, <3>1
    <3> QED
      BY <1>3, <2>5, <3>2, <3>3, <3>4
  <2> QED
    BY <1>0, <1>1, <2>1, <2>2, <2>3, <2>4, <2>5
<1>7. Loose(g, M)
  <2> SUFFICES ASSUME NEW x \in Tag \ {general_tag(main)}, ~ InList(M, x)
               PROVE  g.next[x] = NULL /\ g.prev[x] = NULL
    BY DEF Loose
  <2>1. ~ InList(L, x) /\ x # e /\ x \in Elem
    BY <1>1, ElemKinds, Zenon
  <2>2. x # a /\ x # b
    BY <1>0, <2>1, NoNode
  <2>3. h.next[x] = NULL /\ h.prev[x] = NULL
    BY <1>0, <2>1 DEF Loose
  <2> QED
    BY <1>3, <2>1, <2>2, <2>3
<1>8. Ends(g)
  <2> SUFFICES ASSUME NEW m \in List PROVE g.next[tail(m)] = NULL
    BY DEF Ends
  <2>1. tail(m) = Node(L, m, Len(L[m]) + 1) /\ Len(L[m]) \in Nat
    BY <1>0, NodeElem
  <2>2. tail(m) \in Elem /\ tail(m) # e /\ tail(m) # a
    <3>1. Len(L[m]) + 1 \in 0 .. Len(L[m]) + 1
      BY <2>1
    <3>2. m = l => Len(L[m]) + 1 # p
      BY <1>0
    <3> QED
      BY <1>4, <2>1, <3>1, <3>2
  <2> QED
    BY <1>0, <1>3, <2>2 DEF Ends
<1>9. Linked(g, M)
  BY <1>6 DEF Linked
<1> QED
  BY <1>1, <1>3, <1>7, <1>8, <1>9 DEF HeapOK, g


\* The same list with q in place of what l had.
With(L, l, q) == [L EXCEPT ![l] = q]

\* list_append and list_push link the tag where the sequences have it.
LEMMA AppendKeepsHeap ==
    ASSUME NEW h, NEW L, HeapOK(h, L), NEW l \in List,
           NEW e \in Tag, ~ InList(L, e)
    PROVE  HeapOK(append(h, l, e), With(L, l, Append(L[l], e)))
<1> DEFINE q == L[l]
           M == With(L, l, Append(q, e))
<1>1. Layout(L) /\ L \in [List -> Seq(Tag)] /\ q \in Seq(Tag) /\ Len(q) \in Nat
      /\ Len(q) \in 0 .. Len(q)
  BY NodeElem DEF HeapOK, Layout
<1>2. Append(q, e) = Inserted(q, Len(q), e)
  <2> HIDE DEF q
  <2>1. Len(Append(q, e)) = Len(q) + 1
        /\ \A k \in 1 .. Len(q) + 1 :
             Append(q, e)[k] = IF k = Len(q) + 1 THEN e ELSE q[k]
    BY <1>1, AppendProperties
  <2>2. Append(q, e) \in Seq(Tag)
    BY <1>1
  <2>3. /\ Inserted(q, Len(q), e) \in Seq(Tag)
        /\ Splice(Inserted(q, Len(q), e), q, Len(q), e)
    BY <1>1, InsertedSeq
  <2> DEFINE r == Inserted(q, Len(q), e)
             s == Append(q, e)
             n == Len(q)
  <2> HIDE DEF r, s
  <2>4. /\ r \in Seq(Tag) /\ s \in Seq(Tag) /\ n \in Nat
        /\ Len(r) = n + 1 /\ Len(s) = n + 1
        /\ \A k \in 1 .. n : r[k] = q[k]
        /\ r[n + 1] = e
        /\ \A k \in 1 .. n + 1 : s[k] = IF k = n + 1 THEN e ELSE q[k]
    BY <1>1, <2>1, <2>2, <2>3 DEF r, s, Splice
  <2> HIDE DEF n
  <2>5. \A k \in 1 .. n + 1 : r[k] = s[k]
    BY <2>4
  <2>6. Len(r) = Len(s) /\ \A k \in 1 .. Len(r) : r[k] = s[k]
    BY <2>4, <2>5
  <2>7. r = s
    BY <2>4, <2>6, SeqEqual
  <2> QED
    BY <2>7 DEF r, s
<1>3. M \in [List -> Seq(Tag)] /\ M[l] = Append(q, e)
      /\ \A m \in List \ {l} : M[m] = L[m]
  <2>1. Append(q, e) \in Seq(Tag)
    BY <1>1
  <2> QED
    BY <1>1, <2>1 DEF With
<1>4. Node(L, l, Len(q) + 1) = tail(l)
  BY <1>1, NodeElem
<1> HIDE DEF M
<1>5. HeapOK(insert_before(h, Node(L, l, Len(q) + 1), e), M)
  BY <1>1, <1>2, <1>3, InsertKeepsHeap
<1> QED
  BY <1>4, <1>5 DEF append, M

LEMMA PushKeepsHeap ==
    ASSUME NEW h, NEW L, HeapOK(h, L), NEW l \in List,
           NEW e \in Tag, ~ InList(L, e)
    PROVE  HeapOK(push(h, l, e), With(L, l, << e >> \o L[l]))
<1> DEFINE q == L[l]
           M == With(L, l, << e >> \o q)
<1>1. Layout(L) /\ L \in [List -> Seq(Tag)] /\ q \in Seq(Tag) /\ Len(q) \in Nat
      /\ 0 \in 0 .. Len(q) /\ << e >> \o q \in Seq(Tag)
  BY NodeElem DEF HeapOK, Layout
<1>2. << e >> \o q = Inserted(q, 0, e)
  <2> HIDE DEF q
  <2>1. Len(<< e >> \o q) = Len(q) + 1
        /\ \A k \in 1 .. Len(q) + 1 :
             (<< e >> \o q)[k] = IF k = 1 THEN e ELSE q[k - 1]
    BY <1>1
  <2>2. Inserted(q, 0, e) \in Seq(Tag) /\ Splice(Inserted(q, 0, e), q, 0, e)
    BY <1>1, InsertedSeq
  <2> DEFINE r == Inserted(q, 0, e)
             s == << e >> \o q
             n == Len(q)
  <2> HIDE DEF r, s
  <2>3. /\ r \in Seq(Tag) /\ s \in Seq(Tag) /\ n \in Nat
        /\ Len(r) = n + 1 /\ Len(s) = n + 1
        /\ r[0 + 1] = e
        /\ \A k \in 0 + 2 .. n + 1 : r[k] = q[k - 1]
        /\ \A k \in 1 .. n + 1 : s[k] = IF k = 1 THEN e ELSE q[k - 1]
    BY <1>1, <2>1, <2>2 DEF r, s, Splice
  <2> HIDE DEF n
  <2>4. \A k \in 1 .. n + 1 : r[k] = s[k]
    BY <2>3
  <2>5. Len(r) = Len(s) /\ \A k \in 1 .. Len(r) : r[k] = s[k]
    BY <2>3, <2>4
  <2>6. r = s
    BY <2>3, <2>5, SeqEqual
  <2> QED
    BY <2>6 DEF r, s
<1>3. M \in [List -> Seq(Tag)] /\ M[l] = << e >> \o q
      /\ \A m \in List \ {l} : M[m] = L[m]
  BY <1>1 DEF With
<1>4. Node(L, l, 0 + 1) = h.next[head(l)]
  <2>1. Node(L, l, 0) = head(l)
    BY DEF Node
  <2>2. h.next[Node(L, l, 0)] = Node(L, l, 0 + 1)
    BY <1>1 DEF HeapOK, Linked
  <2> QED
    BY <2>1, <2>2
<1> HIDE DEF M
<1>5. HeapOK(insert_before(h, Node(L, l, 0 + 1), e), M)
  <2>1. M[l] = Inserted(L[l], 0, e) /\ 0 \in 0 .. Len(L[l])
    BY <1>1, <1>2, <1>3
  <2>3. M \in [List -> Seq(Tag)] /\ \A m \in List \ {l} : M[m] = L[m]
    BY <1>3
  <2> HIDE DEF q
  <2>2. ASSUME NEW p \in 0 .. Len(L[l]), M[l] = Inserted(L[l], p, e)
        PROVE  HeapOK(insert_before(h, Node(L, l, p + 1), e), M)
    BY <2>2, <2>3, InsertKeepsHeap
  <2> QED
    BY <2>1, <2>2
<1> QED
  BY <1>4, <1>5 DEF push, M

\* list_empty reads what the sequence says, list_pop takes its first element.
LEMMA EmptyMeans ==
    ASSUME NEW h, NEW L, HeapOK(h, L), NEW l \in List
    PROVE  /\ empty(h, l) <=> L[l] = << >>
           /\ L[l] # << >> => h.next[head(l)] = Head(L[l])
<1>1. /\ L[l] \in Seq(Tag) /\ Len(L[l]) \in Nat
      /\ \A k \in 1 .. Len(L[l]) : L[l][k] \in Tag
  BY NodeElem DEF HeapOK
<1>2. h.next[head(l)] = Node(L, l, 1)
  <2>1. Node(L, l, 0) = head(l) /\ 0 + 1 = 1
    BY DEF Node
  <2>2. h.next[Node(L, l, 0)] = Node(L, l, 0 + 1)
    BY <1>1 DEF HeapOK, Linked
  <2> QED
    BY <2>1, <2>2
<1>3. CASE L[l] = << >>
  <2>1. Node(L, l, 1) = tail(l)
    BY <1>3 DEF Node
  <2> QED
    BY <1>2, <1>3, <2>1 DEF empty
<1>4. CASE L[l] # << >>
  <2>1. 1 \in 1 .. Len(L[l]) /\ Head(L[l]) = L[l][1]
    BY <1>1, <1>4
  <2>2. Node(L, l, 1) = L[l][1] /\ L[l][1] \in Tag
    BY <1>1, <2>1 DEF Node
  <2> QED
    BY <1>2, <1>4, <2>1, <2>2, ElemKinds DEF empty
<1> QED
  BY <1>3, <1>4

LEMMA TailElements ==
    ASSUME NEW S, NEW q \in Seq(S), q # << >>, Distinct(q)
    PROVE  /\ Tail(q) \in Seq(S) /\ Len(Tail(q)) = Len(q) - 1
           /\ \A k \in 1 .. Len(q) - 1 : Tail(q)[k] = q[k + 1]
           /\ Distinct(Tail(q))
           /\ \A x : Among(Tail(q), x) => Among(q, x) /\ x # Head(q)
           /\ \A x : Among(q, x) /\ x # Head(q) => Among(Tail(q), x)
<1> DEFINE n == Len(q)
           r == Tail(q)
<1>1. /\ n \in Nat /\ n > 0 /\ r \in Seq(S) /\ Len(r) = n - 1
      /\ \A k \in 1 .. n - 1 : r[k] = q[k + 1]
      /\ Head(q) = q[1]
  BY HeadTailProperties
<1>2. \A i, j \in 1 .. n : q[i] = q[j] => i = j
  BY DEF Distinct
<1>3. \A x : Among(q, x) <=> \E i \in 1 .. n : q[i] = x
  BY DEF Among
<1>4. \A x : Among(r, x) <=> \E i \in 1 .. n - 1 : r[i] = x
  BY <1>1 DEF Among
<1> HIDE DEF n
<1>5. Distinct(r)
  <2> SUFFICES ASSUME NEW i \in 1 .. n - 1, NEW j \in 1 .. n - 1, r[i] = r[j]
               PROVE  i = j
    BY <1>1 DEF Distinct
  <2>1. i + 1 \in 1 .. n /\ j + 1 \in 1 .. n /\ q[i + 1] = q[j + 1]
    BY <1>1
  <2> QED
    BY <1>2, <2>1
<1>6. ASSUME NEW x, Among(r, x) PROVE Among(q, x) /\ x # Head(q)
  <2>1. PICK i \in 1 .. n - 1 : r[i] = x
    BY <1>4, <1>6
  <2>2. i + 1 \in 1 .. n /\ q[i + 1] = x /\ i + 1 # 1 /\ 1 \in 1 .. n
    BY <1>1, <2>1
  <2> QED
    BY <1>1, <1>2, <1>3, <2>2
<1>7. ASSUME NEW x, Among(q, x), x # Head(q) PROVE Among(r, x)
  <2>1. PICK i \in 1 .. n : q[i] = x
    BY <1>3, <1>7
  <2>2. i - 1 \in 1 .. n - 1 /\ (i - 1) + 1 = i
    BY <1>1, <1>7, <2>1
  <2>3. r[i - 1] = x
    BY <1>1, <2>1, <2>2
  <2> QED
    BY <1>4, <2>2, <2>3
<1> QED
  BY <1>1, <1>5, <1>6, <1>7 DEF n

LEMMA PoppedLayout ==
    ASSUME NEW L, Layout(L), NEW l \in List, L[l] # << >>,
           NEW M \in [List -> Seq(Tag)], M[l] = Tail(L[l]),
           \A m \in List \ {l} : M[m] = L[m]
    PROVE  /\ Layout(M)
           /\ Head(L[l]) \in Tag /\ ~ InList(M, Head(L[l]))
           /\ Len(M[l]) = Len(L[l]) - 1
           /\ \A x : InList(L, x) <=> x = Head(L[l]) \/ InList(M, x)
           /\ Node(M, l, 0) = Node(L, l, 0)
           /\ Node(L, l, 1) = Head(L[l])
           /\ \A k \in 1 .. Len(L[l]) : Node(M, l, k) = Node(L, l, k + 1)
           /\ \A m \in List \ {l} : \A k : Node(M, m, k) = Node(L, m, k)
<1> DEFINE q == L[l]
           r == M[l]
           e == Head(q)
<1>0. Len(q) \in Nat /\ q \in Seq(Tag) /\ Distinct(q) /\ q # << >>
  BY NodeElem DEF Layout
<1>1. r = Tail(q) /\ L[l] = q /\ M[l] = r /\ e = Head(q)
  OBVIOUS
<1>2. Layout(L)
  OBVIOUS
<1> HIDE DEF q, r, e
<1>3. /\ Len(r) = Len(q) - 1
      /\ \A k \in 1 .. Len(q) - 1 : r[k] = q[k + 1]
      /\ Distinct(r)
      /\ \A x : Among(r, x) => Among(q, x) /\ x # e
      /\ \A x : Among(q, x) /\ x # e => Among(r, x)
  BY <1>0, <1>1, TailElements
<1>4. Len(q) > 0 /\ e = q[1] /\ e \in Tag /\ Among(q, e)
  <2>1. Len(q) > 0 /\ e = q[1] /\ 1 \in 1 .. Len(q)
    BY <1>0, <1>1
  <2> QED
    BY <1>0, <2>1 DEF Among
<1>5. Layout(M)
  <2>1. \A m \in List : Distinct(M[m])
    BY <1>1, <1>2, <1>3, Zenon DEF Layout
  <2>2. ASSUME NEW x \in List, NEW y \in List, NEW z, Among(M[x], z), Among(M[y], z)
        PROVE  x = y
    <3>1. \A m \in List : Among(M[m], z) => Among(L[m], z)
      BY <1>1, <1>3, Zenon
    <3> QED
      BY <1>2, <2>2, <3>1, Zenon DEF Layout
  <2> QED
    BY <2>1, <2>2, Zenon DEF Layout
<1>6. ~ InList(M, e)
  <2> SUFFICES ASSUME NEW m \in List, Among(M[m], e) PROVE FALSE
    BY Zenon DEF InList
  <2>1. m # l
    BY <1>1, <1>3
  <2> QED
    BY <1>1, <1>2, <1>4, <2>1, Zenon DEF Layout
<1>7. ASSUME NEW x PROVE InList(L, x) <=> x = e \/ InList(M, x)
  <2>1. x = e \/ InList(M, x) => InList(L, x)
    BY <1>1, <1>3, <1>4, Zenon DEF InList
  <2>2. InList(L, x) => x = e \/ InList(M, x)
    BY <1>1, <1>3, Zenon DEF InList
  <2> QED
    BY <2>1, <2>2
<1> DEFINE n == Len(q)
<1>8. n \in Nat /\ n > 0 /\ Len(r) = n - 1 /\ \A k \in 1 .. n - 1 : r[k] = q[k + 1]
  BY <1>0, <1>3, <1>4
<1>9. \A j : /\ Node(L, l, j) = IF j = 0 THEN head(l)
                                ELSE IF j = n + 1 THEN tail(l) ELSE q[j]
             /\ Node(M, l, j) = IF j = 0 THEN head(l)
                                ELSE IF j = (n - 1) + 1 THEN tail(l) ELSE r[j]
  BY <1>1, <1>8 DEF Node
<1>10. n = Len(L[l]) /\ Len(M[l]) = n - 1
  BY <1>1, <1>8, Zenon
<1> HIDE DEF n
<1>11. Node(M, l, 0) = Node(L, l, 0)
  BY <1>9
<1>12. Node(L, l, 1) = e
  <2>1. 1 # 0 /\ 1 # n + 1
    BY <1>8
  <2> QED
    BY <1>4, <1>9, <2>1
<1>13. ASSUME NEW k \in 1 .. n PROVE Node(M, l, k) = Node(L, l, k + 1)
  <2>1. CASE k = n
    <3>1. k # 0 /\ k = (n - 1) + 1 /\ k + 1 # 0 /\ k + 1 = n + 1
      BY <1>8, <2>1
    <3> QED
      BY <1>9, <3>1
  <2>2. CASE k # n
    <3>1. k \in 1 .. n - 1 /\ k # 0 /\ k # (n - 1) + 1 /\ k + 1 # 0 /\ k + 1 # n + 1
      BY <1>8, <2>2
    <3>2. r[k] = q[k + 1]
      BY <1>8, <3>1
    <3> QED
      BY <1>9, <3>1, <3>2
  <2> QED
    BY <2>1, <2>2
<1>14. \A m \in List \ {l} : \A k : Node(M, m, k) = Node(L, m, k)
  BY DEF Node
<1> QED
  BY <1>1, <1>4, <1>5, <1>6, <1>7, <1>10, <1>11, <1>12, <1>13, <1>14

LEMMA PopKeepsHeap ==
    ASSUME NEW h, NEW L, HeapOK(h, L), NEW l \in List, L[l] # << >>
    PROVE  HeapOK(pop(h, l), With(L, l, Tail(L[l])))
<1> DEFINE n == Len(L[l])
           M == With(L, l, Tail(L[l]))
           e == Head(L[l])
           a == head(l)
           c == Node(L, l, 2)
           g == remove(h, e)
<1>0. /\ h \in Heap /\ Layout(L) /\ Linked(h, L) /\ Loose(h, L) /\ Ends(h)
      /\ L \in [List -> Seq(Tag)] /\ L[l] \in Seq(Tag) /\ n \in Nat /\ n > 0
  BY NodeElem DEF HeapOK, Layout
<1>1. M \in [List -> Seq(Tag)] /\ M[l] = Tail(L[l])
      /\ \A m \in List \ {l} : M[m] = L[m]
  <2>1. Tail(L[l]) \in Seq(Tag)
    BY <1>0
  <2> QED
    BY <1>0, <2>1 DEF With
<1>2. pop(h, l) = g
  BY EmptyMeans DEF pop
<1> HIDE DEF M, e
<1>3. /\ Layout(M)
      /\ e \in Tag /\ ~ InList(M, e)
      /\ Len(M[l]) = n - 1
      /\ \A x : InList(L, x) <=> x = e \/ InList(M, x)
      /\ Node(M, l, 0) = Node(L, l, 0)
      /\ Node(L, l, 1) = e
      /\ \A k \in 1 .. n : Node(M, l, k) = Node(L, l, k + 1)
      /\ \A m \in List \ {l} : \A k : Node(M, m, k) = Node(L, m, k)
  BY <1>0, <1>1, PoppedLayout DEF e
<1>4. \A m \in List : \A k \in 0 .. Len(L[m]) + 1 :
         /\ Node(L, m, k) \in Elem
         /\ Node(L, m, k) = e => m = l /\ k = 1
         /\ Node(L, m, k) = a => m = l /\ k = 0
         /\ Node(L, m, k) = c => m = l /\ k = 2
  <2>1. 0 \in 0 .. n + 1 /\ 1 \in 0 .. n + 1 /\ 2 \in 0 .. n + 1
    BY <1>0
  <2>2. a = Node(L, l, 0)
    BY DEF Node
  <2> QED
    BY <1>0, <1>3, <2>1, <2>2, NodeElem, NodesDistinct
<1>5. \A m \in List : \A k \in 0 .. Len(L[m]) :
         /\ h.next[Node(L, m, k)] = Node(L, m, k + 1)
         /\ h.prev[Node(L, m, k + 1)] = Node(L, m, k)
  BY <1>0 DEF Linked
<1>6. a \in Elem /\ c \in Elem /\ e \in Elem /\ e # a /\ e # c
      /\ a = h.prev[e] /\ c = h.next[e]
  <2>1. 0 \in 0 .. n /\ 1 \in 0 .. n /\ 0 + 1 = 1 /\ 1 + 1 = 2 /\ a = Node(L, l, 0)
        /\ 0 \in 0 .. n + 1 /\ 1 \in 0 .. n + 1 /\ 2 \in 0 .. n + 1
    BY <1>0 DEF Node
  <2>2. h.prev[Node(L, l, 0 + 1)] = Node(L, l, 0) /\ h.next[Node(L, l, 1)] = Node(L, l, 1 + 1)
    BY <1>5, <2>1
  <2>3. a \in Elem /\ c \in Elem /\ e \in Elem
    BY <1>3, <1>4, <2>1
  <2>4. e # a /\ e # c
    BY <1>3, <1>4, <2>1
  <2> QED
    BY <1>3, <2>1, <2>2, <2>3, <2>4
<1> HIDE DEF a, c
<1>7. /\ g \in Heap
      /\ \A x \in Elem :
           /\ g.next[x] = IF x = e THEN NULL ELSE IF x = a THEN c ELSE h.next[x]
           /\ g.prev[x] = IF x = e THEN NULL ELSE IF x = c THEN a ELSE h.prev[x]
  BY <1>0, <1>6, RemoveEffect
<1> HIDE DEF g
<1>8. ASSUME NEW m \in List, NEW k \in 0 .. Len(M[m])
      PROVE  /\ g.next[Node(M, m, k)] = Node(M, m, k + 1)
             /\ g.prev[Node(M, m, k + 1)] = Node(M, m, k)
  <2>1. CASE m # l
    <3>1. k \in 0 .. Len(L[m]) /\ Len(L[m]) \in Nat
      BY <1>0, <1>1, <2>1, NodeElem
    <3>2. /\ Node(L, m, k) \in Elem /\ Node(L, m, k) \notin {a, e}
          /\ Node(L, m, k + 1) \in Elem /\ Node(L, m, k + 1) \notin {c, e}
      BY <1>4, <2>1, <3>1
    <3>3. Node(M, m, k) = Node(L, m, k) /\ Node(M, m, k + 1) = Node(L, m, k + 1)
      BY <1>3, <2>1
    <3> QED
      BY <1>7, <1>5, <3>1, <3>2, <3>3
  <2>2. CASE m = l /\ k = 0
    <3>1. Node(M, l, 0) = a
      BY <1>3 DEF Node, a
    <3>2. 1 \in 1 .. n /\ 0 + 1 = 1 /\ 1 + 1 = 2
      BY <1>0
    <3>3. Node(M, l, 1) = c
      BY <1>3, <3>2 DEF c
    <3> QED
      BY <1>6, <1>7, <2>2, <3>1, <3>2, <3>3
  <2>3. CASE m = l /\ k # 0
    <3>0. n \in Nat /\ k \in 1 .. n - 1
      BY <1>0, <1>3, <2>3
    <3>1. /\ k \in 1 .. n /\ k + 1 \in 1 .. n /\ k + 1 \in 0 .. n
          /\ k + 1 # 0 /\ k + 1 # 1 /\ (k + 1) + 1 # 1 /\ (k + 1) + 1 # 2
          /\ k + 1 \in 0 .. n + 1 /\ (k + 1) + 1 \in 0 .. n + 1
      BY <3>0
    <3>2. Node(M, l, k) = Node(L, l, k + 1)
          /\ Node(M, l, k + 1) = Node(L, l, (k + 1) + 1)
      BY <1>3, <3>1
    <3>3. /\ Node(L, l, k + 1) \in Elem /\ Node(L, l, k + 1) \notin {a, e}
          /\ Node(L, l, (k + 1) + 1) \in Elem
          /\ Node(L, l, (k + 1) + 1) \notin {c, e}
      BY <1>4, <3>1
    <3>4. h.next[Node(L, l, k + 1)] = Node(L, l, (k + 1) + 1)
          /\ h.prev[Node(L, l, (k + 1) + 1)] = Node(L, l, k + 1)
      BY <1>5, <3>1
    <3> QED
      BY <1>7, <2>3, <3>2, <3>3, <3>4
  <2> QED
    BY <2>1, <2>2, <2>3
<1>9. Loose(g, M)
  <2> SUFFICES ASSUME NEW x \in Tag \ {general_tag(main)}, ~ InList(M, x)
               PROVE  g.next[x] = NULL /\ g.prev[x] = NULL
    BY DEF Loose
  <2>1. CASE x = e
    BY <1>6, <1>7, <2>1
  <2>2. CASE x # e
    <3>1. ~ InList(L, x) /\ x \in Elem
      BY <1>3, <2>2, ElemKinds, Zenon
    <3>2. x # a /\ x # c
      <4>1. 0 \in 0 .. n + 1 /\ 2 \in 0 .. n + 1 /\ a = Node(L, l, 0)
            /\ c = Node(L, l, 2)
        BY <1>0 DEF a, c, Node
      <4> QED
        BY <1>0, <3>1, <4>1, NoNode
    <3>3. h.next[x] = NULL /\ h.prev[x] = NULL
      BY <1>0, <3>1 DEF Loose
    <3> QED
      BY <1>7, <2>2, <3>1, <3>2, <3>3
  <2> QED
    BY <2>1, <2>2
<1>10. Ends(g)
  <2> SUFFICES ASSUME NEW m \in List PROVE g.next[tail(m)] = NULL
    BY DEF Ends
  <2>1. tail(m) \in Elem /\ tail(m) # a
    BY ElemKinds DEF a
  <2> QED
    BY <1>0, <1>7, <2>1 DEF Ends
<1>11. Linked(g, M)
  BY <1>8 DEF Linked
<1> QED
  BY <1>2, <1>3, <1>7, <1>9, <1>10, <1>11 DEF HeapOK, M


-----------------------------------------------------------------------------
(* elem_find walks to the elements of the list. *)

\* Induction, as a fact about sets: the segments below the members of B are
\* finite sets, among which there is a minimal one.
LEMMA LeastNatural ==
    ASSUME NEW B \in SUBSET Nat, B # {}
    PROVE  \E m \in B : \A k \in B : m <= k
<1> DEFINE T == {0 .. k : k \in B}
<1>1. IsWellFoundedOn(StrictSubsetOrdering(Nat), FiniteSubsetsOf(Nat))
  BY FS_StrictSubsetOrderingWellFounded
<1>2. T \subseteq FiniteSubsetsOf(Nat)
  <2> SUFFICES ASSUME NEW k \in B PROVE 0 .. k \in FiniteSubsetsOf(Nat)
    OBVIOUS
  <2>1. IsFiniteSet(0 .. k)
    <3>1. 0 \in Int /\ k \in Int
      OBVIOUS
    <3> QED
      BY <3>1, FS_Interval
  <2>2. 0 .. k \in SUBSET Nat
    OBVIOUS
  <2> QED
    BY <2>1, <2>2 DEF FiniteSubsetsOf
<1>3. T # {}
  OBVIOUS
<1>4. PICK x \in T : \A y \in T : ~ (<< y, x >> \in StrictSubsetOrdering(Nat))
  <2> HIDE DEF T
  <2> QED
    BY <1>1, <1>2, <1>3, WFMin
<1>5. PICK m \in B : x = 0 .. m
  BY <1>4
<1>6. ASSUME NEW k \in B, k < m PROVE FALSE
  <2>1. 0 .. k \in T
    OBVIOUS
  <2>2. 0 .. k \subseteq 0 .. m /\ 0 .. k # 0 .. m
    <3>1. m \in 0 .. m /\ m \notin 0 .. k
      BY <1>6
    <3>2. \A i \in 0 .. k : i \in 0 .. m
      BY <1>6
    <3> QED
      BY <3>1, <3>2
  <2>3. 0 .. k \in SUBSET Nat /\ 0 .. m \in SUBSET Nat
    OBVIOUS
  <2>4. << 0 .. k, 0 .. m >> \in StrictSubsetOrdering(Nat)
    BY <2>2, <2>3 DEF StrictSubsetOrdering
  <2> QED
    BY <1>4, <1>5, <2>1, <2>4
<1> QED
  BY <1>6

\* The walk of elem_find, as the function that its loop computes.
Walks(h, l, f) ==
    f = [k \in 0 .. Cardinality(Thread) |->
            IF k = 0 THEN head(l)
            ELSE IF h.next[f[k - 1]] = NULL THEN f[k - 1] ELSE h.next[f[k - 1]]]

LEMMA FindWalks ==
    ASSUME NEW h, NEW l, NEW e
    PROVE  find(h, l, e) <=>
             \E k \in 1 .. Cardinality(Thread) : (CHOOSE f : Walks(h, l, f))[k] = e
BY DEF find, Walks

\* Where it is after k steps.
Step(L, l, k) == IF k <= Len(L[l]) THEN Node(L, l, k) ELSE tail(l)

LEMMA StepAfterStep ==
    ASSUME NEW h, NEW L, HeapOK(h, L), NEW l \in List, NEW k \in Nat \ {0}
    PROVE  /\ Step(L, l, 0) = head(l)
           /\ Step(L, l, k) =
                IF h.next[Step(L, l, k - 1)] = NULL THEN Step(L, l, k - 1)
                ELSE h.next[Step(L, l, k - 1)]
<1> DEFINE n == Len(L[l])
<1>1. /\ n \in Nat /\ Layout(L) /\ Linked(h, L) /\ Ends(h)
      /\ \A j \in 0 .. n + 1 : Node(L, l, j) \in Elem
      /\ Node(L, l, 0) = head(l) /\ Node(L, l, n + 1) = tail(l)
  BY NodeElem DEF HeapOK
<1>2. \A j \in 0 .. n : h.next[Node(L, l, j)] = Node(L, l, j + 1)
  BY <1>1 DEF Linked
<1>3. h.next[tail(l)] = NULL
  BY <1>1 DEF Ends
<1>4. \A j : Step(L, l, j) = IF j <= n THEN Node(L, l, j) ELSE tail(l)
  BY DEF Step
<1> HIDE DEF n
<1>5. Step(L, l, 0) = head(l)
  BY <1>1, <1>4
<1>6. CASE k <= n + 1
  <2>1. k - 1 \in 0 .. n /\ k - 1 <= n /\ (k - 1) + 1 = k /\ k \in 0 .. n + 1
    BY <1>1, <1>6
  <2>2. Step(L, l, k - 1) = Node(L, l, k - 1)
        /\ h.next[Node(L, l, k - 1)] = Node(L, l, k)
    BY <1>2, <1>4, <2>1
  <2>3. Step(L, l, k) = Node(L, l, k)
    <3>1. CASE k <= n
      BY <1>4, <3>1
    <3>2. CASE k = n + 1
      <4>1. ~ (k <= n)
        BY <1>1, <3>2
      <4> QED
        BY <1>1, <1>4, <3>2, <4>1
    <3> QED
      BY <1>1, <1>6, <3>1, <3>2
  <2>4. Node(L, l, k) # NULL
    BY <1>1, <2>1, ElemKinds
  <2> QED
    BY <1>5, <2>2, <2>3, <2>4
<1>7. CASE k > n + 1
  <2>1. ~ (k <= n) /\ ~ (k - 1 <= n)
    BY <1>1, <1>7
  <2> QED
    BY <1>3, <1>4, <1>5, <2>1
<1> QED
  BY <1>1, <1>6, <1>7

LEMMA WalkSteps ==
    ASSUME NEW h, NEW L, HeapOK(h, L), NEW l \in List, Cardinality(Thread) \in Nat
    PROVE  \A k \in 0 .. Cardinality(Thread) :
               (CHOOSE f : Walks(h, l, f))[k] = Step(L, l, k)
<1> DEFINE C == Cardinality(Thread)
           w == [k \in 0 .. C |-> Step(L, l, k)]
           p == CHOOSE f : Walks(h, l, f)
<1>1. \A k \in Nat \ {0} :
         /\ Step(L, l, 0) = head(l)
         /\ Step(L, l, k) =
              IF h.next[Step(L, l, k - 1)] = NULL THEN Step(L, l, k - 1)
              ELSE h.next[Step(L, l, k - 1)]
  BY StepAfterStep
<1>2. Walks(h, l, w)
  <2>1. ASSUME NEW k \in 0 .. C
        PROVE  Step(L, l, k) =
                 IF k = 0 THEN head(l)
                 ELSE IF h.next[w[k - 1]] = NULL THEN w[k - 1] ELSE h.next[w[k - 1]]
    <3>1. CASE k = 0
      <4>1. 1 \in Nat \ {0}
        OBVIOUS
      <4> QED
        BY <1>1, <3>1, <4>1
    <3>2. CASE k # 0
      <4>1. k \in Nat \ {0} /\ k - 1 \in 0 .. C
        BY <3>2
      <4>2. w[k - 1] = Step(L, l, k - 1)
        BY <4>1
      <4> HIDE DEF w
      <4> QED
        BY <1>1, <3>2, <4>1, <4>2
    <3> QED
      BY <3>1, <3>2
  <2>2. w = [k \in 0 .. C |->
               IF k = 0 THEN head(l)
               ELSE IF h.next[w[k - 1]] = NULL THEN w[k - 1] ELSE h.next[w[k - 1]]]
    BY <2>1
  <2> HIDE DEF w
  <2> QED
    BY <2>2, Zenon DEF Walks
<1>3. Walks(h, l, p)
  <2> HIDE DEF w
  <2> QED
    BY <1>2, Zenon
<1> HIDE DEF p, w
<1>4. \A k \in 0 .. C :
         p[k] = IF k = 0 THEN head(l)
                ELSE IF h.next[p[k - 1]] = NULL THEN p[k - 1] ELSE h.next[p[k - 1]]
  <2>1. p = [k \in 0 .. C |->
               IF k = 0 THEN head(l)
               ELSE IF h.next[p[k - 1]] = NULL THEN p[k - 1] ELSE h.next[p[k - 1]]]
    BY <1>3, Zenon DEF Walks
  <2> DEFINE body(k) == IF k = 0 THEN head(l)
                        ELSE IF h.next[p[k - 1]] = NULL THEN p[k - 1]
                             ELSE h.next[p[k - 1]]
  <2>2. p = [k \in 0 .. C |-> body(k)]
    BY <2>1, Zenon
  <2> SUFFICES \A k \in 0 .. C : p[k] = body(k)
    OBVIOUS
  <2> HIDE DEF body
  <2> QED
    BY <2>2
<1> DEFINE B == {k \in 0 .. C : p[k] # Step(L, l, k)}
<1>5. CASE B = {}
  BY <1>5 DEF p
<1>6. CASE B # {}
  <2>1. B \in SUBSET Nat
    OBVIOUS
  <2>2. PICK m \in B : \A k \in B : m <= k
    <3> HIDE DEF B
    <3> QED
      BY <1>6, <2>1, LeastNatural
  <2>3. m \in 0 .. C /\ p[m] # Step(L, l, m)
    BY <2>2
  <2>4. m # 0
    <3>1. 1 \in Nat \ {0}
      OBVIOUS
    <3> QED
      BY <1>1, <1>4, <2>3, <3>1
  <2>5. m - 1 \in 0 .. C /\ ~ (m <= m - 1) /\ m \in Nat \ {0}
    BY <2>3, <2>4
  <2>6. p[m - 1] = Step(L, l, m - 1)
    BY <2>2, <2>5
  <2> QED
    BY <1>1, <1>4, <2>3, <2>4, <2>5, <2>6
<1> QED
  BY <1>5, <1>6

\* No list is longer than there are threads, so that the walk reaches its end.
LEMMA FindMeans ==
    ASSUME NEW h, NEW L, HeapOK(h, L), NEW l \in List, NEW e \in Tag,
           Cardinality(Thread) \in Nat, Len(L[l]) <= Cardinality(Thread)
    PROVE  find(h, l, e) <=> Among(L[l], e)
<1> DEFINE C == Cardinality(Thread)
           n == Len(L[l])
           p == CHOOSE f : Walks(h, l, f)
<1>1. \A k \in 0 .. C : p[k] = Step(L, l, k)
  BY WalkSteps
<1>2. find(h, l, e) <=> \E k \in 1 .. C : p[k] = e
  BY FindWalks
<1>3. n \in Nat /\ \A k \in 1 .. n : Node(L, l, k) = L[l][k]
  BY NodeElem DEF HeapOK
<1>4. tail(l) # e
  BY ElemKinds
<1> HIDE DEF p
<1>5. ASSUME find(h, l, e) PROVE Among(L[l], e)
  <2>1. PICK k \in 1 .. C : p[k] = e
    BY <1>2, <1>5
  <2>2. Step(L, l, k) = e
    BY <1>1, <2>1
  <2>3. k \in 1 .. n
    BY <1>3, <1>4, <2>1, <2>2 DEF Step
  <2>4. L[l][k] = e
    BY <1>3, <2>2, <2>3 DEF Step
  <2> QED
    BY <2>3, <2>4 DEF Among
<1>6. ASSUME Among(L[l], e) PROVE find(h, l, e)
  <2>1. PICK k \in 1 .. n : L[l][k] = e
    BY <1>6 DEF Among
  <2>2. k \in 1 .. C /\ k \in 0 .. C /\ k <= n
    BY <1>3
  <2>3. p[k] = e
    BY <1>1, <1>3, <2>1, <2>2 DEF Step
  <2> QED
    BY <1>2, <2>2, <2>3
<1> QED
  BY <1>5, <1>6


-----------------------------------------------------------------------------
(* The lists of thread.c and sync.c. *)

GeneralTags(q) == [k \in 1 .. Len(q) |-> general_tag(q[k])]
AllTags(q)     == [k \in 1 .. Len(q) |-> all_list_tag(q[k])]

\* Both kinds of tags, of a sequence of threads that an operation changes.
LEMMA GeneralTagsOf ==
    ASSUME NEW q \in Seq(Thread)
    PROVE  /\ GeneralTags(q) \in Seq(Tag) /\ Len(GeneralTags(q)) = Len(q)
           /\ \A k \in 1 .. Len(q) : GeneralTags(q)[k] = general_tag(q[k])
           /\ GeneralTags(q) = << >> <=> q = << >>
           /\ \A t : Among(GeneralTags(q), general_tag(t)) <=> t \in ToSet(q)
           /\ \A t : ~ Among(GeneralTags(q), all_list_tag(t))
<1>1. Len(q) \in Nat /\ \A k \in 1 .. Len(q) : q[k] \in Thread
  OBVIOUS
<1>2. GeneralTags(q) \in [1 .. Len(q) -> Tag]
      /\ \A k \in 1 .. Len(q) : GeneralTags(q)[k] = general_tag(q[k])
  BY <1>1 DEF GeneralTags, Tag
<1>3. GeneralTags(q) \in Seq(Tag) /\ Len(GeneralTags(q)) = Len(q)
  <2> DEFINE g == GeneralTags(q)
             n == Len(q)
  <2> HIDE DEF g, n
  <2>1. g \in [1 .. n -> Tag] /\ n \in Nat
    BY <1>1, <1>2 DEF g, n
  <2>2. g \in Seq(Tag)
    BY <2>1, SeqDef
  <2>3. Len(g) = n
    BY <2>1, <2>2
  <2> QED
    BY <2>2, <2>3 DEF g, n
<1>4. GeneralTags(q) = << >> <=> q = << >>
  BY <1>1, <1>3
<1>5. \A t : Among(GeneralTags(q), general_tag(t)) <=> t \in ToSet(q)
  BY <1>1, <1>2, <1>3, ElemKinds DEF Among, ToSet
<1>6. \A t : ~ Among(GeneralTags(q), all_list_tag(t))
  BY <1>1, <1>2, <1>3, ElemKinds DEF Among
<1> QED
  BY <1>2, <1>3, <1>4, <1>5, <1>6

LEMMA AllTagsOf ==
    ASSUME NEW q \in Seq(Thread)
    PROVE  /\ AllTags(q) \in Seq(Tag) /\ Len(AllTags(q)) = Len(q)
           /\ \A k \in 1 .. Len(q) : AllTags(q)[k] = all_list_tag(q[k])
           /\ \A t : Among(AllTags(q), all_list_tag(t)) <=> t \in ToSet(q)
           /\ \A t : ~ Among(AllTags(q), general_tag(t))
<1>1. Len(q) \in Nat /\ \A k \in 1 .. Len(q) : q[k] \in Thread
  OBVIOUS
<1>2. AllTags(q) \in [1 .. Len(q) -> Tag]
      /\ \A k \in 1 .. Len(q) : AllTags(q)[k] = all_list_tag(q[k])
  BY <1>1 DEF AllTags, Tag
<1>3. AllTags(q) \in Seq(Tag) /\ Len(AllTags(q)) = Len(q)
  <2> DEFINE g == AllTags(q)
             n == Len(q)
  <2> HIDE DEF g, n
  <2>1. g \in [1 .. n -> Tag] /\ n \in Nat
    BY <1>1, <1>2 DEF g, n
  <2>2. g \in Seq(Tag)
    BY <2>1, SeqDef
  <2>3. Len(g) = n
    BY <2>1, <2>2
  <2> QED
    BY <2>2, <2>3 DEF g, n
<1>4. \A t : Among(AllTags(q), all_list_tag(t)) <=> t \in ToSet(q)
  BY <1>1, <1>2, <1>3, ElemKinds DEF Among, ToSet
<1>5. \A t : ~ Among(AllTags(q), general_tag(t))
  BY <1>1, <1>2, <1>3, ElemKinds DEF Among
<1> QED
  BY <1>2, <1>3, <1>4, <1>5

LEMMA TagsAppended ==
    ASSUME NEW q \in Seq(Thread), NEW t \in Thread
    PROVE  /\ list_append(q, t) \in Seq(Thread)
           /\ GeneralTags(list_append(q, t)) = Append(GeneralTags(q), general_tag(t))
           /\ AllTags(list_append(q, t)) = Append(AllTags(q), all_list_tag(t))
<1> DEFINE n == Len(q)
           r == Append(q, t)
<1>1. n \in Nat /\ r \in Seq(Thread) /\ Len(r) = n + 1
      /\ (\A k \in 1 .. n : r[k] = q[k]) /\ r[n + 1] = t
  BY AppendProperties
<1>2. general_tag(t) \in Tag /\ all_list_tag(t) \in Tag
  BY DEF Tag
<1> HIDE DEF r
<1>3. GeneralTags(r) = Append(GeneralTags(q), general_tag(t))
  <2> DEFINE g == GeneralTags(q)
             e == general_tag(t)
             u == GeneralTags(r)
             v == Append(g, e)
  <2>1. /\ g \in Seq(Tag) /\ e \in Tag /\ Len(g) = n
        /\ \A k \in 1 .. n : g[k] = general_tag(q[k])
        /\ u \in Seq(Tag) /\ Len(u) = n + 1
        /\ \A k \in 1 .. n + 1 : u[k] = general_tag(r[k])
    BY <1>1, <1>2, GeneralTagsOf
  <2> HIDE DEF g, e, u
  <2>2. v \in Seq(Tag) /\ Len(v) = n + 1
        /\ (\A k \in 1 .. n : v[k] = g[k]) /\ v[n + 1] = e
    BY <2>1, AppendProperties
  <2> HIDE DEF v, n
  <2>3. \A k \in 1 .. n + 1 : u[k] = v[k]
    <3>1. \A k \in 1 .. n : u[k] = v[k]
      BY <1>1, <2>1, <2>2
    <3>2. u[n + 1] = v[n + 1]
      BY <1>1, <2>1, <2>2 DEF e
    <3> QED
      BY <1>1, <3>1, <3>2
  <2>4. u = v
    BY <2>1, <2>2, <2>3, SeqEqual
  <2> QED
    BY <2>4 DEF u, v, g, e
<1>4. AllTags(r) = Append(AllTags(q), all_list_tag(t))
  <2> DEFINE g == AllTags(q)
             e == all_list_tag(t)
             u == AllTags(r)
             v == Append(g, e)
  <2>1. /\ g \in Seq(Tag) /\ e \in Tag /\ Len(g) = n
        /\ \A k \in 1 .. n : g[k] = all_list_tag(q[k])
        /\ u \in Seq(Tag) /\ Len(u) = n + 1
        /\ \A k \in 1 .. n + 1 : u[k] = all_list_tag(r[k])
    BY <1>1, <1>2, AllTagsOf
  <2> HIDE DEF g, e, u
  <2>2. v \in Seq(Tag) /\ Len(v) = n + 1
        /\ (\A k \in 1 .. n : v[k] = g[k]) /\ v[n + 1] = e
    BY <2>1, AppendProperties
  <2> HIDE DEF v, n
  <2>3. \A k \in 1 .. n + 1 : u[k] = v[k]
    <3>1. \A k \in 1 .. n : u[k] = v[k]
      BY <1>1, <2>1, <2>2
    <3>2. u[n + 1] = v[n + 1]
      BY <1>1, <2>1, <2>2 DEF e
    <3> QED
      BY <1>1, <3>1, <3>2
  <2>4. u = v
    BY <2>1, <2>2, <2>3, SeqEqual
  <2> QED
    BY <2>4 DEF u, v, g, e
<1> QED
  BY <1>1, <1>3, <1>4 DEF list_append, r

LEMMA TagsPushed ==
    ASSUME NEW q \in Seq(Thread), NEW t \in Thread
    PROVE  /\ list_push(q, t) \in Seq(Thread)
           /\ GeneralTags(list_push(q, t)) = << general_tag(t) >> \o GeneralTags(q)
<1> DEFINE n == Len(q)
           r == list_push(q, t)
<1>1. n \in Nat /\ r \in Seq(Thread) /\ Len(r) = n + 1
      /\ \A k \in 1 .. n + 1 : r[k] = IF k = 1 THEN t ELSE q[k - 1]
  BY DEF list_push
<1> HIDE DEF r
<1> DEFINE g == GeneralTags(q)
           e == general_tag(t)
           u == GeneralTags(r)
           v == << e >> \o g
<1>2. /\ g \in Seq(Tag) /\ e \in Tag /\ Len(g) = n
      /\ \A k \in 1 .. n : g[k] = general_tag(q[k])
      /\ u \in Seq(Tag) /\ Len(u) = n + 1
      /\ \A k \in 1 .. n + 1 : u[k] = general_tag(r[k])
  <2>1. general_tag(t) \in Tag
    BY DEF Tag
  <2> QED
    BY <1>1, <2>1, GeneralTagsOf
<1> HIDE DEF g, e, u
<1>3. v \in Seq(Tag) /\ Len(v) = n + 1
      /\ \A k \in 1 .. n + 1 : v[k] = IF k = 1 THEN e ELSE g[k - 1]
  BY <1>1, <1>2
<1> HIDE DEF v, n
<1>4. ASSUME NEW k \in 1 .. n + 1 PROVE u[k] = v[k]
  <2>1. CASE k = 1
    BY <1>1, <1>2, <1>3, <2>1 DEF e
  <2>2. CASE k # 1
    <3>1. k - 1 \in 1 .. n
      BY <1>1, <2>2
    <3> QED
      BY <1>1, <1>2, <1>3, <2>2, <3>1
  <2> QED
    BY <2>1, <2>2
<1>5. u = v
  BY <1>2, <1>3, <1>4, SeqEqual
<1> QED
  BY <1>1, <1>5 DEF u, v, g, e, r

LEMMA TagsPopped ==
    ASSUME NEW q \in Seq(Thread), q # << >>
    PROVE  /\ list_rest(q) \in Seq(Thread) /\ list_first(q) \in Thread
           /\ GeneralTags(list_rest(q)) = Tail(GeneralTags(q))
           /\ Head(GeneralTags(q)) = general_tag(list_first(q))
<1> DEFINE n == Len(q)
           r == Tail(q)
<1>1. n \in Nat /\ n > 0 /\ r \in Seq(Thread) /\ Len(r) = n - 1
      /\ (\A k \in 1 .. n - 1 : r[k] = q[k + 1]) /\ Head(q) = q[1] /\ q[1] \in Thread
  BY HeadTailProperties
<1> HIDE DEF r
<1> DEFINE g == GeneralTags(q)
           u == GeneralTags(r)
           v == Tail(g)
<1>2. /\ g \in Seq(Tag) /\ Len(g) = n /\ g # << >>
      /\ \A k \in 1 .. n : g[k] = general_tag(q[k])
      /\ u \in Seq(Tag) /\ Len(u) = n - 1
      /\ \A k \in 1 .. n - 1 : u[k] = general_tag(r[k])
  BY <1>1, GeneralTagsOf
<1> HIDE DEF g, u
<1>3. v \in Seq(Tag) /\ Len(v) = n - 1 /\ \A k \in 1 .. n - 1 : v[k] = g[k + 1]
  BY <1>1, <1>2, HeadTailProperties
<1>4. Head(g) = general_tag(Head(q))
  <2>1. Head(g) = g[1] /\ 1 \in 1 .. n
    BY <1>1, <1>2
  <2> QED
    BY <1>1, <1>2, <2>1
<1> HIDE DEF v, n
<1>5. ASSUME NEW k \in 1 .. n - 1 PROVE u[k] = v[k]
  <2>1. k + 1 \in 1 .. n
    BY <1>1
  <2> QED
    BY <1>1, <1>2, <1>3, <2>1
<1>6. u = v
  BY <1>2, <1>3, <1>5, SeqEqual
<1> QED
  BY <1>1, <1>4, <1>6 DEF u, v, g, r, list_rest, list_first


\* The tags of each list, when the ready list, the list of all threads and
\* the lists of waiters are r, a and w.
Lists(r, a, w) ==
    [l \in List |-> IF l = "ready" THEN GeneralTags(r)
                    ELSE IF l = "all" THEN AllTags(a) ELSE GeneralTags(w[l])]

ListTypes(r, a, w) ==
    r \in Seq(Thread) /\ a \in Seq(Thread) /\ w \in [Sem -> Seq(Thread)]

Waits(w, t) == \E s \in Sem : t \in ToSet(w[s])

LEMMA ListNames ==
    /\ "ready" \in List /\ "all" \in List /\ "ready" # "all"
    /\ \A s \in Sem : s \in List /\ s # "ready" /\ s # "all"
    /\ \A l \in List : l \notin {"ready", "all"} => l \in Sem
BY ListAssumption DEF List

LEMMA ListsOf ==
    ASSUME NEW r, NEW a, NEW w, ListTypes(r, a, w)
    PROVE  /\ Lists(r, a, w) \in [List -> Seq(Tag)]
           /\ Lists(r, a, w)["ready"] = GeneralTags(r)
           /\ Lists(r, a, w)["all"] = AllTags(a)
           /\ \A s \in Sem : Lists(r, a, w)[s] = GeneralTags(w[s])
<1>1. ASSUME NEW l \in List
      PROVE  (IF l = "ready" THEN GeneralTags(r)
              ELSE IF l = "all" THEN AllTags(a) ELSE GeneralTags(w[l])) \in Seq(Tag)
  <2>1. CASE l \in Sem
    BY <2>1, ListNames, GeneralTagsOf DEF ListTypes
  <2>2. CASE l \notin Sem
    BY <2>2, ListNames, GeneralTagsOf, AllTagsOf DEF ListTypes
  <2> QED
    BY <2>1, <2>2
<1>2. Lists(r, a, w) \in [List -> Seq(Tag)]
  BY <1>1 DEF Lists
<1> QED
  BY <1>2, ListNames DEF Lists

\* What one list becomes.
LEMMA ListsWith ==
    ASSUME NEW r, NEW a, NEW w, ListTypes(r, a, w), NEW q \in Seq(Thread)
    PROVE  /\ With(Lists(r, a, w), "ready", GeneralTags(q)) = Lists(q, a, w)
           /\ With(Lists(r, a, w), "all", AllTags(q)) = Lists(r, q, w)
           /\ \A s \in Sem : With(Lists(r, a, w), s, GeneralTags(q))
                               = Lists(r, a, [w EXCEPT ![s] = q])
<1> DEFINE L == Lists(r, a, w)
<1>0. /\ L \in [List -> Seq(Tag)]
      /\ L["ready"] = GeneralTags(r) /\ L["all"] = AllTags(a)
      /\ \A s \in Sem : L[s] = GeneralTags(w[s])
  BY ListsOf
<1> HIDE DEF L
<1>1. With(L, "ready", GeneralTags(q)) = Lists(q, a, w)
  <2> DEFINE M == With(L, "ready", GeneralTags(q))
  <2>1. M = [l \in List |-> IF l = "ready" THEN GeneralTags(q) ELSE L[l]]
    BY <1>0 DEF With
  <2>2. \A l \in List : L[l] = IF l = "ready" THEN GeneralTags(r)
                               ELSE IF l = "all" THEN AllTags(a) ELSE GeneralTags(w[l])
    BY <1>0, ListNames
  <2> QED
    BY <2>1, <2>2 DEF Lists
<1>2. With(L, "all", AllTags(q)) = Lists(r, q, w)
  <2> DEFINE M == With(L, "all", AllTags(q))
  <2>1. M = [l \in List |-> IF l = "all" THEN AllTags(q) ELSE L[l]]
    BY <1>0 DEF With
  <2>2. \A l \in List : L[l] = IF l = "ready" THEN GeneralTags(r)
                               ELSE IF l = "all" THEN AllTags(a) ELSE GeneralTags(w[l])
    BY <1>0, ListNames
  <2> QED
    BY <2>1, <2>2, ListNames DEF Lists
<1>3. ASSUME NEW s \in Sem
      PROVE  With(L, s, GeneralTags(q)) = Lists(r, a, [w EXCEPT ![s] = q])
  <2> DEFINE M == With(L, s, GeneralTags(q))
             x == [w EXCEPT ![s] = q]
  <2>1. M = [l \in List |-> IF l = s THEN GeneralTags(q) ELSE L[l]]
    BY <1>0 DEF With
  <2>2. \A l \in List : L[l] = IF l = "ready" THEN GeneralTags(r)
                               ELSE IF l = "all" THEN AllTags(a) ELSE GeneralTags(w[l])
    BY <1>0, ListNames
  <2>3. \A l \in Sem : x[l] = IF l = s THEN q ELSE w[l]
    BY DEF ListTypes
  <2> HIDE DEF M, x
  <2>4. \A l \in List :
           (IF l = s THEN GeneralTags(q) ELSE L[l])
             = IF l = "ready" THEN GeneralTags(r)
               ELSE IF l = "all" THEN AllTags(a) ELSE GeneralTags(x[l])
    BY <2>2, <2>3, ListNames
  <2> QED
    BY <2>1, <2>4 DEF Lists, M, x
<1> QED
  BY <1>1, <1>2, <1>3 DEF L

\* Where a tag is.
LEMMA ListsElements ==
    ASSUME NEW r, NEW a, NEW w, ListTypes(r, a, w), NEW t \in Thread
    PROVE  /\ general_tag(t) \in Tag /\ all_list_tag(t) \in Tag
           /\ InList(Lists(r, a, w), general_tag(t)) <=> t \in ToSet(r) \/ Waits(w, t)
           /\ InList(Lists(r, a, w), all_list_tag(t)) <=> t \in ToSet(a)
           /\ Among(Lists(r, a, w)["ready"], general_tag(t)) <=> t \in ToSet(r)
           /\ Among(Lists(r, a, w)["all"], all_list_tag(t)) <=> t \in ToSet(a)
           /\ \A s \in Sem :
                Among(Lists(r, a, w)[s], general_tag(t)) <=> t \in ToSet(w[s])
<1> DEFINE L == Lists(r, a, w)
           e == general_tag(t)
           f == all_list_tag(t)
<1>0. /\ L["ready"] = GeneralTags(r) /\ L["all"] = AllTags(a)
      /\ \A s \in Sem : L[s] = GeneralTags(w[s])
      /\ r \in Seq(Thread) /\ a \in Seq(Thread) /\ \A s \in Sem : w[s] \in Seq(Thread)
  BY ListsOf DEF ListTypes
<1>1. Among(L["ready"], e) <=> t \in ToSet(r)
  BY <1>0, GeneralTagsOf
<1>2. ~ Among(L["ready"], f)
  BY <1>0, GeneralTagsOf
<1>3. Among(L["all"], f) <=> t \in ToSet(a)
  BY <1>0, AllTagsOf
<1>4. ~ Among(L["all"], e)
  BY <1>0, AllTagsOf
<1>5. ASSUME NEW s \in Sem PROVE Among(L[s], e) <=> t \in ToSet(w[s])
  BY <1>0, GeneralTagsOf
<1>6. ASSUME NEW s \in Sem PROVE ~ Among(L[s], f)
  BY <1>0, GeneralTagsOf
<1> HIDE DEF L, e, f
<1>7. InList(L, e) => t \in ToSet(r) \/ Waits(w, t)
  BY <1>1, <1>4, <1>5, ListNames, Zenon DEF InList, Waits
<1>8. t \in ToSet(r) \/ Waits(w, t) => InList(L, e)
  BY <1>1, <1>5, ListNames, Zenon DEF InList, Waits
<1>9. InList(L, f) => t \in ToSet(a)
  BY <1>2, <1>3, <1>6, ListNames, Zenon DEF InList
<1>10. t \in ToSet(a) => InList(L, f)
  BY <1>3, ListNames, Zenon DEF InList
<1>11. general_tag(t) \in Tag /\ all_list_tag(t) \in Tag
  BY DEF Tag
<1>12. InList(L, e) <=> t \in ToSet(r) \/ Waits(w, t)
  BY <1>7, <1>8, Zenon
<1>13. InList(L, f) <=> t \in ToSet(a)
  BY <1>9, <1>10, Zenon
<1> QED
  BY <1>1, <1>3, <1>5, <1>11, <1>12, <1>13, Zenon DEF L, e, f

\* A list has no more elements than there are threads.
LEMMA ListsShort ==
    ASSUME NEW r, NEW a, NEW w, ListTypes(r, a, w), Layout(Lists(r, a, w)),
           IsFiniteSet(Thread), NEW l \in List
    PROVE  /\ Cardinality(Thread) \in Nat
           /\ Len(Lists(r, a, w)[l]) <= Cardinality(Thread)
<1> DEFINE L == Lists(r, a, w)
<1>0. L \in [List -> Seq(Tag)] /\ Distinct(L[l])
  BY DEF Layout
<1>1. PICK q \in Seq(Thread) : L[l] = GeneralTags(q) \/ L[l] = AllTags(q)
  <2>1. CASE l \in Sem
    BY <2>1, ListsOf DEF ListTypes
  <2>2. CASE l \notin Sem
    BY <2>2, ListNames, ListsOf DEF ListTypes
  <2> QED
    BY <2>1, <2>2
<1>2. Len(L[l]) = Len(q) /\ Len(q) \in Nat
      /\ \A i, j \in 1 .. Len(q) : q[i] = q[j] => L[l][i] = L[l][j]
  BY <1>1, GeneralTagsOf, AllTagsOf
<1>3. \A i, j \in 1 .. Len(q) : q[i] = q[j] => i = j
  BY <1>0, <1>2 DEF Distinct
<1>4. q \in Injection(1 .. Len(q), Thread)
  <2>1. q \in [1 .. Len(q) -> Thread]
    BY LenProperties
  <2> QED
    BY <1>3, <2>1, Fun_IsInj
<1>5. Cardinality(1 .. Len(q)) <= Cardinality(Thread)
  BY <1>4, FS_Injection
<1>6. Cardinality(1 .. Len(q)) = Len(q)
  <2> DEFINE n == Len(q)
  <2>1. n \in Nat /\ n \in Int /\ 1 \in Int
    BY <1>2
  <2> HIDE DEF n
  <2>2. Cardinality(1 .. n) = IF 1 > n THEN 0 ELSE (n - 1) + 1
    BY <2>1, FS_Interval
  <2>3. Cardinality(1 .. n) = n
    BY <2>1, <2>2
  <2> QED
    BY <2>3 DEF n
<1>7. Cardinality(Thread) \in Nat
  BY FS_CardinalityType
<1> QED
  BY <1>2, <1>5, <1>6, <1>7


-----------------------------------------------------------------------------
(***************************************************************************)
(* The operations, on the lists of the system: h are the links, and r, a   *)
(* and w what Sync has for the ready list, the list of all threads and the *)
(* lists of waiters.                                                       *)
(***************************************************************************)
Linking(h, r, a, w) == ListTypes(r, a, w) /\ HeapOK(h, Lists(r, a, w))

once(q, t) == IF elem_find(q, t) THEN q ELSE list_append(q, t)
once_push(q, t) == IF elem_find(q, t) THEN q ELSE list_push(q, t)

\* elem_find finds what is there.
LEMMA FindTags ==
    ASSUME IsFiniteSet(Thread),
           NEW h, NEW r, NEW a, NEW w, Linking(h, r, a, w), NEW t \in Thread
    PROVE  /\ find(h, "ready", general_tag(t)) <=> elem_find(r, t)
           /\ find(h, "all", all_list_tag(t)) <=> elem_find(a, t)
           /\ \A s \in Sem : find(h, s, general_tag(t)) <=> elem_find(w[s], t)
<1> DEFINE L == Lists(r, a, w)
<1>0. ListTypes(r, a, w) /\ HeapOK(h, L) /\ Layout(L)
  BY DEF Linking, HeapOK
<1>1. \A l \in List : Cardinality(Thread) \in Nat /\ Len(L[l]) <= Cardinality(Thread)
  BY <1>0, ListsShort
<1>2. /\ general_tag(t) \in Tag /\ all_list_tag(t) \in Tag
      /\ Among(L["ready"], general_tag(t)) <=> t \in ToSet(r)
      /\ Among(L["all"], all_list_tag(t)) <=> t \in ToSet(a)
      /\ \A s \in Sem : Among(L[s], general_tag(t)) <=> t \in ToSet(w[s])
  BY <1>0, ListsElements, Zenon
<1> HIDE DEF L
<1>3. \A l \in List, e \in Tag : find(h, l, e) <=> Among(L[l], e)
  BY <1>0, <1>1, FindMeans
<1> QED
  BY <1>2, <1>3, ListNames, Zenon DEF elem_find

LEMMA ReadyAppend ==
    ASSUME IsFiniteSet(Thread),
           NEW h, NEW r, NEW a, NEW w, Linking(h, r, a, w), NEW t \in Thread,
           ~ Waits(w, t)
    PROVE  Linking(append_once(h, "ready", general_tag(t)), once(r, t), a, w)
<1> DEFINE L == Lists(r, a, w)
<1>0. ListTypes(r, a, w) /\ HeapOK(h, L) /\ r \in Seq(Thread) /\ "ready" \in List
  BY ListNames DEF Linking, ListTypes
<1>1. CASE elem_find(r, t)
  BY <1>1, FindTags, Zenon DEF append_once, once
<1>2. CASE ~ elem_find(r, t)
  <2>1. append_once(h, "ready", general_tag(t)) = append(h, "ready", general_tag(t))
        /\ once(r, t) = list_append(r, t)
    BY <1>2, FindTags, Zenon DEF append_once, once
  <2>2. ~ InList(L, general_tag(t)) /\ general_tag(t) \in Tag
    BY <1>0, <1>2, ListsElements, Zenon DEF elem_find
  <2>3. L["ready"] = GeneralTags(r)
    BY <1>0, ListsOf
  <2>4. list_append(r, t) \in Seq(Thread)
        /\ GeneralTags(list_append(r, t)) = Append(L["ready"], general_tag(t))
    BY <1>0, <2>3, TagsAppended
  <2>5. With(L, "ready", Append(L["ready"], general_tag(t)))
          = Lists(list_append(r, t), a, w)
    <3>1. \A q \in Seq(Thread) : With(L, "ready", GeneralTags(q)) = Lists(q, a, w)
      BY <1>0, ListsWith
    <3> HIDE DEF L
    <3> QED
      BY <2>4, <3>1, Zenon
  <2> HIDE DEF L
  <2>6. HeapOK(append(h, "ready", general_tag(t)),
               With(L, "ready", Append(L["ready"], general_tag(t))))
    BY <1>0, <2>2, AppendKeepsHeap
  <2>7. ListTypes(list_append(r, t), a, w)
    BY <1>0, <2>4 DEF ListTypes
  <2> QED
    BY <2>1, <2>5, <2>6, <2>7, Zenon DEF Linking
<1> QED
  BY <1>1, <1>2

LEMMA ReadyPush ==
    ASSUME IsFiniteSet(Thread),
           NEW h, NEW r, NEW a, NEW w, Linking(h, r, a, w), NEW t \in Thread,
           ~ Waits(w, t)
    PROVE  Linking(push_once(h, "ready", general_tag(t)), once_push(r, t), a, w)
<1> DEFINE L == Lists(r, a, w)
<1>0. ListTypes(r, a, w) /\ HeapOK(h, L) /\ r \in Seq(Thread) /\ "ready" \in List
  BY ListNames DEF Linking, ListTypes
<1>1. CASE elem_find(r, t)
  BY <1>1, FindTags, Zenon DEF push_once, once_push
<1>2. CASE ~ elem_find(r, t)
  <2>1. push_once(h, "ready", general_tag(t)) = push(h, "ready", general_tag(t))
        /\ once_push(r, t) = list_push(r, t)
    BY <1>2, FindTags, Zenon DEF push_once, once_push
  <2>2. ~ InList(L, general_tag(t)) /\ general_tag(t) \in Tag
    BY <1>0, <1>2, ListsElements, Zenon DEF elem_find
  <2>3. L["ready"] = GeneralTags(r)
    BY <1>0, ListsOf
  <2>4. list_push(r, t) \in Seq(Thread)
        /\ GeneralTags(list_push(r, t)) = << general_tag(t) >> \o L["ready"]
    BY <1>0, <2>3, TagsPushed
  <2>5. With(L, "ready", << general_tag(t) >> \o L["ready"])
          = Lists(list_push(r, t), a, w)
    <3>1. \A q \in Seq(Thread) : With(L, "ready", GeneralTags(q)) = Lists(q, a, w)
      BY <1>0, ListsWith
    <3> HIDE DEF L
    <3> QED
      BY <2>4, <3>1, Zenon
  <2> HIDE DEF L
  <2>6. HeapOK(push(h, "ready", general_tag(t)),
               With(L, "ready", << general_tag(t) >> \o L["ready"]))
    BY <1>0, <2>2, PushKeepsHeap
  <2>7. ListTypes(list_push(r, t), a, w)
    BY <1>0, <2>4 DEF ListTypes
  <2> QED
    BY <2>1, <2>5, <2>6, <2>7, Zenon DEF Linking
<1> QED
  BY <1>1, <1>2

LEMMA AllAppend ==
    ASSUME IsFiniteSet(Thread),
           NEW h, NEW r, NEW a, NEW w, Linking(h, r, a, w), NEW t \in Thread
    PROVE  Linking(append_once(h, "all", all_list_tag(t)), r, once(a, t), w)
<1> DEFINE L == Lists(r, a, w)
<1>0. ListTypes(r, a, w) /\ HeapOK(h, L) /\ a \in Seq(Thread) /\ "all" \in List
  BY ListNames DEF Linking, ListTypes
<1>1. CASE elem_find(a, t)
  BY <1>1, FindTags, Zenon DEF append_once, once
<1>2. CASE ~ elem_find(a, t)
  <2>1. append_once(h, "all", all_list_tag(t)) = append(h, "all", all_list_tag(t))
        /\ once(a, t) = list_append(a, t)
    BY <1>2, FindTags, Zenon DEF append_once, once
  <2>2. ~ InList(L, all_list_tag(t)) /\ all_list_tag(t) \in Tag
    BY <1>0, <1>2, ListsElements, Zenon DEF elem_find
  <2>3. L["all"] = AllTags(a)
    BY <1>0, ListsOf
  <2>4. list_append(a, t) \in Seq(Thread)
        /\ AllTags(list_append(a, t)) = Append(L["all"], all_list_tag(t))
    BY <1>0, <2>3, TagsAppended
  <2>5. With(L, "all", Append(L["all"], all_list_tag(t)))
          = Lists(r, list_append(a, t), w)
    <3>1. \A q \in Seq(Thread) : With(L, "all", AllTags(q)) = Lists(r, q, w)
      BY <1>0, ListsWith
    <3> HIDE DEF L
    <3> QED
      BY <2>4, <3>1, Zenon
  <2> HIDE DEF L
  <2>6. HeapOK(append(h, "all", all_list_tag(t)),
               With(L, "all", Append(L["all"], all_list_tag(t))))
    BY <1>0, <2>2, AppendKeepsHeap
  <2>7. ListTypes(r, list_append(a, t), w)
    BY <1>0, <2>4 DEF ListTypes
  <2> QED
    BY <2>1, <2>5, <2>6, <2>7, Zenon DEF Linking
<1> QED
  BY <1>1, <1>2

LEMMA WaitersAppend ==
    ASSUME IsFiniteSet(Thread),
           NEW h, NEW r, NEW a, NEW w, Linking(h, r, a, w), NEW t \in Thread,
           NEW s \in Sem, t \notin ToSet(r), ~ Waits(w, t)
    PROVE  Linking(append_once(h, s, general_tag(t)), r, a,
                   [w EXCEPT ![s] = list_append(w[s], t)])
<1> DEFINE L == Lists(r, a, w)
           x == [w EXCEPT ![s] = list_append(w[s], t)]
<1>0. ListTypes(r, a, w) /\ HeapOK(h, L) /\ w[s] \in Seq(Thread) /\ s \in List
  BY ListNames DEF Linking, ListTypes
<1>1. ~ elem_find(w[s], t)
  BY DEF Waits, elem_find
<1>2. append_once(h, s, general_tag(t)) = append(h, s, general_tag(t))
  BY <1>1, FindTags, Zenon DEF append_once
<1>3. ~ InList(L, general_tag(t)) /\ general_tag(t) \in Tag
  BY <1>0, ListsElements, Zenon
<1>4. L[s] = GeneralTags(w[s])
  BY <1>0, ListsOf
<1>5. list_append(w[s], t) \in Seq(Thread)
      /\ GeneralTags(list_append(w[s], t)) = Append(L[s], general_tag(t))
  BY <1>0, <1>4, TagsAppended
<1>6. With(L, s, Append(L[s], general_tag(t))) = Lists(r, a, x)
  <2>1. \A q \in Seq(Thread) :
           With(L, s, GeneralTags(q)) = Lists(r, a, [w EXCEPT ![s] = q])
    BY <1>0, ListsWith
  <2> HIDE DEF L
  <2> QED
    BY <1>5, <2>1, Zenon
<1>7. ListTypes(r, a, x)
  BY <1>0, <1>5 DEF ListTypes
<1> HIDE DEF L, x
<1>8. HeapOK(append(h, s, general_tag(t)), With(L, s, Append(L[s], general_tag(t))))
  BY <1>0, <1>3, AppendKeepsHeap
<1> QED
  BY <1>2, <1>6, <1>7, <1>8, Zenon DEF Linking, x

LEMMA ReadyPop ==
    ASSUME NEW h, NEW r, NEW a, NEW w, Linking(h, r, a, w)
    PROVE  /\ empty(h, "ready") <=> list_empty(r)
           /\ ~ list_empty(r) => Linking(pop(h, "ready"), list_rest(r), a, w)
<1> DEFINE L == Lists(r, a, w)
<1>0. ListTypes(r, a, w) /\ HeapOK(h, L) /\ r \in Seq(Thread) /\ "ready" \in List
  BY ListNames DEF Linking, ListTypes
<1>1. L["ready"] = GeneralTags(r)
  BY <1>0, ListsOf
<1>2. L["ready"] = << >> <=> r = << >>
  BY <1>0, <1>1, GeneralTagsOf
<1>3. empty(h, "ready") <=> list_empty(r)
  <2> HIDE DEF L
  <2> QED
    BY <1>0, <1>2, EmptyMeans, Zenon DEF list_empty
<1>4. ASSUME r # << >> PROVE Linking(pop(h, "ready"), list_rest(r), a, w)
  <2>1. list_rest(r) \in Seq(Thread)
        /\ GeneralTags(list_rest(r)) = Tail(L["ready"])
    BY <1>0, <1>1, <1>4, TagsPopped
  <2>2. With(L, "ready", Tail(L["ready"])) = Lists(list_rest(r), a, w)
    <3>1. \A q \in Seq(Thread) : With(L, "ready", GeneralTags(q)) = Lists(q, a, w)
      BY <1>0, ListsWith
    <3> HIDE DEF L
    <3> QED
      BY <2>1, <3>1, Zenon
  <2>3. ListTypes(list_rest(r), a, w)
    BY <1>0, <2>1 DEF ListTypes
  <2> HIDE DEF L
  <2>4. HeapOK(pop(h, "ready"), With(L, "ready", Tail(L["ready"])))
    BY <1>0, <1>2, <1>4, PopKeepsHeap
  <2> QED
    BY <2>2, <2>3, <2>4, Zenon DEF Linking
<1> QED
  BY <1>3, <1>4, Zenon DEF list_empty

LEMMA WaitersPop ==
    ASSUME NEW h, NEW r, NEW a, NEW w, Linking(h, r, a, w), NEW s \in Sem
    PROVE  /\ empty(h, s) <=> list_empty(w[s])
           /\ ~ list_empty(w[s]) =>
                /\ TCB(h.next[head(s)]) = list_first(w[s])
                /\ Linking(pop(h, s), r, a, [w EXCEPT ![s] = list_rest(w[s])])
<1> DEFINE L == Lists(r, a, w)
           x == [w EXCEPT ![s] = list_rest(w[s])]
<1>0. ListTypes(r, a, w) /\ HeapOK(h, L) /\ w[s] \in Seq(Thread) /\ s \in List
  BY ListNames DEF Linking, ListTypes
<1>1. L[s] = GeneralTags(w[s])
  BY <1>0, ListsOf
<1>2. L[s] = << >> <=> w[s] = << >>
  BY <1>0, <1>1, GeneralTagsOf
<1>3. empty(h, s) <=> list_empty(w[s])
  <2> HIDE DEF L
  <2> QED
    BY <1>0, <1>2, EmptyMeans, Zenon DEF list_empty
<1>4. ASSUME w[s] # << >>
      PROVE  TCB(h.next[head(s)]) = list_first(w[s]) /\ Linking(pop(h, s), r, a, x)
  <2>1. /\ list_rest(w[s]) \in Seq(Thread)
        /\ GeneralTags(list_rest(w[s])) = Tail(L[s])
        /\ Head(L[s]) = general_tag(list_first(w[s]))
    BY <1>0, <1>1, <1>4, TagsPopped
  <2>2. With(L, s, Tail(L[s])) = Lists(r, a, x)
    <3>1. \A q \in Seq(Thread) :
             With(L, s, GeneralTags(q)) = Lists(r, a, [w EXCEPT ![s] = q])
      BY <1>0, ListsWith
    <3> HIDE DEF L
    <3> QED
      BY <2>1, <3>1, Zenon
  <2>3. ListTypes(r, a, x)
    BY <1>0, <2>1 DEF ListTypes
  <2> HIDE DEF L, x
  <2>4. h.next[head(s)] = general_tag(list_first(w[s]))
    BY <1>0, <1>2, <1>4, <2>1, EmptyMeans, Zenon
  <2>5. TCB(h.next[head(s)]) = list_first(w[s])
    BY <2>4 DEF TCB, general_tag
  <2>6. HeapOK(pop(h, s), With(L, s, Tail(L[s])))
    BY <1>0, <1>2, <1>4, PopKeepsHeap
  <2> QED
    BY <2>2, <2>3, <2>5, <2>6, Zenon DEF Linking
<1> QED
  BY <1>3, <1>4, Zenon DEF list_empty


-----------------------------------------------------------------------------
(* The steps of LinksSpec. *)

LinksInv == WaitInv /\ Linking(links, ready, all, waiters)

\* The stores of a step make up its links.
LEMMA LinksAfter ==
    ASSUME NEW STATE h, To(h), Linking(h, ready', all', waiters')
    PROVE  Linking(links, ready, all, waiters)'
<1>1. h \in Heap
  BY DEF Linking, HeapOK
<1>2. h = [next |-> h.next, prev |-> h.prev]
  BY <1>1 DEF Heap
<1>3. links' = h
  BY <1>2 DEF To, links
<1> QED
  BY <1>3

LEMMA LinksKept ==
    ASSUME LinksInv, UNCHANGED << next, prev, ready, all, waiters >>
    PROVE  Linking(links, ready, all, waiters)'
BY DEF LinksInv, links

LEMMA LinksInitInv ==
    ASSUME IsFiniteSet(Thread), LinksInit PROVE LinksInv
<1>1. PICK junk \in {NULL, tail("ready")} :
        LET Old(e) == IF e = general_tag(main) THEN junk ELSE NULL
            empties ==
                [next |-> [e \in Elem |-> IF \E l \in List : e = head(l)
                                         THEN tail(e[2]) ELSE Old(e)],
                 prev |-> [e \in Elem |-> IF \E l \in List : e = tail(l)
                                         THEN head(e[2]) ELSE Old(e)]]
            h == thread_start_links(empties, main) IN
        SyncInit /\ next = h.next /\ prev = h.prev
  BY DEF LinksInit
<1> DEFINE Old(e) == IF e = general_tag(main) THEN junk ELSE NULL
           n == [e \in Elem |-> IF \E l \in List : e = head(l)
                                THEN tail(e[2]) ELSE Old(e)]
           p == [e \in Elem |-> IF \E l \in List : e = tail(l)
                                THEN head(e[2]) ELSE Old(e)]
           g == [next |-> n, prev |-> p]
           h == thread_start_links(g, main)
<1>2. SyncInit /\ next = h.next /\ prev = h.prev
  BY <1>1
<1>3. WaitInv
  BY <1>2, WaitInit
<1> DEFINE w == [s \in Sem |-> << >>]
           L == Lists(<< >>, << >>, w)
<1>4. ListTypes(<< >>, << >>, w)
  BY DEF ListTypes
<1>5. \A l \in List : L[l] = << >>
  <2>1. << >> \in Seq(Thread)
    OBVIOUS
  <2>2. GeneralTags(<< >>) = << >>
    BY <2>1, GeneralTagsOf
  <2>3. AllTags(<< >>) = << >>
    <3>1. AllTags(<< >>) \in Seq(Tag) /\ Len(AllTags(<< >>)) = 0
      BY <2>1, AllTagsOf
    <3> QED
      BY <3>1
  <2>4. \A s \in Sem : w[s] = << >>
    OBVIOUS
  <2> HIDE DEF w
  <2>5. L["ready"] = << >> /\ L["all"] = << >> /\ \A s \in Sem : L[s] = << >>
    BY <1>4, <2>2, <2>3, <2>4, ListsOf
  <2> HIDE DEF L
  <2> QED
    BY <2>5, ListNames, Zenon
<1>6. L \in [List -> Seq(Tag)]
  BY <1>4, ListsOf
<1>7. \A e \in Elem : Old(e) \in Elem \cup {NULL}
  BY ListNames, ElemKinds
<1>8. /\ \A l \in List : n[head(l)] = tail(l) /\ p[tail(l)] = head(l)
      /\ \A l \in List : n[tail(l)] = NULL
      /\ \A e \in Tag \ {general_tag(main)} : n[e] = NULL /\ p[e] = NULL
  <2>1. \A l \in List : head(l)[2] = l /\ tail(l)[2] = l
    BY DEF head, tail
  <2>2. ASSUME NEW l \in List PROVE n[head(l)] = tail(l) /\ p[tail(l)] = head(l)
    BY <2>1, ElemKinds
  <2>3. ASSUME NEW l \in List PROVE n[tail(l)] = NULL
    <3>1. tail(l) # general_tag(main)
      BY DEF tail, general_tag
    <3> QED
      BY <3>1, ElemKinds
  <2>4. ASSUME NEW e \in Tag \ {general_tag(main)} PROVE n[e] = NULL /\ p[e] = NULL
    <3>1. e \in Elem /\ \A l \in List : e # head(l) /\ e # tail(l)
      BY ElemKinds
    <3> QED
      BY <3>1
  <2> QED
    BY <2>2, <2>3, <2>4
<1>9. g \in Heap
  <2>1. ASSUME NEW e \in Elem
        PROVE  /\ (IF \E l \in List : e = head(l) THEN tail(e[2]) ELSE Old(e))
                    \in Elem \cup {NULL}
               /\ (IF \E l \in List : e = tail(l) THEN head(e[2]) ELSE Old(e))
                    \in Elem \cup {NULL}
    <3>1. \A l \in List : head(l)[2] = l /\ tail(l)[2] = l
      BY DEF head, tail
    <3> HIDE DEF Old
    <3> QED
      BY <1>7, <3>1, ElemKinds
  <2>2. n \in [Elem -> Elem \cup {NULL}] /\ p \in [Elem -> Elem \cup {NULL}]
    BY <2>1
  <2> HIDE DEF n, p
  <2> QED
    BY <2>2 DEF Heap
<1> HIDE DEF n, p, L
<1>10. Layout(L)
  BY <1>5, <1>6 DEF Layout, Distinct, Among
<1>11. Linked(g, L)
  <2> SUFFICES ASSUME NEW l \in List, NEW k \in 0 .. Len(L[l])
               PROVE  /\ n[Node(L, l, k)] = Node(L, l, k + 1)
                      /\ p[Node(L, l, k + 1)] = Node(L, l, k)
    BY DEF Linked
  <2>1. k = 0 /\ k + 1 = 1 /\ Len(L[l]) + 1 = 1
    BY <1>5
  <2>2. Node(L, l, k) = head(l) /\ Node(L, l, k + 1) = tail(l)
    BY <2>1 DEF Node
  <2> QED
    BY <1>8, <2>2
<1>12. Loose(g, L) /\ Ends(g)
  BY <1>8 DEF Loose, Ends
<1>13. Linking(g, << >>, << >>, w)
  <2>1. HeapOK(g, L)
    BY <1>9, <1>10, <1>11, <1>12 DEF HeapOK
  <2> QED
    BY <1>4, <2>1 DEF Linking, L
<1> HIDE DEF g, w
<1>14. Linking(h, << >>, once(<< >>, main), w)
  <2>1. h = append_once(g, "all", all_list_tag(main))
    BY DEF thread_start_links
  <2> QED
    BY <1>13, <2>1, AllAppend, ThreadAssumption
<1>15. once(<< >>, main) = << main >>
  BY DEF once, elem_find, ToSet, list_append
<1>16. ready = << >> /\ all = << main >> /\ waiters = w
  BY <1>2 DEF SyncInit, thread_init, w
<1>17. links = h
  <2>1. h \in Heap
    BY <1>14 DEF Linking, HeapOK
  <2> HIDE DEF h
  <2> QED
    BY <1>2, <2>1 DEF links, Heap
<1> HIDE DEF h
<1>18. Linking(links, ready, all, waiters)
  BY <1>14, <1>15, <1>16, <1>17
<1> QED
  BY <1>3, <1>18 DEF LinksInv

\* schedule's list_append and list_pop.
LEMMA ScheduleLinks ==
    ASSUME IsFiniteSet(Thread), cur \in Thread,
           NEW STATE st, NEW kind, schedule(st, kind),
           NEW STATE h, NEW w, Linking(h, ready, all, w),
           st[cur] = "TASK_RUNNING" => ~ Waits(w, cur)
    PROVE  Linking(schedule_links(h, st), ready', all, w)
<1> DEFINE q == IF st[cur] = "TASK_RUNNING" THEN once(ready, cur) ELSE ready
           g == IF st[cur] = "TASK_RUNNING"
                THEN append_once(h, "ready", general_tag(cur)) ELSE h
<1>1. Linking(g, q, all, w)
  <2>1. CASE st[cur] = "TASK_RUNNING"
    <3>1. Linking(append_once(h, "ready", general_tag(cur)), once(ready, cur), all, w)
      BY <2>1, ReadyAppend
    <3> QED
      BY <2>1, <3>1
  <2>2. CASE st[cur] # "TASK_RUNNING"
    BY <2>2
  <2> QED
    BY <2>1, <2>2
<1>2. \/ list_empty(q) /\ ready' = q
      \/ ~ list_empty(q) /\ ready' = list_rest(q)
  <2>1. CASE st[cur] = "TASK_RUNNING"
    BY <2>1 DEF schedule, switch_next, once
  <2>2. CASE st[cur] # "TASK_RUNNING"
    BY <2>2 DEF schedule, switch_next
  <2> QED
    BY <2>1, <2>2
<1>3. schedule_links(h, st) = IF empty(g, "ready") THEN g ELSE pop(g, "ready")
  BY DEF schedule_links
<1> HIDE DEF g, q
<1>4. /\ empty(g, "ready") <=> list_empty(q)
      /\ ~ list_empty(q) => Linking(pop(g, "ready"), list_rest(q), all, w)
  BY <1>1, ReadyPop
<1>5. CASE list_empty(q)
  <2>1. schedule_links(h, st) = g /\ ready' = q
    BY <1>2, <1>3, <1>4, <1>5, Zenon
  <2> QED
    BY <1>1, <2>1, Zenon
<1>6. CASE ~ list_empty(q)
  <2>1. schedule_links(h, st) = pop(g, "ready") /\ ready' = list_rest(q)
    BY <1>2, <1>3, <1>4, <1>6, Zenon
  <2> QED
    BY <1>4, <1>6, <2>1, Zenon
<1> QED
  BY <1>5, <1>6

\* thread_unblock's list_push.
LEMMA UnblockLinks ==
    ASSUME IsFiniteSet(Thread), NEW STATE u, u \in Thread, unblock(u),
           NEW STATE h, NEW w, Linking(h, ready, all, w), ~ Waits(w, u)
    PROVE  Linking(unblock_links(h, u), ready', all, w)
<1>1. CASE status[u] \in BlockStatus
  <2>1. ready' = once_push(ready, u)
        /\ unblock_links(h, u) = push_once(h, "ready", general_tag(u))
    BY <1>1 DEF unblock, unblock_links, once_push
  <2> QED
    BY <2>1, ReadyPush
<1>2. CASE status[u] \notin BlockStatus
  BY <1>2 DEF unblock, unblock_links
<1> QED
  BY <1>1, <1>2

\* semaphore_up's list_pop, and the thread it wakes.
LEMMA UpLinks ==
    ASSUME IsFiniteSet(Thread), LinksInv, NEW STATE s, s \in Sem, semaphore_up(s)
    PROVE  Linking(semaphore_up_links(links, s), ready', all', waiters')
<1>0. /\ Linking(links, ready, all, waiters) /\ WaitersBlocked
      /\ waiters \in [Sem -> Seq(Thread)] /\ UNCHANGED all
  BY DEF LinksInv, WaitInv, DataTypeOK, semaphore_up
<1>1. /\ empty(links, s) <=> list_empty(waiters[s])
      /\ ~ list_empty(waiters[s]) =>
           /\ TCB(links.next[head(s)]) = list_first(waiters[s])
           /\ Linking(pop(links, s), ready, all,
                      [waiters EXCEPT ![s] = list_rest(waiters[s])])
  BY <1>0, WaitersPop
<1>2. CASE list_empty(waiters[s])
  <2>1. UNCHANGED << waiters, ready >>
    BY <1>2 DEF semaphore_up, wake_first
  <2>2. semaphore_up_links(links, s) = links
    BY <1>1, <1>2, Zenon DEF semaphore_up_links
  <2> QED
    BY <1>0, <2>1, <2>2
<1>3. CASE ~ list_empty(waiters[s])
  <2> DEFINE u == list_first(waiters[s])
             w == [waiters EXCEPT ![s] = list_rest(waiters[s])]
  <2>1. /\ u \in Thread /\ u \in ToSet(waiters[s])
        /\ ToSet(waiters[s]) = ToSet(list_rest(waiters[s])) \cup {u}
        /\ u \notin ToSet(list_rest(waiters[s]))
    BY <1>0, <1>3, PopElements DEF WaitersBlocked
  <2>2. waiters' = w /\ unblock(u)
    BY <1>3 DEF semaphore_up, wake_first
  <2>3. ~ Waits(w, u)
    <3> SUFFICES ASSUME NEW z \in Sem, u \in ToSet(w[z]) PROVE FALSE
      BY DEF Waits
    <3>1. CASE z = s
      BY <1>0, <2>1, <3>1
    <3>2. CASE z # s
      <4>1. u \in ToSet(waiters[z])
        BY <1>0, <3>2
      <4> QED
        BY <1>0, <2>1, <3>2, <4>1 DEF WaitersBlocked
    <3> QED
      BY <3>1, <3>2
  <2>4. Linking(pop(links, s), ready, all, w)
    BY <1>1, <1>3, Zenon
  <2>5. semaphore_up_links(links, s) = unblock_links(pop(links, s), u)
    BY <1>1, <1>3, Zenon DEF semaphore_up_links
  <2> HIDE DEF u, w
  <2>6. Linking(unblock_links(pop(links, s), u), ready', all, w)
    BY <2>1, <2>2, <2>3, <2>4, UnblockLinks
  <2> QED
    BY <1>0, <2>2, <2>5, <2>6
<1> QED
  BY <1>2, <1>3

\* The thread in the loop of semaphore_down joins the waiters and leaves.
LEMMA BlockLinks ==
    ASSUME IsFiniteSet(Thread), main \notin MayBlock, LinksInv,
           NEW t \in Thread, down_block(t)
    PROVE  Linking(down_block_links(links, arg[t]), ready', all', waiters')
<1> DEFINE s == arg[t]
           st == [status EXCEPT ![cur] = "TASK_BLOCKED"]
           w == [waiters EXCEPT ![s] = list_append(waiters[s], cur)]
           h == append_once(links, s, general_tag(cur))
<1>0. /\ Linking(links, ready, all, waiters) /\ WaitersBlocked /\ CurRuns
      /\ OnlyReadyListed /\ status \in [Thread -> Status] /\ cur \in Thread /\ s \in Sem
  BY DEF LinksInv, WaitInv, IdleInv, SchedInv, TypeOK, DataTypeOK
<1>1. t = cur /\ schedule(st, "block") /\ waiters' = w /\ all' = all
  BY DEF down_block, thread_block, InBody, OnCpu
<1>2. cur \notin ToSet(ready)
  BY <1>0 DEF OnlyReadyListed, CurRuns
<1>3. ~ Waits(waiters, cur)
  BY <1>0, CurNotWaiting DEF Waits
<1>4. Linking(h, ready, all, w)
  BY <1>0, <1>2, <1>3, WaitersAppend
<1>5. st[cur] # "TASK_RUNNING"
  BY <1>0
<1>6. down_block_links(links, s) = schedule_links(h, st)
  BY DEF down_block_links
<1> HIDE DEF s, st, w, h
<1>7. Linking(schedule_links(h, st), ready', all, w)
  BY <1>0, <1>1, <1>4, <1>5, ScheduleLinks
<1> QED
  BY <1>1, <1>6, <1>7 DEF s

LEMMA LinksSyncStep ==
    ASSUME [LinksNext]_linkVars PROVE [SyncNext]_vars
BY DEF LinksNext, linkVars, SyncNext, Inside, Call, down_enter

LEMMA LinksStep ==
    ASSUME IsFiniteSet(Thread), main \notin MayBlock, LinksInv, [LinksNext]_linkVars
    PROVE  LinksInv'
<1>0. /\ Linking(links, ready, all, waiters) /\ WaitersBlocked /\ CurRuns
      /\ cur \in Thread /\ arg \in [Thread -> Sem] /\ MakingReady
      /\ making \in [Thread -> Thread \cup {NoThread}]
  BY DEF LinksInv, WaitInv, IdleInv, SchedInv, TypeOK, DataTypeOK
<1>1. WaitInv'
  BY LinksSyncStep, WaitStep DEF LinksInv
<1>2. ~ Waits(waiters, cur)
  BY <1>0, CurNotWaiting DEF Waits
<1> DEFINE Goal == Linking(links, ready, all, waiters)'
<1>3. ASSUME timer, To(timer_links(links)) PROVE Goal
  <2>1. UNCHANGED << all, waiters >>
    BY <1>3 DEF timer, intr_timer_handler, syncVars
  <2>2. Linking(timer_links(links), ready', all, waiters)
    <3>1. CASE ticks[cur] = 0
      <4>1. schedule(status, "timer") /\ timer_links(links) = schedule_links(links, status)
        BY <1>3, <3>1 DEF timer, intr_timer_handler, timer_links
      <4> QED
        BY <1>0, <1>2, <4>1, ScheduleLinks
    <3>2. CASE ticks[cur] # 0
      <4>1. ready' = ready /\ timer_links(links) = links
        BY <1>3, <3>2 DEF timer, intr_timer_handler, timer_links
      <4> QED
        BY <1>0, <4>1
    <3> QED
      BY <3>1, <3>2
  <2>3. Linking(timer_links(links), ready', all', waiters')
    BY <2>1, <2>2
  <2> HIDE DEF Goal
  <2> QED
    BY <1>3, <2>3, LinksAfter DEF Goal
<1>4. ASSUME NEW s \in Sem, event_up(s), To(semaphore_up_links(links, s)) PROVE Goal
  <2>1. semaphore_up(s)
    BY <1>4 DEF event_up
  <2> QED
    BY <1>4, <2>1, UpLinks, LinksAfter
<1>5. ASSUME NEW t \in Thread, start_ready(t),
             To(thread_ready_links(links, making[t]))
      PROVE  Goal
  <2> DEFINE u == making[t]
  <2>1. /\ u \in Thread /\ ready' = once(ready, u) /\ UNCHANGED << all, waiters >>
        /\ status[u] = "TASK_READY"
    BY <1>0, <1>5 DEF start_ready, thread_start_ready, once, syncVars, MakingReady
  <2>2. ~ Waits(waiters, u)
    BY <1>0, <2>1 DEF Waits, WaitersBlocked
  <2> HIDE DEF u
  <2>3. Linking(thread_ready_links(links, u), ready', all', waiters')
    BY <1>0, <2>1, <2>2, ReadyAppend DEF thread_ready_links
  <2> QED
    BY <1>5, <2>3, LinksAfter DEF u
<1>6. ASSUME NEW t \in Thread, NEW u \in Thread, start(t, u),
             To(thread_start_links(links, u))
      PROVE  Goal
  <2>1. all' = once(all, u) /\ UNCHANGED << ready, waiters >>
    BY <1>6 DEF start, thread_start, once, syncVars
  <2>2. Linking(thread_start_links(links, u), ready', all', waiters')
    BY <1>0, <2>1, AllAppend DEF thread_start_links
  <2> QED
    BY <1>6, <2>2, LinksAfter
<1>7. ASSUME NEW t \in Thread, down_block(t), To(down_block_links(links, arg[t]))
      PROVE  Goal
  BY <1>7, BlockLinks, LinksAfter
<1>8. ASSUME NEW t \in Thread, release_up(t), To(semaphore_up_links(links, arg[t]))
      PROVE  Goal
  <2>1. semaphore_up(arg[t]) /\ arg[t] \in Sem
    BY <1>0, <1>8 DEF release_up
  <2> QED
    BY <1>8, <2>1, UpLinks, LinksAfter
<1>9. ASSUME NEW t \in Thread,
             \/ \E l \in Lock : lock_acquire(t, l) \/ lock_release(t, l)
             \/ \E s \in Sem : down_enter(t, s)
             \/ down_take(t) \/ set_holder(t) \/ set_count(t)
             \/ clear_holder(t) \/ clear_count(t)
             \/ boot(t) \/ return(t),
             UNCHANGED << next, prev >>
      PROVE  Goal
  <2>1. UNCHANGED << ready, all, waiters >>
    BY <1>9 DEF lock_acquire, lock_release, down_enter, down_take, set_holder,
       set_count, clear_holder, clear_count, boot, intr_enable, return,
       switch_return, schedVars, syncVars
  <2> QED
    BY <1>9, <2>1, LinksKept
<1>10. ASSUME UNCHANGED linkVars PROVE Goal
  <2>1. UNCHANGED << next, prev, ready, all, waiters >>
    BY <1>10 DEF linkVars, vars, schedVars, syncVars
  <2> QED
    BY <2>1, LinksKept
<1>11. Goal
  <2> HIDE DEF Goal
  <2> QED
    BY <1>3, <1>4, <1>5, <1>6, <1>7, <1>8, <1>9, <1>10 DEF LinksNext
<1> QED
  BY <1>1, <1>11 DEF LinksInv

\* The elements that LinkedAs names, numbered from the head.
LEMMA LinkedSequence ==
    ASSUME NEW h, NEW L, HeapOK(h, L), NEW l \in List, links = h
    PROVE  LinkedAs(l, L[l])
<1> DEFINE q == L[l]
           n == Len(q)
           chain == << head(l) >> \o q \o << tail(l) >>
<1>1. /\ q \in Seq(Tag) /\ n \in Nat /\ \A k \in 1 .. n : Node(L, l, k) = q[k]
      /\ Node(L, l, 0) = head(l) /\ Node(L, l, n + 1) = tail(l)
  BY NodeElem DEF HeapOK
<1>2. /\ Len(chain) = n + 2
      /\ \A k \in 1 .. n + 2 :
           chain[k] = IF k = 1 THEN head(l) ELSE IF k = n + 2 THEN tail(l) ELSE q[k - 1]
  <2>1. /\ << head(l) >> \in Seq(Elem) /\ << tail(l) >> \in Seq(Elem) /\ q \in Seq(Elem)
        /\ Len(<< head(l) >>) = 1 /\ Len(<< tail(l) >>) = 1
        /\ << head(l) >>[1] = head(l) /\ << tail(l) >>[1] = tail(l)
    BY <1>1, ElemKinds
  <2> DEFINE a == << head(l) >>
             z == << tail(l) >>
             b == a \o q
  <2> HIDE DEF a, z, q
  <2>2. b \in Seq(Elem) /\ Len(b) = 1 + n
        /\ \A k \in 1 .. 1 + n : b[k] = IF k <= 1 THEN a[k] ELSE q[k - 1]
    BY <2>1, ConcatProperties DEF a, z
  <2> HIDE DEF b
  <2>3. Len(b \o z) = (1 + n) + 1
        /\ \A k \in 1 .. (1 + n) + 1 :
             (b \o z)[k] = IF k <= 1 + n THEN b[k] ELSE z[k - (1 + n)]
    BY <2>1, <2>2, ConcatProperties DEF a, z
  <2>4. chain = b \o z
    BY DEF b, a, z
  <2> HIDE DEF chain, n
  <2>5. (1 + n) + 1 = n + 2 /\ n \in Nat /\ a[1] = head(l) /\ z[1] = tail(l)
    BY <1>1, <2>1 DEF a, z
  <2>6. ASSUME NEW k \in 1 .. n + 2
        PROVE  chain[k] = IF k = 1 THEN head(l)
                          ELSE IF k = n + 2 THEN tail(l) ELSE q[k - 1]
    <3>1. CASE k = 1
      BY <2>2, <2>3, <2>4, <2>5, <3>1
    <3>2. CASE k = n + 2
      <4>1. ~ (k <= 1 + n) /\ k - (1 + n) = 1 /\ k # 1
        BY <2>5, <3>2
      <4> QED
        BY <2>3, <2>4, <2>5, <3>2, <4>1
    <3>3. CASE k # 1 /\ k # n + 2
      <4>1. k <= 1 + n /\ k \in 1 .. 1 + n /\ ~ (k <= 1)
        BY <2>5, <3>3
      <4> QED
        BY <2>2, <2>3, <2>4, <2>5, <3>3, <4>1
    <3> QED
      BY <3>1, <3>2, <3>3
  <2> QED
    BY <2>3, <2>4, <2>5, <2>6
<1> HIDE DEF chain
<1>3. \A k \in 1 .. n + 2 : chain[k] = Node(L, l, k - 1)
  <2> HIDE DEF n, q
  <2> SUFFICES ASSUME NEW k \in 1 .. n + 2 PROVE chain[k] = Node(L, l, k - 1)
    OBVIOUS
  <2>1. CASE k = 1
    BY <1>1, <1>2, <2>1
  <2>2. CASE k = n + 2
    <3>1. k # 1 /\ k - 1 = n + 1
      BY <1>1, <2>2
    <3> QED
      BY <1>1, <1>2, <2>2, <3>1
  <2>3. CASE k # 1 /\ k # n + 2
    <3>1. k - 1 \in 1 .. n
      BY <1>1, <2>3
    <3> QED
      BY <1>1, <1>2, <2>3, <3>1
  <2> QED
    BY <2>1, <2>2, <2>3
<1>4. \A k \in 0 .. n : /\ next[Node(L, l, k)] = Node(L, l, k + 1)
                        /\ prev[Node(L, l, k + 1)] = Node(L, l, k)
  BY DEF HeapOK, Linked, links
<1>5. ASSUME NEW k \in 1 .. Len(chain) - 1
      PROVE  next[chain[k]] = chain[k + 1] /\ prev[chain[k + 1]] = chain[k]
  <2> HIDE DEF n
  <2>1. /\ k \in 1 .. n + 2 /\ k + 1 \in 1 .. n + 2 /\ k - 1 \in 0 .. n
        /\ (k + 1) - 1 = k /\ (k - 1) + 1 = k
    BY <1>1, <1>2
  <2>2. chain[k] = Node(L, l, k - 1) /\ chain[k + 1] = Node(L, l, k)
    BY <1>3, <2>1
  <2> QED
    BY <1>4, <2>1, <2>2
<1> QED
  BY <1>5 DEF LinkedAs, chain

\* list.c under thread.c and sync.c: whatever threads and handlers insert and
\* remove, the links lead through the elements of each list, forth and back.
THEOREM ListsStayLinked ==
    ASSUME IsFiniteSet(Thread), main \notin MayBlock
    PROVE  LinksSpec => []ListsLinked
<1>1. LinksInit => LinksInv
  BY LinksInitInv
<1>2. LinksInv /\ [LinksNext]_linkVars => LinksInv'
  BY LinksStep
<1>3. LinksInv => ListsLinked
  <2> SUFFICES ASSUME LinksInv PROVE ListsLinked
    OBVIOUS
  <2> DEFINE L == Lists(ready, all, waiters)
  <2>1. HeapOK(links, L) /\ ListTypes(ready, all, waiters)
    BY DEF LinksInv, Linking
  <2>2. /\ L["ready"] = GeneralTags(ready) /\ L["all"] = AllTags(all)
        /\ \A s \in Sem : L[s] = GeneralTags(waiters[s])
    BY <2>1, ListsOf
  <2>3. \A t \in Thread :
           /\ general_tag(t) \in Tag
           /\ InList(L, general_tag(t)) <=> t \in ToSet(ready) \/ Waits(waiters, t)
    BY <2>1, ListsElements, Zenon
  <2> HIDE DEF L
  <2>4. \A l \in List : LinkedAs(l, L[l])
    BY <2>1, LinkedSequence
  <2>5. LinkedAs("ready", GeneralTags(ready)) /\ LinkedAs("all", AllTags(all))
        /\ \A s \in Sem : LinkedAs(s, GeneralTags(waiters[s]))
    BY <2>2, <2>4, ListNames, Zenon
  <2>6. ASSUME NEW t \in Thread \ {main}, t \notin ToSet(ready),
               \A s \in Sem : t \notin ToSet(waiters[s])
        PROVE  next[general_tag(t)] = NULL /\ prev[general_tag(t)] = NULL
    <3>1. ~ InList(L, general_tag(t)) /\ general_tag(t) # general_tag(main)
          /\ general_tag(t) \in Tag
      <4>1. ~ Waits(waiters, t)
        BY <2>6 DEF Waits
      <4>2. general_tag(t) # general_tag(main)
        BY DEF general_tag
      <4> QED
        BY <2>3, <2>6, <4>1, <4>2, Zenon
    <3>2. links.next[general_tag(t)] = NULL /\ links.prev[general_tag(t)] = NULL
      BY <2>1, <3>1 DEF HeapOK, Loose
    <3> QED
      BY <3>2 DEF links
  <2> QED
    BY <2>5, <2>6 DEF ListsLinked, GeneralTags, AllTags
<1> QED
  BY <1>1, <1>2, <1>3, PTL DEF LinksSpec

=============================================================================
