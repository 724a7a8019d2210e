---------------------------- MODULE QueueProofs -----------------------------
(***************************************************************************)
(* Proofs about queue.c: the links in both directions, the ends and the    *)
(* count describe one sequence, for any number of nodes, items and calls,  *)
(* and to its callers that sequence is a bounded queue.                    *)
(***************************************************************************)
EXTENDS Parts, NumberTheorems, FiniteSetTheorems

----------------------------------------------------------------------------
(* Walking along the list.                                                 *)

(* A sequence of different nodes is no longer than the heap.               *)
LEMMA NoLongerThanHeap ==
  ASSUME NEW s \in Seq(Nodes), IsInjective(s)
  PROVE  Len(s) <= Cardinality(Nodes) /\ Cardinality(Nodes) \in Nat
<1> DEFINE S == 1..Len(s)
<1>1. IsFiniteSet(Nodes) /\ Cardinality(Nodes) \in Nat
  BY QueueAssumption, FS_CardinalityType
<1>2. IsFiniteSet(S) /\ Cardinality(S) = Len(s)
  <2>1. Len(s) \in Nat
    OBVIOUS
  <2> QED BY <2>1, FS_Interval
<1>3. s \in [S -> Nodes] /\ \A a, b \in S : s[a] = s[b] => a = b
  BY DEF IsInjective
<1> HIDE DEF S
<1>4. \A f : f \in [S -> Nodes] => Cardinality(S) <= Cardinality(Nodes) \/ \E a, b \in S : a # b /\ f[a] = f[b]
  BY <1>1, <1>2, FS_PigeonHole, FS_CardinalityType
<1> QED BY <1>1, <1>2, <1>3, <1>4

(* Along the list's prev links a walk finds its nodes, and then NULL.      *)
LEMMA WalkFindsList ==
  ASSUME NEW s \in Seq(Nodes), IsInjective(s), NEW h, NEW n,
         n = IF s = <<>> THEN NULL ELSE s[1],
         \A p \in 1..Len(s) : h[s[p]].prev = IF p = Len(s) THEN NULL ELSE s[p + 1]
  PROVE  Walk(h, n) = [p \in 1..Cardinality(Nodes) + 1 |-> IF p <= Len(s) THEN s[p] ELSE NULL]
<1> DEFINE D == 1..Cardinality(Nodes) + 1
           Solves(f) == f = [p \in D |->
                          IF p = 1 THEN n
                          ELSE IF f[p - 1] \in Nodes THEN h[f[p - 1]].prev ELSE NULL]
           g == [p \in D |-> IF p <= Len(s) THEN s[p] ELSE NULL]
<1>1. Len(s) \in Nat /\ Cardinality(Nodes) \in Nat /\ Len(s) <= Cardinality(Nodes)
      /\ NULL \notin Nodes
  BY NoLongerThanHeap, QueueAssumption
<1>2. Walk(h, n) = CHOOSE f : Solves(f)
  BY DEF Walk
<1>3. \A p \in D : g[p] = IF p = 1 THEN n
                          ELSE IF g[p - 1] \in Nodes THEN h[g[p - 1]].prev ELSE NULL
  <2> SUFFICES ASSUME NEW p \in D
               PROVE  g[p] = IF p = 1 THEN n
                             ELSE IF g[p - 1] \in Nodes THEN h[g[p - 1]].prev ELSE NULL
    OBVIOUS
  <2>1. CASE p = 1
    BY <1>1, <2>1
  <2>2. CASE p # 1
    <3>1. p - 1 \in D /\ (p - 1) + 1 = p /\ p \in Nat
      BY <1>1, <2>2
    <3>2. CASE p - 1 <= Len(s)
      <4>1. p - 1 \in 1..Len(s) /\ g[p - 1] = s[p - 1] /\ s[p - 1] \in Nodes
        BY <1>1, <2>2, <3>1, <3>2
      <4>2. h[s[p - 1]].prev = IF p - 1 = Len(s) THEN NULL ELSE s[p]
        BY <3>1, <4>1
      <4>3. g[p] = IF p - 1 = Len(s) THEN NULL ELSE s[p]
        BY <1>1, <3>1, <3>2
      <4> HIDE DEF g
      <4> QED BY <2>2, <4>1, <4>2, <4>3
    <3>3. CASE ~(p - 1 <= Len(s))
      <4>1. g[p - 1] = NULL /\ g[p] = NULL
        BY <1>1, <3>1, <3>3
      <4> HIDE DEF g
      <4> QED BY <1>1, <2>2, <4>1
    <3> QED BY <3>2, <3>3
  <2> QED BY <2>1, <2>2
<1>4. Solves(g)
  <2> DEFINE e == [p \in D |-> IF p = 1 THEN n
                               ELSE IF g[p - 1] \in Nodes THEN h[g[p - 1]].prev ELSE NULL]
  <2>1. \A p \in D : g[p] = e[p]
    BY <1>3
  <2>2. g = [p \in D |-> g[p]] /\ e = [p \in D |-> e[p]]
    OBVIOUS
  <2> HIDE DEF g, e
  <2>3. g = e
    BY <2>1, <2>2
  <2> QED BY <2>3 DEF e
<1> DEFINE w == Walk(h, n)
<1>5. Solves(w)
  BY <1>2, <1>4
<1>6. /\ \A p \in D : w[p] = IF p = 1 THEN n
                             ELSE IF w[p - 1] \in Nodes THEN h[w[p - 1]].prev ELSE NULL
      /\ w = [p \in D |-> w[p]]
  <2> HIDE DEF w
  <2> QED BY <1>5
<1> HIDE DEF w, g, Solves
<1>7. \A p \in Nat : p + 1 \in D => w[p + 1] = g[p + 1]
  <2> DEFINE S == {p \in Nat : p + 1 \in D => w[p + 1] = g[p + 1]}
  <2>1. 0 \in S
    <3>1. 0 + 1 = 1 /\ 1 \in D
      BY <1>1
    <3>2. w[1] = g[1]
      BY <1>3, <1>6, <3>1
    <3> QED BY <3>1, <3>2
  <2>2. ASSUME NEW p \in Nat, p \in S
        PROVE  p + 1 \in S
    <3> SUFFICES ASSUME (p + 1) + 1 \in D
                 PROVE  w[(p + 1) + 1] = g[(p + 1) + 1]
      OBVIOUS
    <3> DEFINE k == (p + 1) + 1
    <3>1. k \in D /\ k # 1 /\ k - 1 = p + 1 /\ p + 1 \in D
      BY <1>1
    <3> HIDE DEF k
    <3>2. w[k - 1] = g[k - 1]
      BY <2>2, <3>1
    <3>3. w[k] = IF w[k - 1] \in Nodes THEN h[w[k - 1]].prev ELSE NULL
      BY <1>6, <3>1
    <3>4. g[k] = IF g[k - 1] \in Nodes THEN h[g[k - 1]].prev ELSE NULL
      BY <1>3, <3>1
    <3>5. w[k] = g[k]
      BY <3>2, <3>3, <3>4
    <3> QED BY <3>5 DEF k
  <2> HIDE DEF S
  <2>3. \A p \in Nat : p \in S
    BY <2>1, <2>2, Induction
  <2> QED BY <2>3 DEF S
<1>8. \A p \in D : w[p] = g[p]
  <2> SUFFICES ASSUME NEW p \in D PROVE w[p] = g[p]
    OBVIOUS
  <2>1. p - 1 \in Nat /\ (p - 1) + 1 = p
    BY <1>1
  <2> QED BY <1>7, <2>1
<1>9. g = [p \in D |-> g[p]]
  BY DEF g
<1>10. w = g
  BY <1>6, <1>8, <1>9
<1> QED BY <1>10 DEF w, g

(* The nodes of s follow each other from n along the prev links of h.      *)
Leads(s, h, n) ==
  /\ n = IF s = <<>> THEN NULL ELSE s[1]
  /\ \A p \in 1..Len(s) : h[s[p]].prev = IF p = Len(s) THEN NULL ELSE s[p + 1]

(* What a walk finds in the list's nodes is the queue's contents.          *)
LEMMA ItemsOfList ==
  ASSUME NEW s \in Seq(Nodes), IsInjective(s), NEW h, NEW n, Leads(s, h, n)
  PROVE  ItemsFrom(h, n) = [p \in 1..Len(s) |-> h[s[p]].items]
<1> DEFINE w == Walk(h, n)
           N == Cardinality(Nodes)
           S == {j \in DOMAIN w : w[j] # NULL}
<1>1. Len(s) \in Nat /\ N \in Nat /\ Len(s) <= N /\ NULL \notin Nodes
  BY NoLongerThanHeap, QueueAssumption
<1>2. w = [p \in 1..N + 1 |-> IF p <= Len(s) THEN s[p] ELSE NULL]
  <2>1. /\ n = IF s = <<>> THEN NULL ELSE s[1]
        /\ \A p \in 1..Len(s) : h[s[p]].prev = IF p = Len(s) THEN NULL ELSE s[p + 1]
    BY DEF Leads
  <2> QED BY <2>1, WalkFindsList, ZenonT(30)
<1> HIDE DEF w, N
<1>3. S = 1..Len(s) /\ \A p \in 1..Len(s) : w[p] = s[p]
  <2>1. \A p \in 1..Len(s) : p \in DOMAIN w /\ w[p] = s[p] /\ s[p] # NULL
    BY <1>1, <1>2
  <2>2. ASSUME NEW j \in S
        PROVE  j \in 1..Len(s)
    BY <1>1, <1>2
  <2> QED BY <2>1, <2>2
<1>4. Cardinality(1..Len(s)) = Len(s)
  <2> DEFINE k == Len(s)
  <2>1. 1 \in Int /\ k \in Nat
    BY <1>1
  <2> HIDE DEF k
  <2>2. Cardinality(1..k) = IF 1 > k THEN 0 ELSE (k - 1) + 1
    BY <2>1, FS_Interval
  <2>3. Cardinality(1..k) = k
    BY <2>1, <2>2
  <2> QED BY <2>3 DEF k
<1>5. ItemsFrom(h, n) = [p \in 1..Cardinality(S) |-> h[w[p]].items]
  BY DEF ItemsFrom, w
<1> HIDE DEF S
<1> QED BY <1>3, <1>4, <1>5

----------------------------------------------------------------------------
(* addQueue and getQueue.                                                  *)

Cell == [items : Items \cup {NULL}, prev : Nodes \cup {NULL}, next : Nodes \cup {NULL}]

(* The heap holds cells; some sequence is the list, no longer than it may  *)
(* be; closeQueue has emptied it.                                          *)
QueueInv ==
  /\ heap \in [Nodes -> Cell]
  /\ \E s \in Seq(Nodes) : ListIs(s) /\ Len(s) <= Capacity
  /\ queueState = "closed" => count = 0

(* What ListIs says about the places of the list, one by one.              *)
LEMMA Places ==
  ASSUME NEW s \in Seq(Nodes), ListIs(s)
  PROVE  /\ Len(s) \in Nat /\ count = Len(s)
         /\ \A n \in Nodes : heap[n] # Free <=> \E p \in 1..Len(s) : s[p] = n
         /\ \A p, j \in 1..Len(s) : s[p] = s[j] => p = j
         /\ last = IF s = <<>> THEN NULL ELSE s[1]
         /\ root = IF s = <<>> THEN NULL ELSE s[Len(s)]
         /\ \A p \in 1..Len(s) : s[p] \in Nodes /\ heap[s[p]].items \in Items
                                 /\ heap[s[p]].items # NULL
<1>1. Len(s) \in Nat /\ DOMAIN s = 1..Len(s) /\ \A p \in 1..Len(s) : s[p] \in Nodes
  OBVIOUS
<1>2. \A n \in Nodes : heap[n] # Free <=> \E p \in 1..Len(s) : s[p] = n
  <2>1. Allocated = {s[p] : p \in 1..Len(s)}
    BY <1>1 DEF ListIs, ToSet
  <2> QED BY <2>1 DEF Allocated
<1>3. last = IF s = <<>> THEN NULL ELSE s[1]
  BY DEF ListIs
<1>4. \A p, j \in 1..Len(s) : s[p] = s[j] => p = j
  BY <1>1 DEF ListIs, IsInjective
<1>5. \A p \in 1..Len(s) : heap[s[p]].items \in Items /\ heap[s[p]].items # NULL
  BY QueueAssumption DEF ListIs
<1>6. root = (IF s = <<>> THEN NULL ELSE s[Len(s)]) /\ count = Len(s)
  BY DEF ListIs
<1> QED BY <1>1, <1>2, <1>3, <1>4, <1>5, <1>6

(* addQueue puts a node behind the last.                                   *)
LEMMA AddedBehind ==
  ASSUME heap \in [Nodes -> Cell], NEW item \in Items \cup {NULL}, AddQueue(item),
         NEW s \in Seq(Nodes), ListIs(s)
  PROVE  /\ item \in Items /\ Len(s) < Capacity
         /\ heap' \in [Nodes -> Cell]
         /\ \E n \in Nodes : /\ ListIs(Append(s, n))' /\ heap'[n].items = item
                             /\ \A p \in 1..Len(s) : heap'[s[p]].items = heap[s[p]].items
<1>1. PICK n \in Nodes \ Allocated :
        /\ heap' = [m \in Nodes |->
                      IF m = n THEN [items |-> item, prev |-> NULL, next |-> root]
                      ELSE IF m = root THEN [heap[m] EXCEPT !.prev = n] ELSE heap[m]]
        /\ last' = IF root = NULL THEN n ELSE last
        /\ root' = n
  BY DEF AddQueue
<1>2. item \in Items /\ item # NULL /\ count < Capacity /\ count' = count + 1
  BY QueueAssumption DEF AddQueue
<1> DEFINE k == Len(s)
<1>3. /\ k \in Nat /\ count = k
      /\ \A m \in Nodes : heap[m] # Free <=> \E p \in 1..k : s[p] = m
      /\ \A p, j \in 1..k : s[p] = s[j] => p = j
      /\ last = IF s = <<>> THEN NULL ELSE s[1]
      /\ root = IF s = <<>> THEN NULL ELSE s[k]
      /\ \A p \in 1..k : s[p] \in Nodes /\ heap[s[p]].items \in Items /\ heap[s[p]].items # NULL
  BY Places
<1>4. \A p \in 1..k : /\ heap[s[p]].prev = IF p = k THEN NULL ELSE s[p + 1]
                      /\ heap[s[p]].next = IF p = 1 THEN NULL ELSE s[p - 1]
  BY DEF ListIs
<1>5. (s = <<>> <=> k = 0) /\ NULL \notin Nodes
  BY QueueAssumption
<1> HIDE DEF k
<1>6. \A p \in 1..k : s[p] # n
  BY <1>1, <1>3 DEF Allocated
<1>7. /\ heap'[n] = [items |-> item, prev |-> NULL, next |-> root]
      /\ \A m \in Nodes \ {n} : m # root => heap'[m] = heap[m]
      /\ \A m \in Nodes \ {n} : m = root => heap'[m] = [heap[m] EXCEPT !.prev = n]
  BY <1>1
<1>8. heap' \in [Nodes -> Cell]
  <2>1. root \in Nodes \cup {NULL}
    BY <1>3, <1>5
  <2>2. \A m \in Nodes : heap'[m] \in Cell
    <3> SUFFICES ASSUME NEW m \in Nodes PROVE heap'[m] \in Cell
      OBVIOUS
    <3>1. CASE m = n
      BY <1>2, <1>7, <2>1, <3>1 DEF Cell
    <3>2. CASE m # n /\ m = root
      <4>1. heap[m] \in Cell /\ heap'[m] = [heap[m] EXCEPT !.prev = n]
        BY <1>7, <3>2
      <4> QED BY <4>1 DEF Cell
    <3>3. CASE m # n /\ m # root
      BY <1>7, <3>3
    <3> QED BY <3>1, <3>2, <3>3
  <2> QED BY <1>1, <2>2
<1>9. \A p \in 1..k : /\ s[p] \in Nodes \ {n}
                      /\ heap'[s[p]].items = heap[s[p]].items
                      /\ heap'[s[p]].next = heap[s[p]].next
                      /\ heap'[s[p]].prev = IF p = k THEN n ELSE s[p + 1]
  <2> SUFFICES ASSUME NEW p \in 1..k
               PROVE  /\ s[p] \in Nodes \ {n}
                      /\ heap'[s[p]].items = heap[s[p]].items
                      /\ heap'[s[p]].next = heap[s[p]].next
                      /\ heap'[s[p]].prev = IF p = k THEN n ELSE s[p + 1]
    OBVIOUS
  <2>1. s[p] \in Nodes \ {n} /\ heap[s[p]] \in Cell
    BY <1>3, <1>6
  <2>2. s[p] = root <=> p = k
    <3>1. k \in 1..k /\ root = s[k]
      BY <1>3, <1>5
    <3> QED BY <1>3, <3>1
  <2>3. CASE p = k
    <3>1. heap'[s[p]] = [heap[s[p]] EXCEPT !.prev = n]
      BY <1>7, <2>1, <2>2, <2>3
    <3> QED BY <2>1, <2>3, <3>1 DEF Cell
  <2>4. CASE p # k
    BY <1>4, <1>7, <2>1, <2>2, <2>4
  <2> QED BY <2>3, <2>4
<1> DEFINE t == Append(s, n)
<1>10. /\ t \in Seq(Nodes) /\ Len(t) = k + 1 /\ t[k + 1] = n /\ t # <<>> /\ DOMAIN t = 1..k + 1
       /\ \A p \in 1..k : t[p] = s[p]
       /\ Head(t) = t[1]
  <2>1. t \in Seq(Nodes) /\ Len(t) = k + 1 /\ t[k + 1] = n /\ DOMAIN t = 1..k + 1
    BY DEF k
  <2>2. \A p \in 1..k : t[p] = s[p]
    BY DEF k
  <2>3. t # <<>>
    BY <1>3, <2>1
  <2> HIDE DEF t
  <2>4. Head(t) = t[1]
    BY <2>1, <2>3
  <2> QED BY <2>1, <2>2, <2>3, <2>4
<1> HIDE DEF t
<1>11. ToSet(t) = Allocated'
  <2>1. ASSUME NEW m \in Nodes
        PROVE  heap'[m] # Free <=> m = n \/ heap[m] # Free
    <3>1. CASE m = n
      BY <1>2, <1>7, <3>1 DEF Free
    <3>2. CASE m # n /\ m # root
      BY <1>7, <3>2
    <3>3. CASE m # n /\ m = root
      <4>1. k \in 1..k /\ m = s[k]
        BY <1>3, <1>5, <3>3
      <4>2. heap'[m].items # NULL /\ heap[m].items # NULL
        BY <1>3, <1>9, <4>1
      <4> QED BY <3>3, <4>2 DEF Free
    <3> QED BY <3>1, <3>2, <3>3
  <2>2. Allocated' = {m \in Nodes : m = n \/ \E p \in 1..k : s[p] = m}
    BY <1>3, <2>1 DEF Allocated
  <2>3. \A m : m \in ToSet(t) <=> m = n \/ \E p \in 1..k : s[p] = m
    <3>1. ToSet(t) = {t[p] : p \in 1..k + 1}
      BY <1>10 DEF ToSet
    <3>2. \A p \in 1..k + 1 : p = k + 1 \/ p \in 1..k
      BY <1>3
    <3>3. k + 1 \in 1..k + 1 /\ 1..k \subseteq 1..k + 1
      BY <1>3
    <3> QED BY <1>10, <3>1, <3>2, <3>3
  <2> QED BY <1>1, <1>3, <2>2, <2>3
<1>12. IsInjective(t)
  <2>1. \A p \in 1..k + 1 : p = k + 1 \/ p \in 1..k
    BY <1>3
  <2>2. \A p, j \in 1..k + 1 : t[p] = t[j] => p = j
    BY <1>3, <1>6, <1>10, <2>1
  <2> QED BY <1>10, <2>2 DEF IsInjective
<1>13. last' = Head(t) /\ root' = t[Len(t)]
  <2>1. CASE k = 0
    BY <1>1, <1>3, <1>5, <1>10, <2>1
  <2>2. CASE k # 0
    <3>1. 1 \in 1..k /\ k \in 1..k /\ root # NULL /\ last = s[1]
      BY <1>3, <1>5, <2>2
    <3> QED BY <1>1, <1>10, <3>1
  <2> QED BY <2>1, <2>2
<1>14. \A p \in 1..Len(t) :
         /\ heap'[t[p]].items \in Items
         /\ heap'[t[p]].prev = IF p = Len(t) THEN NULL ELSE t[p + 1]
         /\ heap'[t[p]].next = IF p = 1 THEN NULL ELSE t[p - 1]
  <2> SUFFICES ASSUME NEW p \in 1..k + 1
               PROVE  /\ heap'[t[p]].items \in Items
                      /\ heap'[t[p]].prev = IF p = k + 1 THEN NULL ELSE t[p + 1]
                      /\ heap'[t[p]].next = IF p = 1 THEN NULL ELSE t[p - 1]
    BY <1>10
  <2>1. CASE p = k + 1
    <3>1. t[p] = n /\ heap'[n].items = item /\ heap'[n].prev = NULL /\ heap'[n].next = root
      BY <1>7, <1>10, <2>1
    <3>2. CASE k = 0
      BY <1>2, <1>3, <1>5, <2>1, <3>1, <3>2
    <3>3. CASE k # 0
      <4>1. k \in 1..k /\ p - 1 = k /\ p # 1 /\ t[k] = s[k] /\ root = s[k]
        BY <1>3, <1>5, <1>10, <2>1, <3>3
      <4> QED BY <1>2, <2>1, <3>1, <4>1
    <3> QED BY <3>2, <3>3
  <2>2. CASE p # k + 1
    <3>1. p \in 1..k /\ t[p] = s[p]
      BY <1>3, <1>10, <2>2
    <3>2. p # 1 => p - 1 \in 1..k
      BY <1>3, <3>1
    <3>3. p # k => p + 1 \in 1..k
      BY <1>3, <3>1
    <3>4. heap'[t[p]].items \in Items
      BY <1>3, <1>9, <3>1
    <3>5. heap'[t[p]].next = IF p = 1 THEN NULL ELSE t[p - 1]
      BY <1>4, <1>9, <1>10, <3>1, <3>2
    <3>6. heap'[t[p]].prev = t[p + 1]
      BY <1>9, <1>10, <3>1, <3>3
    <3> QED BY <2>2, <3>4, <3>5, <3>6
  <2> QED BY <2>1, <2>2
<1>15. ListIs(t)'
  BY <1>2, <1>3, <1>10, <1>11, <1>12, <1>13, <1>14 DEF ListIs
<1>16. heap'[n].items = item
  BY <1>7
<1>17. k < Capacity
  BY <1>2, <1>3
<1> QED BY <1>2, <1>8, <1>9, <1>15, <1>16, <1>17 DEF t, k

(* getQueue and closeQueue take the last node out.                         *)
LEMMA UnlinkedInFront ==
  ASSUME heap \in [Nodes -> Cell], Unlink, NEW s \in Seq(Nodes), ListIs(s)
  PROVE  /\ s # <<>> /\ last = s[1] /\ heap' \in [Nodes -> Cell]
         /\ ListIs(Tail(s))'
         /\ \A p \in 1..Len(Tail(s)) : heap'[Tail(s)[p]].items = heap[s[p + 1]].items
<1> DEFINE k == Len(s)
<1>1. /\ k \in Nat /\ count = k
      /\ \A m \in Nodes : heap[m] # Free <=> \E p \in 1..k : s[p] = m
      /\ \A p, j \in 1..k : s[p] = s[j] => p = j
      /\ last = IF s = <<>> THEN NULL ELSE s[1]
      /\ root = IF s = <<>> THEN NULL ELSE s[k]
      /\ \A p \in 1..k : s[p] \in Nodes /\ heap[s[p]].items \in Items /\ heap[s[p]].items # NULL
  BY Places
<1>2. \A p \in 1..k : /\ heap[s[p]].prev = IF p = k THEN NULL ELSE s[p + 1]
                      /\ heap[s[p]].next = IF p = 1 THEN NULL ELSE s[p - 1]
  BY DEF ListIs
<1>3. (s = <<>> <=> k = 0) /\ NULL \notin Nodes
  BY QueueAssumption
<1>4. count > 0 /\ count' = count - 1
  BY DEF Unlink
<1> DEFINE t == Tail(s)
<1>5. /\ t \in Seq(Nodes) /\ Len(t) = k - 1 /\ DOMAIN t = 1..k - 1
      /\ \A p \in 1..k - 1 : t[p] = s[p + 1]
  <2>1. s # <<>>
    BY <1>1, <1>3, <1>4
  <2> QED BY <2>1 DEF k
<1> HIDE DEF k, t
<1>6. s # <<>> /\ k >= 1 /\ last = s[1] /\ root = s[k] /\ 1 \in 1..k /\ k \in 1..k
  BY <1>1, <1>3, <1>4
<1>7. root = last <=> k = 1
  BY <1>1, <1>6
<1>8. heap[last].prev = IF k = 1 THEN NULL ELSE s[2]
  BY <1>2, <1>6
<1>9. /\ heap' = [m \in Nodes |->
                    IF m = last THEN Free
                    ELSE IF m = heap[last].prev /\ root # last
                         THEN [heap[m] EXCEPT !.next = NULL] ELSE heap[m]]
      /\ root' = IF root = last THEN NULL ELSE root
      /\ last' = heap[last].prev
  BY DEF Unlink
<1>10. /\ heap'[last] = Free
       /\ \A m \in Nodes \ {last} : ~(m = heap[last].prev /\ root # last) => heap'[m] = heap[m]
       /\ \A m \in Nodes \ {last} : m = heap[last].prev /\ root # last
                                      => heap'[m] = [heap[m] EXCEPT !.next = NULL]
  BY <1>1, <1>6, <1>9
<1>11. heap' \in [Nodes -> Cell]
  <2>1. \A m \in Nodes : heap'[m] \in Cell
    <3> SUFFICES ASSUME NEW m \in Nodes PROVE heap'[m] \in Cell
      OBVIOUS
    <3>1. CASE m = last
      BY <1>10, <3>1 DEF Free, Cell
    <3>2. CASE m # last /\ m = heap[last].prev /\ root # last
      <4>1. heap[m] \in Cell /\ heap'[m] = [heap[m] EXCEPT !.next = NULL]
        BY <1>10, <3>2
      <4> QED BY <4>1 DEF Cell
    <3>3. CASE m # last /\ ~(m = heap[last].prev /\ root # last)
      <4>1. heap[m] \in Cell /\ heap'[m] = heap[m]
        BY <1>10, <3>3
      <4> QED BY <4>1
    <3> QED BY <3>1, <3>2, <3>3
  <2> QED BY <1>9, <2>1
<1>12. \A p \in 2..k : /\ s[p] \in Nodes \ {last}
                       /\ heap'[s[p]].items = heap[s[p]].items
                       /\ heap'[s[p]].prev = heap[s[p]].prev
                       /\ heap'[s[p]].next = IF p = 2 THEN NULL ELSE s[p - 1]
  <2> SUFFICES ASSUME NEW p \in 2..k
               PROVE  /\ s[p] \in Nodes \ {last}
                      /\ heap'[s[p]].items = heap[s[p]].items
                      /\ heap'[s[p]].prev = heap[s[p]].prev
                      /\ heap'[s[p]].next = IF p = 2 THEN NULL ELSE s[p - 1]
    OBVIOUS
  <2>1. p \in 1..k /\ p # 1 /\ k # 1 /\ 2 \in 1..k
    BY <1>1
  <2>2. s[p] \in Nodes \ {last} /\ heap[s[p]] \in Cell
    BY <1>1, <1>6, <2>1
  <2>3. s[p] = heap[last].prev <=> p = 2
    BY <1>1, <1>8, <2>1
  <2>4. CASE p = 2
    <3>1. heap'[s[p]] = [heap[s[p]] EXCEPT !.next = NULL]
      BY <1>7, <1>10, <2>1, <2>2, <2>3, <2>4
    <3> QED BY <2>2, <2>4, <3>1 DEF Cell
  <2>5. CASE p # 2
    <3>1. heap'[s[p]] = heap[s[p]]
      BY <1>10, <2>2, <2>3, <2>5
    <3> QED BY <1>2, <2>1, <2>2, <2>5, <3>1
  <2> QED BY <2>4, <2>5
<1>13. ToSet(t) = Allocated'
  <2>1. ASSUME NEW m \in Nodes
        PROVE  heap'[m] # Free <=> m # last /\ heap[m] # Free
    <3>1. CASE m = last
      BY <1>10, <3>1
    <3>2. CASE m # last /\ ~(m = heap[last].prev /\ root # last)
      BY <1>10, <3>2
    <3>3. CASE m # last /\ m = heap[last].prev /\ root # last
      <4>1. 2 \in 2..k /\ 2 \in 1..k /\ m = s[2]
        BY <1>1, <1>6, <1>7, <1>8, <3>3
      <4>2. heap'[m].items # NULL /\ heap[m].items # NULL
        BY <1>1, <1>12, <4>1
      <4> QED BY <3>3, <4>2 DEF Free
    <3> QED BY <3>1, <3>2, <3>3
  <2>2. Allocated' = {m \in Nodes : m # last /\ \E p \in 1..k : s[p] = m}
    BY <1>1, <2>1 DEF Allocated
  <2>3. ToSet(t) = {t[p] : p \in 1..k - 1}
    BY <1>5 DEF ToSet
  <2>4. ASSUME NEW m \in Allocated'
        PROVE  m \in ToSet(t)
    <3>1. PICK p \in 1..k : s[p] = m
      BY <2>2
    <3>2. p # 1
      BY <1>6, <2>2, <3>1
    <3>3. p - 1 \in 1..k - 1 /\ (p - 1) + 1 = p
      BY <1>1, <3>2
    <3>4. t[p - 1] = m
      BY <1>5, <3>1, <3>3
    <3> QED BY <2>3, <3>3, <3>4
  <2>5. ASSUME NEW m \in ToSet(t)
        PROVE  m \in Allocated'
    <3>1. PICK p \in 1..k - 1 : t[p] = m
      BY <2>3
    <3>2. p + 1 \in 1..k /\ p + 1 # 1 /\ s[p + 1] = m
      BY <1>1, <1>5, <3>1
    <3>3. m \in Nodes /\ m # last
      BY <1>1, <1>6, <3>2
    <3> QED BY <2>2, <3>2, <3>3
  <2> QED BY <2>4, <2>5
<1>14. IsInjective(t)
  <2> SUFFICES ASSUME NEW p \in 1..k - 1, NEW j \in 1..k - 1, t[p] = t[j]
               PROVE  p = j
    BY <1>5 DEF IsInjective
  <2>1. p + 1 \in 1..k /\ j + 1 \in 1..k /\ s[p + 1] = s[j + 1]
    BY <1>1, <1>5
  <2>2. p + 1 = j + 1
    BY <1>1, <2>1
  <2> QED BY <2>2
<1>15. /\ last' = IF t = <<>> THEN NULL ELSE Head(t)
       /\ root' = IF t = <<>> THEN NULL ELSE t[Len(t)]
  <2>1. CASE k = 1
    <3>1. t = <<>>
      BY <1>5, <2>1
    <3> QED BY <1>7, <1>8, <1>9, <2>1, <3>1
  <2>2. CASE k # 1
    <3>1. t # <<>> /\ 1 \in 1..k - 1 /\ k - 1 \in 1..k - 1 /\ (k - 1) + 1 = k /\ 1 + 1 = 2
      BY <1>1, <1>5, <1>6, <2>2
    <3>2. Head(t) = t[1]
      BY <1>5, <3>1
    <3>3. t[1] = s[2] /\ t[k - 1] = s[k]
      BY <1>5, <3>1
    <3> QED BY <1>5, <1>6, <1>7, <1>8, <1>9, <2>2, <3>1, <3>2, <3>3
  <2> QED BY <2>1, <2>2
<1>16. \A p \in 1..Len(t) :
         /\ heap'[t[p]].items \in Items
         /\ heap'[t[p]].prev = IF p = Len(t) THEN NULL ELSE t[p + 1]
         /\ heap'[t[p]].next = IF p = 1 THEN NULL ELSE t[p - 1]
  <2> SUFFICES ASSUME NEW p \in 1..k - 1
               PROVE  /\ heap'[t[p]].items \in Items
                      /\ heap'[t[p]].prev = IF p = k - 1 THEN NULL ELSE t[p + 1]
                      /\ heap'[t[p]].next = IF p = 1 THEN NULL ELSE t[p - 1]
    BY <1>5
  <2> DEFINE j == p + 1
  <2>1. j \in 2..k /\ j \in 1..k /\ t[p] = s[j] /\ (j = k <=> p = k - 1) /\ (j = 2 <=> p = 1)
    BY <1>1, <1>5
  <2>2. p # k - 1 => t[p + 1] = s[j + 1]
    <3>1. p # k - 1 => p + 1 \in 1..k - 1
      BY <1>1
    <3> QED BY <1>5, <3>1
  <2>3. p # 1 => t[p - 1] = s[j - 1]
    <3>1. p # 1 => p - 1 \in 1..k - 1 /\ (p - 1) + 1 = j - 1
      BY <1>1
    <3> QED BY <1>5, <3>1
  <2> HIDE DEF j
  <2>4. heap'[t[p]].items \in Items
    BY <1>1, <1>12, <2>1
  <2>5. heap'[t[p]].prev = IF j = k THEN NULL ELSE s[j + 1]
    BY <1>2, <1>12, <2>1
  <2>6. heap'[t[p]].next = IF j = 2 THEN NULL ELSE s[j - 1]
    BY <1>12, <2>1
  <2> QED BY <2>1, <2>2, <2>3, <2>4, <2>5, <2>6
<1>17. count' = Len(t)
  BY <1>1, <1>4, <1>5
<1>18. ListIs(t)'
  BY <1>13, <1>14, <1>15, <1>16, <1>17 DEF ListIs
<1>19. \A p \in 1..Len(t) : heap'[t[p]].items = heap[s[p + 1]].items
  <2> SUFFICES ASSUME NEW p \in 1..k - 1
               PROVE  heap'[t[p]].items = heap[s[p + 1]].items
    BY <1>5
  <2>1. p + 1 \in 2..k /\ t[p] = s[p + 1]
    BY <1>1, <1>5
  <2> QED BY <1>12, <2>1
<1> QED BY <1>6, <1>11, <1>18, <1>19 DEF t

(* What a list has to offer to its callers.                                *)
LEMMA ContentsOfList ==
  ASSUME NEW s \in Seq(Nodes), ListIs(s)
  PROVE  Contents = [p \in 1..Len(s) |-> heap[s[p]].items]
<1>1. last = IF s = <<>> THEN NULL ELSE s[1]
  BY Places
<1>2. /\ IsInjective(s)
      /\ \A p \in 1..Len(s) : heap[s[p]].prev = IF p = Len(s) THEN NULL ELSE s[p + 1]
  BY DEF ListIs
<1>3. Leads(s, heap, last) /\ IsInjective(s)
  BY <1>1, <1>2 DEF Leads
<1>4. Contents = ItemsFrom(heap, last)
  BY DEF Contents
<1> QED BY <1>3, <1>4, ItemsOfList

(* The same after a step.                                                  *)
LEMMA ContentsOfNextList ==
  ASSUME NEW s \in Seq(Nodes), ListIs(s)'
  PROVE  Contents' = [p \in 1..Len(s) |-> heap'[s[p]].items]
<1>1. last' = IF s = <<>> THEN NULL ELSE s[1]
  BY DEF ListIs
<1>2. /\ IsInjective(s)
      /\ \A p \in 1..Len(s) : heap'[s[p]].prev = IF p = Len(s) THEN NULL ELSE s[p + 1]
  BY DEF ListIs
<1>3. Leads(s, heap', last') /\ IsInjective(s)
  BY <1>1, <1>2 DEF Leads
<1>4. Contents' = ItemsFrom(heap', last')
  BY DEF Contents
<1> QED BY <1>3, <1>4, ItemsOfList

(* addQueue appends to the contents.                                       *)
LEMMA AddAppends ==
  ASSUME QueueInv, NEW item \in Items \cup {NULL}, AddQueue(item)
  PROVE  QueueInv' /\ Line!Insert
<1>1. PICK s \in Seq(Nodes) : ListIs(s) /\ Len(s) <= Capacity
  BY DEF QueueInv
<1>2. /\ item \in Items /\ Len(s) < Capacity /\ heap' \in [Nodes -> Cell]
      /\ \E n \in Nodes : /\ ListIs(Append(s, n))' /\ heap'[n].items = item
                          /\ \A p \in 1..Len(s) : heap'[s[p]].items = heap[s[p]].items
  BY <1>1, AddedBehind DEF QueueInv
<1>3. PICK n \in Nodes : /\ ListIs(Append(s, n))' /\ heap'[n].items = item
                         /\ \A p \in 1..Len(s) : heap'[s[p]].items = heap[s[p]].items
  BY <1>2
<1> DEFINE t == Append(s, n)
           k == Len(s)
<1>4. /\ t \in Seq(Nodes) /\ Len(t) = k + 1 /\ k \in Nat /\ t[k + 1] = n
      /\ \A p \in 1..k : t[p] = s[p]
  OBVIOUS
<1>5. Contents = [p \in 1..k |-> heap[s[p]].items]
  BY <1>1, ContentsOfList
<1>6. Contents' = [p \in 1..k + 1 |-> heap'[t[p]].items]
  <2> HIDE DEF t
  <2> QED BY <1>3, <1>4, ContentsOfNextList DEF t
<1>7. \A p \in 1..k : heap[s[p]].items \in Items
  BY <1>1, Places
<1>8. Contents \in Seq(Items) /\ Len(Contents) = k
  BY <1>4, <1>5, <1>7
<1>9. Contents' = Append(Contents, item)
  <2> DEFINE c == Contents
             d == Contents'
  <2>1. Append(c, item) \in Seq(Items) /\ Len(Append(c, item)) = k + 1
    BY <1>2, <1>8
  <2>2. \A p \in 1..k + 1 : d[p] = IF p = k + 1 THEN item ELSE heap[s[p]].items
    <3> SUFFICES ASSUME NEW p \in 1..k + 1
                 PROVE  d[p] = IF p = k + 1 THEN item ELSE heap[s[p]].items
      OBVIOUS
    <3>1. d[p] = heap'[t[p]].items
      BY <1>6
    <3>2. p # k + 1 => p \in 1..k
      BY <1>4
    <3> HIDE DEF t, d, k
    <3> QED BY <1>3, <1>4, <3>1, <3>2 DEF k
  <2>3. \A p \in 1..k + 1 : Append(c, item)[p] = IF p = k + 1 THEN item ELSE heap[s[p]].items
    <3> SUFFICES ASSUME NEW p \in 1..k + 1
                 PROVE  Append(c, item)[p] = IF p = k + 1 THEN item ELSE heap[s[p]].items
      OBVIOUS
    <3>1. Append(c, item)[p] = IF p = k + 1 THEN item ELSE c[p]
      BY <1>4, <1>8
    <3>2. p # k + 1 => p \in 1..k
      BY <1>4
    <3>3. \A j \in 1..k : c[j] = heap[s[j]].items
      BY <1>5
    <3> HIDE DEF c, k
    <3> QED BY <3>1, <3>2, <3>3
  <2>4. d \in Seq(Items) /\ Len(d) = k + 1
    <3>1. \A p \in 1..k + 1 : d[p] \in Items
      <4> SUFFICES ASSUME NEW p \in 1..k + 1 PROVE d[p] \in Items
        OBVIOUS
      <4>1. p # k + 1 => p \in 1..k
        BY <1>4
      <4> HIDE DEF d, k
      <4> QED BY <1>2, <1>7, <2>2, <4>1
    <3>2. d = [p \in 1..k + 1 |-> d[p]]
      BY <1>6
    <3> HIDE DEF d, k
    <3>3. k + 1 \in Nat
      BY <1>4
    <3> QED BY <3>1, <3>2, <3>3
  <2> HIDE DEF c, d, k
  <2>5. d = Append(c, item)
    BY <2>1, <2>2, <2>3, <2>4, SameSequence
  <2> QED BY <2>5 DEF c, d
<1>10. Line!Insert
  <2>1. Len(Contents) < Capacity /\ got' = got
    BY <1>2, <1>8 DEF AddQueue
  <2> QED BY <1>2, <1>9, <2>1 DEF Line!Insert
<1>11. QueueInv'
  <2>1. k + 1 <= Capacity /\ queueState' # "closed"
    BY <1>2, <1>4, QueueAssumption DEF AddQueue, AddCall
  <2> QED BY <1>2, <1>3, <1>4, <2>1 DEF QueueInv
<1> QED BY <1>10, <1>11

(* Taking out a node takes the contents' head.                             *)
LEMMA UnlinkTakesHead ==
  ASSUME QueueInv, Unlink, queueState' # "closed"
  PROVE  QueueInv' /\ Contents # <<>> /\ Contents' = Tail(Contents)
         /\ heap[last].items = Head(Contents)
<1>1. PICK s \in Seq(Nodes) : ListIs(s) /\ Len(s) <= Capacity
  BY DEF QueueInv
<1> DEFINE t == Tail(s)
           k == Len(s)
<1>2. /\ s # <<>> /\ last = s[1] /\ heap' \in [Nodes -> Cell] /\ ListIs(t)'
      /\ \A p \in 1..Len(t) : heap'[t[p]].items = heap[s[p + 1]].items
  BY <1>1, UnlinkedInFront DEF QueueInv
<1>3. t \in Seq(Nodes) /\ Len(t) = k - 1 /\ k \in Nat /\ k >= 1
  BY <1>2
<1>4. Contents = [p \in 1..k |-> heap[s[p]].items]
  BY <1>1, ContentsOfList
<1> HIDE DEF t
<1>5. Contents' = [p \in 1..k - 1 |-> heap'[t[p]].items]
  BY <1>2, <1>3, ContentsOfNextList
<1>6. \A p \in 1..k : heap[s[p]].items \in Items
  BY <1>1, Places
<1> HIDE DEF k
<1> DEFINE c == Contents
           d == Contents'
<1>7. c \in Seq(Items) /\ Len(c) = k /\ c # <<>> /\ Head(c) = c[1] /\ c[1] = heap[s[1]].items
  <2>1. c \in Seq(Items) /\ Len(c) = k /\ c[1] = heap[s[1]].items
    BY <1>3, <1>4, <1>6
  <2> HIDE DEF c
  <2> QED BY <1>3, <2>1
<1>8. d = Tail(c)
  <2>1. \A p \in 1..k - 1 : d[p] = heap[s[p + 1]].items /\ c[p + 1] = heap[s[p + 1]].items
                            /\ d[p] \in Items
    <3> SUFFICES ASSUME NEW p \in 1..k - 1
                 PROVE  d[p] = heap[s[p + 1]].items /\ c[p + 1] = heap[s[p + 1]].items
                        /\ d[p] \in Items
      OBVIOUS
    <3>1. p + 1 \in 1..k
      BY <1>3
    <3>2. d[p] = heap'[t[p]].items /\ c[p + 1] = heap[s[p + 1]].items
      BY <1>4, <1>5, <3>1
    <3> HIDE DEF c, d
    <3> QED BY <1>2, <1>3, <1>6, <3>1, <3>2
  <2>2. d = [p \in 1..k - 1 |-> d[p]]
    BY <1>5
  <2> HIDE DEF c, d
  <2>3. d \in Seq(Items) /\ Len(d) = k - 1
    <3>1. k - 1 \in Nat
      BY <1>3
    <3> QED BY <2>1, <2>2, <3>1
  <2>4. Tail(c) \in Seq(Items) /\ Len(Tail(c)) = k - 1
        /\ \A p \in 1..k - 1 : Tail(c)[p] = c[p + 1]
    BY <1>3, <1>7
  <2> QED BY <2>1, <2>3, <2>4, SameSequence
<1>9. QueueInv'
  <2>1. k - 1 <= Capacity
    BY <1>1, <1>3, QueueAssumption DEF k
  <2> QED BY <1>2, <1>3, <2>1 DEF QueueInv
<1> QED BY <1>2, <1>7, <1>8, <1>9

----------------------------------------------------------------------------
(* The program.                                                            *)

(* Every step keeps the list and is one of a bounded queue.                *)
LEMMA QueueStep ==
  ASSUME QueueInv, [Next]_partsVars
  PROVE  QueueInv' /\ [Line!Next]_<<Contents, got>>
<1>1. ASSUME UNCHANGED queueVars
      PROVE  QueueInv' /\ UNCHANGED <<Contents, got>>
  BY <1>1 DEF queueVars, QueueInv, ListIs, Allocated, Contents
<1>2. ASSUME QueueNext
      PROVE  QueueInv' /\ [Line!Next]_<<Contents, got>>
  <2>1. ASSUME UNCHANGED <<heap, root, last, count, got>>,
               queueState' = "closed" => queueState = "closed" \/ count = 0
        PROVE  QueueInv' /\ UNCHANGED <<Contents, got>>
    BY <2>1 DEF QueueInv, ListIs, Allocated, Contents
  <2>2. ASSUME NEW item \in Items \cup {NULL}, AddRefused(item)
        PROVE  QueueInv' /\ UNCHANGED <<Contents, got>>
    BY <2>1, <2>2 DEF AddRefused, AddCall
  <2>3. ASSUME NEW item \in Items \cup {NULL}, AddQueue(item)
        PROVE  QueueInv' /\ Line!Next
    BY <2>3, AddAppends DEF Line!Next
  <2>4. ASSUME NEW item \in Items \cup {NULL}, AddCrashes(item)
        PROVE  QueueInv' /\ UNCHANGED <<Contents, got>>
    BY <2>1, <2>4 DEF AddCrashes, AddCall
  <2>5. ASSUME GetQueue
        PROVE  QueueInv' /\ Line!Next
    <3>1. Unlink /\ queueState' # "closed" /\ got' = Append(got, heap[last].items)
      BY <2>5 DEF GetQueue
    <3> QED BY <3>1, UnlinkTakesHead DEF Line!Next, Line!Remove
  <2>6. ASSUME CloseQueue
        PROVE  QueueInv' /\ UNCHANGED <<Contents, got>>
    BY <2>1, <2>6 DEF CloseQueue
  <2>7. ASSUME DumpItem
        PROVE  QueueInv' /\ Line!Next
    <3>1. Unlink /\ queueState' # "closed" /\ got' = got
      BY <2>7 DEF DumpItem
    <3> QED BY <3>1, UnlinkTakesHead DEF Line!Next, Line!Dump
  <2>8. ASSUME QueueClosed
        PROVE  QueueInv' /\ UNCHANGED <<Contents, got>>
    BY <2>1, <2>8 DEF QueueClosed
  <2> QED BY <1>2, <2>2, <2>3, <2>4, <2>5, <2>6, <2>7, <2>8 DEF QueueNext
<1> QED BY <1>1, <1>2 DEF Next, OthersStay, partsVars

(* openQueue makes an empty list.                                          *)
LEMMA QueueBegins ==
  ASSUME Init
  PROVE  QueueInv /\ Line!Init
<1>1. /\ heap = [n \in Nodes |-> Free] /\ root = NULL /\ last = NULL /\ count = 0
      /\ queueState = "open" /\ got = <<>>
  BY DEF Init, QueueInit
<1> DEFINE s == <<>>
<1>2. s \in Seq(Nodes) /\ Len(s) = 0 /\ ToSet(s) = {} /\ IsInjective(s)
  BY DEF ToSet, IsInjective
<1>3. Allocated = {}
  BY <1>1 DEF Allocated
<1>4. ListIs(s)
  BY <1>1, <1>2, <1>3 DEF ListIs
<1>5. heap \in [Nodes -> Cell]
  BY <1>1 DEF Cell, Free
<1> HIDE DEF s
<1>6. QueueInv
  <2>1. Len(s) <= Capacity
    BY <1>2, QueueAssumption
  <2> QED BY <1>1, <1>2, <1>4, <1>5, <2>1 DEF QueueInv
<1>7. Contents = <<>>
  <2>1. Contents = [p \in 1..Len(s) |-> heap[s[p]].items]
    BY <1>2, <1>4, ContentsOfList
  <2> QED BY <1>2, <2>1
<1> QED BY <1>1, <1>6, <1>7 DEF Line!Init

(* For any number of nodes, items and calls, the links in both directions, *)
(* the ends and the count describe one sequence of the allocated nodes, of *)
(* at most _MAX_Q_SIZE_, and closeQueue leaves none of them behind.        *)
THEOREM ListCorrect == Spec => []ListIsSequence
<1>1. Init => QueueInv
  BY QueueBegins
<1>2. QueueInv /\ [Next]_partsVars => QueueInv'
  BY QueueStep
<1>3. QueueInv => ListIsSequence
  <2> SUFFICES ASSUME QueueInv PROVE ListIsSequence
    OBVIOUS
  <2>1. PICK s \in Seq(Nodes) : ListIs(s) /\ Len(s) <= Capacity
    BY DEF QueueInv
  <2>2. s \in BoundedSeq(Nodes, Capacity)
    <3>1. s \in [1..Len(s) -> Nodes] /\ Len(s) \in 0..Capacity
      BY <2>1, QueueAssumption
    <3> QED BY <3>1 DEF BoundedSeq, SeqOf
  <2>3. ASSUME queueState = "closed"
        PROVE  Allocated = {}
    <3>1. Len(s) = 0 /\ ToSet(s) = Allocated
      BY <2>1, <2>3 DEF QueueInv, ListIs
    <3> QED BY <3>1 DEF ToSet
  <2> QED BY <2>1, <2>2, <2>3 DEF ListIsSequence
<1> QED BY <1>1, <1>2, <1>3, PTL DEF Spec

(* The list implements the queue that queue.h promises: the items come out *)
(* in the order they went in, a refusal changes nothing, and closing only  *)
(* throws away what is left.                                               *)
THEOREM ImplementsFifo == Spec => FifoSpec
<1>1. Init => QueueInv /\ Line!Init
  BY QueueBegins
<1>2. QueueInv /\ [Next]_partsVars => QueueInv' /\ [Line!Next]_<<Contents, got>>
  BY QueueStep
<1> QED BY <1>1, <1>2, PTL DEF Spec, FifoSpec, Line!Spec
=============================================================================
