----------------------------- MODULE LoopProofs -----------------------------
(***************************************************************************)
(* Proofs about EventLoop, as a part of Parts: for any clients, handlers   *)
(* and descriptors, and any calls that the handlers make.                  *)
(***************************************************************************)
EXTENDS Parts, NumberTheorems, FiniteSetTheorems, SequenceTheorems

----------------------------------------------------------------------------
(* Sequences: an element more or less.                                      *)

Members(s) == {s[k] : k \in 1..Len(s)}

(* The library's name for the same set.                                    *)
LEMMA MembersAre ==
  ASSUME NEW S, NEW s \in Seq(S)
  PROVE  DOMAIN s = 1..Len(s) /\ Len(s) \in Nat /\ ToSet(s) = Members(s) /\ Members(s) \subseteq S
<1>1. DOMAIN s = 1..Len(s) /\ Len(s) \in Nat /\ \A k \in 1..Len(s) : s[k] \in S
  OBVIOUS
<1> QED BY <1>1 DEF ToSet, Members

(* A set of one number has it for its least.                               *)
LEMMA LeastOfOne ==
  ASSUME NEW k \in Nat
  PROVE  Min({k}) = k
BY DEF Min

(* One sequence behind another.                                            *)
LEMMA Joined ==
  ASSUME NEW S, NEW s \in Seq(S), NEW t \in Seq(S)
  PROVE  /\ s \o t \in Seq(S) /\ Len(s \o t) = Len(s) + Len(t)
         /\ Len(s) \in Nat /\ Len(t) \in Nat
         /\ \A k \in 1..Len(s) : (s \o t)[k] = s[k]
         /\ \A k \in Len(s) + 1..Len(s) + Len(t) : (s \o t)[k] = t[k - Len(s)]
<1>1. Len(s) \in Nat /\ Len(t) \in Nat
  OBVIOUS
<1>2. /\ s \o t \in Seq(S) /\ Len(s \o t) = Len(s) + Len(t)
      /\ \A k \in 1..Len(s) + Len(t) : (s \o t)[k] = IF k <= Len(s) THEN s[k] ELSE t[k - Len(s)]
  BY ConcatProperties
<1> QED BY <1>1, <1>2

(* Without its p-th element a sequence has the others in their order.      *)
LEMMA Removed ==
  ASSUME NEW S, NEW s \in Seq(S), NEW p \in 1..Len(s)
  PROVE  LET r == RemoveAt(s, p)
         IN  /\ r \in Seq(S) /\ Len(r) = Len(s) - 1
             /\ \A k \in 1..Len(r) : r[k] = IF k < p THEN s[k] ELSE s[k + 1]
<1> DEFINE front == SubSeq(s, 1, p - 1)
           back == SubSeq(s, p + 1, Len(s))
           r == RemoveAt(s, p)
<1>1. /\ front \in Seq(S) /\ Len(front) = p - 1
      /\ \A k \in 1..p - 1 : front[k] = s[k]
  OBVIOUS
<1>2. /\ back \in Seq(S) /\ Len(back) = Len(s) - p
      /\ \A k \in 1..Len(s) - p : back[k] = s[p + k]
  OBVIOUS
<1>3. r = front \o back
  BY DEF RemoveAt
<1> HIDE DEF front, back, r
<1>4. /\ r \in Seq(S) /\ Len(r) = Len(s) - 1
      /\ \A k \in 1..p - 1 : r[k] = front[k]
      /\ \A k \in p..Len(s) - 1 : r[k] = back[k - (p - 1)]
  <2>1. Len(s) \in Nat
    OBVIOUS
  <2>2. /\ front \o back \in Seq(S) /\ Len(front \o back) = Len(front) + Len(back)
        /\ \A k \in 1..Len(front) : (front \o back)[k] = front[k]
        /\ \A k \in Len(front) + 1..Len(front) + Len(back) :
             (front \o back)[k] = back[k - Len(front)]
    <3>1. front \in Seq(S) /\ back \in Seq(S)
      BY <1>1, <1>2
    <3> QED BY <3>1, Joined
  <2> QED BY <1>1, <1>2, <1>3, <2>1, <2>2
<1>5. ASSUME NEW k \in 1..Len(s) - 1
      PROVE  r[k] = IF k < p THEN s[k] ELSE s[k + 1]
  <2>1. CASE k < p
    <3>1. k \in 1..p - 1
      BY <2>1
    <3> QED BY <1>1, <1>4, <2>1, <3>1
  <2>2. CASE ~ (k < p)
    <3>1. /\ k - (p - 1) \in 1..Len(s) - p /\ p + (k - (p - 1)) = k + 1
          /\ k \in p..Len(s) - 1
      <4>1. Len(s) \in Nat
        OBVIOUS
      <4> QED BY <2>2, <4>1
    <3>2. r[k] = back[k - (p - 1)]
      BY <1>4, <3>1
    <3>3. back[k - (p - 1)] = s[p + (k - (p - 1))]
      BY <1>2, <3>1
    <3> QED BY <2>2, <3>1, <3>2, <3>3
  <2> QED BY <2>1, <2>2
<1> QED BY <1>4, <1>5 DEF r

(* The others, if every element is there once.                             *)
LEMMA RemovedMembers ==
  ASSUME NEW S, NEW s \in Seq(S), NEW p \in 1..Len(s),
         \A k \in 1..Len(s) : s[k] = s[p] => k = p
  PROVE  Members(RemoveAt(s, p)) = Members(s) \ {s[p]}
<1> DEFINE r == RemoveAt(s, p)
<1>1. /\ Len(r) = Len(s) - 1
      /\ \A k \in 1..Len(r) : r[k] = IF k < p THEN s[k] ELSE s[k + 1]
  BY Removed
<1> HIDE DEF r
<1>2. ASSUME NEW k \in 1..Len(r)
      PROVE  r[k] \in Members(s) \ {s[p]}
  <2>1. \E j \in 1..Len(s) : r[k] = s[j] /\ j # p
    BY <1>1
  <2> QED BY <2>1 DEF Members
<1>3. ASSUME NEW j \in 1..Len(s), j # p
      PROVE  s[j] \in Members(r)
  <2>1. CASE j < p
    <3>1. j \in 1..Len(r) /\ r[j] = s[j]
      BY <1>1, <2>1
    <3> QED BY <3>1 DEF Members
  <2>2. CASE p < j
    <3>1. j - 1 \in 1..Len(r) /\ r[j - 1] = s[j]
      BY <1>1, <2>2
    <3> QED BY <3>1 DEF Members
  <2> QED BY <1>3, <2>1, <2>2
<1> QED BY <1>2, <1>3 DEF Members, r

(* With an element more at the p-th place.                                 *)
LEMMA Inserted ==
  ASSUME NEW S, NEW s \in Seq(S), NEW p \in 1..Len(s) + 1, NEW e \in S
  PROVE  LET r == InsertAt(s, p, e)
         IN  /\ r \in Seq(S) /\ Len(r) = Len(s) + 1 /\ r[p] = e
             /\ \A k \in 1..Len(r) : k < p => r[k] = s[k]
             /\ \A k \in 1..Len(r) : p < k => r[k] = s[k - 1]
<1> DEFINE front == SubSeq(s, 1, p - 1)
           back == SubSeq(s, p, Len(s))
           r == InsertAt(s, p, e)
<1>1. /\ front \in Seq(S) /\ Len(front) = p - 1
      /\ \A k \in 1..p - 1 : front[k] = s[k]
  OBVIOUS
<1>2. /\ back \in Seq(S) /\ Len(back) = Len(s) - p + 1 /\ Len(s) \in Nat
      /\ \A k \in 1..Len(s) - p + 1 : back[k] = s[p + k - 1]
  OBVIOUS
<1>3. r = (front \o <<e>>) \o back
  BY DEF InsertAt
<1> HIDE DEF front, back, r
<1>4. /\ front \o <<e>> \in Seq(S) /\ Len(front \o <<e>>) = p
      /\ \A k \in 1..p - 1 : (front \o <<e>>)[k] = s[k]
      /\ (front \o <<e>>)[p] = e
  <2>1. <<e>> \in Seq(S) /\ Len(<<e>>) = 1 /\ <<e>>[1] = e
    OBVIOUS
  <2> QED BY <1>1, <2>1, ConcatProperties
<1>5. /\ r \in Seq(S) /\ Len(r) = Len(s) + 1
      /\ \A k \in 1..p : r[k] = (front \o <<e>>)[k]
      /\ \A k \in p + 1..Len(s) + 1 : r[k] = back[k - p]
  <2> DEFINE head == front \o <<e>>
  <2>1. head \in Seq(S) /\ Len(head) = p /\ r = head \o back
    BY <1>3, <1>4
  <2> HIDE DEF head
  <2>2. /\ head \o back \in Seq(S) /\ Len(head \o back) = Len(head) + Len(back)
        /\ \A k \in 1..Len(head) : (head \o back)[k] = head[k]
        /\ \A k \in Len(head) + 1..Len(head) + Len(back) :
             (head \o back)[k] = back[k - Len(head)]
    BY <1>2, <2>1, Joined
  <2>3. /\ r \in Seq(S) /\ Len(r) = Len(s) + 1
        /\ \A k \in 1..p : r[k] = head[k]
        /\ \A k \in p + 1..Len(s) + 1 : r[k] = back[k - p]
    BY <1>2, <2>1, <2>2
  <2> QED BY <2>3 DEF head
<1>6. ASSUME NEW k \in 1..Len(s) + 1, p < k
      PROVE  r[k] = s[k - 1]
  <2>1. k - p \in 1..Len(s) - p + 1 /\ p + (k - p) - 1 = k - 1
    BY <1>2, <1>6
  <2> QED BY <1>2, <1>5, <1>6, <2>1
<1>7. ASSUME NEW k \in 1..Len(s) + 1, k < p
      PROVE  r[k] = s[k]
  <2>1. k \in 1..p - 1 /\ k \in 1..p
    BY <1>2, <1>7
  <2>2. r[k] = (front \o <<e>>)[k]
    BY <1>5, <2>1
  <2> QED BY <1>4, <2>1, <2>2
<1> QED BY <1>4, <1>5, <1>6, <1>7 DEF r

(* One member more.                                                        *)
LEMMA InsertedMembers ==
  ASSUME NEW S, NEW s \in Seq(S), NEW p \in 1..Len(s) + 1, NEW e \in S
  PROVE  Members(InsertAt(s, p, e)) = Members(s) \cup {e}
<1> DEFINE r == InsertAt(s, p, e)
<1>1. /\ Len(r) = Len(s) + 1 /\ r[p] = e /\ Len(s) \in Nat
      /\ \A k \in 1..Len(r) : k < p => r[k] = s[k]
      /\ \A k \in 1..Len(r) : p < k => r[k] = s[k - 1]
  BY Inserted
<1> HIDE DEF r
<1>2. ASSUME NEW k \in 1..Len(r)
      PROVE  r[k] \in Members(s) \cup {e}
  <2>1. CASE k < p
    <3>1. k \in 1..Len(s) /\ r[k] = s[k]
      BY <1>1, <2>1
    <3> QED BY <3>1 DEF Members
  <2>2. CASE p < k
    <3>1. k - 1 \in 1..Len(s) /\ r[k] = s[k - 1]
      BY <1>1, <2>2
    <3> QED BY <3>1 DEF Members
  <2> QED BY <1>1, <2>1, <2>2
<1>3. ASSUME NEW j \in 1..Len(s)
      PROVE  s[j] \in Members(r)
  <2>1. CASE j < p
    <3>1. j \in 1..Len(r) /\ r[j] = s[j]
      BY <1>1, <2>1
    <3> QED BY <3>1 DEF Members
  <2>2. CASE ~ (j < p)
    <3>1. j + 1 \in 1..Len(r) /\ r[j + 1] = s[j]
      BY <1>1, <2>2
    <3> QED BY <3>1 DEF Members
  <2> QED BY <2>1, <2>2
<1>4. e \in Members(r)
  <2>1. p \in 1..Len(r)
    BY <1>1
  <2> QED BY <1>1, <2>1 DEF Members
<1> QED BY <1>2, <1>3, <1>4 DEF Members, r
(* With an element more in front.                                          *)
LEMMA InFront ==
  ASSUME NEW S, NEW s \in Seq(S), NEW e \in S
  PROVE  LET f == <<e>> \o s
         IN  /\ f \in Seq(S) /\ Len(f) = Len(s) + 1 /\ Len(s) \in Nat /\ f[1] = e
             /\ \A k \in 2..Len(f) : f[k] = s[k - 1] /\ k - 1 \in 1..Len(s)
             /\ Members(f) = Members(s) \cup {e}
<1> DEFINE one == <<e>>
           f == one \o s
<1>1. one \in Seq(S) /\ Len(one) = 1 /\ one[1] = e
  OBVIOUS
<1> HIDE DEF one
<1>2. /\ f \in Seq(S) /\ Len(f) = 1 + Len(s) /\ Len(s) \in Nat
      /\ \A k \in 1..1 : f[k] = one[k]
      /\ \A k \in 2..1 + Len(s) : f[k] = s[k - 1]
  <2>1. /\ f \in Seq(S) /\ Len(f) = Len(one) + Len(s)
        /\ \A k \in 1..Len(one) : f[k] = one[k]
        /\ \A k \in Len(one) + 1..Len(one) + Len(s) : f[k] = s[k - Len(one)]
    BY <1>1, Joined
  <2> HIDE DEF f
  <2> QED BY <1>1, <2>1
<1> HIDE DEF f
<1>3. Len(f) = Len(s) + 1 /\ f[1] = e /\ \A k \in 2..Len(f) : f[k] = s[k - 1] /\ k - 1 \in 1..Len(s)
  BY <1>1, <1>2
<1>4. Members(f) = Members(s) \cup {e}
  <2>1. ASSUME NEW k \in 1..Len(f)
        PROVE  f[k] \in Members(s) \cup {e}
    <3>1. k = 1 \/ k \in 2..Len(f)
      BY <1>2
    <3>2. CASE k \in 2..Len(f)
      <4>1. f[k] = s[k - 1] /\ k - 1 \in 1..Len(s)
        BY <1>3, <3>2
      <4> QED BY <4>1 DEF Members
    <3> QED BY <1>3, <3>1, <3>2
  <2>2. ASSUME NEW k \in 1..Len(s)
        PROVE  s[k] \in Members(f)
    <3>1. k + 1 \in 2..Len(f) /\ k + 1 \in 1..Len(f) /\ (k + 1) - 1 = k
      BY <1>2
    <3>2. f[k + 1] = s[k]
      BY <1>3, <3>1
    <3> QED BY <3>1, <3>2 DEF Members
  <2>3. 1 \in 1..Len(f)
    BY <1>2
  <2>4. e \in Members(f)
    BY <1>3, <2>3 DEF Members
  <2> QED BY <2>1, <2>2, <2>4 DEF Members
<1> QED BY <1>2, <1>3, <1>4 DEF f, one

(* A place for each member.                                                *)
LEMMA MemberPlace ==
  ASSUME NEW s
  PROVE  /\ \A k \in 1..Len(s) : s[k] \in Members(s)
         /\ \A n \in Members(s) : \E k \in 1..Len(s) : s[k] = n
BY DEF Members

(* Are the elements all different?                                         *)
Differ(q) == \A k, j \in 1..Len(q) : q[k] = q[j] => k = j

(* A new element in front leaves them different.                           *)
LEMMA DifferInFront ==
  ASSUME NEW S, NEW s \in Seq(S), NEW e \in S, Differ(s), e \notin Members(s)
  PROVE  Differ(<<e>> \o s)
<1> DEFINE f == <<e>> \o s
<1>1. /\ f \in Seq(S) /\ Len(f) = Len(s) + 1 /\ Len(s) \in Nat /\ f[1] = e
      /\ \A k \in 2..Len(f) : f[k] = s[k - 1] /\ k - 1 \in 1..Len(s)
  BY InFront
<1> HIDE DEF f
<1>2. ASSUME NEW k \in 1..Len(f), NEW j \in 1..Len(f), f[k] = f[j]
      PROVE  k = j
  <2>1. (k = 1 \/ k \in 2..Len(f)) /\ (j = 1 \/ j \in 2..Len(f))
    BY <1>1
  <2>2. ASSUME NEW m \in 2..Len(f)
        PROVE  f[m] # e
    BY <1>1, MemberPlace
  <2>3. CASE k = 1 \/ j = 1
    BY <1>1, <1>2, <2>1, <2>2, <2>3
  <2>4. CASE k \in 2..Len(f) /\ j \in 2..Len(f)
    <3>1. /\ s[k - 1] = s[j - 1]
          /\ k - 1 \in 1..Len(s) /\ j - 1 \in 1..Len(s)
      BY <1>1, <1>2, <2>4
    <3>2. k - 1 = j - 1
      BY <3>1 DEF Differ
    <3> QED BY <2>4, <3>2
  <2> QED BY <2>1, <2>3, <2>4
<1> QED BY <1>2 DEF Differ, f

----------------------------------------------------------------------------
(* The TQEs in their two lists.                                             *)

Tqe == [client : Clients, time : Nat, interval : Intervals \cup {0}]

OnePerClient(tqe, q) == \A k, j \in 1..Len(q) : tqe[q[k]].client = tqe[q[j]].client => k = j

InOrder(tqe, q) == \A k, j \in 1..Len(q) : k < j => tqe[q[k]].time <= tqe[q[j]].time

Typed(t) ==
  /\ t = [tqe |-> t.tqe, timerQ |-> t.timerQ, freeTQEQ |-> t.freeTQEQ]
  /\ DOMAIN t.tqe \subseteq TQEs /\ t.tqe \in [DOMAIN t.tqe -> Tqe]

Queued(t) ==
  t.timerQ \in Seq(DOMAIN t.tqe) /\ OnePerClient(t.tqe, t.timerQ) /\ InOrder(t.tqe, t.timerQ)

Freed(t) == t.freeTQEQ \in Seq(DOMAIN t.tqe) /\ Differ(t.freeTQEQ)

Placed(t) ==
  /\ Members(t.timerQ) \cap Members(t.freeTQEQ) = {}
  /\ Members(t.timerQ) \cup Members(t.freeTQEQ) = DOMAIN t.tqe

Kept(t) == Typed(t) /\ Queued(t) /\ Freed(t) /\ Placed(t)

(* The fields of a TQE.                                                    *)
LEMMA TqeFields ==
  ASSUME NEW t, Typed(t), NEW n \in DOMAIN t.tqe
  PROVE  /\ n \in TQEs
         /\ t.tqe[n].client \in Clients /\ t.tqe[n].time \in Nat
         /\ t.tqe[n].interval \in Intervals \cup {0}
<1>1. t.tqe[n] \in Tqe /\ n \in TQEs
  BY DEF Typed
<1> QED BY <1>1 DEF Tqe

(* A client without a timer.                                               *)
LEMMA NoPlace ==
  ASSUME NEW t, Kept(t), NEW c, PlacesOf(t, c) = {}
  PROVE  /\ \A k \in 1..Len(t.timerQ) : t.tqe[t.timerQ[k]].client # c
         /\ Unlinked(t, c) = t.timerQ
<1>1. DOMAIN t.timerQ = 1..Len(t.timerQ)
  BY MembersAre DEF Kept, Queued
<1> QED BY <1>1 DEF PlacesOf, Unlinked

(* A client with one has it in one place.                                  *)
LEMMA OnePlace ==
  ASSUME NEW t, Kept(t), NEW c, PlacesOf(t, c) # {}
  PROVE  \E p \in 1..Len(t.timerQ) :
           /\ t.tqe[t.timerQ[p]].client = c /\ OfClient(t, c) = t.timerQ[p]
           /\ Unlinked(t, c) = RemoveAt(t.timerQ, p)
<1>1. DOMAIN t.timerQ = 1..Len(t.timerQ)
  BY MembersAre DEF Kept, Queued
<1>2. PICK p \in 1..Len(t.timerQ) : t.tqe[t.timerQ[p]].client = c
  BY <1>1 DEF PlacesOf
<1>3. PlacesOf(t, c) = {p}
  BY <1>1, <1>2 DEF PlacesOf, Kept, Queued, OnePerClient
<1>4. Min(PlacesOf(t, c)) = p
  BY <1>3, LeastOfOne
<1>5. OfClient(t, c) = t.timerQ[p] /\ Unlinked(t, c) = RemoveAt(t.timerQ, p)
  BY <1>4 DEF OfClient, Unlinked
<1> QED BY <1>2, <1>5

(* The queue without a client's timer has the others, in their order.      *)
LEMMA UnlinkedKeeps ==
  ASSUME NEW t, Kept(t), NEW c
  PROVE  LET q == Unlinked(t, c)
         IN  /\ q \in Seq(DOMAIN t.tqe) /\ OnePerClient(t.tqe, q) /\ InOrder(t.tqe, q)
             /\ Members(q) = {n \in Members(t.timerQ) : t.tqe[n].client # c}
<1>1. t.timerQ \in Seq(DOMAIN t.tqe) /\ OnePerClient(t.tqe, t.timerQ) /\ InOrder(t.tqe, t.timerQ)
  BY DEF Kept, Queued
<1>2. CASE PlacesOf(t, c) = {}
  BY <1>1, <1>2, NoPlace DEF Members
<1>3. CASE PlacesOf(t, c) # {}
  <2>1. PICK p \in 1..Len(t.timerQ) :
          /\ t.tqe[t.timerQ[p]].client = c /\ OfClient(t, c) = t.timerQ[p]
          /\ Unlinked(t, c) = RemoveAt(t.timerQ, p)
    BY <1>3, OnePlace
  <2> DEFINE q == RemoveAt(t.timerQ, p)
             from(k) == IF k < p THEN k ELSE k + 1
  <2>2. q \in Seq(DOMAIN t.tqe) /\ Len(q) = Len(t.timerQ) - 1 /\ Len(t.timerQ) \in Nat
        /\ \A k \in 1..Len(q) : q[k] = IF k < p THEN t.timerQ[k] ELSE t.timerQ[k + 1]
    BY <1>1, Removed
  <2> HIDE DEF q
  <2>3. ASSUME NEW k \in 1..Len(q)
        PROVE  from(k) \in 1..Len(t.timerQ) /\ q[k] = t.timerQ[from(k)]
    BY <2>2
  <2>4. ASSUME NEW k \in 1..Len(q), NEW j \in 1..Len(q)
        PROVE  (k < j => from(k) < from(j)) /\ (from(k) = from(j) => k = j)
    BY <2>2
  <2> HIDE DEF from
  <2>5. OnePerClient(t.tqe, q)
    BY <1>1, <2>3, <2>4, SMTT(30) DEF OnePerClient
  <2>6. InOrder(t.tqe, q)
    BY <1>1, <2>3, <2>4 DEF InOrder
  <2>7. Members(q) = Members(t.timerQ) \ {t.timerQ[p]}
    <3>1. \A k \in 1..Len(t.timerQ) : t.timerQ[k] = t.timerQ[p] => k = p
      BY <1>1 DEF OnePerClient
    <3> QED BY <1>1, <3>1, RemovedMembers DEF q
  <2>8. \A n \in Members(t.timerQ) : n = t.timerQ[p] <=> t.tqe[n].client = c
    <3> SUFFICES ASSUME NEW n \in Members(t.timerQ)
                 PROVE  n = t.timerQ[p] <=> t.tqe[n].client = c
      OBVIOUS
    <3>1. PICK k \in 1..Len(t.timerQ) : t.timerQ[k] = n
      BY MemberPlace
    <3> QED BY <1>1, <2>1, <3>1 DEF OnePerClient
  <2> QED BY <2>1, <2>2, <2>5, <2>6, <2>7, <2>8 DEF q
<1> QED BY <1>2, <1>3

(* A timer's place is behind those that expire no later and before the     *)
(* others.                                                                 *)
LEMMA PlaceInOrder ==
  ASSUME NEW t, Kept(t), NEW c, NEW time \in Nat
  PROVE  LET q == Unlinked(t, c)
             p == Before(t, c, time)
         IN  /\ p \in 1..Len(q) + 1
             /\ \A k \in 1..Len(q) : k < p <=> t.tqe[q[k]].time <= time
<1> DEFINE q == Unlinked(t, c)
           p == Before(t, c, time)
           later == {k \in 1..Len(q) : time < t.tqe[q[k]].time}
<1>1. q \in Seq(DOMAIN t.tqe) /\ InOrder(t.tqe, q)
  BY UnlinkedKeeps
<1>2. p = IF later = {} THEN Len(q) + 1 ELSE Min(later)
  <2>1. DOMAIN q = 1..Len(q)
    BY <1>1, MembersAre
  <2> QED BY <2>1 DEF Before
<1> HIDE DEF p, q
<1>3. Len(q) \in Nat /\ \A k \in 1..Len(q) : t.tqe[q[k]].time \in Nat
  <2>1. \A k \in 1..Len(q) : q[k] \in DOMAIN t.tqe
    BY <1>1
  <2> QED BY <1>1, <2>1, TqeFields DEF Kept
<1>4. CASE later = {}
  <2>1. \A k \in 1..Len(q) : ~ (time < t.tqe[q[k]].time)
    BY <1>4
  <2>2. p = Len(q) + 1
    BY <1>2, <1>4
  <2> HIDE DEF later
  <2> QED BY <1>3, <2>1, <2>2 DEF p, q
<1>5. CASE later # {}
  <2>1. later \subseteq Nat
    OBVIOUS
  <2>2. \E m \in later : \A k \in later : m <= k
    <3> HIDE DEF later
    <3> QED BY <1>5, <2>1, Least
  <2>3. p \in later /\ \A k \in later : p <= k
    BY <1>2, <1>5, <2>2 DEF Min
  <2>4. p \in 1..Len(q) /\ time < t.tqe[q[p]].time
    BY <2>3
  <2>5. \A k \in 1..Len(q) : k < p => ~ (time < t.tqe[q[k]].time)
    BY <1>3, <2>3, <2>4
  <2> HIDE DEF later
  <2>6. ASSUME NEW k \in 1..Len(q), ~ (k < p)
        PROVE  time < t.tqe[q[k]].time
    <3>1. t.tqe[q[p]].time <= t.tqe[q[k]].time
      <4>1. CASE k = p
        BY <1>3, <4>1
      <4>2. CASE p < k
        BY <1>1, <2>4, <4>2 DEF InOrder
      <4> QED BY <1>3, <2>4, <2>6, <4>1, <4>2
    <3> QED BY <1>3, <2>4, <3>1
  <2>7. \A k \in 1..Len(q) : k < p <=> t.tqe[q[k]].time <= time
    <3> SUFFICES ASSUME NEW k \in 1..Len(q)
                 PROVE  k < p <=> t.tqe[q[k]].time <= time
      OBVIOUS
    <3> QED BY <1>3, <2>5, <2>6
  <2>8. p \in 1..Len(q) + 1
    BY <1>3, <2>4
  <2> QED BY <2>7, <2>8 DEF p, q
<1> QED BY <1>4, <1>5
(* Which TQE timer_set takes, if there is one to take.                     *)
LEMMA TakenIs ==
  ASSUME NEW t, Kept(t), NEW c,
         PlacesOf(t, c) = {} /\ t.freeTQEQ = <<>> => \E m \in TQEs : m \notin DOMAIN t.tqe
  PROVE  LET n == Taken(t, c)
         IN  /\ n \in TQEs
             /\ n \notin Members(Unlinked(t, c)) /\ n \notin Members(StillFree(t, c))
             /\ StillFree(t, c) \in Seq(DOMAIN t.tqe) /\ Differ(StillFree(t, c))
             /\ Members(Unlinked(t, c)) \cap Members(StillFree(t, c)) = {}
             /\ Members(Unlinked(t, c)) \cup Members(StillFree(t, c)) \cup {n} = DOMAIN t.tqe \cup {n}
<1> DEFINE n == Taken(t, c)
<1>1. /\ t.timerQ \in Seq(DOMAIN t.tqe) /\ OnePerClient(t.tqe, t.timerQ)
      /\ t.freeTQEQ \in Seq(DOMAIN t.tqe) /\ Differ(t.freeTQEQ) /\ DOMAIN t.tqe \subseteq TQEs
      /\ Members(t.timerQ) \cap Members(t.freeTQEQ) = {}
      /\ Members(t.timerQ) \cup Members(t.freeTQEQ) = DOMAIN t.tqe
  BY DEF Kept, Typed, Queued, Freed, Placed
<1>2. Members(Unlinked(t, c)) = {m \in Members(t.timerQ) : t.tqe[m].client # c}
  BY UnlinkedKeeps
<1>3. CASE PlacesOf(t, c) # {}
  <2>1. PICK p \in 1..Len(t.timerQ) :
          /\ t.tqe[t.timerQ[p]].client = c /\ OfClient(t, c) = t.timerQ[p]
          /\ Unlinked(t, c) = RemoveAt(t.timerQ, p)
    BY <1>3, OnePlace
  <2>2. n = t.timerQ[p] /\ StillFree(t, c) = t.freeTQEQ
    BY <1>3, <2>1 DEF Taken, StillFree
  <2>3. n \in Members(t.timerQ) /\ Members(Unlinked(t, c)) = Members(t.timerQ) \ {n}
    <3>1. \A k \in 1..Len(t.timerQ) : t.timerQ[k] = t.timerQ[p] => k = p
      BY <1>1 DEF OnePerClient
    <3>2. Members(RemoveAt(t.timerQ, p)) = Members(t.timerQ) \ {t.timerQ[p]}
      BY <1>1, <3>1, RemovedMembers
    <3>3. t.timerQ[p] \in Members(t.timerQ)
      BY MemberPlace
    <3> QED BY <2>1, <2>2, <3>2, <3>3
  <2> HIDE DEF n
  <2>4. n \in TQEs /\ n \notin Members(t.freeTQEQ)
    BY <1>1, <2>3
  <2> QED BY <1>1, <2>2, <2>3, <2>4 DEF n
<1>4. CASE PlacesOf(t, c) = {} /\ t.freeTQEQ # <<>>
  <2> DEFINE f == t.freeTQEQ
  <2>1. n = f[1] /\ StillFree(t, c) = Tail(f) /\ Unlinked(t, c) = t.timerQ
    BY <1>4, <1>1, NoPlace DEF Taken, StillFree
  <2>2. /\ Tail(f) \in Seq(DOMAIN t.tqe) /\ Len(Tail(f)) = Len(f) - 1 /\ Len(f) \in Nat \ {0}
        /\ \A k \in 1..Len(Tail(f)) : Tail(f)[k] = f[k + 1]
    <3> HIDE DEF f
    <3>1. f \in Seq(DOMAIN t.tqe) /\ f # <<>>
      BY <1>1, <1>4 DEF f
    <3>2. Len(f) \in Nat \ {0}
      BY <3>1
    <3> QED BY <3>1, <3>2, HeadTailProperties
  <2>3. \A k \in 1..Len(Tail(f)) : k + 1 \in 1..Len(f) /\ k + 1 # 1 /\ k \in Nat
    BY <2>2
  <2>4. Differ(Tail(f))
    BY <1>1, <2>2, <2>3 DEF Differ
  <2>5. Members(Tail(f)) = Members(f) \ {f[1]} /\ f[1] \in Members(f)
    <3>1. 1 \in 1..Len(f)
      BY <2>2
    <3>2. ASSUME NEW m \in Members(f), m # f[1]
          PROVE  m \in Members(Tail(f))
      <4>1. PICK k \in 1..Len(f) : f[k] = m
        BY MemberPlace
      <4>2. k - 1 \in 1..Len(Tail(f)) /\ (k - 1) + 1 = k
        BY <2>2, <3>2, <4>1
      <4>3. Tail(f)[k - 1] = m
        BY <2>2, <4>1, <4>2
      <4> QED BY <4>2, <4>3, MemberPlace
    <3>3. ASSUME NEW m \in Members(Tail(f))
          PROVE  m \in Members(f) /\ m # f[1]
      <4>1. PICK k \in 1..Len(Tail(f)) : Tail(f)[k] = m
        BY MemberPlace
      <4> QED BY <1>1, <2>2, <2>3, <3>1, <4>1, MemberPlace DEF Differ
    <3> QED BY <3>1, <3>2, <3>3, MemberPlace
  <2> HIDE DEF n
  <2> QED BY <1>1, <2>1, <2>2, <2>4, <2>5 DEF n
<1>5. CASE PlacesOf(t, c) = {} /\ t.freeTQEQ = <<>>
  <2>1. n = CHOOSE m \in TQEs : m \notin DOMAIN t.tqe
    BY <1>5 DEF Taken
  <2>2. StillFree(t, c) = t.freeTQEQ /\ Unlinked(t, c) = t.timerQ
    BY <1>5, NoPlace DEF StillFree
  <2>3. n \in TQEs /\ n \notin DOMAIN t.tqe
    BY <1>5, <2>1
  <2> HIDE DEF n
  <2> QED BY <1>1, <2>2, <2>3 DEF n
<1> QED BY <1>3, <1>4, <1>5

(* What timer_set does to the queue, which stays in order.                 *)
LEMMA SetQueues ==
  ASSUME NEW t, Kept(t), NEW c \in Clients, NEW time \in Nat, NEW n, NEW r,
         n \notin Members(Unlinked(t, c)),
         DOMAIN r = DOMAIN t.tqe \cup {n},
         r[n].client = c, r[n].time = time,
         \A m \in DOMAIN t.tqe : m # n => r[m] = t.tqe[m]
  PROVE  LET s == InsertAt(Unlinked(t, c), Before(t, c, time), n)
         IN  /\ s \in Seq(DOMAIN r) /\ OnePerClient(r, s) /\ InOrder(r, s)
             /\ Members(s) = Members(Unlinked(t, c)) \cup {n}
<1> DEFINE q == Unlinked(t, c)
           p == Before(t, c, time)
           s == InsertAt(q, p, n)
<1>1. /\ q \in Seq(DOMAIN t.tqe) /\ OnePerClient(t.tqe, q) /\ InOrder(t.tqe, q)
      /\ Members(q) = {m \in Members(t.timerQ) : t.tqe[m].client # c}
  BY UnlinkedKeeps
<1>2. /\ p \in 1..Len(q) + 1
      /\ \A k \in 1..Len(q) : k < p <=> t.tqe[q[k]].time <= time
  BY PlaceInOrder
<1> HIDE DEF p, q
<1>3. q \in Seq(DOMAIN r)
  BY <1>1
<1>4. /\ s \in Seq(DOMAIN r) /\ Len(s) = Len(q) + 1 /\ s[p] = n
      /\ \A k \in 1..Len(s) : k < p => s[k] = q[k]
      /\ \A k \in 1..Len(s) : p < k => s[k] = q[k - 1]
  <2>1. n \in DOMAIN r
    OBVIOUS
  <2> DEFINE S == DOMAIN r
  <2>2. n \in S /\ q \in Seq(S) /\ p \in 1..Len(q) + 1
    BY <1>2, <1>3, <2>1
  <2> HIDE DEF S
  <2>3. /\ s \in Seq(S) /\ Len(s) = Len(q) + 1 /\ s[p] = n
        /\ \A k \in 1..Len(s) : k < p => s[k] = q[k]
        /\ \A k \in 1..Len(s) : p < k => s[k] = q[k - 1]
    BY <2>2, Inserted
  <2> QED BY <2>3 DEF S
<1>5. Members(s) = Members(q) \cup {n}
  <2> DEFINE S == DOMAIN r
  <2>1. n \in S /\ q \in Seq(S)
    BY <1>3
  <2> HIDE DEF S
  <2>2. Members(InsertAt(q, p, n)) = Members(q) \cup {n}
    BY <1>2, <2>1, InsertedMembers
  <2> QED BY <2>2
<1> HIDE DEF s
<1>6. Len(q) \in Nat /\ p \in Nat
  BY <1>1, <1>2
<1>7. ASSUME NEW k \in 1..Len(q)
      PROVE  /\ r[q[k]] = t.tqe[q[k]] /\ r[q[k]].client # c /\ r[q[k]].time \in Nat
             /\ (k < p <=> r[q[k]].time <= time)
  <2>1. q[k] \in DOMAIN t.tqe /\ q[k] \in Members(q)
    BY <1>1, MemberPlace
  <2>2. q[k] # n /\ t.tqe[q[k]].client # c
    BY <1>1, <2>1 DEF q
  <2>3. t.tqe[q[k]].time \in Nat
    BY <2>1, TqeFields DEF Kept
  <2> QED BY <1>2, <2>1, <2>2, <2>3
<1>8. OnePerClient(r, q) /\ InOrder(r, q)
  BY <1>1, <1>7 DEF OnePerClient, InOrder
<1>9. ASSUME NEW k \in 1..Len(s)
      PROVE  \/ k < p /\ k \in 1..Len(q) /\ s[k] = q[k]
             \/ k = p /\ s[k] = n
             \/ p < k /\ k - 1 \in 1..Len(q) /\ s[k] = q[k - 1] /\ ~ (k - 1 < p)
  BY <1>2, <1>4, <1>6
<1>10. OnePerClient(r, s)
  <2> SUFFICES ASSUME NEW k \in 1..Len(s), NEW j \in 1..Len(s),
                      r[s[k]].client = r[s[j]].client
               PROVE  k = j
    BY DEF OnePerClient
  <2>1. (k = p) <=> (j = p)
    BY <1>6, <1>7, <1>9
  <2>2. CASE k < p
    BY <1>6, <1>8, <1>9, <2>1, <2>2, SMTT(30) DEF OnePerClient
  <2>3. CASE p < k
    <3>1. k - 1 \in 1..Len(q) /\ s[k] = q[k - 1] /\ k \in Nat
      BY <1>6, <1>9, <2>3
    <3>3. p < j \/ j < p
      BY <1>6, <2>1, <2>3
    <3>4. CASE j < p
      <4>1. j \in 1..Len(q) /\ s[j] = q[j] /\ j \in Nat
        BY <1>6, <1>9, <3>4
      <4>2. k - 1 = j
        BY <1>8, <3>1, <4>1 DEF OnePerClient
      <4> QED BY <1>6, <2>3, <3>1, <3>4, <4>1, <4>2
    <3>5. CASE p < j
      <4>1. j - 1 \in 1..Len(q) /\ s[j] = q[j - 1] /\ j \in Nat
        BY <1>6, <1>9, <3>5
      <4>2. k - 1 = j - 1
        BY <1>8, <3>1, <4>1 DEF OnePerClient
      <4> QED BY <3>1, <4>1, <4>2
    <3> QED BY <3>3, <3>4, <3>5
  <2> QED BY <1>6, <2>1, <2>2, <2>3
<1>11. InOrder(r, s)
  <2> SUFFICES ASSUME NEW k \in 1..Len(s), NEW j \in 1..Len(s), k < j
               PROVE  r[s[k]].time <= r[s[j]].time
    BY DEF InOrder
  <2>1. CASE j < p \/ p < k
    <3>1. k \in Nat /\ j \in Nat
      OBVIOUS
    <3>2. CASE j < p
      <4>1. k \in 1..Len(q) /\ s[k] = q[k] /\ j \in 1..Len(q) /\ s[j] = q[j]
        BY <1>6, <1>9, <3>1, <3>2
      <4> QED BY <1>8, <4>1 DEF InOrder
    <3>3. CASE p < k
      <4>1. k - 1 \in 1..Len(q) /\ s[k] = q[k - 1] /\ j - 1 \in 1..Len(q) /\ s[j] = q[j - 1]
        BY <1>6, <1>9, <3>1, <3>3
      <4>2. k - 1 < j - 1
        BY <3>1
      <4> QED BY <1>8, <4>1, <4>2 DEF InOrder
    <3> QED BY <2>1, <3>2, <3>3
  <2>2. CASE k < p /\ p < j
    <3>1. k \in 1..Len(q) /\ s[k] = q[k] /\ j - 1 \in 1..Len(q) /\ s[j] = q[j - 1]
      BY <1>6, <1>9, <2>2
    <3>2. k \in Nat /\ j - 1 \in Nat /\ (k < j - 1 \/ k = j - 1)
      BY <3>1
    <3>3. k < j - 1 => r[q[k]].time <= r[q[j - 1]].time
      BY <1>8, <3>1 DEF InOrder
    <3>4. k = j - 1 => r[q[k]].time <= r[q[j - 1]].time
      BY <1>7, <3>1
    <3> QED BY <3>1, <3>2, <3>3, <3>4
  <2>3. CASE k = p \/ j = p
    BY <1>6, <1>7, <1>9, <2>3
  <2> QED BY <1>6, <2>1, <2>2, <2>3
<1> QED BY <1>4, <1>5, <1>10, <1>11 DEF s, p, q
(* Is there a TQE for the client to take?                                  *)
Room(t, c) == PlacesOf(t, c) = {} /\ t.freeTQEQ = <<>> => \E m \in TQEs : m \notin DOMAIN t.tqe

(* The interval a TQE is taken with.                                       *)
Inherited(t, c) ==
  IF Taken(t, c) \in DOMAIN t.tqe THEN t.tqe[Taken(t, c)].interval ELSE 0

(* malloc is called only while fewer TQEs than clients exist.              *)
LEMMA RoomForClient ==
  ASSUME NEW t, Kept(t), NEW c \in Clients
  PROVE  Room(t, c)
<1> SUFFICES ASSUME PlacesOf(t, c) = {}, t.freeTQEQ = <<>>, TQEs \subseteq DOMAIN t.tqe
             PROVE  FALSE
  BY DEF Room
<1>1. IsFiniteSet(TQEs) /\ IsFiniteSet(Clients) /\ Cardinality(TQEs) >= Cardinality(Clients)
  BY LoopAssumption
<1>2. Members(t.timerQ) = TQEs /\ DOMAIN t.tqe = TQEs
  <2>1. Members(t.freeTQEQ) = {}
    BY DEF Members
  <2> QED BY <2>1 DEF Kept, Placed, Typed
<1> DEFINE others == Clients \ {c}
           owner == [n \in TQEs |-> t.tqe[n].client]
<1>3. owner \in [TQEs -> others]
  <2> SUFFICES ASSUME NEW n \in TQEs
               PROVE  t.tqe[n].client \in others
    OBVIOUS
  <2>1. t.tqe[n].client \in Clients
    BY <1>2, TqeFields DEF Kept
  <2>2. PICK k \in 1..Len(t.timerQ) : t.timerQ[k] = n
    BY <1>2, MemberPlace
  <2> QED BY <2>1, <2>2, NoPlace
<1>4. \A m, n \in TQEs : owner[m] = owner[n] => m = n
  <2> SUFFICES ASSUME NEW m \in TQEs, NEW n \in TQEs, t.tqe[m].client = t.tqe[n].client
               PROVE  m = n
    OBVIOUS
  <2>1. PICK k \in 1..Len(t.timerQ) : t.timerQ[k] = m
    BY <1>2, MemberPlace
  <2>2. PICK j \in 1..Len(t.timerQ) : t.timerQ[j] = n
    BY <1>2, MemberPlace
  <2> QED BY <2>1, <2>2 DEF Kept, Queued, OnePerClient
<1> HIDE DEF owner
<1>5. IsFiniteSet(others) /\ Cardinality(others) = Cardinality(Clients) - 1
  BY <1>1, FS_RemoveElement
<1>6. Cardinality(TQEs) <= Cardinality(others)
  <2>1. owner \in Injection(TQEs, others)
    BY <1>3, <1>4 DEF Injection, IsInjective
  <2> HIDE DEF others
  <2> QED BY <1>5, <2>1, FS_Injection
<1>7. Cardinality(TQEs) \in Nat /\ Cardinality(Clients) \in Nat
  BY <1>1, FS_CardinalityType
<1> HIDE DEF others
<1> QED BY <1>1, <1>5, <1>6, <1>7

(* timer_set keeps the lists, and gives the client a TQE.                  *)
LEMMA SetKeeps ==
  ASSUME NEW t, Kept(t), NEW c \in Clients, NEW time \in Nat
  PROVE  LET r == timer_set(t, c, time)
             n == Taken(t, c)
         IN  /\ Kept(r)
             /\ n \notin Members(Unlinked(t, c))
             /\ Members(r.timerQ) = Members(Unlinked(t, c)) \cup {n}
             /\ DOMAIN r.tqe = DOMAIN t.tqe \cup {n}
             /\ r.tqe[n] = [client |-> c, time |-> time, interval |-> Inherited(t, c)]
             /\ \A m \in DOMAIN t.tqe : m # n => r.tqe[m] = t.tqe[m]
<1> DEFINE r == timer_set(t, c, time)
           n == Taken(t, c)
           q == Unlinked(t, c)
<1>1. /\ n \in TQEs
      /\ n \notin Members(q) /\ n \notin Members(StillFree(t, c))
      /\ StillFree(t, c) \in Seq(DOMAIN t.tqe) /\ Differ(StillFree(t, c))
      /\ Members(q) \cap Members(StillFree(t, c)) = {}
      /\ Members(q) \cup Members(StillFree(t, c)) \cup {n} = DOMAIN t.tqe \cup {n}
  BY RoomForClient, TakenIs DEF Room
<1>2. /\ r = [tqe |-> r.tqe, timerQ |-> r.timerQ, freeTQEQ |-> r.freeTQEQ]
      /\ DOMAIN r.tqe = DOMAIN t.tqe \cup {n}
      /\ r.tqe[n] = [client |-> c, time |-> time, interval |-> Inherited(t, c)]
      /\ \A m \in DOMAIN t.tqe : m # n => r.tqe[m] = t.tqe[m]
      /\ r.tqe = [m \in DOMAIN r.tqe |-> r.tqe[m]]
      /\ r.timerQ = InsertAt(q, Before(t, c, time), n)
      /\ r.freeTQEQ = StillFree(t, c)
  BY DEF timer_set, Inherited
<1> HIDE DEF r, n, q
<1>3. DOMAIN t.tqe \subseteq TQEs /\ \A m \in DOMAIN t.tqe : t.tqe[m] \in Tqe
  BY DEF Kept, Typed
<1>4. Inherited(t, c) \in Intervals \cup {0}
  <2>1. \A m \in DOMAIN t.tqe : t.tqe[m].interval \in Intervals \cup {0}
    BY TqeFields DEF Kept
  <2> QED BY <2>1 DEF Inherited
<1>5. Typed(r)
  <2>1. r.tqe[n] \in Tqe
    BY <1>2, <1>4 DEF Tqe
  <2>2. \A m \in DOMAIN r.tqe : r.tqe[m] \in Tqe
    BY <1>2, <1>3, <2>1
  <2>3. r.tqe \in [DOMAIN r.tqe -> Tqe]
    BY <1>2, <2>2
  <2> QED BY <1>1, <1>2, <1>3, <2>3 DEF Typed
<1>6. Queued(r) /\ Members(r.timerQ) = Members(q) \cup {n}
  <2>1. r.tqe[n].client = c /\ r.tqe[n].time = time
    BY <1>2
  <2>2. LET s == InsertAt(q, Before(t, c, time), n)
        IN  /\ s \in Seq(DOMAIN r.tqe) /\ OnePerClient(r.tqe, s) /\ InOrder(r.tqe, s)
            /\ Members(s) = Members(q) \cup {n}
    BY <1>1, <1>2, <2>1, SetQueues, SMTT(30) DEF q
  <2> QED BY <1>2, <2>2 DEF Queued
<1>7. Freed(r)
  <2>1. r.freeTQEQ \in Seq(DOMAIN r.tqe)
    BY <1>1, <1>2
  <2> QED BY <1>1, <1>2, <2>1 DEF Freed
<1>8. Placed(r)
  BY <1>1, <1>2, <1>6 DEF Placed
<1> QED BY <1>1, <1>2, <1>5, <1>6, <1>7, <1>8 DEF Kept, r, n, q

(* Cancelling a timer moves its TQE to the free ones.                      *)
LEMMA CancelKeeps ==
  ASSUME NEW t, Kept(t), NEW c
  PROVE  LET r == timer_cancel(t, c)
         IN  Kept(r) /\ r.tqe = t.tqe /\ Members(r.timerQ) = Members(Unlinked(t, c))
<1> DEFINE r == timer_cancel(t, c)
           q == Unlinked(t, c)
<1>1. CASE PlacesOf(t, c) = {}
  <2>1. r = t /\ q = t.timerQ
    BY <1>1, NoPlace DEF timer_cancel
  <2> QED BY <2>1
<1>2. CASE PlacesOf(t, c) # {}
  <2> DEFINE n == OfClient(t, c)
             f == <<n>> \o t.freeTQEQ
  <2>1. n = Taken(t, c) /\ StillFree(t, c) = t.freeTQEQ /\ Room(t, c)
    BY <1>2 DEF Taken, StillFree, Room
  <2>2. /\ n \notin Members(q) /\ n \notin Members(t.freeTQEQ)
        /\ Members(q) \cap Members(t.freeTQEQ) = {}
        /\ Members(q) \cup Members(t.freeTQEQ) \cup {n} = DOMAIN t.tqe \cup {n}
    BY <2>1, TakenIs DEF Room
  <2>3. n \in DOMAIN t.tqe
    <3>1. PICK p \in 1..Len(t.timerQ) : n = t.timerQ[p]
      BY <1>2, OnePlace
    <3>2. t.timerQ \in Seq(DOMAIN t.tqe)
      BY DEF Kept, Queued
    <3> HIDE DEF n
    <3> QED BY <3>1, <3>2
  <2>4. /\ r = [tqe |-> t.tqe, timerQ |-> q, freeTQEQ |-> f]
        /\ r.tqe = t.tqe /\ r.timerQ = q /\ r.freeTQEQ = f
    <3>1. t = [tqe |-> t.tqe, timerQ |-> t.timerQ, freeTQEQ |-> t.freeTQEQ]
      BY DEF Kept, Typed
    <3> QED BY <1>2, <3>1 DEF timer_cancel
  <2>5. t.freeTQEQ \in Seq(DOMAIN t.tqe) /\ Differ(t.freeTQEQ)
    BY DEF Kept, Freed
  <2> HIDE DEF r, n
  <2> DEFINE D == DOMAIN t.tqe
  <2>6. n \in D /\ t.freeTQEQ \in Seq(D)
    BY <2>3, <2>5
  <2> HIDE DEF D
  <2>7. f \in Seq(D) /\ Members(f) = Members(t.freeTQEQ) \cup {n}
    BY <2>6, InFront
  <2>8. Differ(f)
    BY <2>2, <2>5, <2>6, DifferInFront
  <2> HIDE DEF f
  <2>9. Typed(r) /\ Freed(r)
    BY <2>4, <2>7, <2>8 DEF Kept, Typed, Freed, D
  <2>10. Queued(r)
    BY <2>4, UnlinkedKeeps DEF Queued
  <2>11. Placed(r)
    BY <2>2, <2>3, <2>4, <2>7 DEF Placed
  <2> QED BY <2>4, <2>9, <2>10, <2>11 DEF Kept, r
<1> QED BY <1>1, <1>2
(* A TQE of the queue gets another interval.                               *)
LEMMA IntervalKeeps ==
  ASSUME NEW t, Kept(t), NEW n \in DOMAIN t.tqe, NEW interval \in Intervals
  PROVE  LET r == [t EXCEPT !.tqe[n].interval = interval]
         IN  /\ Kept(r) /\ r.timerQ = t.timerQ /\ DOMAIN r.tqe = DOMAIN t.tqe
             /\ r.tqe[n] = [client |-> t.tqe[n].client, time |-> t.tqe[n].time, interval |-> interval]
             /\ \A m \in DOMAIN t.tqe : m # n => r.tqe[m] = t.tqe[m]
<1> DEFINE r == [t EXCEPT !.tqe[n].interval = interval]
           tqe == [t.tqe EXCEPT ![n].interval = interval]
<1>1. /\ t = [tqe |-> t.tqe, timerQ |-> t.timerQ, freeTQEQ |-> t.freeTQEQ]
      /\ DOMAIN t.tqe \subseteq TQEs /\ t.tqe \in [DOMAIN t.tqe -> Tqe]
  BY DEF Kept, Typed
<1>2. /\ r = [tqe |-> tqe, timerQ |-> t.timerQ, freeTQEQ |-> t.freeTQEQ]
      /\ r.tqe = tqe /\ r.timerQ = t.timerQ /\ r.freeTQEQ = t.freeTQEQ
  BY <1>1
<1>3. /\ DOMAIN tqe = DOMAIN t.tqe
      /\ tqe[n] = [client |-> t.tqe[n].client, time |-> t.tqe[n].time, interval |-> interval]
      /\ \A m \in DOMAIN t.tqe : m # n => tqe[m] = t.tqe[m]
      /\ tqe = [m \in DOMAIN tqe |-> tqe[m]]
  <2>1. t.tqe[n] \in Tqe
    BY <1>1
  <2>2. t.tqe[n] = [client |-> t.tqe[n].client, time |-> t.tqe[n].time, interval |-> t.tqe[n].interval]
    BY <2>1 DEF Tqe
  <2> QED BY <1>1, <2>2
<1> HIDE DEF r, tqe
<1>4. \A m \in DOMAIN tqe : /\ tqe[m].client = t.tqe[m].client /\ tqe[m].time = t.tqe[m].time
                            /\ tqe[m] \in Tqe
  <2> SUFFICES ASSUME NEW m \in DOMAIN tqe
               PROVE  /\ tqe[m].client = t.tqe[m].client /\ tqe[m].time = t.tqe[m].time
                      /\ tqe[m] \in Tqe
    OBVIOUS
  <2>1. t.tqe[m] \in Tqe /\ t.tqe[n] \in Tqe
    BY <1>1, <1>3
  <2> QED BY <1>3, <2>1 DEF Tqe
<1>5. Typed(r)
  <2>1. tqe \in [DOMAIN tqe -> Tqe]
    BY <1>3, <1>4
  <2> QED BY <1>1, <1>2, <1>3, <2>1 DEF Typed
<1>6. t.timerQ \in Seq(DOMAIN t.tqe) /\ \A k \in 1..Len(t.timerQ) : t.timerQ[k] \in DOMAIN tqe
  BY <1>3 DEF Kept, Queued
<1>7. OnePerClient(tqe, t.timerQ) /\ InOrder(tqe, t.timerQ)
  <2>1. OnePerClient(t.tqe, t.timerQ) /\ InOrder(t.tqe, t.timerQ)
    BY DEF Kept, Queued
  <2> QED BY <1>4, <1>6, <2>1 DEF OnePerClient, InOrder
<1>8. Queued(r) /\ Freed(r) /\ Placed(r)
  BY <1>2, <1>3, <1>6, <1>7 DEF Kept, Queued, Freed, Placed
<1> QED BY <1>2, <1>3, <1>5, <1>8 DEF Kept, r

(* An expired timer's TQE is freed and, if its timer is set again, taken    *)
(* again, with its interval.                                               *)
LEMMA ExpireIs ==
  ASSUME NEW t, Kept(t), t.timerQ # <<>>
  PROVE  LET n == t.timerQ[1]
             c == t.tqe[n].client
             f == timer_cancel(t, c)
         IN  /\ n \in Members(t.timerQ) /\ n = Head(t.timerQ)
             /\ \A m \in Members(t.timerQ) : t.tqe[n].time <= t.tqe[m].time
             /\ Expire(t) = IF t.tqe[n].interval = 0 THEN f
                            ELSE timer_set(f, c, t.tqe[n].time + t.tqe[n].interval)
             /\ Taken(f, c) = n /\ Inherited(f, c) = t.tqe[n].interval
             /\ Unlinked(f, c) = f.timerQ
<1> DEFINE n == t.timerQ[1]
           c == t.tqe[n].client
           f == timer_cancel(t, c)
           D == DOMAIN t.tqe
<1>1. /\ t.timerQ \in Seq(D) /\ OnePerClient(t.tqe, t.timerQ) /\ InOrder(t.tqe, t.timerQ)
  BY DEF Kept, Queued
<1>2. Len(t.timerQ) \in Nat \ {0} /\ 1 \in 1..Len(t.timerQ) /\ n = Head(t.timerQ)
  <2> HIDE DEF D
  <2> QED BY <1>1
<1>3. n \in Members(t.timerQ) /\ n \in D
  BY <1>1, <1>2, MemberPlace
<1>4. \A m \in Members(t.timerQ) : t.tqe[n].time <= t.tqe[m].time
  <2> SUFFICES ASSUME NEW m \in Members(t.timerQ)
               PROVE  t.tqe[n].time <= t.tqe[m].time
    OBVIOUS
  <2>1. PICK k \in 1..Len(t.timerQ) : t.timerQ[k] = m
    BY MemberPlace
  <2>2. t.tqe[n].time \in Nat
    BY <1>3, TqeFields DEF Kept
  <2>3. k = 1 \/ 1 < k
    OBVIOUS
  <2> QED BY <1>1, <1>2, <2>1, <2>2, <2>3 DEF InOrder
<1>5. PlacesOf(t, c) # {}
  <2>1. DOMAIN t.timerQ = 1..Len(t.timerQ)
    BY <1>1, MembersAre
  <2>2. 1 \in PlacesOf(t, c)
    BY <1>2, <2>1 DEF PlacesOf
  <2> QED BY <2>2
<1>6. OfClient(t, c) = n /\ Unlinked(t, c) = Tail(t.timerQ)
  <2>1. PICK p \in 1..Len(t.timerQ) :
          /\ t.tqe[t.timerQ[p]].client = c /\ OfClient(t, c) = t.timerQ[p]
          /\ Unlinked(t, c) = RemoveAt(t.timerQ, p)
    BY <1>5, OnePlace
  <2>2. p = 1
    BY <1>1, <1>2, <2>1 DEF OnePerClient
  <2> DEFINE r == RemoveAt(t.timerQ, 1)
             e == Tail(t.timerQ)
  <2>3. /\ r \in Seq(D) /\ Len(r) = Len(t.timerQ) - 1
        /\ \A k \in 1..Len(r) : r[k] = IF k < 1 THEN t.timerQ[k] ELSE t.timerQ[k + 1]
    BY <1>1, <1>2, Removed
  <2>4. /\ e \in Seq(D) /\ Len(e) = Len(t.timerQ) - 1
        /\ \A k \in 1..Len(e) : e[k] = t.timerQ[k + 1]
    <3> HIDE DEF D
    <3> QED BY <1>1, HeadTailProperties
  <2> HIDE DEF D, r, e
  <2>5. r = e
    <3>1. Len(r) = Len(e) /\ \A k \in 1..Len(r) : r[k] = e[k]
      BY <2>3, <2>4
    <3> QED BY <2>3, <2>4, <3>1, SameSequence
  <2> QED BY <2>1, <2>2, <2>5 DEF r, e
<1>7. f = [t EXCEPT !.timerQ = Tail(@), !.freeTQEQ = <<n>> \o @]
  <2>1. t = [tqe |-> t.tqe, timerQ |-> t.timerQ, freeTQEQ |-> t.freeTQEQ]
    BY DEF Kept, Typed
  <2> HIDE DEF n, c, D
  <2> QED BY <1>5, <1>6, <2>1 DEF timer_cancel
<1>8. Expire(t) = IF t.tqe[n].interval = 0 THEN f
                  ELSE timer_set(f, c, t.tqe[n].time + t.tqe[n].interval)
  BY <1>2, <1>7 DEF Expire
<1>9. Kept(f) /\ f.tqe = t.tqe /\ f.timerQ = Unlinked(t, c) /\ f.freeTQEQ = <<n>> \o t.freeTQEQ
  <2>1. t = [tqe |-> t.tqe, timerQ |-> t.timerQ, freeTQEQ |-> t.freeTQEQ]
    BY DEF Kept, Typed
  <2>2. Kept(f)
    BY CancelKeeps
  <2> QED BY <1>6, <1>7, <2>1, <2>2
<1>10. PlacesOf(f, c) = {}
  <2>1. \A m \in Members(f.timerQ) : f.tqe[m].client # c
    <3>1. Members(Unlinked(t, c)) = {m \in Members(t.timerQ) : t.tqe[m].client # c}
      BY UnlinkedKeeps
    <3> HIDE DEF f, c
    <3> QED BY <1>9, <3>1
  <2>2. DOMAIN f.timerQ = 1..Len(f.timerQ)
    BY <1>9, MembersAre DEF Kept, Queued
  <2> HIDE DEF f
  <2> QED BY <2>1, <2>2, MemberPlace DEF PlacesOf
<1>11. f.freeTQEQ # <<>> /\ Head(f.freeTQEQ) = n
  <2>1. t.freeTQEQ \in Seq(D)
    BY DEF Kept, Freed
  <2> DEFINE g == <<n>> \o t.freeTQEQ
  <2> HIDE DEF D
  <2>2. g \in Seq(D) /\ Len(g) = Len(t.freeTQEQ) + 1 /\ Len(t.freeTQEQ) \in Nat /\ g[1] = n
    BY <1>3, <2>1, InFront
  <2> HIDE DEF g, n
  <2>3. g # <<>> /\ Head(g) = n
    BY <2>2
  <2> QED BY <1>9, <2>3 DEF g
<1>12. Taken(f, c) = n /\ Unlinked(f, c) = f.timerQ
  BY <1>9, <1>10, <1>11, NoPlace DEF Taken
<1>13. Inherited(f, c) = t.tqe[n].interval
  BY <1>3, <1>9, <1>12 DEF Inherited
<1> HIDE DEF f
<1> QED BY <1>2, <1>3, <1>4, <1>8, <1>12, <1>13 DEF f
----------------------------------------------------------------------------
(* What the lists mean to the clients.                                      *)

WithTimer(p, c, timer) == [d \in DOMAIN p \cup {c} |-> IF d = c THEN timer ELSE p[d]]
WithoutTimer(p, c) == [d \in DOMAIN p \ {c} |-> p[d]]

(* A timer set after the client's was taken out replaces it.               *)
LEMMA SetAfterOut ==
  ASSUME NEW p, NEW c, NEW timer
  PROVE  WithTimer(WithoutTimer(p, c), c, timer) = WithTimer(p, c, timer)
<1> DEFINE o == WithoutTimer(p, c)
<1>1. DOMAIN o = DOMAIN p \ {c} /\ \A d \in DOMAIN o : o[d] = p[d]
  BY DEF WithoutTimer
<1> HIDE DEF o
<1>2. DOMAIN o \cup {c} = DOMAIN p \cup {c}
  BY <1>1
<1>3. \A d \in DOMAIN o \cup {c} : d # c => o[d] = p[d]
  BY <1>1
<1>4. WithTimer(o, c, timer) = WithTimer(p, c, timer)
  BY <1>2, <1>3 DEF WithTimer
<1> QED BY <1>4 DEF o

(* A client that gets a timer has it.                                      *)
LEMMA HasTimer ==
  ASSUME NEW p, NEW c, NEW timer
  PROVE  c \in DOMAIN WithTimer(p, c, timer) /\ WithTimer(p, c, timer)[c] = timer
BY DEF WithTimer

(* A client's pending timer is that of its TQE.                            *)
LEMMA PendingAre ==
  ASSUME NEW t, Kept(t)
  PROVE  /\ DOMAIN Pending(t) = {t.tqe[n].client : n \in Members(t.timerQ)}
         /\ Pending(t) = [c \in DOMAIN Pending(t) |-> Pending(t)[c]]
         /\ \A n \in Members(t.timerQ) :
              Pending(t)[t.tqe[n].client] = [time |-> t.tqe[n].time, interval |-> t.tqe[n].interval]
<1>1. ToSet(t.timerQ) = Members(t.timerQ) /\ DOMAIN t.timerQ = 1..Len(t.timerQ)
  BY MembersAre DEF Kept, Queued
<1>2. ASSUME NEW n \in Members(t.timerQ)
      PROVE  OfClient(t, t.tqe[n].client) = n
  <2> DEFINE c == t.tqe[n].client
  <2>1. PICK k \in 1..Len(t.timerQ) : t.timerQ[k] = n
    BY MemberPlace
  <2>2. PlacesOf(t, c) # {}
    BY <1>1, <2>1 DEF PlacesOf
  <2>3. PICK p \in 1..Len(t.timerQ) : t.tqe[t.timerQ[p]].client = c /\ OfClient(t, c) = t.timerQ[p]
    BY <2>2, OnePlace
  <2>4. k = p
    BY <2>1, <2>3 DEF Kept, Queued, OnePerClient
  <2> QED BY <2>1, <2>3, <2>4
<1> QED BY <1>1, <1>2 DEF Pending

(* Without the client's TQE in the queue it has no timer pending.          *)
LEMMA PendingWithout ==
  ASSUME NEW t, Kept(t), NEW c
  PROVE  Pending(timer_cancel(t, c)) = WithoutTimer(Pending(t), c)
<1> DEFINE r == timer_cancel(t, c)
<1>1. /\ Kept(r) /\ r.tqe = t.tqe
      /\ Members(r.timerQ) = {n \in Members(t.timerQ) : t.tqe[n].client # c}
  BY CancelKeeps, UnlinkedKeeps
<1> HIDE DEF r
<1> DEFINE p == Pending(t)
           q == Pending(r)
<1>2. /\ DOMAIN p = {t.tqe[n].client : n \in Members(t.timerQ)}
      /\ \A n \in Members(t.timerQ) :
           p[t.tqe[n].client] = [time |-> t.tqe[n].time, interval |-> t.tqe[n].interval]
  BY PendingAre
<1>3. /\ DOMAIN q = {r.tqe[n].client : n \in Members(r.timerQ)}
      /\ q = [d \in DOMAIN q |-> q[d]]
      /\ \A n \in Members(r.timerQ) :
           q[r.tqe[n].client] = [time |-> r.tqe[n].time, interval |-> r.tqe[n].interval]
  BY <1>1, PendingAre
<1> HIDE DEF p, q
<1>4. DOMAIN q = DOMAIN p \ {c}
  BY <1>1, <1>2, <1>3
<1>5. ASSUME NEW d \in DOMAIN q
      PROVE  q[d] = p[d]
  <2>1. PICK n \in Members(r.timerQ) : d = r.tqe[n].client
    BY <1>3
  <2>2. q[d] = [time |-> r.tqe[n].time, interval |-> r.tqe[n].interval]
    BY <1>3, <2>1
  <2>3. n \in Members(t.timerQ) /\ d = t.tqe[n].client /\ r.tqe[n] = t.tqe[n]
    BY <1>1, <2>1
  <2>4. p[d] = [time |-> t.tqe[n].time, interval |-> t.tqe[n].interval]
    BY <1>2, <2>3
  <2> QED BY <2>2, <2>3, <2>4
<1>6. q = WithoutTimer(p, c)
  BY <1>3, <1>4, <1>5 DEF WithoutTimer
<1> QED BY <1>6 DEF p, q, r

(* With a TQE of the client in the queue it has that timer, and the others *)
(* have theirs.                                                            *)
LEMMA PendingWith ==
  ASSUME NEW t, Kept(t), NEW r, Kept(r), NEW n, NEW c, NEW time, NEW interval,
         n \notin Members(Unlinked(t, c)),
         Members(r.timerQ) = Members(Unlinked(t, c)) \cup {n},
         r.tqe[n] = [client |-> c, time |-> time, interval |-> interval],
         \A m \in DOMAIN t.tqe : m # n => r.tqe[m] = t.tqe[m]
  PROVE  Pending(r) = WithTimer(Pending(t), c, [time |-> time, interval |-> interval])
<1>1. Members(Unlinked(t, c)) = {m \in Members(t.timerQ) : t.tqe[m].client # c}
  BY UnlinkedKeeps
<1>2. Members(t.timerQ) \subseteq DOMAIN t.tqe
  BY DEF Kept, Placed
<1> DEFINE p == Pending(t)
           q == Pending(r)
<1>3. /\ DOMAIN p = {t.tqe[m].client : m \in Members(t.timerQ)}
      /\ \A m \in Members(t.timerQ) :
           p[t.tqe[m].client] = [time |-> t.tqe[m].time, interval |-> t.tqe[m].interval]
  BY PendingAre
<1>4. /\ DOMAIN q = {r.tqe[m].client : m \in Members(r.timerQ)}
      /\ q = [d \in DOMAIN q |-> q[d]]
      /\ \A m \in Members(r.timerQ) :
           q[r.tqe[m].client] = [time |-> r.tqe[m].time, interval |-> r.tqe[m].interval]
  BY PendingAre
<1> HIDE DEF p, q
<1>5. \A m \in Members(r.timerQ) : m = n \/ (m \in Members(t.timerQ) /\ m # n
                                              /\ t.tqe[m].client # c /\ r.tqe[m] = t.tqe[m])
  BY <1>1, <1>2
<1>6. \A m \in Members(t.timerQ) : t.tqe[m].client # c =>
        m \in Members(r.timerQ) /\ m # n /\ r.tqe[m] = t.tqe[m]
  BY <1>1, <1>2
<1>7. n \in Members(r.timerQ) /\ r.tqe[n].client = c /\ r.tqe[n].time = time
      /\ r.tqe[n].interval = interval
  OBVIOUS
<1>8. DOMAIN q = DOMAIN p \cup {c}
  <2>1. ASSUME NEW d \in DOMAIN q
        PROVE  d \in DOMAIN p \cup {c}
    <3>1. PICK m \in Members(r.timerQ) : d = r.tqe[m].client
      BY <1>4
    <3> QED BY <1>3, <1>5, <1>7, <3>1
  <2>2. ASSUME NEW d \in DOMAIN p, d # c
        PROVE  d \in DOMAIN q
    <3>1. PICK m \in Members(t.timerQ) : d = t.tqe[m].client
      BY <1>3
    <3> QED BY <1>4, <1>6, <2>2, <3>1
  <2>3. c \in DOMAIN q
    BY <1>4, <1>7
  <2> QED BY <2>1, <2>2, <2>3
<1>9. ASSUME NEW d \in DOMAIN q
      PROVE  q[d] = IF d = c THEN [time |-> time, interval |-> interval] ELSE p[d]
  <2>1. CASE d = c
    BY <1>4, <1>7, <2>1
  <2>2. CASE d # c
    <3>1. PICK m \in Members(r.timerQ) : d = r.tqe[m].client
      BY <1>4
    <3>2. m \in Members(t.timerQ) /\ r.tqe[m] = t.tqe[m]
      BY <1>5, <1>7, <2>2, <3>1
    <3>3. q[d] = [time |-> r.tqe[m].time, interval |-> r.tqe[m].interval]
      BY <1>4, <3>1
    <3>4. p[d] = [time |-> t.tqe[m].time, interval |-> t.tqe[m].interval]
      BY <1>3, <3>1, <3>2
    <3> QED BY <2>2, <3>2, <3>3, <3>4
  <2> QED BY <2>1, <2>2
<1>10. q = WithTimer(p, c, [time |-> time, interval |-> interval])
  BY <1>4, <1>8, <1>9 DEF WithTimer
<1> QED BY <1>10 DEF p, q

(* timer_set gives the client that timer.                                  *)
LEMMA PendingSet ==
  ASSUME NEW t, Kept(t), NEW c \in Clients, NEW time \in Nat
  PROVE  Pending(timer_set(t, c, time)) =
           WithTimer(Pending(t), c, [time |-> time, interval |-> Inherited(t, c)])
<1> DEFINE r == timer_set(t, c, time)
<1>1. /\ Kept(r)
      /\ Taken(t, c) \notin Members(Unlinked(t, c))
      /\ Members(r.timerQ) = Members(Unlinked(t, c)) \cup {Taken(t, c)}
      /\ r.tqe[Taken(t, c)] = [client |-> c, time |-> time, interval |-> Inherited(t, c)]
      /\ \A m \in DOMAIN t.tqe : m # Taken(t, c) => r.tqe[m] = t.tqe[m]
  BY SetKeeps
<1> HIDE DEF r
<1>2. Pending(r) = WithTimer(Pending(t), c, [time |-> time, interval |-> Inherited(t, c)])
  BY <1>1, PendingWith
<1> QED BY <1>2 DEF r

(* The interval is set with the timer.                                     *)
LEMMA PendingSetInterval ==
  ASSUME NEW t, Kept(t), NEW c \in Clients, NEW time \in Nat, NEW interval \in Intervals
  PROVE  LET r == [timer_set(t, c, time) EXCEPT !.tqe[Taken(t, c)].interval = interval]
         IN  /\ Kept(r)
             /\ Pending(r) = WithTimer(Pending(t), c, [time |-> time, interval |-> interval])
<1> DEFINE s == timer_set(t, c, time)
           n == Taken(t, c)
           r == [s EXCEPT !.tqe[n].interval = interval]
<1>1. /\ Kept(s)
      /\ n \notin Members(Unlinked(t, c))
      /\ Members(s.timerQ) = Members(Unlinked(t, c)) \cup {n}
      /\ DOMAIN s.tqe = DOMAIN t.tqe \cup {n}
      /\ s.tqe[n] = [client |-> c, time |-> time, interval |-> Inherited(t, c)]
      /\ \A m \in DOMAIN t.tqe : m # n => s.tqe[m] = t.tqe[m]
  BY SetKeeps
<1> HIDE DEF s, n
<1>2. /\ Kept(r) /\ r.timerQ = s.timerQ
      /\ r.tqe[n] = [client |-> s.tqe[n].client, time |-> s.tqe[n].time, interval |-> interval]
      /\ \A m \in DOMAIN s.tqe : m # n => r.tqe[m] = s.tqe[m]
  BY <1>1, IntervalKeeps
<1> HIDE DEF r
<1>3. /\ r.tqe[n] = [client |-> c, time |-> time, interval |-> interval]
      /\ \A m \in DOMAIN t.tqe : m # n => r.tqe[m] = t.tqe[m]
      /\ Members(r.timerQ) = Members(Unlinked(t, c)) \cup {n}
  BY <1>1, <1>2
<1>4. Pending(r) = WithTimer(Pending(t), c, [time |-> time, interval |-> interval])
  BY <1>1, <1>2, <1>3, PendingWith
<1> QED BY <1>2, <1>4 DEF r, s, n
----------------------------------------------------------------------------
(* The timers' calls are those of the service.                             *)

NoIntervals(t) == \A n \in DOMAIN t.tqe : t.tqe[n].interval = 0

TimersOk ==
  /\ Kept(timers) /\ ticks \in Nat
  /\ api # "itimer" => NoIntervals(timers)
  /\ client \in Clients \cup {Nobody} /\ (pc # "timerHandler" => client = Nobody)

(* Without an interval in any TQE timer_set finds none.                    *)
LEMMA SetWithoutInterval ==
  ASSUME NEW t, Kept(t), NoIntervals(t), NEW c \in Clients, NEW time \in Nat
  PROVE  Inherited(t, c) = 0 /\ NoIntervals(timer_set(t, c, time))
<1> DEFINE r == timer_set(t, c, time)
           n == Taken(t, c)
<1>1. Inherited(t, c) = 0
  BY DEF Inherited, NoIntervals
<1>2. /\ DOMAIN r.tqe = DOMAIN t.tqe \cup {n}
      /\ r.tqe[n] = [client |-> c, time |-> time, interval |-> Inherited(t, c)]
      /\ \A m \in DOMAIN t.tqe : m # n => r.tqe[m] = t.tqe[m]
  BY SetKeeps
<1> HIDE DEF r, n
<1>3. NoIntervals(r)
  BY <1>1, <1>2 DEF NoIntervals
<1> QED BY <1>1, <1>3 DEF r

(* A timer is set without an interval.                                     *)
LEMMA SetTimerServes ==
  ASSUME TimersOk, NEW c \in Clients, NEW d \in Delays, SetTimer(c, d)
  PROVE  TimersOk' /\ Service!Set
<1> DEFINE time == ticks + d
           p == Pending(timers)
<1>1. Kept(timers) /\ ticks \in Nat /\ d \in Nat /\ time \in Nat
  BY LoopAssumption DEF TimersOk
<1>2. /\ timers' = timer_set(timers, c, time) /\ UNCHANGED <<pc, client, ticks>>
      /\ api # "itimer" /\ api' # "itimer" /\ NoIntervals(timers)
  BY DEF SetTimer, TimerCall, Call, TimersOk
<1> HIDE DEF time
<1>3. Kept(timers') /\ NoIntervals(timers')
  BY <1>1, <1>2, SetKeeps, SetWithoutInterval
<1>4. TimersOk'
  BY <1>2, <1>3 DEF TimersOk
<1> DEFINE timer == [time |-> time, interval |-> 0]
           q == Pending(timers')
<1>5. q = WithTimer(p, c, timer)
  <2>1. Inherited(timers, c) = 0
    BY <1>1, <1>2, SetWithoutInterval
  <2>2. Pending(timer_set(timers, c, time)) =
          WithTimer(Pending(timers), c, [time |-> time, interval |-> Inherited(timers, c)])
    BY <1>1, PendingSet
  <2> QED BY <1>2, <2>1, <2>2
<1> HIDE DEF q, p
<1>6. c \in DOMAIN q /\ q[c] = timer /\ timer \in [time : Nat, interval : Intervals \cup {0}]
      /\ timer.interval = 0
  BY <1>1, <1>5, HasTimer
<1> HIDE DEF timer
<1> QED BY <1>2, <1>4, <1>5, <1>6 DEF Service!Set, Service!With, WithTimer, p, q

(* Or with one.                                                            *)
LEMMA SetIntervalServes ==
  ASSUME TimersOk, NEW c \in Clients, NEW d \in Delays, NEW interval \in Intervals,
         notify_set_itimer_func(c, d, interval)
  PROVE  TimersOk' /\ Service!Set
<1> DEFINE time == ticks + d
           p == Pending(timers)
           r == [timer_set(timers, c, time) EXCEPT !.tqe[Taken(timers, c)].interval = interval]
<1>1. Kept(timers) /\ ticks \in Nat /\ d \in Nat /\ time \in Nat
  BY LoopAssumption DEF TimersOk
<1>2. /\ timers' = r /\ UNCHANGED <<pc, client, ticks>> /\ api' = "itimer"
  BY DEF notify_set_itimer_func, TimerCall, Call
<1> HIDE DEF time
<1> DEFINE timer == [time |-> time, interval |-> interval]
           q == Pending(timers')
<1>3. Kept(r) /\ Pending(r) = WithTimer(p, c, timer)
  BY <1>1, PendingSetInterval
<1> HIDE DEF r
<1>4. TimersOk'
  BY <1>2, <1>3 DEF TimersOk
<1>5. q = WithTimer(p, c, timer)
  BY <1>2, <1>3
<1> HIDE DEF q, p
<1>6. c \in DOMAIN q /\ q[c] = timer /\ timer \in [time : Nat, interval : Intervals \cup {0}]
  BY <1>1, <1>5, HasTimer
<1> HIDE DEF timer
<1> QED BY <1>2, <1>4, <1>5, <1>6 DEF Service!Set, Service!With, WithTimer, p, q

(* A timer is cancelled, or there was none.                                *)
LEMMA CancelServes ==
  ASSUME TimersOk, NEW c \in Clients, CancelTimer(c)
  PROVE  /\ TimersOk'
         /\ \/ Service!Cancel
            \/ UNCHANGED <<ticks, (api # "itimer"), Pending(timers), client>>
<1> DEFINE p == Pending(timers)
           q == Pending(timers')
<1>1. Kept(timers)
  BY DEF TimersOk
<1>2. /\ timers' = timer_cancel(timers, c) /\ UNCHANGED <<pc, client, ticks>>
      /\ (api' # "itimer") = (api # "itimer")
  BY DEF CancelTimer, TimerCall, Call
<1>3. Kept(timers') /\ timers'.tqe = timers.tqe
  BY <1>1, <1>2, CancelKeeps
<1>4. TimersOk'
  BY <1>2, <1>3 DEF TimersOk, NoIntervals
<1>5. q = WithoutTimer(p, c) /\ p = [e \in DOMAIN p |-> p[e]]
  BY <1>1, <1>2, PendingWithout, PendingAre
<1> HIDE DEF p, q
<1>6. CASE c \in DOMAIN p
  BY <1>2, <1>4, <1>5, <1>6 DEF Service!Cancel, Service!Without, WithoutTimer, p, q
<1>7. CASE c \notin DOMAIN p
  <2>1. q = p
    <3>1. DOMAIN p \ {c} = DOMAIN p
      BY <1>7
    <3> QED BY <1>5, <3>1 DEF WithoutTimer
  <2> QED BY <1>2, <1>4, <2>1 DEF p, q
<1> QED BY <1>6, <1>7

(* timer_get calls the client whose timer is due first.                    *)
LEMMA FireTimerServes ==
  ASSUME TimersOk, FireTimer
  PROVE  TimersOk' /\ Service!Fire
<1> DEFINE n == timers.timerQ[1]
           c == timers.tqe[n].client
           f == timer_cancel(timers, c)
           next == timers.tqe[n].time + timers.tqe[n].interval
           p == Pending(timers)
           q == Pending(timers')
           timer == [time |-> timers.tqe[n].time, interval |-> timers.tqe[n].interval]
<1>1. Kept(timers) /\ timers.timerQ # <<>> /\ pc = "timers" /\ client = Nobody /\ ticks \in Nat
  BY DEF TimersOk, FireTimer, HeadExpired, timer_pending
<1>2. /\ n \in Members(timers.timerQ) /\ n = Head(timers.timerQ)
      /\ \A m \in Members(timers.timerQ) : timers.tqe[n].time <= timers.tqe[m].time
      /\ Expire(timers) = IF timers.tqe[n].interval = 0 THEN f ELSE timer_set(f, c, next)
      /\ Taken(f, c) = n /\ Inherited(f, c) = timers.tqe[n].interval
      /\ Unlinked(f, c) = f.timerQ
  BY <1>1, ExpireIs
<1> HIDE DEF n
<1>3. /\ timers' = Expire(timers) /\ pc' = "timerHandler" /\ client' = c
      /\ timers.tqe[n].time <= ticks /\ UNCHANGED <<ticks, api>>
  BY <1>2 DEF FireTimer, HeadExpired, LoopStays
<1>4. n \in DOMAIN timers.tqe
  BY <1>1, <1>2 DEF Kept, Placed
<1>5. c \in Clients /\ timers.tqe[n].time \in Nat /\ timers.tqe[n].interval \in Nat /\ next \in Nat
  <2>1. c \in Clients /\ timers.tqe[n].time \in Nat /\ timers.tqe[n].interval \in Intervals \cup {0}
    BY <1>1, <1>4, TqeFields DEF Kept
  <2>2. Intervals \subseteq Nat
    BY LoopAssumption
  <2> HIDE DEF c, f, next, p, q, timer
  <2>3. timers.tqe[n].interval \in Nat
    <3> DEFINE x == timers.tqe[n].interval
    <3>1. x \in Intervals \cup {0}
      BY <2>1
    <3> HIDE DEF x
    <3>2. x \in Nat
      BY <2>2, <3>1
    <3> QED BY <3>2 DEF x
  <2>4. next \in Nat
    BY <2>1, <2>3 DEF next
  <2> QED BY <2>1, <2>3, <2>4
<1>6. Kept(f) /\ f.tqe = timers.tqe /\ Pending(f) = WithoutTimer(p, c)
  BY <1>1, CancelKeeps, PendingWithout
<1> HIDE DEF c, f, next
<1>7. Kept(timer_set(f, c, next))
      /\ Pending(timer_set(f, c, next)) =
           WithTimer(Pending(f), c, [time |-> next, interval |-> timers.tqe[n].interval])
  <2>1. Kept(timer_set(f, c, next))
    BY <1>5, <1>6, SetKeeps
  <2>2. Pending(timer_set(f, c, next)) =
          WithTimer(Pending(f), c, [time |-> next, interval |-> Inherited(f, c)])
    BY <1>5, <1>6, PendingSet
  <2>3. Inherited(f, c) = timers.tqe[n].interval
    BY <1>2
  <2> HIDE DEF p, q, timer
  <2> QED BY <2>1, <2>2, <2>3
<1>8. TimersOk'
  <2>1. Kept(timers')
    BY <1>2, <1>3, <1>6, <1>7
  <2>2. ASSUME api # "itimer"
        PROVE  NoIntervals(timers')
    <3>1. NoIntervals(timers)
      BY <2>2 DEF TimersOk
    <3>2. timers.tqe[n].interval = 0 /\ timers' = f
      BY <1>2, <1>3, <1>4, <3>1 DEF NoIntervals
    <3> QED BY <1>6, <3>1, <3>2 DEF NoIntervals
  <2> QED BY <1>1, <1>3, <1>5, <2>1, <2>2 DEF TimersOk
<1>9. /\ c \in DOMAIN p /\ p[c] = timer
      /\ \A e \in DOMAIN p : timer.time <= p[e].time
      /\ p = [e \in DOMAIN p |-> p[e]]
  <2>1. /\ DOMAIN p = {timers.tqe[m].client : m \in Members(timers.timerQ)}
        /\ p = [e \in DOMAIN p |-> p[e]]
        /\ \A m \in Members(timers.timerQ) :
             p[timers.tqe[m].client] = [time |-> timers.tqe[m].time, interval |-> timers.tqe[m].interval]
    BY <1>1, PendingAre
  <2> HIDE DEF p
  <2>2. c \in DOMAIN p /\ p[c] = timer
    BY <1>2, <2>1 DEF c
  <2>3. ASSUME NEW e \in DOMAIN p
        PROVE  timer.time <= p[e].time
    <3>1. PICK m \in Members(timers.timerQ) : e = timers.tqe[m].client
      BY <2>1
    <3>2. p[e] = [time |-> timers.tqe[m].time, interval |-> timers.tqe[m].interval]
      BY <2>1, <3>1
    <3>3. p[e].time = timers.tqe[m].time
      BY <3>2
    <3> QED BY <1>2, <3>3
  <2> QED BY <2>1, <2>2, <2>3
<1>10. q = IF timer.interval = 0 THEN WithoutTimer(p, c)
           ELSE WithTimer(p, c, [timer EXCEPT !.time = @ + timer.interval])
  <2>1. CASE timers.tqe[n].interval = 0
    BY <1>2, <1>3, <1>6, <2>1
  <2>2. CASE timers.tqe[n].interval # 0
    <3> DEFINE again == [time |-> next, interval |-> timers.tqe[n].interval]
    <3>1. q = WithTimer(WithoutTimer(p, c), c, again)
      BY <1>2, <1>3, <1>6, <1>7, <2>2
    <3>2. again = [timer EXCEPT !.time = @ + timer.interval]
      BY <1>5 DEF next
    <3>3. timer.interval # 0
      BY <2>2
    <3> HIDE DEF again, q, p, timer
    <3>4. q = WithTimer(p, c, again)
      BY <3>1, SetAfterOut
    <3> QED BY <3>2, <3>3, <3>4
  <2> QED BY <2>1, <2>2
<1>11. p[c].time <= ticks
  <2> HIDE DEF p
  <2> QED BY <1>3, <1>9
<1> HIDE DEF timer, p, q
<1>12. Service!Fire
  <2>1. c \in DOMAIN p /\ p[c] = timer /\ timer.time <= ticks
    BY <1>9, <1>11
  <2>2. /\ client = Nobody /\ client' = c
        /\ UNCHANGED <<ticks, (api # "itimer")>>
    BY <1>1, <1>3
  <2>3. \A e \in DOMAIN p : timer.time <= p[e].time
    BY <1>9
  <2>4. q = IF timer.interval = 0 THEN Service!Without(c)
            ELSE Service!With(c, [timer EXCEPT !.time = @ + timer.interval])
    BY <1>10 DEF Service!With, Service!Without, WithTimer, WithoutTimer, p
  <2> QED BY <2>1, <2>2, <2>3, <2>4 DEF Service!Fire, p, q
<1> QED BY <1>8, <1>12

----------------------------------------------------------------------------
(* The descriptors: the list, the set and the greatest of them.             *)

Listed(list, set, max) ==
  /\ list \in Seq(Fds) /\ Differ(list) /\ set = Members(list)
  /\ max \in {0} \cup set /\ \A f \in set : f <= max

(* A number of the set that none exceeds is its greatest.                  *)
LEMMA GreatestIs ==
  ASSUME NEW S, S \subseteq Nat, NEW x \in S, \A y \in S : y <= x
  PROVE  Max(S) = x
<1>1. \E z \in S : \A y \in S : z >= y
  <2>1. \A y \in S : x >= y
    OBVIOUS
  <2> QED BY <2>1
<1>2. Max(S) \in S /\ \A y \in S : Max(S) >= y
  BY <1>1, Zenon DEF Max
<1> DEFINE m == Max(S)
<1> HIDE DEF m
<1>3. m \in S /\ m >= x
  BY <1>2 DEF m
<1>4. m <= x /\ m \in Nat /\ x \in Nat
  BY <1>3
<1>5. m = x
  BY <1>3, <1>4
<1> QED BY <1>5 DEF m

(* There is one if the numbers are bounded.                                *)
LEMMA GreatestExists ==
  ASSUME NEW S, S \subseteq Nat, S # {}, NEW b \in Nat, \A y \in S : y <= b
  PROVE  Max(S) \in S /\ \A y \in S : y <= Max(S)
<1> DEFINE B == {k \in Nat : \A y \in S : y <= k}
<1>1. b \in B /\ B \subseteq Nat
  OBVIOUS
<1> HIDE DEF B
<1>2. \E k \in B : \A j \in B : k <= j
  BY <1>1, Least
<1> SUFFICES ASSUME NEW m \in B, \A j \in B : m <= j
             PROVE  Max(S) \in S /\ \A y \in S : y <= Max(S)
  BY <1>2
<1>3. m \in Nat /\ \A y \in S : y <= m
  BY DEF B
<1>4. m \in S
  <2> SUFFICES ASSUME m \notin S PROVE FALSE
    OBVIOUS
  <2>1. \A y \in S : y < m
    <3> SUFFICES ASSUME NEW y \in S PROVE y < m
      OBVIOUS
    <3>1. y \in Nat /\ m \in Nat /\ y <= m /\ y # m
      BY <1>3
    <3> QED BY <3>1
  <2>2. PICK y \in S : TRUE
    OBVIOUS
  <2>3. m \in Nat /\ y \in Nat /\ y < m
    BY <1>3, <2>1, <2>2
  <2>4. m - 1 \in Nat
    BY <2>3
  <2>5. ASSUME NEW z \in S
        PROVE  z <= m - 1
    <3>1. z \in Nat /\ z < m
      BY <2>1
    <3> QED BY <2>3, <3>1
  <2>6. m - 1 \in B
    BY <2>4, <2>5 DEF B
  <2>7. m <= m - 1
    BY <2>6
  <2> QED BY <2>3, <2>7
<1>5. m \in S /\ \A y \in S : y <= m
  BY <1>3, <1>4
<1>6. Max(S) = m
  BY <1>5, GreatestIs
<1> QED BY <1>5, <1>6

(* Without the element at one place the others differ.                     *)
LEMMA DifferRemoved ==
  ASSUME NEW S, NEW s \in Seq(S), Differ(s), NEW p \in 1..Len(s)
  PROVE  Differ(RemoveAt(s, p)) /\ Members(RemoveAt(s, p)) = Members(s) \ {s[p]}
<1> DEFINE r == RemoveAt(s, p)
<1>1. /\ r \in Seq(S) /\ Len(r) = Len(s) - 1 /\ Len(s) \in Nat
      /\ \A k \in 1..Len(r) : r[k] = IF k < p THEN s[k] ELSE s[k + 1]
  BY Removed
<1>2. Members(r) = Members(s) \ {s[p]}
  BY RemovedMembers DEF Differ
<1> HIDE DEF r
<1>3. ASSUME NEW k \in 1..Len(r), NEW j \in 1..Len(r), r[k] = r[j]
      PROVE  k = j
  <2> DEFINE a == IF k < p THEN k ELSE k + 1
             c == IF j < p THEN j ELSE j + 1
  <2>1. a \in 1..Len(s) /\ c \in 1..Len(s) /\ r[k] = s[a] /\ r[j] = s[c]
    BY <1>1
  <2>2. a = c
    <3> HIDE DEF a, c
    <3> QED BY <1>3, <2>1 DEF Differ
  <2>3. k \in Nat /\ j \in Nat /\ p \in Nat
    BY <1>1
  <2> QED BY <2>2, <2>3
<1> QED BY <1>2, <1>3 DEF Differ, r

(* A handler more.                                                         *)
LEMMA ListedInstall ==
  ASSUME NEW list, NEW set, NEW max, Listed(list, set, max),
         NEW f \in Fds, f \notin ToSet(list)
  PROVE  Listed(<<f>> \o list, set \cup {f}, IF f > max THEN f ELSE max)
<1> DEFINE e == <<f>> \o list
<1>1. list \in Seq(Fds) /\ Differ(list) /\ set = Members(list)
  BY DEF Listed
<1>2. e \in Seq(Fds) /\ Members(e) = Members(list) \cup {f}
  BY <1>1, InFront
<1>3. Differ(e)
  <2>1. f \notin Members(list)
    BY <1>1, MembersAre
  <2> QED BY <1>1, <2>1, DifferInFront
<1>4. set \subseteq Nat /\ f \in Nat /\ max \in Nat
  <2>1. Members(list) \subseteq Fds
    BY <1>1, MembersAre
  <2>2. Fds \subseteq Nat
    BY LoopAssumption
  <2>3. max \in {0} \cup set
    BY DEF Listed
  <2>4. 0 \in Nat
    OBVIOUS
  <2> QED BY <1>1, <2>1, <2>2, <2>3, <2>4, Zenon
<1> HIDE DEF e
<1> DEFINE new == IF f > max THEN f ELSE max
<1>5. new \in {0} \cup (set \cup {f})
  BY DEF Listed
<1>6. \A g \in set \cup {f} : g <= new
  <2> SUFFICES ASSUME NEW g \in set \cup {f} PROVE g <= new
    OBVIOUS
  <2>1. CASE g = f
    BY <1>4, <2>1
  <2>2. CASE g \in set
    <3>1. g \in Nat /\ g <= max
      BY <1>4, <2>2 DEF Listed
    <3> QED BY <1>4, <3>1
  <2> QED BY <2>1, <2>2
<1> HIDE DEF new
<1>7. Listed(e, set \cup {f}, new)
  BY <1>1, <1>2, <1>3, <1>5, <1>6 DEF Listed
<1> QED BY <1>7 DEF e, new

(* Or a handler less.                                                      *)
LEMMA ListedRemove ==
  ASSUME NEW list, NEW set, NEW max, Listed(list, set, max),
         NEW f \in Fds, f \in ToSet(list)
  PROVE  LET r == RemoveAt(list, Min({k \in DOMAIN list : list[k] = f}))
         IN  Listed(r, set \ {f}, set_max_fd(r))
<1>1. list \in Seq(Fds) /\ Differ(list) /\ set = Members(list) /\ max \in {0} \cup set
      /\ \A g \in set : g <= max
  BY DEF Listed
<1>2. DOMAIN list = 1..Len(list) /\ ToSet(list) = Members(list)
      /\ Members(list) \subseteq Fds /\ Len(list) \in Nat
  BY <1>1, MembersAre
<1>3. PICK p \in 1..Len(list) : list[p] = f
  BY <1>2, MemberPlace
<1>4. {k \in DOMAIN list : list[k] = f} = {p}
  BY <1>1, <1>2, <1>3 DEF Differ
<1>5. Min({k \in DOMAIN list : list[k] = f}) = p
  BY <1>2, <1>4, LeastOfOne
<1> DEFINE r == RemoveAt(list, p)
<1>6. r \in Seq(Fds)
  BY <1>1, Removed
<1>7. Differ(r) /\ Members(r) = set \ {f}
  BY <1>1, <1>3, DifferRemoved
<1> HIDE DEF r
<1>8. ToSet(r) = set \ {f}
  BY <1>6, <1>7, MembersAre
<1> DEFINE S == {0} \cup (set \ {f})
<1>9. S \subseteq Nat /\ S # {} /\ max \in Nat /\ \A g \in S : g <= max
  <2>1. Fds \subseteq Nat
    BY LoopAssumption
  <2>2. set \subseteq Nat /\ max \in Nat
    <3>1. 0 \in Nat
      OBVIOUS
    <3> QED BY <1>1, <1>2, <2>1, <3>1, Zenon
  <2> QED BY <1>1, <2>2
<1> HIDE DEF S
<1>10. Max(S) \in S /\ \A g \in S : g <= Max(S)
  BY <1>9, GreatestExists
<1>11. set_max_fd(r) = Max(S)
  BY <1>8 DEF set_max_fd, S
<1>12. Listed(r, set \ {f}, set_max_fd(r))
  <2> DEFINE m == set_max_fd(r)
  <2>1. m \in {0} \cup (set \ {f}) /\ \A g \in set \ {f} : g <= m
    BY <1>10, <1>11 DEF S
  <2> HIDE DEF m
  <2>2. Listed(r, set \ {f}, m)
    BY <1>6, <1>7, <2>1 DEF Listed
  <2> QED BY <2>2 DEF m
<1> QED BY <1>5, <1>12 DEF r

----------------------------------------------------------------------------
(* The loop: every step of it keeps the timers and the descriptors, and is  *)
(* a step of the timers' service or none.                                   *)

DescriptorsOk == Listed(el, Readfds, max_fd)

(* While the timers' handlers run, what select is to be asked about is      *)
(* within the limit that was passed to timer_get_pending.                   *)
SelectOk ==
  /\ nfds \in Nat
  /\ pc \in {"timers", "timerHandler"} => readfds \subseteq 0..nfds

LoopInv == TimersOk /\ DescriptorsOk /\ SelectOk

Served == [Service!Next]_<<ticks, (api # "itimer"), Pending(timers), client>>

StopIsIdle ==
  stopped' /\ ~stopped /\ ~InHandler => ~timer_pending(timers) /\ readfds \subseteq {0}

(* A call of one of the timers' functions.                                 *)
LEMMA TimerCallStep ==
  ASSUME LoopInv, NEW c \in Clients,
         \/ CancelTimer(c)
         \/ \E d \in Delays : \/ SetTimer(c, d)
                              \/ \E interval \in Intervals : notify_set_itimer_func(c, d, interval)
  PROVE  LoopInv' /\ Served /\ StopIsIdle
<1>1. /\ UNCHANGED <<el, Readfds, max_fd, stopped, pc, readfds, nfds>>
      /\ TimersOk
  BY DEF LoopInv, CancelTimer, SetTimer, notify_set_itimer_func, TimerCall, Call
<1>2. TimersOk' /\ Served
  <2>1. CASE CancelTimer(c)
    BY <1>1, <2>1, CancelServes DEF Served, Service!Next
  <2>2. ASSUME NEW d \in Delays, SetTimer(c, d)
        PROVE  TimersOk' /\ Served
    BY <1>1, <2>2, SetTimerServes DEF Served, Service!Next
  <2>3. ASSUME NEW d \in Delays, NEW interval \in Intervals, notify_set_itimer_func(c, d, interval)
        PROVE  TimersOk' /\ Served
    BY <1>1, <2>3, SetIntervalServes DEF Served, Service!Next
  <2> QED BY <2>1, <2>2, <2>3
<1>3. DescriptorsOk' /\ SelectOk'
  BY <1>1 DEF LoopInv, DescriptorsOk, SelectOk
<1> QED BY <1>1, <1>2, <1>3 DEF LoopInv, StopIsIdle

(* A handler is installed or removed, or the loop is to stop.              *)
LEMMA HandlerCallStep ==
  ASSUME LoopInv, notify_stop \/ \E f \in Fds : InstallHandler(f) \/ RemoveHandler(f)
  PROVE  LoopInv' /\ Served /\ StopIsIdle
<1>1. UNCHANGED <<timers, pc, client, readfds, nfds, ticks, api>> /\ InHandler
  BY DEF notify_stop, InstallHandler, RemoveHandler, Call
<1>2. TimersOk' /\ SelectOk' /\ Served /\ StopIsIdle
  BY <1>1 DEF LoopInv, TimersOk, SelectOk, Served, StopIsIdle
<1>3. DescriptorsOk'
  <2>1. CASE notify_stop
    BY <2>1 DEF LoopInv, DescriptorsOk, notify_stop
  <2>2. ASSUME NEW f \in Fds, InstallHandler(f)
        PROVE  DescriptorsOk'
    <3>1. Listed(<<f>> \o el, Readfds \cup {f}, IF f > max_fd THEN f ELSE max_fd)
      BY <2>2, ListedInstall DEF LoopInv, DescriptorsOk, InstallHandler
    <3> QED BY <2>2, <3>1 DEF DescriptorsOk, InstallHandler
  <2>3. ASSUME NEW f \in Fds, RemoveHandler(f)
        PROVE  DescriptorsOk'
    <3> DEFINE r == RemoveAt(el, Min({k \in DOMAIN el : el[k] = f}))
    <3>1. Listed(r, Readfds \ {f}, set_max_fd(r))
      BY <2>3, ListedRemove DEF LoopInv, DescriptorsOk, RemoveHandler
    <3>2. el' = r /\ Readfds' = Readfds \ {f} /\ max_fd' = set_max_fd(r)
      BY <2>3 DEF RemoveHandler
    <3> QED BY <3>1, <3>2 DEF DescriptorsOk
  <2> QED BY <2>1, <2>2, <2>3
<1> QED BY <1>2, <1>3 DEF LoopInv

(* notify_start takes a step of its own.                                   *)
LEMMA NotifyStartStep ==
  ASSUME LoopInv,
         Start \/ Round \/ Leave \/ FireTimer \/ timer_get_pending
           \/ Select \/ SelectFails \/ Dispatch \/ RoundDone \/ HandlerReturns
  PROVE  LoopInv' /\ Served /\ StopIsIdle
<1>1. DescriptorsOk' /\ UNCHANGED <<max_fd, api>>
  BY DEF LoopInv, DescriptorsOk, Start, Round, Leave, FireTimer, timer_get_pending, Select,
         SelectFails, Dispatch, RoundDone, HandlerReturns, LoopStays
<1>2. CASE FireTimer
  <2>1. TimersOk' /\ Served
    BY <1>2, FireTimerServes DEF LoopInv, Served, Service!Next
  <2>2. SelectOk' /\ StopIsIdle
    BY <1>2 DEF FireTimer, LoopInv, SelectOk, StopIsIdle
  <2> QED BY <1>1, <2>1, <2>2 DEF LoopInv
<1>3. CASE HandlerReturns
  <2>1. UNCHANGED <<timers, stopped, readfds, nfds, ticks>> /\ client' = Nobody
        /\ pc' \in {"timers", "dispatch"} /\ (pc' = "timers" => pc = "timerHandler")
    BY <1>3 DEF HandlerReturns
  <2>2. TimersOk' /\ SelectOk'
    BY <1>1, <2>1 DEF LoopInv, TimersOk, SelectOk
  <2>3. Service!Return
    BY <1>1, <2>1 DEF Service!Return
  <2>4. StopIsIdle
    BY <2>1, Zenon DEF StopIsIdle
  <2> QED BY <1>1, <2>2, <2>3, <2>4 DEF LoopInv, Served, Service!Next
<1>4. CASE Start \/ Round \/ Leave \/ timer_get_pending
             \/ Select \/ SelectFails \/ Dispatch \/ RoundDone
  <2>1. UNCHANGED <<timers, client, ticks>> /\ pc # "timerHandler" /\ pc' # "timerHandler"
    BY <1>4 DEF Start, Round, Leave, timer_get_pending, Select, SelectFails, Dispatch, RoundDone
  <2>2. TimersOk' /\ Served
    BY <1>1, <2>1 DEF LoopInv, TimersOk, Served
  <2>3. SelectOk'
    <3>1. CASE Round
      <4>1. readfds' = Readfds /\ nfds' = max_fd
        BY <3>1 DEF Round
      <4>2. Fds \subseteq Nat
        BY LoopAssumption
      <4>3. Readfds \subseteq Fds /\ max_fd \in {0} \cup Readfds /\ \A f \in Readfds : f <= max_fd
        BY MembersAre DEF LoopInv, DescriptorsOk, Listed
      <4>4. max_fd \in Nat /\ \A f \in Readfds : f \in 0..max_fd
        BY <4>2, <4>3
      <4> QED BY <4>1, <4>4 DEF SelectOk
    <3>2. CASE ~Round
      BY <1>4, <3>2 DEF LoopInv, SelectOk, Start, Leave, timer_get_pending, Select, SelectFails,
                        Dispatch, RoundDone
    <3> QED BY <3>1, <3>2
  <2>4. StopIsIdle
    <3>1. CASE timer_get_pending
      <4>1. pc = "timers" /\ (stopped' /\ ~stopped => ~timer_pending(timers) /\ nfds = 0)
        BY <3>1, Zenon DEF timer_get_pending
      <4>2. readfds \subseteq 0..nfds
        BY <4>1 DEF LoopInv, SelectOk
      <4>3. nfds = 0 => readfds \subseteq {0}
        BY <4>2
      <4> QED BY <4>1, <4>3, Zenon DEF StopIsIdle
    <3>2. CASE ~timer_get_pending
      <4>1. stopped' = FALSE \/ stopped' = stopped
        BY <1>4, <3>2 DEF Start, Round, Leave, Select, SelectFails, Dispatch, RoundDone
      <4> QED BY <4>1, Zenon DEF StopIsIdle
    <3> QED BY <3>1, <3>2
  <2> QED BY <1>1, <2>2, <2>3, <2>4 DEF LoopInv
<1> QED BY <1>2, <1>3, <1>4

(* Every step of Parts.                                                    *)
LEMMA LoopStep == LoopInv /\ [Next]_partsVars => LoopInv' /\ Served /\ [StopIsIdle]_loopVars
<1> SUFFICES ASSUME LoopInv, [Next]_partsVars
             PROVE  LoopInv' /\ Served /\ [StopIsIdle]_loopVars
  OBVIOUS
<1>1. CASE OthersStay("loop") /\ LoopNext
  <2>1. CASE Pass
    <3>1. UNCHANGED <<timers, el, Readfds, max_fd, stopped, pc, client, readfds, nfds, api>>
          /\ ticks' = ticks + 1
      BY <2>1 DEF Pass, LoopStays
    <3>2. ticks \in Nat /\ ticks' \in Nat /\ ticks' > ticks
      BY <3>1 DEF LoopInv, TimersOk
    <3>3. LoopInv' /\ StopIsIdle
      BY <3>1, <3>2 DEF LoopInv, TimersOk, DescriptorsOk, SelectOk, StopIsIdle
    <3>4. Service!Pass
      BY <3>1, <3>2 DEF Service!Pass
    <3> QED BY <3>3, <3>4 DEF Served, Service!Next
  <2>2. CASE ~Pass
    BY <1>1, <2>2, TimerCallStep, HandlerCallStep, NotifyStartStep DEF LoopNext
  <2> QED BY <2>1, <2>2
<1>2. CASE UNCHANGED loopVars
  BY <1>2 DEF loopVars, LoopInv, TimersOk, DescriptorsOk, SelectOk, Served
<1>3. (OthersStay("loop") /\ LoopNext) \/ UNCHANGED loopVars
  BY DEF Next, OthersStay, partsVars
<1> QED BY <1>1, <1>2, <1>3

(* The program before it has called anything.                              *)
LEMMA LoopBegins == Init => LoopInv /\ Service!Init
<1> SUFFICES ASSUME LoopInit PROVE LoopInv /\ Service!Init
  BY DEF Init
<1>1. /\ timers.timerQ = <<>> /\ timers.freeTQEQ = <<>> /\ DOMAIN timers.tqe = {}
      /\ timers = [tqe |-> timers.tqe, timerQ |-> <<>>, freeTQEQ |-> <<>>]
      /\ timers.tqe = [n \in DOMAIN timers.tqe |-> timers.tqe[n]]
  BY DEF LoopInit
<1>2. Members(<<>>) = {}
  BY DEF Members
<1>3. Kept(timers)
  <2>1. Typed(timers)
    BY <1>1 DEF Typed
  <2>2. Queued(timers) /\ Freed(timers)
    BY <1>1 DEF Queued, Freed, OnePerClient, InOrder, Differ
  <2>3. Placed(timers)
    BY <1>1, <1>2 DEF Placed
  <2> QED BY <2>1, <2>2, <2>3 DEF Kept
<1>4. TimersOk
  BY <1>1, <1>3 DEF LoopInit, TimersOk, NoIntervals
<1>5. DescriptorsOk /\ SelectOk
  BY <1>2 DEF LoopInit, DescriptorsOk, Listed, Differ, SelectOk
<1>6. Pending(timers) = <<>>
  <2> DEFINE p == Pending(timers)
  <2>1. DOMAIN p = {timers.tqe[n].client : n \in Members(timers.timerQ)}
        /\ p = [c \in DOMAIN p |-> p[c]]
    BY <1>3, PendingAre
  <2> HIDE DEF p
  <2>2. Members(timers.timerQ) = {}
    BY <1>1, <1>2
  <2>3. DOMAIN p = {}
    BY <2>1, <2>2
  <2>4. p = <<>>
    BY <2>1, <2>3
  <2> QED BY <2>4 DEF p
<1>7. Service!Init
  BY <1>6 DEF LoopInit, Service!Init
<1> QED BY <1>4, <1>5, <1>7 DEF LoopInv

(* Every TQE is in one place of one of the two lists, whichever calls the  *)
(* program and its handlers make.                                          *)
THEOREM TQEsInOnePlace == Spec => []TQEsInOneList
<1>1. Init => LoopInv
  BY LoopBegins
<1>2. LoopInv /\ [Next]_partsVars => LoopInv'
  BY LoopStep
<1>3. LoopInv => TQEsInOneList
  <2> SUFFICES ASSUME LoopInv PROVE TQEsInOneList
    OBVIOUS
  <2> DEFINE D == DOMAIN timers.tqe
             q == timers.timerQ
             f == timers.freeTQEQ
             both == q \o f
  <2>1. /\ q \in Seq(D) /\ f \in Seq(D)
        /\ Members(q) \cap Members(f) = {} /\ Members(q) \cup Members(f) = D
        /\ Differ(f) /\ OnePerClient(timers.tqe, q)
    BY DEF LoopInv, TimersOk, Kept, Queued, Freed, Placed
  <2>2. Differ(q)
    BY <2>1 DEF Differ, OnePerClient
  <2> HIDE DEF D, q, f
  <2>3. /\ both \in Seq(D) /\ Len(both) = Len(q) + Len(f)
        /\ Len(q) \in Nat /\ Len(f) \in Nat
        /\ \A k \in 1..Len(q) : both[k] = q[k]
        /\ \A k \in Len(q) + 1..Len(q) + Len(f) : both[k] = f[k - Len(q)]
    BY <2>1, Joined
  <2> HIDE DEF both
  <2>4. ASSUME NEW k \in 1..Len(both), NEW j \in 1..Len(both), both[k] = both[j]
        PROVE  k = j
    <3>1. \A m \in 1..Len(both) :
            \/ m \in 1..Len(q) /\ both[m] = q[m]
            \/ m \in Len(q) + 1..Len(q) + Len(f) /\ both[m] = f[m - Len(q)]
                 /\ m - Len(q) \in 1..Len(f)
      BY <2>3
    <3>2. CASE k \in 1..Len(q) /\ j \in 1..Len(q)
      BY <2>2, <2>3, <2>4, <3>2 DEF Differ
    <3>3. CASE k \notin 1..Len(q) /\ j \notin 1..Len(q)
      <4>1. /\ k - Len(q) \in 1..Len(f) /\ j - Len(q) \in 1..Len(f)
            /\ f[k - Len(q)] = f[j - Len(q)]
        BY <2>4, <3>1, <3>3
      <4>2. k - Len(q) = j - Len(q)
        BY <2>1, <4>1 DEF Differ
      <4> QED BY <2>3, <4>2
    <3>4. ASSUME NEW m \in 1..Len(both), NEW l \in 1..Len(both), m \in 1..Len(q), l \notin 1..Len(q)
          PROVE  both[m] # both[l]
      <4>1. both[m] = q[m] /\ both[l] = f[l - Len(q)] /\ l - Len(q) \in 1..Len(f)
        BY <2>3, <3>1, <3>4
      <4>2. q[m] \in Members(q) /\ f[l - Len(q)] \in Members(f)
        BY <3>4, <4>1, MemberPlace
      <4> QED BY <2>1, <4>1, <4>2
    <3> QED BY <2>4, <3>2, <3>3, <3>4
  <2>5. DOMAIN both = 1..Len(both) /\ ToSet(both) = Members(both)
    BY <2>3, MembersAre
  <2>6. Members(both) = Members(q) \cup Members(f)
    <3>1. \A m \in 1..Len(both) : both[m] \in Members(q) \cup Members(f)
      <4> SUFFICES ASSUME NEW m \in 1..Len(both) PROVE both[m] \in Members(q) \cup Members(f)
        OBVIOUS
      <4>1. CASE m \in 1..Len(q)
        BY <2>3, <4>1, MemberPlace
      <4>2. CASE m \notin 1..Len(q)
        <5>1. m \in Len(q) + 1..Len(q) + Len(f) /\ m - Len(q) \in 1..Len(f)
          BY <2>3, <4>2
        <5> QED BY <2>3, <5>1, MemberPlace
      <4> QED BY <4>1, <4>2
    <3>2. \A m \in 1..Len(q) : q[m] \in Members(both)
      <4> SUFFICES ASSUME NEW m \in 1..Len(q) PROVE q[m] \in Members(both)
        OBVIOUS
      <4>1. m \in 1..Len(both) /\ both[m] = q[m]
        BY <2>3
      <4> QED BY <4>1, MemberPlace
    <3>3. \A m \in 1..Len(f) : f[m] \in Members(both)
      <4> SUFFICES ASSUME NEW m \in 1..Len(f) PROVE f[m] \in Members(both)
        OBVIOUS
      <4>1. /\ m + Len(q) \in Len(q) + 1..Len(q) + Len(f) /\ m + Len(q) \in 1..Len(both)
            /\ (m + Len(q)) - Len(q) = m
        BY <2>3
      <4>2. both[m + Len(q)] = f[m]
        BY <2>3, <4>1
      <4> QED BY <4>1, <4>2, MemberPlace
    <3> QED BY <3>1, <3>2, <3>3 DEF Members
  <2>7. IsInjective(both)
    BY <2>4, <2>5 DEF IsInjective
  <2>8. ToSet(both) = D
    BY <2>1, <2>5, <2>6
  <2> QED BY <2>7, <2>8 DEF TQEsInOneList, both, q, f, D
<1> QED BY <1>1, <1>2, <1>3, PTL DEF Spec

(* The list of handlers, the set that select gets and the greatest         *)
(* descriptor agree, for any descriptors.                                  *)
THEOREM HandlersAgree == Spec => []DescriptorsHaveHandlers
<1>1. Init => LoopInv
  BY LoopBegins
<1>2. LoopInv /\ [Next]_partsVars => LoopInv'
  BY LoopStep
<1>3. LoopInv => DescriptorsHaveHandlers
  <2> SUFFICES ASSUME LoopInv PROVE DescriptorsHaveHandlers
    OBVIOUS
  <2>1. /\ el \in Seq(Fds) /\ Differ(el) /\ Readfds = Members(el)
        /\ max_fd \in {0} \cup Readfds /\ \A f \in Readfds : f <= max_fd
    BY DEF LoopInv, DescriptorsOk, Listed
  <2>2. DOMAIN el = 1..Len(el) /\ ToSet(el) = Members(el) /\ Members(el) \subseteq Fds
    BY <2>1, MembersAre
  <2>3. IsInjective(el)
    BY <2>1, <2>2 DEF IsInjective, Differ
  <2>4. max_fd = Max({0} \cup Readfds)
    <3> DEFINE S == {0} \cup Readfds
    <3>1. Fds \subseteq Nat /\ 0 \in Nat
      BY LoopAssumption
    <3>2. S \subseteq Nat /\ max_fd \in S
      BY <2>1, <2>2, <3>1, Zenon
    <3>3. \A f \in S : f <= max_fd
      <4>1. 0 <= max_fd
        BY <3>2
      <4> QED BY <2>1, <4>1
    <3> HIDE DEF S
    <3>4. Max(S) = max_fd
      BY <3>2, <3>3, GreatestIs
    <3> QED BY <3>4 DEF S
  <2> QED BY <2>1, <2>2, <2>3, <2>4 DEF DescriptorsHaveHandlers
<1> QED BY <1>1, <1>2, <1>3, PTL DEF Spec

(* notify_start asks itself to stop only when nothing is left to wait for. *)
THEOREM StopsWhenIdle == Spec => StopsOnlyWhenIdle
<1>1. Init => LoopInv
  BY LoopBegins
<1>2. LoopInv /\ [Next]_partsVars => LoopInv' /\ [StopIsIdle]_loopVars
  BY LoopStep
<1> QED BY <1>1, <1>2, PTL DEF Spec, StopsOnlyWhenIdle, StopIsIdle

(* The lists of TQEs implement the timers that multimer promises: each     *)
(* client has one at most, which fires in time and in order and, if it has *)
(* an interval, again.                                                     *)
THEOREM ImplementsTimerService == Spec => TimerServiceSpec
<1>1. Init => LoopInv /\ Service!Init
  BY LoopBegins
<1>2. LoopInv /\ [Next]_partsVars
        => LoopInv' /\ [Service!Next]_<<ticks, (api # "itimer"), Pending(timers), client>>
  BY LoopStep DEF Served
<1> QED BY <1>1, <1>2, PTL DEF Spec, TimerServiceSpec, Service!Spec
=============================================================================
