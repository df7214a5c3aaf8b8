-------------------------- MODULE StaticQueueProofs --------------------------
(***************************************************************************)
(* Theorems about StaticQueue: its links make a line of nodes, whatever is *)
(* called, and what it does is what BoundedFifo allows.                    *)
(***************************************************************************)
EXTENDS StaticQueue, SequenceTheorems, FiniteSetTheorems,
        WellFoundedInduction, TLAPS

(***************************************************************************)
(* The line: its nodes are linked to each other, and no other node has a   *)
(* link, though it may count as linked.  The first of the line may be one  *)
(* node that is in the queue no more: after the queue has been emptied     *)
(* enqueueNode() links the new element to wherever m_head still points.    *)
(***************************************************************************)
Line(a, c) ==
    /\ \A i, j \in 1 .. Len(c) : c[i] = c[j] => i = j
    /\ \A i \in 1 .. Len(c) :
         /\ a[c[i]].m_linked
         /\ a[c[i]].m_next = IF i = Len(c) THEN NULL ELSE c[i+1]
         /\ a[c[i]].m_prev = IF i = 1 THEN NULL ELSE c[i-1]
    /\ \A s \in Slot : (\A i \in 1 .. Len(c) : c[i] # s) =>
         a[s].m_next = NULL /\ a[s].m_prev = NULL

\* The queue is the line without its first d nodes.
Ends(c, d, head, tail) ==
    \/ c = <<>> /\ d = 0 /\ tail = NULL
    \/ d < Len(c) /\ tail = c[d+1] /\ head = c[Len(c)]

Queued(c, d) == [i \in 1 .. Len(c) - d |-> c[i+d]]

LinksInv ==
    \E c \in Seq(Slot), d \in {0, 1} :
        Line(m_array, c) /\ Ends(c, d, m_head, m_tail)

(***************************************************************************)
(* The slot found in advance is still free.  A queue that says it is full  *)
(* has none, and has seen none since.                                      *)
(***************************************************************************)
SearchInv ==
    /\ m_next_available_slot \in Slot => ~m_array[m_next_available_slot].m_linked
    /\ m_next_available_slot # N_MEMB => m_slot_index \in Slot
    /\ m_full => m_next_available_slot = NULL /\ Empty(m_array, m_slot_index) = {}

QueueInv == QueueTypeOK /\ LinksInv /\ SearchInv

-----------------------------------------------------------------------------
(***************************************************************************)
(* Induction                                                               *)
(***************************************************************************)

LEMMA LeastElement ==
    ASSUME NEW T, T \subseteq Nat, T # {}
    PROVE  \E n \in T : \A m \in T : n <= m
<1> DEFINE Less == {ss \in Nat \X Nat : ss[1] < ss[2]}
<1>1. IsWellFoundedOn(Less, Nat)
  BY NatLessThanWellFounded DEF OpToRel
<1>2. \A m, n \in Nat : <<m, n>> \in Less <=> m < n
  OBVIOUS
<1> HIDE DEF Less
<1>3. PICK n \in T : \A m \in T : ~(<<m, n>> \in Less)
  BY <1>1, WFMin
<1>4. n \in Nat /\ \A m \in T : m \in Nat /\ ~(m < n)
  BY <1>2, <1>3
<1>5. \A m \in T : n <= m
  BY <1>4
<1>6. QED
  BY <1>5

LEMMA SetInduction ==
    ASSUME NEW S, 0 \in S, \A n \in Nat : n \in S => n + 1 \in S
    PROVE  \A n \in Nat : n \in S
<1>1. SUFFICES ASSUME Nat \ S # {} PROVE FALSE
  OBVIOUS
<1>2. PICK n \in Nat \ S : \A m \in Nat \ S : n <= m
  BY <1>1, LeastElement
<1>3. n - 1 \in Nat /\ n - 1 \notin Nat \ S
  BY <1>2
<1>4. QED
  BY <1>2, <1>3

-----------------------------------------------------------------------------
(***************************************************************************)
(* Sequences                                                               *)
(***************************************************************************)

LEMMA RemoveAtElements ==
    ASSUME NEW S, NEW s \in Seq(S), NEW k \in 1 .. Len(s)
    PROVE  /\ RemoveAt(s, k) \in Seq(S)
           /\ Len(RemoveAt(s, k)) = Len(s) - 1
           /\ \A i \in 1 .. Len(s) - 1 :
                RemoveAt(s, k)[i] = IF i < k THEN s[i] ELSE s[i+1]
<1> DEFINE before == SubSeq(s, 1, k-1)
           after == SubSeq(s, k+1, Len(s))
<1>1. /\ before \in Seq(S) /\ Len(before) = k - 1
      /\ \A i \in 1 .. k - 1 : before[i] = s[i]
  BY SubSeqProperties
<1>2. /\ after \in Seq(S) /\ Len(after) = Len(s) - k
      /\ \A i \in 1 .. Len(s) - k : after[i] = s[k + i]
  BY SubSeqProperties
<1>3. RemoveAt(s, k) = before \o after
  BY DEF RemoveAt
<1> HIDE DEF before, after
<1>4. /\ before \o after \in Seq(S)
      /\ Len(before \o after) = Len(s) - 1
      /\ \A i \in 1 .. Len(s) - 1 :
           (before \o after)[i] = IF i < k THEN before[i] ELSE after[i - (k-1)]
  <2>1. Len(s) \in Nat /\ Len(before) + Len(after) = Len(s) - 1
    BY <1>1, <1>2, LenProperties
  <2>2. /\ before \o after \in Seq(S)
        /\ Len(before \o after) = Len(before) + Len(after)
        /\ \A i \in 1 .. Len(before) + Len(after) :
             (before \o after)[i] =
                IF i <= Len(before) THEN before[i] ELSE after[i - Len(before)]
    BY <1>1, <1>2, ConcatProperties
  <2>3. \A i \in Int : i <= k - 1 <=> i < k
    OBVIOUS
  <2>4. QED
    BY <1>1, <2>1, <2>2, <2>3
<1>5. \A i \in 1 .. Len(s) - 1 :
        /\ i < k => before[i] = s[i]
        /\ ~(i < k) => after[i - (k-1)] = s[i+1]
  <2> SUFFICES ASSUME NEW i \in 1 .. Len(s) - 1
               PROVE  /\ i < k => before[i] = s[i]
                      /\ ~(i < k) => after[i - (k-1)] = s[i+1]
    OBVIOUS
  <2>1. CASE i < k
    BY <2>1, <1>1
  <2>2. CASE ~(i < k)
    <3>1. i - (k-1) \in 1 .. Len(s) - k /\ k + (i - (k-1)) = i + 1
      BY <2>2
    <3>2. QED
      BY <2>2, <3>1, <1>2
  <2>3. QED
    BY <2>1, <2>2
<1>6. QED
  BY <1>3, <1>4, <1>5

\* As many slots as there are can be in a line.
LEMMA LineFits ==
    ASSUME NEW c \in Seq(Slot), \A i, j \in 1 .. Len(c) : c[i] = c[j] => i = j
    PROVE  Len(c) <= N_MEMB
<1>1. IsFiniteSet(Slot) /\ Cardinality(Slot) = N_MEMB
  BY FS_Interval, QueueAssumption DEF Slot
<1>2. Len(c) \in Nat /\ c \in [1 .. Len(c) -> Slot]
  BY LenProperties
<1>3. Cardinality(1 .. Len(c)) = Len(c)
  BY <1>2, FS_Interval
<1>4. c \in Injection(1 .. Len(c), Slot)
  BY <1>2 DEF Injection, IsInjective
<1>5. Cardinality(1 .. Len(c)) <= Cardinality(Slot)
  BY <1>1, <1>4, FS_Injection
<1>6. QED
  BY <1>1, <1>3, <1>5

LEMMA NullIsNoSlot == NULL \notin Slot /\ N_MEMB \notin Slot
BY QueueAssumption DEF Slot

-----------------------------------------------------------------------------
(***************************************************************************)
(* The recursions over the array                                           *)
(***************************************************************************)

\* Walking along the links from the tail visits the nodes linked one after the
\* other, and no more: length() counts them.
LEMMA ChainOfNodes ==
    ASSUME NEW a, NEW q \in Seq(Slot), Len(q) <= N_MEMB,
           NEW tail, tail = IF q = <<>> THEN NULL ELSE q[1],
           \A i \in 1 .. Len(q) :
              a[q[i]].m_next = IF i = Len(q) THEN NULL ELSE q[i+1]
    PROVE  chain(a, tail) = q
<1> DEFINE step(f, k) == IF k = 0 THEN tail
                         ELSE IF f[k-1] = NULL THEN NULL ELSE a[f[k-1]].m_next
           walked(f) == f = [k \in 0 .. N_MEMB |-> step(f, k)]
           w == [k \in 0 .. N_MEMB |-> IF k < Len(q) THEN q[k+1] ELSE NULL]
<1>1. /\ Len(q) \in Nat /\ N_MEMB \in Nat /\ NULL \notin Slot
      /\ \A i \in 1 .. Len(q) : q[i] \in Slot
      /\ q = <<>> <=> Len(q) = 0
  BY LenProperties, EmptySeq, NullIsNoSlot, QueueAssumption
<1>2. \A k \in 0 .. N_MEMB : w[k] = step(w, k)
  <2> SUFFICES ASSUME NEW k \in 0 .. N_MEMB PROVE w[k] = step(w, k)
    OBVIOUS
  <2>1. CASE k = 0
    BY <2>1, <1>1
  <2>2. CASE k \in 1 .. Len(q)
    BY <2>2, <1>1
  <2>3. CASE k > Len(q)
    BY <2>3, <1>1
  <2>4. QED
    BY <1>1, <2>1, <2>2, <2>3
<1>3. walked(w)
  BY <1>2
<1>4. ASSUME NEW f, walked(f)
      PROVE  f = w
  <2> DEFINE Same == {k \in Nat : k <= N_MEMB => f[k] = w[k]}
  <2>1. \A k \in 0 .. N_MEMB : f[k] = step(f, k)
    BY <1>4
  <2>2. 0 \in Same
    BY <1>1, <1>2, <2>1
  <2>3. ASSUME NEW n \in Nat, n \in Same
        PROVE  n + 1 \in Same
    <3>1. CASE n + 1 <= N_MEMB
      <4>1. f[n] = w[n] /\ n + 1 \in 0 .. N_MEMB /\ n + 1 # 0 /\ (n + 1) - 1 = n
        BY <1>1, <2>3, <3>1
      <4>2. step(f, n+1) = step(w, n+1)
        BY <4>1
      <4>3. f[n+1] = step(f, n+1) /\ w[n+1] = step(w, n+1)
        BY <1>2, <2>1, <4>1
      <4>4. QED
        BY <4>2, <4>3
    <3>2. QED
      BY <1>1, <3>1
  <2> HIDE DEF Same
  <2>4. \A n \in Nat : n \in Same
    BY <2>2, <2>3, SetInduction
  <2>5. \A k \in 0 .. N_MEMB : f[k] = w[k]
    <3>1. \A k \in 0 .. N_MEMB : k \in Nat /\ k <= N_MEMB
      BY <1>1
    <3>2. QED
      BY <2>4, <3>1 DEF Same
  <2>6. f = [k \in 0 .. N_MEMB |-> f[k]] /\ w = [k \in 0 .. N_MEMB |-> w[k]]
    BY <1>4
  <2>7. QED
    BY <2>5, <2>6
<1>5. chain(a, tail) =
        LET walk == CHOOSE f : walked(f)
        IN  [k \in {i \in 1 .. N_MEMB + 1 : walk[i-1] # NULL} |-> walk[k-1]]
  BY DEF chain
<1>6. (CHOOSE f : walked(f)) = w
  <2> HIDE DEF walked
  <2> QED BY <1>3, <1>4
<1> HIDE DEF walked, w
<1>7. chain(a, tail) = [k \in {i \in 1 .. N_MEMB + 1 : w[i-1] # NULL} |-> w[k-1]]
  BY <1>5, <1>6, Zenon
<1>8. ASSUME NEW i \in 1 .. N_MEMB + 1
      PROVE  w[i-1] = IF i <= Len(q) THEN q[i] ELSE NULL
  <2>1. i - 1 \in 0 .. N_MEMB /\ (i - 1) + 1 = i /\ (i - 1 < Len(q) <=> i <= Len(q))
    BY <1>1
  <2>2. QED
    BY <2>1 DEF w
<1>9. {i \in 1 .. N_MEMB + 1 : w[i-1] # NULL} = 1 .. Len(q)
  <2>1. \A i \in 1 .. N_MEMB + 1 : w[i-1] # NULL <=> i <= Len(q)
    BY <1>1, <1>8
  <2>2. \A i : i \in 1 .. Len(q) <=> i \in 1 .. N_MEMB + 1 /\ i <= Len(q)
    BY <1>1
  <2>3. QED
    BY <2>1, <2>2
<1>10. chain(a, tail) = [k \in 1 .. Len(q) |-> w[k-1]]
  BY <1>7, <1>9, Zenon
<1>11. \A k \in 1 .. Len(q) : w[k-1] = q[k]
  BY <1>1, <1>8
<1>12. q = [k \in 1 .. Len(q) |-> q[k]]
  BY LenProperties
<1>13. QED
  BY <1>10, <1>11, <1>12

-----------------------------------------------------------------------------
(***************************************************************************)
(* What the functions of LinkedNode do to each node                        *)
(***************************************************************************)

LEMMA LinkPrevIs ==
    ASSUME NEW a \in [Slot -> Node], NEW s \in Slot, NEW p \in Slot \cup {NULL}, p # s
    PROVE  /\ linkPrev(a, s, p) \in [Slot -> Node]
           /\ \A t \in Slot :
                /\ linkPrev(a, s, p)[t].m_value = a[t].m_value
                /\ linkPrev(a, s, p)[t].m_linked <=> t = s \/ a[t].m_linked
                /\ linkPrev(a, s, p)[t].m_next = a[t].m_next
                /\ linkPrev(a, s, p)[t].m_prev = IF t = s THEN p ELSE a[t].m_prev
<1> DEFINE m == [a[s] EXCEPT !.m_linked = TRUE, !.m_prev = p]
<1>1. linkPrev(a, s, p) = [a EXCEPT ![s] = m]
  BY DEF linkPrev
<1>2. /\ m \in Node /\ m.m_linked /\ m.m_prev = p
      /\ m.m_next = a[s].m_next /\ m.m_value = a[s].m_value
  BY DEF Node
<1> HIDE DEF m
<1>3. QED
  BY <1>1, <1>2

LEMMA LinkNextIs ==
    ASSUME NEW a \in [Slot -> Node], NEW s \in Slot, NEW p \in Slot \cup {NULL}, p # s
    PROVE  /\ linkNext(a, s, p) \in [Slot -> Node]
           /\ \A t \in Slot :
                /\ linkNext(a, s, p)[t].m_value = a[t].m_value
                /\ linkNext(a, s, p)[t].m_linked <=> t = s \/ a[t].m_linked
                /\ linkNext(a, s, p)[t].m_next = IF t = s THEN p ELSE a[t].m_next
                /\ linkNext(a, s, p)[t].m_prev = a[t].m_prev
<1> DEFINE m == [a[s] EXCEPT !.m_linked = TRUE, !.m_next = p]
<1>1. linkNext(a, s, p) = [a EXCEPT ![s] = m]
  BY DEF linkNext
<1>2. /\ m \in Node /\ m.m_linked /\ m.m_next = p
      /\ m.m_prev = a[s].m_prev /\ m.m_value = a[s].m_value
  BY DEF Node
<1> HIDE DEF m
<1>3. QED
  BY <1>1, <1>2

\* b is a with t linked to s.
LinkedTo(a, b, s, t) ==
    \A u \in Slot :
        /\ b[u].m_value = a[u].m_value
        /\ b[u].m_linked <=> u = s \/ u = t \/ a[u].m_linked
        /\ b[u].m_next = IF u = s /\ s # t THEN t ELSE a[u].m_next
        /\ b[u].m_prev = IF u = t /\ s # t THEN s ELSE a[u].m_prev

LEMMA LinkIs ==
    ASSUME NEW a \in [Slot -> Node], NEW s \in Slot, NEW t \in Slot
    PROVE  link(a, s, t) \in [Slot -> Node] /\ LinkedTo(a, link(a, s, t), s, t)
<1>1. CASE s = t
  <2> DEFINE m == [a[s] EXCEPT !.m_linked = TRUE]
  <2>1. link(a, s, t) = [a EXCEPT ![s] = m]
    BY <1>1 DEF link
  <2>2. /\ m \in Node /\ m.m_linked /\ m.m_next = a[s].m_next
        /\ m.m_prev = a[s].m_prev /\ m.m_value = a[s].m_value
    BY DEF Node
  <2> HIDE DEF m
  <2>3. QED
    BY <1>1, <2>1, <2>2 DEF LinkedTo
<1>2. CASE s # t
  <2> DEFINE b == linkNext(a, s, t)
  <2>1. link(a, s, t) = linkPrev(b, t, s)
    BY <1>2 DEF link, linkNext
  <2>2. /\ b \in [Slot -> Node]
        /\ \A u \in Slot :
             /\ b[u].m_value = a[u].m_value
             /\ b[u].m_linked <=> u = s \/ a[u].m_linked
             /\ b[u].m_next = IF u = s THEN t ELSE a[u].m_next
             /\ b[u].m_prev = a[u].m_prev
    BY <1>2, LinkNextIs
  <2> HIDE DEF b
  <2>3. /\ linkPrev(b, t, s) \in [Slot -> Node]
        /\ \A u \in Slot :
             /\ linkPrev(b, t, s)[u].m_value = b[u].m_value
             /\ linkPrev(b, t, s)[u].m_linked <=> u = t \/ b[u].m_linked
             /\ linkPrev(b, t, s)[u].m_next = b[u].m_next
             /\ linkPrev(b, t, s)[u].m_prev = IF u = t THEN s ELSE b[u].m_prev
    BY <1>2, <2>2, LinkPrevIs
  <2>4. QED
    BY <1>2, <2>1, <2>2, <2>3 DEF LinkedTo
<1>3. QED
  BY <1>1, <1>2

LEMMA UnlinkIs ==
    ASSUME NEW a \in [Slot -> Node], NEW s \in Slot,
           NEW n, n = a[s].m_next, NEW p, p = a[s].m_prev,
           n # s, p # s, n = p => n = NULL
    PROVE  /\ unlink(a, s) \in [Slot -> Node]
           /\ \A t \in Slot :
                /\ unlink(a, s)[t].m_value = a[t].m_value
                /\ unlink(a, s)[t].m_linked <=>
                     t # s /\ (t = n \/ t = p \/ a[t].m_linked)
                /\ unlink(a, s)[t].m_next =
                     IF t = s THEN NULL ELSE IF t = p THEN n ELSE a[t].m_next
                /\ unlink(a, s)[t].m_prev =
                     IF t = s THEN NULL ELSE IF t = n THEN p ELSE a[t].m_prev
<1> DEFINE b == IF n = NULL THEN a ELSE linkPrev(a, n, p)
           c == IF p = NULL THEN b ELSE linkNext(b, p, n)
           m == [c[s] EXCEPT !.m_prev = NULL, !.m_next = NULL, !.m_linked = FALSE]
<1>1. n \in Slot \cup {NULL} /\ p \in Slot \cup {NULL} /\ NULL \notin Slot
  BY NullIsNoSlot DEF Node
<1>2. /\ b \in [Slot -> Node]
      /\ \A t \in Slot :
           /\ b[t].m_value = a[t].m_value
           /\ b[t].m_linked <=> t = n \/ a[t].m_linked
           /\ b[t].m_next = a[t].m_next
           /\ b[t].m_prev = IF t = n THEN p ELSE a[t].m_prev
  BY <1>1, LinkPrevIs
<1>3. unlink(a, s) = [c EXCEPT ![s] = m]
  BY DEF unlink
<1> HIDE DEF b
<1>4. /\ c \in [Slot -> Node]
      /\ \A t \in Slot :
           /\ c[t].m_value = b[t].m_value
           /\ c[t].m_linked <=> t = p \/ b[t].m_linked
           /\ c[t].m_next = IF t = p THEN n ELSE b[t].m_next
           /\ c[t].m_prev = b[t].m_prev
  <2>1. CASE p = NULL
    BY <1>1, <1>2, <2>1
  <2>2. CASE p # NULL
    <3>1. c = linkNext(b, p, n) /\ p \in Slot /\ n # p
      BY <1>1, <2>2
    <3> HIDE DEF c
    <3>2. QED
      BY <1>1, <1>2, <3>1, LinkNextIs
  <2>3. QED
    BY <2>1, <2>2
<1> HIDE DEF c
<1>5. /\ m \in Node /\ ~m.m_linked /\ m.m_next = NULL
      /\ m.m_prev = NULL /\ m.m_value = c[s].m_value
  <2>1. c[s] \in Node
    BY <1>4
  <2> HIDE DEF c
  <2>2. QED
    BY <2>1 DEF Node
<1> HIDE DEF m
<1>6. QED
  BY <1>2, <1>3, <1>4, <1>5

-----------------------------------------------------------------------------
(***************************************************************************)
(* What they do to the line                                                *)
(***************************************************************************)

\* a and b differ in links only, and but for s in the same way as to being free.
Relinked(a, b, s) ==
    \A t \in Slot : /\ b[t].m_value = a[t].m_value
                    /\ b[t].m_linked <=> t # s /\ a[t].m_linked

LEMMA UnlinkOutside ==
    ASSUME NEW a \in [Slot -> Node], NEW c \in Seq(Slot), Line(a, c),
           NEW s \in Slot, \A i \in 1 .. Len(c) : c[i] # s
    PROVE  /\ unlink(a, s) \in [Slot -> Node]
           /\ Line(unlink(a, s), c)
           /\ Relinked(a, unlink(a, s), s)
<1>1. a[s].m_next = NULL /\ a[s].m_prev = NULL /\ NULL \notin Slot
  BY NullIsNoSlot DEF Line
<1> DEFINE b == unlink(a, s)
<1>2. /\ b \in [Slot -> Node]
      /\ \A t \in Slot :
           /\ b[t].m_value = a[t].m_value
           /\ b[t].m_linked <=> t # s /\ (t = NULL \/ a[t].m_linked)
           /\ b[t].m_next = IF t = s THEN NULL ELSE IF t = NULL THEN NULL ELSE a[t].m_next
           /\ b[t].m_prev = IF t = s THEN NULL ELSE IF t = NULL THEN NULL ELSE a[t].m_prev
  BY <1>1, UnlinkIs
<1> HIDE DEF b
<1>3. \A i \in 1 .. Len(c) : c[i] \in Slot
  BY ElementOfSeq
<1>4. Line(b, c)
  BY <1>1, <1>2, <1>3 DEF Line
<1>5. Relinked(a, b, s)
  BY <1>1, <1>2 DEF Relinked
<1>6. QED
  BY <1>2, <1>4, <1>5 DEF b

LEMMA UnlinkInside ==
    ASSUME NEW a \in [Slot -> Node], NEW c \in Seq(Slot), Line(a, c),
           NEW k \in 1 .. Len(c)
    PROVE  /\ unlink(a, c[k]) \in [Slot -> Node]
           /\ Line(unlink(a, c[k]), RemoveAt(c, k))
           /\ Relinked(a, unlink(a, c[k]), c[k])
<1> DEFINE s == c[k]
           n == IF k = Len(c) THEN NULL ELSE c[k+1]
           p == IF k = 1 THEN NULL ELSE c[k-1]
           b == unlink(a, s)
           d == RemoveAt(c, k)
<1>1. /\ Len(c) \in Nat /\ NULL \notin Slot
      /\ \A i \in 1 .. Len(c) : c[i] \in Slot
  BY NullIsNoSlot, LenProperties
<1>2. /\ \A i, j \in 1 .. Len(c) : c[i] = c[j] => i = j
      /\ \A i \in 1 .. Len(c) :
           /\ a[c[i]].m_linked
           /\ a[c[i]].m_next = IF i = Len(c) THEN NULL ELSE c[i+1]
           /\ a[c[i]].m_prev = IF i = 1 THEN NULL ELSE c[i-1]
      /\ \A t \in Slot : (\A i \in 1 .. Len(c) : c[i] # t) =>
           a[t].m_next = NULL /\ a[t].m_prev = NULL
  BY DEF Line
<1>3. s \in Slot /\ n = a[s].m_next /\ p = a[s].m_prev
  BY <1>1, <1>2
<1>4. n # s /\ p # s /\ (n = p => n = NULL)
  <2>1. \A i \in 1 .. Len(c) : i # k => c[i] # s
    BY <1>2
  <2>2. k # Len(c) => k + 1 \in 1 .. Len(c) /\ k + 1 # k
    BY <1>1
  <2>3. k # 1 => k - 1 \in 1 .. Len(c) /\ k - 1 # k
    BY <1>1
  <2>4. n # s /\ p # s
    BY <1>1, <2>1, <2>2, <2>3
  <2>5. ASSUME k # Len(c), k # 1
        PROVE  c[k+1] # c[k-1]
    <3>1. k + 1 # k - 1
      OBVIOUS
    <3>2. QED
      BY <1>2, <2>2, <2>3, <2>5, <3>1
  <2>6. n = p => n = NULL
    BY <1>1, <2>2, <2>3, <2>5
  <2>7. QED
    BY <2>4, <2>6
<1>5. /\ b \in [Slot -> Node]
      /\ \A t \in Slot :
           /\ b[t].m_value = a[t].m_value
           /\ b[t].m_linked <=> t # s /\ (t = n \/ t = p \/ a[t].m_linked)
           /\ b[t].m_next = IF t = s THEN NULL ELSE IF t = p THEN n ELSE a[t].m_next
           /\ b[t].m_prev = IF t = s THEN NULL ELSE IF t = n THEN p ELSE a[t].m_prev
  <2> HIDE DEF n, p
  <2> QED BY <1>3, <1>4, UnlinkIs
<1>6. /\ d \in Seq(Slot) /\ Len(d) = Len(c) - 1
      /\ \A i \in 1 .. Len(c) - 1 : d[i] = IF i < k THEN c[i] ELSE c[i+1]
  BY RemoveAtElements
<1> HIDE DEF b, d
<1>7. ASSUME NEW i \in 1 .. Len(d), NEW j \in 1 .. Len(d), d[i] = d[j]
      PROVE  i = j
  BY <1>1, <1>2, <1>6, <1>7
<1>8. ASSUME NEW i \in 1 .. Len(d)
      PROVE  /\ b[d[i]].m_linked
             /\ b[d[i]].m_next = IF i = Len(d) THEN NULL ELSE d[i+1]
             /\ b[d[i]].m_prev = IF i = 1 THEN NULL ELSE d[i-1]
  <2>1. CASE i < k
    <3>1. i \in 1 .. Len(c) /\ d[i] = c[i] /\ c[i] \in Slot /\ c[i] # s
      BY <1>1, <1>2, <1>6, <2>1
    <3>2. b[c[i]].m_linked
      BY <1>2, <1>5, <3>1
    <3>3. b[c[i]].m_prev = a[c[i]].m_prev /\ (i > 1 => d[i-1] = c[i-1])
      <4>1. c[i] # n
        <5>1. k # Len(c) => k + 1 \in 1 .. Len(c) /\ i # k + 1
          BY <1>1, <2>1
        <5>2. k # Len(c) => c[i] # c[k+1]
          BY <1>2, <3>1, <5>1
        <5>3. QED
          BY <1>1, <3>1, <5>2
      <4>2. i > 1 => i - 1 \in 1 .. Len(c) - 1 /\ i - 1 < k
        BY <1>1, <2>1
      <4>3. i > 1 => d[i-1] = c[i-1]
        BY <1>6, <4>2
      <4>4. b[c[i]].m_prev = a[c[i]].m_prev
        BY <1>5, <3>1, <4>1
      <4>5. QED
        BY <4>3, <4>4
    <3>4. b[c[i]].m_next = IF i = k - 1 THEN n ELSE c[i+1]
      BY <1>1, <1>2, <1>5, <2>1, <3>1
    <3>5. IF i = Len(d) THEN i = k - 1 /\ n = NULL
          ELSE d[i+1] = IF i = k - 1 THEN n ELSE c[i+1]
      <4>1. CASE i = Len(d)
        BY <1>1, <1>6, <2>1, <4>1
      <4>2. CASE i # Len(d)
        <5>1. i + 1 \in 1 .. Len(c) - 1 /\ (i + 1 < k <=> i # k - 1)
          BY <1>1, <1>6, <2>1, <4>2
        <5>2. i = k - 1 => c[(i+1)+1] = n
          BY <1>1, <1>6, <4>2
        <5>3. QED
          BY <1>6, <4>2, <5>1, <5>2
      <4>3. QED
        BY <4>1, <4>2
    <3>6. b[c[i]].m_next = IF i = Len(d) THEN NULL ELSE d[i+1]
      BY <3>4, <3>5
    <3>7. b[c[i]].m_prev = IF i = 1 THEN NULL ELSE d[i-1]
      BY <1>2, <3>1, <3>3
    <3>8. QED
      BY <3>1, <3>2, <3>6, <3>7
  <2>2. CASE i >= k
    <3>1. /\ i + 1 \in 1 .. Len(c) /\ d[i] = c[i+1] /\ c[i+1] \in Slot /\ c[i+1] # s
          /\ (i + 1) - 1 = i /\ i + 1 # 1
      BY <1>1, <1>2, <1>6, <2>2
    <3>2. b[c[i+1]].m_linked
      BY <1>2, <1>5, <3>1
    <3>3. b[c[i+1]].m_next = a[c[i+1]].m_next
      <4>1. k # 1 => k - 1 \in 1 .. Len(c) /\ i + 1 # k - 1
        BY <1>1, <2>2
      <4>2. k # 1 => c[i+1] # c[k-1]
        BY <1>2, <3>1, <4>1
      <4>3. c[i+1] # p
        BY <1>1, <3>1, <4>2
      <4>4. QED
        BY <1>5, <3>1, <4>3
    <3>4. a[c[i+1]].m_next = IF i = Len(d) THEN NULL ELSE d[i+1]
      <4>1. /\ i + 1 = Len(c) <=> i = Len(d)
            /\ i # Len(d) => i + 1 \in 1 .. Len(c) - 1 /\ ~(i + 1 < k)
        BY <1>1, <1>6, <2>2
      <4>2. i # Len(d) => d[i+1] = c[(i+1)+1]
        BY <1>6, <4>1
      <4>3. QED
        BY <1>2, <3>1, <4>1, <4>2
    <3>5. b[c[i+1]].m_prev = IF i = k THEN p ELSE c[i]
      BY <1>1, <1>2, <1>5, <2>2, <3>1
    <3>6. (IF i = k THEN p ELSE c[i]) = IF i = 1 THEN NULL ELSE d[i-1]
      BY <1>1, <1>6, <2>2
    <3>7. QED
      BY <3>1, <3>2, <3>3, <3>4, <3>5, <3>6
  <2>3. QED
    BY <1>1, <1>6, <2>1, <2>2
<1>9. ASSUME NEW t \in Slot, \A i \in 1 .. Len(d) : d[i] # t
      PROVE  b[t].m_next = NULL /\ b[t].m_prev = NULL
  <2>1. CASE t = s
    BY <1>5, <2>1
  <2>2. CASE t # s
    <3>1. \A i \in 1 .. Len(c) : c[i] # t
      <4> SUFFICES ASSUME NEW i \in 1 .. Len(c), c[i] = t PROVE FALSE
        OBVIOUS
      <4>1. CASE i < k
        BY <1>1, <1>6, <1>9, <4>1
      <4>2. CASE i > k
        <5>1. i - 1 \in 1 .. Len(d) /\ d[i-1] = c[i]
          BY <1>1, <1>6, <4>2
        <5>2. QED
          BY <1>9, <5>1
      <4>3. QED
        BY <2>2, <4>1, <4>2
    <3>2. t # n /\ t # p
      BY <1>1, <3>1
    <3>3. QED
      BY <1>2, <1>5, <2>2, <3>1, <3>2
  <2>3. QED
    BY <2>1, <2>2
<1>10. Line(b, d)
  BY <1>7, <1>8, <1>9 DEF Line
<1>11. Relinked(a, b, s)
  <2>1. \A t \in Slot : t = n \/ t = p => a[t].m_linked
    BY <1>1, <1>2
  <2>2. QED
    BY <1>5, <2>1 DEF Relinked
<1>12. QED
  BY <1>5, <1>10, <1>11 DEF b, d

\* The line once slot has been linked to head.
Lengthened(c, head, slot) ==
    IF c # <<>> THEN Append(c, slot)
    ELSE IF head = slot THEN <<slot>> ELSE <<head, slot>>

\* b has the values of a, but for v in slot.
StoredAt(a, b, slot, v) ==
    \A t \in Slot : b[t].m_value = IF t = slot THEN v ELSE a[t].m_value

\* The array once v has been put in slot and linked to head.
WithNode(a, head, slot, v) == link([a EXCEPT ![slot] = Fresh(v)], head, slot)

LEMMA LinkAtHead ==
    ASSUME NEW a \in [Slot -> Node], NEW c \in Seq(Slot), Line(a, c),
           NEW slot \in Slot, ~a[slot].m_linked, NEW v \in Value,
           NEW head \in Slot, c # <<>> => head = c[Len(c)]
    PROVE  /\ WithNode(a, head, slot, v) \in [Slot -> Node]
           /\ Lengthened(c, head, slot) \in Seq(Slot)
           /\ Line(WithNode(a, head, slot, v), Lengthened(c, head, slot))
           /\ StoredAt(a, WithNode(a, head, slot, v), slot, v)
<1> DEFINE f == [a EXCEPT ![slot] = Fresh(v)]
           b == WithNode(a, head, slot, v)
           e == Lengthened(c, head, slot)
<1>0. b = link(f, head, slot)
  BY DEF WithNode
<1> SUFFICES /\ b \in [Slot -> Node] /\ e \in Seq(Slot) /\ Line(b, e)
             /\ \A t \in Slot : b[t].m_value = IF t = slot THEN v ELSE a[t].m_value
  BY DEF StoredAt
<1> HIDE DEF b, e
<1>1. /\ Len(c) \in Nat /\ NULL \notin Slot
      /\ \A i \in 1 .. Len(c) : c[i] \in Slot
      /\ c = <<>> <=> Len(c) = 0
  BY NullIsNoSlot, LenProperties, EmptySeq
<1>2. /\ \A i, j \in 1 .. Len(c) : c[i] = c[j] => i = j
      /\ \A i \in 1 .. Len(c) :
           /\ a[c[i]].m_linked
           /\ a[c[i]].m_next = IF i = Len(c) THEN NULL ELSE c[i+1]
           /\ a[c[i]].m_prev = IF i = 1 THEN NULL ELSE c[i-1]
      /\ \A t \in Slot : (\A i \in 1 .. Len(c) : c[i] # t) =>
           a[t].m_next = NULL /\ a[t].m_prev = NULL
  BY DEF Line
<1>3. \A i \in 1 .. Len(c) : c[i] # slot
  BY <1>2
<1>4. /\ f \in [Slot -> Node]
      /\ \A t \in Slot :
           /\ f[t].m_value = IF t = slot THEN v ELSE a[t].m_value
           /\ f[t].m_linked <=> t # slot /\ a[t].m_linked
           /\ f[t].m_next = a[t].m_next
           /\ f[t].m_prev = a[t].m_prev
  <2>1. a[slot].m_next = NULL /\ a[slot].m_prev = NULL
    BY <1>2, <1>3
  <2>2. /\ Fresh(v) \in Node /\ Fresh(v).m_value = v /\ ~Fresh(v).m_linked
        /\ Fresh(v).m_next = NULL /\ Fresh(v).m_prev = NULL
    BY DEF Fresh, Node
  <2>3. QED
    BY <2>1, <2>2
<1> HIDE DEF f
<1>5. /\ b \in [Slot -> Node]
      /\ \A t \in Slot :
           /\ b[t].m_value = f[t].m_value
           /\ b[t].m_linked <=> t = head \/ t = slot \/ f[t].m_linked
           /\ b[t].m_next = IF t = head /\ head # slot THEN slot ELSE f[t].m_next
           /\ b[t].m_prev = IF t = slot /\ head # slot THEN head ELSE f[t].m_prev
  <2>1. b = link(f, head, slot)
    BY <1>0
  <2>2. f \in [Slot -> Node]
    BY <1>4
  <2>3. link(f, head, slot) \in [Slot -> Node] /\ LinkedTo(f, link(f, head, slot), head, slot)
    BY <2>2, LinkIs
  <2>4. b \in [Slot -> Node] /\ LinkedTo(f, b, head, slot)
    BY <2>1, <2>3
  <2>5. QED
    BY <2>4 DEF LinkedTo
<1>6. CASE c # <<>>
  <2>1. /\ e \in Seq(Slot) /\ Len(e) = Len(c) + 1
        /\ \A i \in 1 .. Len(c) : e[i] = c[i]
        /\ e[Len(c) + 1] = slot
    BY <1>1, <1>6, AppendProperties DEF Lengthened, e
  <2>2. head = c[Len(c)] /\ Len(c) \in 1 .. Len(c) /\ head # slot
    BY <1>1, <1>3, <1>6
  <2>3. ASSUME NEW i \in 1 .. Len(e), NEW j \in 1 .. Len(e), e[i] = e[j]
        PROVE  i = j
    <3>1. CASE i \in 1 .. Len(c) /\ j \in 1 .. Len(c)
      BY <1>2, <2>1, <2>3, <3>1
    <3>2. \A k \in 1 .. Len(e) : k \in 1 .. Len(c) \/ k = Len(c) + 1
      BY <1>1, <2>1
    <3>3. QED
      BY <1>3, <2>1, <2>3, <3>1, <3>2
  <2>4. ASSUME NEW i \in 1 .. Len(e)
        PROVE  /\ b[e[i]].m_linked
               /\ b[e[i]].m_next = IF i = Len(e) THEN NULL ELSE e[i+1]
               /\ b[e[i]].m_prev = IF i = 1 THEN NULL ELSE e[i-1]
    <3>1. CASE i \in 1 .. Len(c)
      <4>1. e[i] = c[i] /\ c[i] \in Slot /\ c[i] # slot /\ (c[i] = head <=> i = Len(c))
        <5>1. c[i] = c[Len(c)] => i = Len(c)
          BY <1>2, <2>2, <3>1
        <5>2. QED
          BY <1>1, <1>3, <2>1, <2>2, <3>1, <5>1
      <4>2. b[c[i]].m_linked /\ b[c[i]].m_prev = a[c[i]].m_prev
        <5>1. a[c[i]].m_linked
          BY <1>2, <3>1
        <5>2. f[c[i]].m_linked /\ f[c[i]].m_prev = a[c[i]].m_prev
          BY <1>4, <4>1, <5>1
        <5>3. QED
          BY <1>5, <4>1, <5>2
      <4>3. b[c[i]].m_next = IF i = Len(c) THEN slot ELSE a[c[i]].m_next
        BY <1>4, <1>5, <2>2, <4>1
      <4>4. i # Len(e) /\ e[i+1] = IF i = Len(c) THEN slot ELSE c[i+1]
        BY <1>1, <2>1, <3>1
      <4>5. i # 1 => e[i-1] = c[i-1]
        BY <1>1, <2>1, <3>1
      <4>6. QED
        BY <1>2, <3>1, <4>1, <4>2, <4>3, <4>4, <4>5
    <3>2. CASE i = Len(c) + 1
      <4>1. e[i] = slot /\ i = Len(e) /\ i # 1 /\ e[i-1] = head
        <5>1. i - 1 = Len(c)
          BY <1>1, <3>2
        <5>2. QED
          BY <1>1, <2>1, <2>2, <3>2, <5>1
      <4>2. a[slot].m_next = NULL
        BY <1>2, <1>3
      <4>3. b[slot].m_linked /\ b[slot].m_next = NULL /\ b[slot].m_prev = head
        BY <1>4, <1>5, <2>2, <4>2
      <4>4. QED
        BY <4>1, <4>3
    <3>3. QED
      BY <1>1, <2>1, <3>1, <3>2
  <2>5. ASSUME NEW t \in Slot, \A i \in 1 .. Len(e) : e[i] # t
        PROVE  b[t].m_next = NULL /\ b[t].m_prev = NULL
    <3>1. t # slot /\ \A i \in 1 .. Len(c) : c[i] # t
      <4>1. Len(c) + 1 \in 1 .. Len(e) /\ \A i \in 1 .. Len(c) : i \in 1 .. Len(e)
        BY <1>1, <2>1
      <4>2. QED
        BY <2>1, <2>5, <4>1
    <3>2. t # head
      BY <2>2, <3>1
    <3>3. a[t].m_next = NULL /\ a[t].m_prev = NULL
      BY <1>2, <3>1
    <3>4. QED
      BY <1>4, <1>5, <3>1, <3>2, <3>3
  <2>6. Line(b, e)
    BY <2>3, <2>4, <2>5 DEF Line
  <2>7. QED
    BY <1>4, <1>5, <2>1, <2>6
<1>7. CASE c = <<>>
  <2>1. \A t \in Slot : f[t].m_next = NULL /\ f[t].m_prev = NULL
    BY <1>1, <1>2, <1>4, <1>7
  <2>2. CASE head = slot
    <3>1. e = <<slot>>
      BY <1>7, <2>2 DEF Lengthened, e
    <3>2. e \in Seq(Slot) /\ Len(e) = 1 /\ e[1] = slot
      BY <3>1
    <3>3. \A t \in Slot : b[t].m_next = NULL /\ b[t].m_prev = NULL
      BY <1>5, <2>1, <2>2
    <3>4. b[slot].m_linked /\ \A i \in 1 .. Len(e) : i = 1
      <4>1. b[slot].m_linked
        BY <1>5
      <4>2. QED
        BY <3>2, <4>1
    <3>5. Line(b, e)
      <4>1. \A i, j \in 1 .. Len(e) : e[i] = e[j] => i = j
        BY <3>4
      <4>2. \A i \in 1 .. Len(e) :
               /\ b[e[i]].m_linked
               /\ b[e[i]].m_next = IF i = Len(e) THEN NULL ELSE e[i+1]
               /\ b[e[i]].m_prev = IF i = 1 THEN NULL ELSE e[i-1]
        BY <3>2, <3>3, <3>4
      <4>3. QED
        BY <3>3, <4>1, <4>2 DEF Line
    <3>6. QED
      BY <1>4, <1>5, <3>2, <3>5
  <2>3. CASE head # slot
    <3>1. e = <<head, slot>>
      BY <1>7, <2>3 DEF Lengthened, e
    <3>2. e \in Seq(Slot) /\ Len(e) = 2 /\ e[1] = head /\ e[2] = slot
      BY <3>1
    <3>3. /\ \A i, j \in 1 .. Len(e) : e[i] = e[j] => i = j
          /\ \A i \in 1 .. Len(e) : i = 1 \/ i = 2
      BY <2>3, <3>2
    <3>4. /\ b[head].m_linked /\ b[head].m_next = slot /\ b[head].m_prev = NULL
          /\ b[slot].m_linked /\ b[slot].m_next = NULL /\ b[slot].m_prev = head
      BY <1>5, <2>1, <2>3
    <3>5. \A i \in 1 .. Len(e) :
             /\ b[e[i]].m_linked
             /\ b[e[i]].m_next = IF i = Len(e) THEN NULL ELSE e[i+1]
             /\ b[e[i]].m_prev = IF i = 1 THEN NULL ELSE e[i-1]
      BY <3>2, <3>3, <3>4
    <3>6. \A t \in Slot : t # head /\ t # slot => b[t].m_next = NULL /\ b[t].m_prev = NULL
      BY <1>5, <2>1
    <3>7. 1 \in 1 .. Len(e) /\ 2 \in 1 .. Len(e)
      BY <3>2
    <3>8. \A t \in Slot : (\A i \in 1 .. Len(e) : e[i] # t) =>
             b[t].m_next = NULL /\ b[t].m_prev = NULL
      BY <3>2, <3>6, <3>7
    <3>9. Line(b, e)
      BY <3>3, <3>5, <3>8 DEF Line
    <3>10. QED
      BY <1>4, <1>5, <3>2, <3>9
  <2>4. QED
    BY <2>2, <2>3
<1>8. QED
  BY <1>6, <1>7

\* reset() gives the whole array back, whatever the line: unlinking a node links
\* its neighbours, but a node unlinked before is nobody's neighbour any more.
LEMMA AllUnlinked ==
    ASSUME NEW a \in [Slot -> Node], NEW c \in Seq(Slot), Line(a, c)
    PROVE  /\ unlinkAll(a) \in [Slot -> Node]
           /\ Line(unlinkAll(a), <<>>)
           /\ \A s \in Slot : ~unlinkAll(a)[s].m_linked
<1> DEFINE step(f, i) == IF i = 0 THEN a ELSE unlink(f[i-1], i-1)
           steps(f, n) == f = [i \in 0 .. n |-> step(f, i)]
           Possible == {n \in Nat : \E f : steps(f, n)}
<1>1. \E f : steps(f, N_MEMB)
  <2>1. 0 \in Possible
    <3> DEFINE f == [i \in 0 .. 0 |-> a]
    <3>1. steps(f, 0)
      OBVIOUS
    <3>2. QED
      BY <3>1
  <2>2. ASSUME NEW n \in Nat, n \in Possible
        PROVE  n + 1 \in Possible
    <3>1. PICK f : steps(f, n)
      BY <2>2
    <3> DEFINE g == [i \in 0 .. n + 1 |-> IF i = n + 1 THEN unlink(f[n], n) ELSE f[i]]
    <3>2. \A i \in 0 .. n : g[i] = f[i] /\ f[i] = step(f, i)
      BY <3>1
    <3>3. g[n+1] = unlink(f[n], n)
      OBVIOUS
    <3>4. ASSUME NEW i \in 0 .. n + 1
          PROVE  g[i] = step(g, i)
      <4>1. CASE i = 0
        <5>1. i \in 0 .. n
          BY <4>1
        <5>2. QED
          BY <3>2, <4>1, <5>1
      <4>2. CASE i \in 1 .. n
        <5>1. i - 1 \in 0 .. n /\ i \in 0 .. n /\ i # 0
          BY <4>2
        <5>2. QED
          BY <3>2, <5>1
      <4>3. CASE i = n + 1
        <5>1. i - 1 = n /\ n \in 0 .. n /\ i # 0
          BY <4>3
        <5>2. QED
          BY <3>2, <3>3, <4>3, <5>1
      <4>4. QED
        BY <4>1, <4>2, <4>3
    <3>5. steps(g, n+1)
      <4>1. g = [i \in 0 .. n + 1 |-> g[i]]
        OBVIOUS
      <4> HIDE DEF g
      <4>2. QED
        BY <3>4, <4>1
    <3>6. n + 1 \in Nat
      OBVIOUS
    <3> HIDE DEF steps, g
    <3>7. QED
      BY <3>5, <3>6
  <2> HIDE DEF Possible
  <2>3. N_MEMB \in Possible
    BY <2>1, <2>2, SetInduction, QueueAssumption
  <2>4. QED
    BY <2>3 DEF Possible
<1> DEFINE unlinked == CHOOSE f : steps(f, N_MEMB)
<1>2. unlinkAll(a) = unlinked[N_MEMB]
  BY DEF unlinkAll
<1>3. steps(unlinked, N_MEMB)
  <2> HIDE DEF steps
  <2> QED BY <1>1
<1> HIDE DEF unlinked
<1>4. /\ unlinked[0] = a
      /\ \A i \in Nat : i + 1 <= N_MEMB => unlinked[i+1] = unlink(unlinked[i], i)
  <2>1. \A i \in 0 .. N_MEMB : unlinked[i] = step(unlinked, i)
    BY <1>3
  <2>2. \A i \in Nat : i + 1 <= N_MEMB =>
          i + 1 \in 0 .. N_MEMB /\ i + 1 # 0 /\ (i + 1) - 1 = i
    BY QueueAssumption
  <2>3. 0 \in 0 .. N_MEMB
    BY QueueAssumption
  <2>4. QED
    BY <2>1, <2>2, <2>3
<1> HIDE DEF step, steps
<1> DEFINE Freed(b, i) ==
             /\ b \in [Slot -> Node]
             /\ \E d \in Seq(Slot) : Line(b, d)
             /\ \A s \in Slot : s < i => ~b[s].m_linked
           Reached == {i \in Nat : i <= N_MEMB => Freed(unlinked[i], i)}
<1>5. 0 \in Reached
  <2>1. \A s \in Slot : ~(s < 0)
    BY QueueAssumption DEF Slot
  <2>2. QED
    BY <1>4, <2>1
<1>6. ASSUME NEW i \in Nat, i \in Reached
      PROVE  i + 1 \in Reached
  <2> SUFFICES ASSUME i + 1 <= N_MEMB PROVE Freed(unlinked[i+1], i+1)
    OBVIOUS
  <2> DEFINE b == unlinked[i]
  <2>1. Freed(b, i)
    BY <1>6, QueueAssumption
  <2>2. i \in Slot /\ \A s \in Slot : s < i + 1 => s = i \/ s < i
    BY QueueAssumption DEF Slot
  <2> HIDE DEF b
  <2>3. PICK d \in Seq(Slot) : Line(b, d)
    BY <2>1
  <2>4. /\ unlink(b, i) \in [Slot -> Node]
        /\ \E e \in Seq(Slot) : Line(unlink(b, i), e)
        /\ Relinked(b, unlink(b, i), i)
    <3>1. CASE \A k \in 1 .. Len(d) : d[k] # i
      BY <2>1, <2>2, <2>3, <3>1, UnlinkOutside
    <3>2. ASSUME NEW k \in 1 .. Len(d), d[k] = i
          PROVE  /\ unlink(b, i) \in [Slot -> Node]
                 /\ \E e \in Seq(Slot) : Line(unlink(b, i), e)
                 /\ Relinked(b, unlink(b, i), i)
      <4>1. RemoveAt(d, k) \in Seq(Slot)
        BY RemoveAtElements
      <4>2. QED
        BY <2>1, <2>3, <3>2, <4>1, UnlinkInside
    <3>3. QED
      BY <3>1, <3>2
  <2>5. \A s \in Slot : s < i + 1 => ~unlink(b, i)[s].m_linked
    BY <2>1, <2>2, <2>4 DEF Relinked
  <2>6. unlinked[i+1] = unlink(b, i)
    BY <1>4 DEF b
  <2>7. QED
    BY <2>4, <2>5, <2>6
<1>7. Freed(unlinked[N_MEMB], N_MEMB)
  <2> HIDE DEF Reached
  <2>1. N_MEMB \in Reached
    BY <1>5, <1>6, SetInduction, QueueAssumption
  <2>2. QED
    BY <2>1, QueueAssumption DEF Reached
<1> DEFINE b == unlinkAll(a)
<1>8. b \in [Slot -> Node] /\ \A s \in Slot : ~b[s].m_linked
  BY <1>2, <1>7, QueueAssumption DEF Slot
<1>9. PICK d \in Seq(Slot) : Line(b, d)
  BY <1>2, <1>7
<1> HIDE DEF b
<1>10. Len(d) = 0
  <2>1. \A i \in 1 .. Len(d) : d[i] \in Slot /\ b[d[i]].m_linked
    BY <1>9, LenProperties DEF Line
  <2>2. QED
    BY <1>8, <2>1, LenProperties
<1>11. Line(b, <<>>)
  BY <1>9, <1>10, EmptySeq DEF Line
<1>12. QED
  BY <1>8, <1>11 DEF b

-----------------------------------------------------------------------------
(***************************************************************************)
(* What the calls do to the queue                                          *)
(***************************************************************************)

LEMMA QueuedIs ==
    ASSUME NEW c \in Seq(Slot), NEW d \in {0, 1}, d <= Len(c)
    PROVE  /\ Queued(c, d) \in Seq(Slot) /\ Len(Queued(c, d)) = Len(c) - d
           /\ \A i \in 1 .. Len(c) - d : Queued(c, d)[i] = c[i+d] /\ i + d \in 1 .. Len(c)
<1>1. Len(c) \in Nat /\ Len(c) - d \in Nat
  BY LenProperties
<1>2. \A i \in 1 .. Len(c) - d : i + d \in 1 .. Len(c)
  BY <1>1
<1>3. \A i \in 1 .. Len(c) - d : c[i+d] \in Slot
  BY <1>2, LenProperties
<1>4. QED
  BY <1>1, <1>2, <1>3 DEF Queued

LEMMA OrderIsQueued ==
    ASSUME NEW a, NEW c \in Seq(Slot), NEW d \in {0, 1}, Line(a, c),
           NEW head, NEW tail, Ends(c, d, head, tail)
    PROVE  d <= Len(c) /\ chain(a, tail) = Queued(c, d)
<1> DEFINE q == Queued(c, d)
<1>1. Len(c) \in Nat /\ d <= Len(c)
  BY LenProperties, EmptySeq DEF Ends
<1>2. /\ q \in Seq(Slot) /\ Len(q) = Len(c) - d
      /\ \A i \in 1 .. Len(c) - d : q[i] = c[i+d] /\ i + d \in 1 .. Len(c)
  BY <1>1, QueuedIs
<1> HIDE DEF q
<1>3. Len(q) <= N_MEMB
  <2>1. Len(c) <= N_MEMB
    BY LineFits DEF Line
  <2>2. QED
    BY <1>1, <1>2, <2>1, QueueAssumption
<1>4. tail = IF q = <<>> THEN NULL ELSE q[1]
  BY <1>1, <1>2, EmptySeq DEF Ends
<1>5. ASSUME NEW i \in 1 .. Len(q)
      PROVE  a[q[i]].m_next = IF i = Len(q) THEN NULL ELSE q[i+1]
  <2>1. a[c[i+d]].m_next = IF i + d = Len(c) THEN NULL ELSE c[(i+d)+1]
    BY <1>1, <1>2 DEF Line
  <2>2. i # Len(q) => i + 1 \in 1 .. Len(c) - d /\ (i + 1) + d = (i + d) + 1
    BY <1>1, <1>2
  <2>3. i + d = Len(c) <=> i = Len(q)
    BY <1>1, <1>2
  <2>4. QED
    BY <1>2, <2>1, <2>2, <2>3
<1>6. chain(a, tail) = q
  <2>1. q \in Seq(Slot)
    BY <1>2
  <2>2. \A i \in 1 .. Len(q) :
           a[q[i]].m_next = IF i = Len(q) THEN NULL ELSE q[i+1]
    BY <1>5
  <2>3. QED
    BY <1>3, <1>4, <2>1, <2>2, ChainOfNodes, SMTT(30)
<1>7. QED
  BY <1>1, <1>6 DEF q

LEMMA TakeTheTail ==
    ASSUME NEW a \in [Slot -> Node], NEW c \in Seq(Slot), NEW d \in {0, 1},
           Line(a, c), NEW head, NEW tail, Ends(c, d, head, tail), tail # NULL
    PROVE  /\ tail \in Slot
           /\ Queued(c, d) # <<>> /\ Head(Queued(c, d)) = tail
           /\ unlink(a, tail) \in [Slot -> Node]
           /\ Relinked(a, unlink(a, tail), tail)
           /\ \E e \in Seq(Slot), f \in {0, 1} :
                /\ Line(unlink(a, tail), e)
                /\ Ends(e, f, head, a[tail].m_next)
                /\ Queued(e, f) = Tail(Queued(c, d))
<1> DEFINE q == Queued(c, d)
           r == RemoveAt(c, d + 1)
<1>1. /\ Len(c) \in Nat /\ d < Len(c) /\ d <= Len(c) /\ d + 1 \in 1 .. Len(c)
      /\ tail = c[d+1] /\ head = c[Len(c)] /\ tail \in Slot
  BY LenProperties DEF Ends
<1>2. /\ q \in Seq(Slot) /\ Len(q) = Len(c) - d
      /\ \A i \in 1 .. Len(c) - d : q[i] = c[i+d] /\ i + d \in 1 .. Len(c)
  BY <1>1, QueuedIs
<1>3. /\ r \in Seq(Slot) /\ Len(r) = Len(c) - 1
      /\ \A i \in 1 .. Len(c) - 1 : r[i] = IF i < d + 1 THEN c[i] ELSE c[i+1]
  BY <1>1, RemoveAtElements
<1>4. /\ unlink(a, tail) \in [Slot -> Node]
      /\ Line(unlink(a, tail), r)
      /\ Relinked(a, unlink(a, tail), tail)
  BY <1>1, UnlinkInside
<1> HIDE DEF q, r
<1>5. q # <<>> /\ q[1] = tail
  BY <1>1, <1>2, EmptySeq
<1>6. /\ Tail(q) \in Seq(Slot) /\ Len(Tail(q)) = Len(c) - d - 1
      /\ \A i \in 1 .. Len(c) - d - 1 : Tail(q)[i] = q[i+1]
  BY <1>2, <1>5, HeadTailProperties
<1>7. CASE d + 1 = Len(c)
  <2>1. a[tail].m_next = NULL
    BY <1>1, <1>7 DEF Line
  <2>2. Len(r) <= 1
    BY <1>1, <1>3, <1>7
  <2>3. Line(unlink(a, tail), <<>>)
    <3> DEFINE b == unlink(a, tail)
    <3>1. \A t \in Slot : (\A i \in 1 .. Len(r) : r[i] # t) =>
            b[t].m_next = NULL /\ b[t].m_prev = NULL
      BY <1>4 DEF Line
    <3>2. \A i \in 1 .. Len(r) : b[r[i]].m_next = NULL /\ b[r[i]].m_prev = NULL
      BY <1>3, <1>4, <2>2, LenProperties DEF Line
    <3> HIDE DEF b
    <3>3. \A t \in Slot : b[t].m_next = NULL /\ b[t].m_prev = NULL
      BY <3>1, <3>2
    <3>4. QED
      BY <3>3, EmptySeq DEF Line, b
  <2>4. Queued(<<>>, 0) = Tail(q)
    <3>1. Queued(<<>>, 0) = <<>>
      BY DEF Queued
    <3>2. Len(c) - d - 1 = 0
      BY <1>1, <1>7
    <3>3. Len(Tail(q)) = 0
      BY <1>6, <3>2, Zenon
    <3>4. QED
      BY <1>6, <3>1, <3>3, EmptySeq
  <2>5. Ends(<<>>, 0, head, a[tail].m_next)
    BY <2>1 DEF Ends
  <2>6. <<>> \in Seq(Slot) /\ 0 \in {0, 1}
    BY EmptySeq
  <2>7. Head(q) = tail
    BY <1>2, <1>5
  <2>8. QED
    BY <1>1, <1>4, <1>5, <2>3, <2>4, <2>5, <2>6, <2>7, Zenon DEF q
<1>8. CASE d + 1 < Len(c)
  <2>1. a[tail].m_next = c[(d+1)+1]
    BY <1>1, <1>8 DEF Line
  <2>2. d < Len(r) /\ d + 1 \in 1 .. Len(c) - 1 /\ Len(r) \in 1 .. Len(c) - 1 /\ Len(r) + 1 = Len(c)
    BY <1>1, <1>3, <1>8
  <2>3. r[d+1] = c[(d+1)+1] /\ r[Len(r)] = c[Len(c)]
    BY <1>1, <1>3, <2>2
  <2>4. Ends(r, d, head, a[tail].m_next)
    BY <1>1, <2>1, <2>2, <2>3 DEF Ends
  <2>5. /\ Queued(r, d) \in Seq(Slot) /\ Len(Queued(r, d)) = Len(r) - d
        /\ \A i \in 1 .. Len(r) - d : Queued(r, d)[i] = r[i+d]
    <3>1. d <= Len(r)
      BY <1>1, <1>3, <2>2
    <3>2. QED
      BY <1>3, <3>1, QueuedIs
  <2>6. ASSUME NEW i \in 1 .. Len(Tail(q))
        PROVE  Queued(r, d)[i] = Tail(q)[i]
    <3>1. i \in 1 .. Len(r) - d /\ i + 1 \in 1 .. Len(c) - d
      BY <1>1, <1>3, <1>6
    <3>2. i + d \in 1 .. Len(c) - 1 /\ ~(i + d < d + 1) /\ (i + d) + 1 = (i + 1) + d
      BY <1>1, <1>6
    <3>3. QED
      BY <1>2, <1>3, <1>6, <2>5, <3>1, <3>2
  <2>7. Len(Queued(r, d)) = Len(Tail(q))
    BY <1>1, <1>3, <1>6, <2>5
  <2>8. Queued(r, d) = Tail(q)
    BY <1>6, <2>5, <2>6, <2>7, SeqEqual
  <2>9. Head(q) = tail
    BY <1>2, <1>5
  <2>10. QED
    BY <1>1, <1>3, <1>4, <1>5, <2>4, <2>8, <2>9, Zenon DEF q
<1>9. QED
  BY <1>1, <1>7, <1>8

LEMMA RemoveInside ==
    ASSUME NEW a \in [Slot -> Node], NEW c \in Seq(Slot), NEW d \in {0, 1},
           Line(a, c), NEW head, NEW tail, Ends(c, d, head, tail),
           NEW k \in 1 .. Len(Queued(c, d)), NEW s, s = Queued(c, d)[k], s # tail
    PROVE  /\ unlink(a, s) \in [Slot -> Node]
           /\ Relinked(a, unlink(a, s), s)
           /\ \E e \in Seq(Slot) :
                /\ Line(unlink(a, s), e)
                /\ Ends(e, d, IF head = s THEN a[s].m_prev ELSE head, tail)
                /\ Queued(e, d) = RemoveAt(Queued(c, d), k)
<1> DEFINE q == Queued(c, d)
           m == k + d
           r == RemoveAt(c, m)
           p == RemoveAt(q, k)
           newest == IF head = s THEN a[s].m_prev ELSE head
<1>1. Len(c) \in Nat /\ d <= Len(c)
  BY LenProperties, EmptySeq DEF Ends
<1>2. /\ q \in Seq(Slot) /\ Len(q) = Len(c) - d
      /\ \A i \in 1 .. Len(c) - d : q[i] = c[i+d] /\ i + d \in 1 .. Len(c)
  BY <1>1, QueuedIs
<1>3. d < Len(c) /\ tail = c[d+1] /\ head = c[Len(c)]
  <2>1. Len(c) # 0
    BY <1>1, <1>2
  <2>2. QED
    BY <2>1, EmptySeq DEF Ends
<1>4. m \in 1 .. Len(c) /\ s = c[m] /\ m # d + 1 /\ m > d + 1
  BY <1>1, <1>2, <1>3
<1> HIDE DEF m
<1>5. /\ r \in Seq(Slot) /\ Len(r) = Len(c) - 1
      /\ \A i \in 1 .. Len(c) - 1 : r[i] = IF i < m THEN c[i] ELSE c[i+1]
  BY <1>4, RemoveAtElements
<1>6. /\ unlink(a, s) \in [Slot -> Node]
      /\ Line(unlink(a, s), r)
      /\ Relinked(a, unlink(a, s), s)
  BY <1>4, UnlinkInside
<1>7. /\ p \in Seq(Slot) /\ Len(p) = Len(c) - d - 1
      /\ \A i \in 1 .. Len(c) - d - 1 : p[i] = IF i < k THEN q[i] ELSE q[i+1]
  <2> HIDE DEF q
  <2>1. k \in 1 .. Len(q)
    BY DEF q
  <2>2. QED
    BY <1>2, <2>1, RemoveAtElements
<1> HIDE DEF q, r, p, newest
<1>8. Ends(r, d, newest, tail)
  <2>1. d < Len(r) /\ d + 1 \in 1 .. Len(c) - 1 /\ d + 1 < m
    BY <1>1, <1>4, <1>5
  <2>2. r[d+1] = tail
    BY <1>3, <1>5, <2>1
  <2>3. newest = r[Len(r)]
    <3>1. Len(r) \in 1 .. Len(c) - 1 /\ Len(r) + 1 = Len(c) /\ Len(c) \in 1 .. Len(c)
      BY <1>1, <1>5, <2>1
    <3>2. head = s <=> m = Len(c)
      BY <1>3, <1>4, <3>1 DEF Line
    <3>3. CASE m = Len(c)
      <4>1. a[s].m_prev = c[m-1]
        BY <1>1, <1>4, <3>1, <3>3 DEF Line
      <4>2. Len(r) < m /\ m - 1 = Len(r)
        BY <1>1, <3>1, <3>3
      <4>3. QED
        BY <1>5, <3>1, <3>2, <3>3, <4>1, <4>2 DEF newest
    <3>4. CASE m # Len(c)
      <4>1. ~(Len(r) < m)
        BY <1>1, <1>4, <3>1, <3>4
      <4>2. QED
        BY <1>3, <1>5, <3>1, <3>2, <3>4, <4>1 DEF newest
    <3>5. QED
      BY <3>3, <3>4
  <2>4. QED
    BY <2>1, <2>2, <2>3 DEF Ends
<1>9. /\ Queued(r, d) \in Seq(Slot) /\ Len(Queued(r, d)) = Len(r) - d
      /\ \A i \in 1 .. Len(r) - d : Queued(r, d)[i] = r[i+d]
  <2>1. d <= Len(r)
    BY <1>1, <1>3, <1>5
  <2>2. QED
    BY <1>5, <2>1, QueuedIs
<1>10. Queued(r, d) = p
  <2>1. Len(Queued(r, d)) = Len(p)
    BY <1>1, <1>5, <1>7, <1>9
  <2>2. ASSUME NEW i \in 1 .. Len(p)
        PROVE  Queued(r, d)[i] = p[i]
    <3>1. /\ i \in 1 .. Len(r) - d /\ i \in 1 .. Len(c) - d - 1
          /\ i \in 1 .. Len(c) - d /\ i + 1 \in 1 .. Len(c) - d
          /\ i + d \in 1 .. Len(c) - 1 /\ (i + d) + 1 = (i + 1) + d
          /\ (i < k <=> i + d < m)
      BY <1>1, <1>5, <1>7, <1>2 DEF m
    <3>2. Queued(r, d)[i] = IF i + d < m THEN c[i+d] ELSE c[(i+d)+1]
      BY <1>5, <1>9, <3>1
    <3>3. p[i] = IF i < k THEN c[i+d] ELSE c[(i+1)+d]
      BY <1>2, <1>7, <3>1
    <3>4. QED
      BY <3>1, <3>2, <3>3
  <2>3. QED
    BY <1>7, <1>9, <2>1, <2>2, SeqEqual
<1>11. QED
  BY <1>5, <1>6, <1>8, <1>10, Zenon DEF q, p, newest

LEMMA InsertAtHead ==
    ASSUME NEW a \in [Slot -> Node], NEW c \in Seq(Slot), NEW d \in {0, 1},
           Line(a, c), NEW head \in Slot, NEW tail, Ends(c, d, head, tail),
           NEW slot \in Slot, ~a[slot].m_linked, NEW v \in Value,
           NEW b, b = WithNode(a, head, slot, v)
    PROVE  /\ b \in [Slot -> Node]
           /\ StoredAt(a, b, slot, v)
           /\ \A i \in 1 .. Len(Queued(c, d)) : Queued(c, d)[i] # slot
           /\ \E e \in Seq(Slot), f \in {0, 1} :
                /\ Line(b, e)
                /\ Ends(e, f, slot, IF tail = NULL THEN slot ELSE tail)
                /\ Queued(e, f) = Append(Queued(c, d), slot)
<1> DEFINE q == Queued(c, d)
           e == Lengthened(c, head, slot)
           oldest == IF tail = NULL THEN slot ELSE tail
<1>1. Len(c) \in Nat /\ d <= Len(c) /\ NULL \notin Slot
  BY LenProperties, EmptySeq, NullIsNoSlot DEF Ends
<1>2. /\ q \in Seq(Slot) /\ Len(q) = Len(c) - d
      /\ \A i \in 1 .. Len(c) - d : q[i] = c[i+d] /\ i + d \in 1 .. Len(c)
  BY <1>1, QueuedIs
<1>3. c # <<>> => head = c[Len(c)]
  BY DEF Ends
<1>4. b \in [Slot -> Node] /\ e \in Seq(Slot) /\ Line(b, e) /\ StoredAt(a, b, slot, v)
  BY <1>3, LinkAtHead
<1> HIDE DEF q, e, oldest
<1>5. \A i \in 1 .. Len(q) : q[i] # slot
  <2>1. \A i \in 1 .. Len(c) : a[c[i]].m_linked
    BY DEF Line
  <2>2. \A i \in 1 .. Len(c) : c[i] # slot
    BY <2>1
  <2>3. QED
    BY <1>2, <2>2
<1>6. /\ Append(q, slot) \in Seq(Slot) /\ Len(Append(q, slot)) = Len(q) + 1
      /\ \A i \in 1 .. Len(q) : Append(q, slot)[i] = q[i]
      /\ Append(q, slot)[Len(q) + 1] = slot
  BY <1>2, AppendProperties
<1>7. CASE c # <<>>
  <2>1. /\ e \in Seq(Slot) /\ Len(e) = Len(c) + 1
        /\ \A i \in 1 .. Len(c) : e[i] = c[i]
        /\ e[Len(c) + 1] = slot
    BY <1>7, AppendProperties DEF Lengthened, e
  <2>2. d < Len(c) /\ tail = c[d+1] /\ d + 1 \in 1 .. Len(c) /\ tail \in Slot
    BY <1>1, <1>7, LenProperties DEF Ends
  <2>3. Ends(e, d, slot, oldest)
    BY <1>1, <2>1, <2>2 DEF Ends, oldest
  <2>4. /\ Queued(e, d) \in Seq(Slot) /\ Len(Queued(e, d)) = Len(c) + 1 - d
        /\ \A i \in 1 .. Len(c) + 1 - d : Queued(e, d)[i] = e[i+d]
    <3>1. d <= Len(e)
      BY <1>1, <2>1, <2>2
    <3>2. /\ Queued(e, d) \in Seq(Slot) /\ Len(Queued(e, d)) = Len(e) - d
          /\ \A i \in 1 .. Len(e) - d : Queued(e, d)[i] = e[i+d]
      BY <1>4, <3>1, QueuedIs
    <3>3. QED
      BY <2>1, <3>2
  <2>5. Len(Queued(e, d)) = Len(Append(q, slot))
    BY <1>1, <1>2, <1>6, <2>4
  <2>6. ASSUME NEW i \in 1 .. Len(Queued(e, d))
        PROVE  Queued(e, d)[i] = Append(q, slot)[i]
    <3>1. CASE i \in 1 .. Len(q)
      <4>1. i \in 1 .. Len(c) - d /\ i \in 1 .. Len(c) + 1 - d
        BY <1>1, <1>2, <3>1
      <4>2. QED
        BY <1>2, <1>6, <2>1, <2>4, <3>1, <4>1
    <3>2. CASE i = Len(q) + 1
      <4>1. i \in 1 .. Len(c) + 1 - d /\ i + d = Len(c) + 1
        BY <1>1, <1>2, <3>2
      <4>2. QED
        BY <1>6, <2>1, <2>4, <3>2, <4>1
    <3>3. QED
      BY <1>1, <1>2, <2>4, <3>1, <3>2
  <2>7. Queued(e, d) = Append(q, slot)
    BY <1>6, <2>4, <2>5, <2>6, SeqEqual
  <2>8. QED
    BY <1>4, <1>5, <2>3, <2>7, Zenon DEF q, oldest
<1>8. CASE c = <<>>
  <2>1. d = 0 /\ tail = NULL /\ oldest = slot /\ q = <<>>
    BY <1>1, <1>2, <1>8, EmptySeq DEF Ends, oldest
  <2>2. Append(q, slot) = <<slot>>
    BY <2>1
  <2>3. CASE head = slot
    <3>1. e = <<slot>>
      BY <1>8, <2>3 DEF Lengthened, e
    <3>2. Ends(e, 0, slot, oldest)
      BY <2>1, <3>1 DEF Ends
    <3>3. Queued(e, 0) = Append(q, slot)
      BY <2>2, <3>1 DEF Queued
    <3>4. 0 \in {0, 1}
      OBVIOUS
    <3>5. QED
      BY <1>4, <1>5, <3>2, <3>3, <3>4, Zenon DEF q, oldest
  <2>4. CASE head # slot
    <3>1. e = <<head, slot>>
      BY <1>8, <2>4 DEF Lengthened, e
    <3>2. Ends(e, 1, slot, oldest)
      BY <2>1, <3>1 DEF Ends
    <3>3. Queued(e, 1) = Append(q, slot)
      BY <2>2, <3>1 DEF Queued
    <3>4. 1 \in {0, 1}
      OBVIOUS
    <3>5. QED
      BY <1>4, <1>5, <3>2, <3>3, <3>4, Zenon DEF q, oldest
  <2>5. QED
    BY <2>3, <2>4
<1>9. QED
  BY <1>7, <1>8

-----------------------------------------------------------------------------
(***************************************************************************)
(* The elements of the queue                                               *)
(***************************************************************************)

Values(a, q) == [i \in DOMAIN q |-> a[q[i]].m_value]

LEMMA ValuesAre ==
    ASSUME NEW a \in [Slot -> Node], NEW q \in Seq(Slot)
    PROVE  /\ Values(a, q) \in Seq(Value) /\ Len(Values(a, q)) = Len(q)
           /\ \A i \in 1 .. Len(q) : Values(a, q)[i] = a[q[i]].m_value
<1>1. Len(q) \in Nat /\ DOMAIN q = 1 .. Len(q) /\ \A i \in 1 .. Len(q) : q[i] \in Slot
  BY LenProperties
<1>2. \A i \in 1 .. Len(q) : a[q[i]].m_value \in Value
  BY <1>1 DEF Node
<1>3. Values(a, q) = [i \in 1 .. Len(q) |-> a[q[i]].m_value]
  BY <1>1 DEF Values
<1>4. QED
  BY <1>1, <1>2, <1>3

LEMMA ValuesTail ==
    ASSUME NEW a \in [Slot -> Node], NEW b \in [Slot -> Node], NEW s, Relinked(a, b, s),
           NEW q \in Seq(Slot), q # <<>>
    PROVE  /\ Values(a, q) # <<>> /\ Head(Values(a, q)) = a[Head(q)].m_value
           /\ Values(b, Tail(q)) = Tail(Values(a, q))
           /\ RemoveAt(Values(a, q), 1) = Tail(Values(a, q))
<1> DEFINE x == Values(a, q)
           y == Values(b, Tail(q))
<1>1. /\ x \in Seq(Value) /\ Len(x) = Len(q)
      /\ \A i \in 1 .. Len(q) : x[i] = a[q[i]].m_value
  BY ValuesAre
<1>2. /\ Len(q) \in Nat \ {0} /\ Head(q) = q[1] /\ \A i \in 1 .. Len(q) : q[i] \in Slot
      /\ Tail(q) \in Seq(Slot) /\ Len(Tail(q)) = Len(q) - 1
      /\ \A i \in 1 .. Len(q) - 1 : Tail(q)[i] = q[i+1]
  BY EmptySeq, LenProperties, HeadTailProperties
<1>3. /\ y \in Seq(Value) /\ Len(y) = Len(q) - 1
      /\ \A i \in 1 .. Len(q) - 1 : y[i] = b[Tail(q)[i]].m_value
  BY <1>2, ValuesAre
<1> HIDE DEF x, y
<1>4. x # <<>> /\ Head(x) = a[Head(q)].m_value
  <2>1. x # <<>>
    BY <1>1, <1>2, EmptySeq
  <2>2. Head(x) = x[1] /\ 1 \in 1 .. Len(q)
    BY <1>1, <1>2, <2>1
  <2>3. QED
    BY <1>1, <1>2, <2>1, <2>2
<1>5. /\ Tail(x) \in Seq(Value) /\ Len(Tail(x)) = Len(q) - 1
      /\ \A i \in 1 .. Len(q) - 1 : Tail(x)[i] = x[i+1]
  BY <1>1, <1>4, HeadTailProperties
<1>6. \A i \in 1 .. Len(q) - 1 : y[i] = Tail(x)[i]
  <2> SUFFICES ASSUME NEW i \in 1 .. Len(q) - 1 PROVE y[i] = Tail(x)[i]
    OBVIOUS
  <2>1. i + 1 \in 1 .. Len(q)
    BY <1>2
  <2>2. y[i] = b[q[i+1]].m_value /\ Tail(x)[i] = a[q[i+1]].m_value
    BY <1>1, <1>2, <1>3, <1>5, <2>1
  <2>3. QED
    BY <1>2, <2>1, <2>2 DEF Relinked
<1>7. y = Tail(x)
  BY <1>3, <1>5, <1>6, SeqEqual
<1>8. RemoveAt(x, 1) = Tail(x)
  <2>1. 1 \in 1 .. Len(x)
    BY <1>1, <1>2
  <2>2. /\ RemoveAt(x, 1) \in Seq(Value) /\ Len(RemoveAt(x, 1)) = Len(x) - 1
        /\ \A i \in 1 .. Len(x) - 1 : RemoveAt(x, 1)[i] = IF i < 1 THEN x[i] ELSE x[i+1]
    BY <1>1, <2>1, RemoveAtElements
  <2>3. \A i \in 1 .. Len(q) - 1 : RemoveAt(x, 1)[i] = Tail(x)[i]
    BY <1>1, <1>5, <2>2
  <2>4. QED
    BY <1>1, <1>5, <2>2, <2>3, SeqEqual
<1>9. QED
  BY <1>4, <1>7, <1>8 DEF x, y

LEMMA ValuesRemoved ==
    ASSUME NEW a \in [Slot -> Node], NEW b \in [Slot -> Node], NEW s, Relinked(a, b, s),
           NEW q \in Seq(Slot), NEW k \in 1 .. Len(q)
    PROVE  /\ k \in 1 .. Len(Values(a, q))
           /\ Values(b, RemoveAt(q, k)) = RemoveAt(Values(a, q), k)
<1> DEFINE x == Values(a, q)
           r == RemoveAt(q, k)
           y == Values(b, r)
<1>1. /\ x \in Seq(Value) /\ Len(x) = Len(q)
      /\ \A i \in 1 .. Len(q) : x[i] = a[q[i]].m_value
  BY ValuesAre
<1>2. /\ r \in Seq(Slot) /\ Len(r) = Len(q) - 1
      /\ \A i \in 1 .. Len(q) - 1 : r[i] = IF i < k THEN q[i] ELSE q[i+1]
  BY RemoveAtElements
<1> HIDE DEF x, r
<1>3. /\ y \in Seq(Value) /\ Len(y) = Len(q) - 1
      /\ \A i \in 1 .. Len(q) - 1 : y[i] = b[r[i]].m_value
  BY <1>2, ValuesAre
<1> HIDE DEF y
<1>4. /\ RemoveAt(x, k) \in Seq(Value) /\ Len(RemoveAt(x, k)) = Len(q) - 1
      /\ \A i \in 1 .. Len(q) - 1 : RemoveAt(x, k)[i] = IF i < k THEN x[i] ELSE x[i+1]
  BY <1>1, RemoveAtElements
<1>5. \A i \in 1 .. Len(q) - 1 : y[i] = RemoveAt(x, k)[i]
  <2> SUFFICES ASSUME NEW i \in 1 .. Len(q) - 1 PROVE y[i] = RemoveAt(x, k)[i]
    OBVIOUS
  <2> DEFINE j == IF i < k THEN i ELSE i + 1
  <2>1. j \in 1 .. Len(q)
    BY LenProperties
  <2>2. r[i] = q[j] /\ RemoveAt(x, k)[i] = x[j]
    BY <1>2, <1>4
  <2> HIDE DEF j
  <2>3. q[j] \in Slot
    BY <2>1, LenProperties
  <2>4. QED
    BY <1>1, <1>3, <2>1, <2>2, <2>3 DEF Relinked
<1>6. y = RemoveAt(x, k)
  BY <1>3, <1>4, <1>5, SeqEqual
<1>7. QED
  BY <1>1, <1>6 DEF x, r, y

LEMMA ValuesAppended ==
    ASSUME NEW a \in [Slot -> Node], NEW b \in [Slot -> Node], NEW slot \in Slot,
           NEW v \in Value, StoredAt(a, b, slot, v),
           NEW q \in Seq(Slot), \A i \in 1 .. Len(q) : q[i] # slot
    PROVE  Values(b, Append(q, slot)) = Append(Values(a, q), v)
<1> DEFINE x == Values(a, q)
           r == Append(q, slot)
           y == Values(b, r)
<1>1. /\ x \in Seq(Value) /\ Len(x) = Len(q)
      /\ \A i \in 1 .. Len(q) : x[i] = a[q[i]].m_value
  BY ValuesAre
<1>2. /\ r \in Seq(Slot) /\ Len(r) = Len(q) + 1
      /\ \A i \in 1 .. Len(q) : r[i] = q[i]
      /\ r[Len(q) + 1] = slot
  BY AppendProperties
<1> HIDE DEF x, r
<1>3. /\ y \in Seq(Value) /\ Len(y) = Len(q) + 1
      /\ \A i \in 1 .. Len(q) + 1 : y[i] = b[r[i]].m_value
  BY <1>2, ValuesAre
<1> HIDE DEF y
<1>4. /\ Append(x, v) \in Seq(Value) /\ Len(Append(x, v)) = Len(q) + 1
      /\ \A i \in 1 .. Len(q) : Append(x, v)[i] = x[i]
      /\ Append(x, v)[Len(q) + 1] = v
  BY <1>1, AppendProperties
<1>5. Len(q) \in Nat /\ \A i \in 1 .. Len(q) : q[i] \in Slot
  BY LenProperties
<1>6. \A i \in 1 .. Len(q) + 1 : y[i] = Append(x, v)[i]
  <2>1. ASSUME NEW i \in 1 .. Len(q) PROVE y[i] = Append(x, v)[i]
    BY <1>1, <1>2, <1>3, <1>4, <1>5 DEF StoredAt
  <2>2. y[Len(q)+1] = v
    BY <1>2, <1>3, <1>5 DEF StoredAt
  <2>3. QED
    BY <1>4, <1>5, <2>1, <2>2
<1>7. y = Append(x, v)
  BY <1>3, <1>4, <1>6, SeqEqual
<1>8. QED
  BY <1>7 DEF x, r, y

-----------------------------------------------------------------------------
(***************************************************************************)
(* The calls keep the invariant, and do what BoundedFifo allows            *)
(***************************************************************************)

LEMMA OrderIs ==
    ASSUME NEW c \in Seq(Slot), NEW d \in {0, 1},
           Line(m_array, c), Ends(c, d, m_head, m_tail)
    PROVE  order = Queued(c, d) /\ Contents = Values(m_array, Queued(c, d))
<1>1. order = Queued(c, d)
  BY OrderIsQueued DEF order
<1>2. QED
  BY <1>1 DEF Contents, Values

\* The same of the state after a call.
LEMMA OrderBecomes ==
    ASSUME NEW c \in Seq(Slot), NEW d \in {0, 1},
           Line(m_array', c), Ends(c, d, m_head', m_tail')
    PROVE  LinksInv' /\ order' = Queued(c, d) /\ Contents' = Values(m_array', Queued(c, d))
<1>1. order' = Queued(c, d)
  BY OrderIsQueued DEF order
<1>2. Contents' = Values(m_array', Queued(c, d))
  BY <1>1 DEF Contents, Values
<1>3. LinksInv'
  BY DEF LinksInv
<1>4. QED
  BY <1>1, <1>2, <1>3

LEMMA FoundIs ==
    ASSUME NEW a, NEW index, NEW s \in findEmptySlot(a, index)
    PROVE  /\ s \in Slot \cup {N_MEMB, NULL}
           /\ s = NULL => Empty(a, index) = {}
           /\ s \in Slot => s \in Empty(a, index) /\ ~a[s].m_linked
<1>1. s \in Empty(a, index) => s \in Slot /\ ~a[s].m_linked
  BY DEF Empty, Searched
<1>2. /\ s \in Slot \cup {N_MEMB, NULL}
      /\ \/ s = N_MEMB
         \/ s = NULL /\ Empty(a, index) = {}
         \/ s \in Empty(a, index)
  BY Zenon DEF findEmptySlot
<1>3. NULL # N_MEMB
  BY QueueAssumption
<1>4. QED
  BY <1>1, <1>2, <1>3, NullIsNoSlot

LEMMA InsertStep ==
    ASSUME QueueInv, NEW v \in Value, insert(v)
    PROVE  QueueInv' /\ [Fifo!Next]_(Fifo!vars)
<1>1. PICK slot \in IF m_next_available_slot # NULL THEN {m_next_available_slot}
                    ELSE findEmptySlot(m_array, m_slot_index) :
        \/ /\ slot = NULL
           /\ result' = Fifo!Refused
           /\ UNCHANGED <<links, search, overrun>>
        \/ /\ slot = N_MEMB
           /\ overrun' = TRUE
           /\ UNCHANGED <<links, search, result>>
        \/ /\ slot \in Slot
           /\ enqueueNode([m_array EXCEPT ![slot] = Fresh(v)], slot)
           /\ lookAhead(IF m_next_available_slot # NULL THEN m_slot_index ELSE slot)
           /\ result' = Fifo!Inserted
           /\ UNCHANGED overrun
  BY DEF insert
<1>2. ASSUME UNCHANGED <<links, search>>, overrun' \in BOOLEAN
      PROVE  QueueInv' /\ Contents' = Contents
  <2>1. UNCHANGED <<m_array, m_head, m_tail, m_full, m_next_available_slot, m_slot_index>>
    BY <1>2 DEF links, search
  <2>2. Contents' = Contents
    BY <2>1 DEF Contents, order
  <2>3. QED
    BY <1>2, <2>1, <2>2 DEF QueueInv, QueueTypeOK, LinksInv, SearchInv
<1>3. CASE slot = NULL /\ result' = Fifo!Refused /\ UNCHANGED <<links, search, overrun>>
  <2>1. QueueInv' /\ Contents' = Contents
    BY <1>2, <1>3 DEF QueueInv, QueueTypeOK
  <2>2. Fifo!Insert(v)
    BY <1>3, <2>1 DEF Fifo!Insert
  <2>3. QED
    BY <2>1, <2>2 DEF Fifo!Next
<1>4. CASE slot = N_MEMB /\ overrun' = TRUE /\ UNCHANGED <<links, search, result>>
  <2>1. QueueInv' /\ Contents' = Contents
    BY <1>2, <1>4
  <2>2. UNCHANGED Fifo!vars
    BY <1>4, <2>1 DEF Fifo!vars
  <2>3. QED
    BY <2>1, <2>2
<1>5. CASE /\ slot \in Slot
           /\ enqueueNode([m_array EXCEPT ![slot] = Fresh(v)], slot)
           /\ lookAhead(IF m_next_available_slot # NULL THEN m_slot_index ELSE slot)
           /\ result' = Fifo!Inserted
           /\ UNCHANGED overrun
  <2> DEFINE index == IF m_next_available_slot # NULL THEN m_slot_index ELSE slot
  <2>1. slot \in Slot /\ ~m_array[slot].m_linked /\ m_full = FALSE
    <3>1. CASE m_next_available_slot # NULL
      BY <1>5, <3>1 DEF QueueInv, QueueTypeOK, SearchInv
    <3>2. CASE m_next_available_slot = NULL
      <4>1. slot \in findEmptySlot(m_array, m_slot_index)
        BY <3>2
      <4>2. slot \in Empty(m_array, m_slot_index) /\ ~m_array[slot].m_linked
        BY <1>5, <4>1, FoundIs
      <4>3. QED
        BY <1>5, <4>2 DEF QueueInv, QueueTypeOK, SearchInv
    <3>3. QED
      BY <3>1, <3>2
  <2>2. /\ m_array \in [Slot -> Node] /\ m_head \in Slot
        /\ m_tail \in Slot \cup {NULL} /\ overrun \in BOOLEAN
    BY DEF QueueInv, QueueTypeOK
  <2>3. /\ m_array' = WithNode(m_array, m_head, slot, v)
        /\ m_tail' = IF m_tail = NULL THEN slot ELSE m_tail
        /\ m_head' = slot
    BY <1>5, <2>1 DEF enqueueNode, WithNode
  <2>4. PICK next \in findEmptySlot(m_array', index) :
          /\ m_next_available_slot' = next
          /\ m_slot_index' = IF next = NULL THEN index ELSE next
          /\ m_full' = (m_full \/ next = NULL)
    BY <1>5 DEF lookAhead
  <2>5. index \in Slot
    <3>1. CASE m_next_available_slot # NULL
      <4>1. slot = m_next_available_slot /\ m_next_available_slot # N_MEMB
        BY <2>1, <3>1, NullIsNoSlot
      <4>2. QED
        BY <3>1, <4>1 DEF QueueInv, SearchInv
    <3>2. QED
      BY <2>1, <3>1
  <2> HIDE DEF index
  <2>6. /\ next \in Slot \cup {N_MEMB, NULL}
        /\ next = NULL => Empty(m_array', index) = {}
        /\ next \in Slot => ~m_array'[next].m_linked
    BY <2>4, FoundIs
  <2>7. PICK c \in Seq(Slot), d \in {0, 1} :
          Line(m_array, c) /\ Ends(c, d, m_head, m_tail)
    BY DEF QueueInv, LinksInv
  <2> DEFINE q == Queued(c, d)
             b == WithNode(m_array, m_head, slot, v)
  <2>8. /\ b \in [Slot -> Node]
        /\ StoredAt(m_array, b, slot, v)
        /\ \A i \in 1 .. Len(q) : q[i] # slot
        /\ \E e \in Seq(Slot), f \in {0, 1} :
             /\ Line(b, e)
             /\ Ends(e, f, slot, IF m_tail = NULL THEN slot ELSE m_tail)
             /\ Queued(e, f) = Append(q, slot)
    BY <2>1, <2>2, <2>7, InsertAtHead
  <2> HIDE DEF b
  <2>9. m_array' = b
    BY <2>3 DEF b
  <2>10. PICK e \in Seq(Slot), f \in {0, 1} :
            /\ Line(b, e)
            /\ Ends(e, f, slot, IF m_tail = NULL THEN slot ELSE m_tail)
            /\ Queued(e, f) = Append(q, slot)
    BY <2>8
  <2>11. Line(m_array', e) /\ Ends(e, f, m_head', m_tail')
    BY <2>3, <2>9, <2>10
  <2>12. LinksInv' /\ Contents' = Values(b, Append(q, slot))
    BY <2>9, <2>10, <2>11, OrderBecomes
  <2>13. q \in Seq(Slot)
    <3>1. d <= Len(c)
      BY <2>7, OrderIsQueued
    <3>2. QED
      BY <3>1, QueuedIs
  <2>14. Contents = Values(m_array, q)
    BY <2>7, OrderIs
  <2>15. Contents' = Append(Contents, v)
    <3>1. Values(b, Append(q, slot)) = Append(Values(m_array, q), v)
      <4> HIDE DEF q
      <4> QED BY <2>1, <2>2, <2>8, <2>13, ValuesAppended
    <3>2. QED
      BY <2>12, <2>14, <3>1
  <2>16. Len(Contents) < N_MEMB
    <3>1. Len(Contents) = Len(q)
      BY <2>2, <2>13, <2>14, ValuesAre
    <3>2. f <= Len(e) /\ Len(e) \in Nat /\ Len(Queued(e, f)) = Len(e) - f
      BY <2>11, OrderIsQueued, QueuedIs, LenProperties
    <3>3. Len(Append(q, slot)) = Len(q) + 1
      BY <2>1, <2>13, AppendProperties
    <3>4. Len(e) <= N_MEMB
      BY <2>10, LineFits DEF Line
    <3>5. Len(q) + 1 = Len(e) - f
      BY <2>10, <3>2, <3>3
    <3>6. Len(q) \in Nat
      BY <2>13, LenProperties
    <3>7. QED
      BY <3>1, <3>2, <3>4, <3>5, <3>6, QueueAssumption
  <2>17. Fifo!Next
    <3>1. Fifo!Insert(v)
      BY <1>5, <2>15, <2>16 DEF Fifo!Insert
    <3>2. QED
      BY <3>1 DEF Fifo!Next
  <2>18. QueueTypeOK'
    BY <1>5, <2>2, <2>1, <2>3, <2>4, <2>5, <2>6, <2>8, <2>9 DEF QueueTypeOK
  <2>19. SearchInv'
    BY <2>1, <2>4, <2>5, <2>6, NullIsNoSlot DEF SearchInv
  <2>20. QED
    BY <2>12, <2>17, <2>18, <2>19 DEF QueueInv
<1>6. QED
  BY <1>1, <1>3, <1>4, <1>5

LEMMA DequeueStep ==
    ASSUME QueueInv, overrun \in BOOLEAN, dequeue
    PROVE  QueueInv' /\ [Fifo!Next]_(Fifo!vars)
<1>1. PICK c \in Seq(Slot), d \in {0, 1} :
        Line(m_array, c) /\ Ends(c, d, m_head, m_tail)
  BY DEF QueueInv, LinksInv
<1> DEFINE q == Queued(c, d)
<1>2. Contents = Values(m_array, q)
  BY <1>1, OrderIs
<1>3. UNCHANGED <<m_next_available_slot, m_slot_index, overrun>>
  BY DEF dequeue, search
<1>4. CASE m_tail = NULL
  <2>1. UNCHANGED <<m_array, m_head, m_tail, m_full>> /\ result' = Fifo!Nothing
    BY <1>4 DEF dequeue, links
  <2>2. QueueInv' /\ Contents' = Contents
    BY <1>3, <2>1
       DEF QueueInv, QueueTypeOK, LinksInv, SearchInv, Contents, order
  <2>3. Contents = <<>>
    <3>1. c = <<>> /\ d = 0
      <4>1. NULL \notin Slot
        BY NullIsNoSlot
      <4>2. d < Len(c) => c[d+1] \in Slot
        BY LenProperties
      <4>3. QED
        BY <1>1, <1>4, <4>1, <4>2 DEF Ends
    <3>2. q = <<>>
      BY <3>1 DEF Queued
    <3>3. Values(m_array, <<>>) = <<>>
      BY DEF Values
    <3>4. QED
      BY <1>2, <3>2, <3>3
  <2>4. Fifo!Dequeue
    BY <2>1, <2>2, <2>3 DEF Fifo!Dequeue
  <2>5. QED
    BY <2>2, <2>4 DEF Fifo!Next
<1>5. CASE m_tail # NULL
  <2> DEFINE b == unlink(m_array, m_tail)
  <2>1. /\ m_array' = b /\ m_tail' = m_array[m_tail].m_next
        /\ m_full' = FALSE /\ m_head' = m_head
        /\ result' = Fifo!Dequeued(m_array[m_tail].m_value)
    BY <1>5 DEF dequeue, takeTail
  <2>2. m_array \in [Slot -> Node]
    BY DEF QueueInv, QueueTypeOK
  <2>3. /\ m_tail \in Slot /\ q # <<>> /\ Head(q) = m_tail
        /\ b \in [Slot -> Node] /\ Relinked(m_array, b, m_tail)
        /\ \E e \in Seq(Slot), f \in {0, 1} :
             /\ Line(b, e)
             /\ Ends(e, f, m_head, m_array[m_tail].m_next)
             /\ Queued(e, f) = Tail(q)
    BY <1>1, <1>5, <2>2, TakeTheTail
  <2> HIDE DEF b
  <2>4. LinksInv' /\ Contents' = Values(b, Tail(q))
    <3>1. PICK e \in Seq(Slot), f \in {0, 1} :
             /\ Line(b, e)
             /\ Ends(e, f, m_head, m_array[m_tail].m_next)
             /\ Queued(e, f) = Tail(q)
      BY <2>3
    <3>2. Line(m_array', e) /\ Ends(e, f, m_head', m_tail')
      BY <2>1, <3>1
    <3>3. QED
      BY <2>1, <3>1, <3>2, OrderBecomes
  <2>5. q \in Seq(Slot)
    BY <1>1, OrderIsQueued, QueuedIs
  <2> HIDE DEF q
  <2>6. /\ Contents # <<>> /\ Head(Contents) = m_array[m_tail].m_value
        /\ Contents' = Tail(Contents)
    <3>1. /\ Values(m_array, q) # <<>>
          /\ Head(Values(m_array, q)) = m_array[Head(q)].m_value
          /\ Values(b, Tail(q)) = Tail(Values(m_array, q))
      BY <2>2, <2>3, <2>5, ValuesTail
    <3>2. QED
      BY <1>2, <2>3, <2>4, <3>1
  <2>7. Fifo!Dequeue
    BY <2>1, <2>6 DEF Fifo!Dequeue
  <2>8. QueueTypeOK'
    <3>1. m_array[m_tail].m_next \in Slot \cup {NULL}
      BY <2>2, <2>3 DEF Node
    <3>2. QED
      BY <1>3, <2>1, <2>3, <3>1 DEF QueueInv, QueueTypeOK
  <2>9. SearchInv'
    BY <1>3, <2>1, <2>3 DEF QueueInv, SearchInv, Relinked
  <2>10. QED
    BY <2>4, <2>7, <2>8, <2>9 DEF QueueInv, Fifo!Next
<1>6. QED
  BY <1>4, <1>5

LEMMA RemoveStep ==
    ASSUME QueueInv, NEW s \in ToSet(order), remove(s)
    PROVE  QueueInv' /\ [Fifo!Next]_(Fifo!vars)
<1>1. PICK c \in Seq(Slot), d \in {0, 1} :
        Line(m_array, c) /\ Ends(c, d, m_head, m_tail)
  BY DEF QueueInv, LinksInv
<1> DEFINE q == Queued(c, d)
           b == unlink(m_array, s)
<1>2. order = q /\ Contents = Values(m_array, q)
  BY <1>1, OrderIs
<1>3. q \in Seq(Slot)
  BY <1>1, OrderIsQueued, QueuedIs
<1>4. PICK k \in 1 .. Len(q) : s = q[k]
  <2> HIDE DEF q
  <2> QED BY <1>2, <1>3, LenProperties DEF ToSet
<1>5. s \in Slot
  <2> HIDE DEF q
  <2> QED BY <1>3, <1>4, LenProperties
<1>6. /\ m_array \in [Slot -> Node] /\ m_head \in Slot /\ overrun \in BOOLEAN
      /\ m_tail \in Slot \cup {NULL}
  BY DEF QueueInv, QueueTypeOK
<1>7. /\ UNCHANGED <<m_next_available_slot, m_slot_index, overrun>>
      /\ m_array' = b /\ m_full' = FALSE
      /\ result' = Fifo!Returned
  BY DEF remove, takeTail, search
\* All that is left to show: the array is relinked, and the contents lose one.
<1>8. ASSUME b \in [Slot -> Node], Relinked(m_array, b, s), LinksInv',
             m_head' \in Slot, m_tail' \in Slot \cup {NULL},
             NEW j \in 1 .. Len(Contents), Contents' = RemoveAt(Contents, j)
      PROVE  QueueInv' /\ [Fifo!Next]_(Fifo!vars)
  <2> HIDE DEF b
  <2>1. QueueTypeOK'
    BY <1>6, <1>7, <1>8 DEF QueueInv, QueueTypeOK
  <2>2. SearchInv'
    BY <1>7, <1>8 DEF QueueInv, SearchInv, Relinked
  <2>3. Fifo!RemoveKth(j)
    BY <1>7, <1>8 DEF Fifo!RemoveKth, Fifo!RemoveAt, RemoveAt
  <2>4. QED
    BY <1>8, <2>1, <2>2, <2>3 DEF QueueInv, Fifo!Next
<1>9. CASE m_tail = s
  <2>1. m_tail' = m_array[m_tail].m_next /\ m_head' = m_head
    BY <1>9 DEF remove, takeTail
  <2>2. m_tail # NULL
    BY <1>5, <1>9, NullIsNoSlot
  <2>3. /\ q # <<>>
        /\ b \in [Slot -> Node] /\ Relinked(m_array, b, s)
        /\ \E e \in Seq(Slot), f \in {0, 1} :
             /\ Line(b, e)
             /\ Ends(e, f, m_head, m_array[m_tail].m_next)
             /\ Queued(e, f) = Tail(q)
    <3>1. LET u == unlink(m_array, m_tail)
          IN  /\ q # <<>>
              /\ u \in [Slot -> Node] /\ Relinked(m_array, u, m_tail)
              /\ \E e \in Seq(Slot), f \in {0, 1} :
                   /\ Line(u, e)
                   /\ Ends(e, f, m_head, m_array[m_tail].m_next)
                   /\ Queued(e, f) = Tail(q)
      BY <1>1, <1>6, <2>2, TakeTheTail
    <3> HIDE DEF q
    <3>2. QED
      BY <1>9, <3>1
  <2> HIDE DEF b, q
  <2>4. LinksInv' /\ Contents' = Values(b, Tail(q))
    <3>1. PICK e \in Seq(Slot), f \in {0, 1} :
             /\ Line(b, e)
             /\ Ends(e, f, m_head, m_array[m_tail].m_next)
             /\ Queued(e, f) = Tail(q)
      BY <2>3
    <3>2. Line(m_array', e) /\ Ends(e, f, m_head', m_tail')
      BY <1>7, <2>1, <3>1
    <3>3. QED
      BY <1>7, <3>1, <3>2, OrderBecomes
  <2>5. /\ Values(b, Tail(q)) = Tail(Values(m_array, q))
        /\ RemoveAt(Values(m_array, q), 1) = Tail(Values(m_array, q))
    BY <1>3, <1>6, <2>3, ValuesTail
  <2>6. 1 \in 1 .. Len(Contents) /\ Contents' = RemoveAt(Contents, 1)
    <3>1. Len(q) \in Nat /\ Len(q) # 0 /\ Len(Contents) = Len(q)
      BY <1>2, <1>3, <1>6, <2>3, EmptySeq, LenProperties, ValuesAre
    <3>2. 1 \in 1 .. Len(Contents)
      BY <3>1
    <3>3. QED
      BY <1>2, <2>4, <2>5, <3>2
  <2>7. m_array[m_tail].m_next \in Slot \cup {NULL}
    BY <1>5, <1>6, <1>9 DEF Node
  <2>8. QED
    BY <1>6, <1>8, <2>1, <2>3, <2>4, <2>6, <2>7
<1>10. CASE m_tail # s
  <2>1. /\ m_tail' = m_tail
        /\ m_head' = IF m_head = s THEN m_array[s].m_prev ELSE m_head
    BY <1>10 DEF remove
  <2>2. /\ b \in [Slot -> Node] /\ Relinked(m_array, b, s)
        /\ \E e \in Seq(Slot) :
             /\ Line(b, e)
             /\ Ends(e, d, IF m_head = s THEN m_array[s].m_prev ELSE m_head, m_tail)
             /\ Queued(e, d) = RemoveAt(q, k)
    BY <1>1, <1>4, <1>6, <1>10, RemoveInside
  <2> HIDE DEF b, q
  <2>3. PICK e \in Seq(Slot) :
             /\ Line(b, e)
             /\ Ends(e, d, IF m_head = s THEN m_array[s].m_prev ELSE m_head, m_tail)
             /\ Queued(e, d) = RemoveAt(q, k)
    BY <2>2
  <2>4. Line(m_array', e) /\ Ends(e, d, m_head', m_tail')
    BY <1>7, <2>1, <2>3
  <2>5. LinksInv' /\ Contents' = Values(b, RemoveAt(q, k))
    BY <1>7, <2>3, <2>4, OrderBecomes
  <2>6. k \in 1 .. Len(Contents) /\ Contents' = RemoveAt(Contents, k)
    <3>1. /\ k \in 1 .. Len(Values(m_array, q))
          /\ Values(b, RemoveAt(q, k)) = RemoveAt(Values(m_array, q), k)
      BY <1>3, <1>6, <2>2, ValuesRemoved
    <3>2. QED
      BY <1>2, <2>5, <3>1
  <2>7. m_head' \in Slot
    \* The queue is not empty: its tail is in it still.
    <3>1. m_tail \in Slot
      <4>1. d < Len(c) /\ m_tail = c[d+1]
        <5>1. Len(q) # 0
          BY <1>3, LenProperties
        <5>2. ~(c = <<>> /\ d = 0)
          BY <5>1 DEF q, Queued
        <5>3. QED
          BY <1>1, <5>2 DEF Ends
      <4>2. d + 1 \in 1 .. Len(c)
        BY <4>1, LenProperties
      <4>3. QED
        BY <4>1, <4>2, LenProperties
    <3>2. Len(e) \in Nat /\ d < Len(e) /\ m_head' = e[Len(e)]
      BY <2>1, <2>4, <3>1, LenProperties, NullIsNoSlot DEF Ends
    <3>3. Len(e) \in 1 .. Len(e)
      BY <3>2
    <3>4. QED
      BY <3>2, <3>3, LenProperties
  <2>8. QED
    BY <1>6, <1>8, <2>1, <2>2, <2>5, <2>6, <2>7
<1>11. QED
  BY <1>9, <1>10

LEMMA ResetStep ==
    ASSUME QueueInv, reset
    PROVE  /\ QueueInv' /\ [Fifo!Next]_(Fifo!vars)
           /\ \A s \in Slot : ~m_array'[s].m_linked
<1>1. PICK c \in Seq(Slot) : Line(m_array, c)
  BY DEF QueueInv, LinksInv
<1>2. m_array \in [Slot -> Node] /\ overrun \in BOOLEAN
  BY DEF QueueInv, QueueTypeOK
<1>3. /\ m_array' = unlinkAll(m_array)
      /\ m_head' = 0 /\ m_tail' = NULL /\ m_full' = FALSE
      /\ m_next_available_slot' = 0 /\ m_slot_index' = 0
      /\ result' = Fifo!Returned /\ overrun' = overrun
  BY DEF reset
<1>4. /\ m_array' \in [Slot -> Node] /\ Line(m_array', <<>>)
      /\ \A s \in Slot : ~m_array'[s].m_linked
  BY <1>1, <1>2, <1>3, AllUnlinked
<1>5. 0 \in Slot /\ <<>> \in Seq(Slot) /\ 0 \in {0, 1}
  BY EmptySeq, QueueAssumption DEF Slot
<1>6. LinksInv' /\ Contents' = <<>>
  <2>1. Ends(<<>>, 0, m_head', m_tail')
    BY <1>3 DEF Ends
  <2>2. LinksInv' /\ Contents' = Values(m_array', Queued(<<>>, 0))
    BY <1>4, <1>5, <2>1, OrderBecomes
  <2>3. Queued(<<>>, 0) = <<>>
    BY DEF Queued
  <2>4. Values(m_array', <<>>) = <<>>
    BY DEF Values
  <2>5. QED
    BY <2>2, <2>3, <2>4
<1>7. QueueTypeOK'
  BY <1>2, <1>3, <1>4, <1>5 DEF QueueTypeOK
<1>8. SearchInv'
  BY <1>3, <1>4, <1>5 DEF SearchInv
<1>9. Fifo!Reset
  BY <1>3, <1>6 DEF Fifo!Reset
<1>10. QED
  BY <1>4, <1>6, <1>7, <1>8, <1>9 DEF QueueInv, Fifo!Next

LEMMA QueueInvInit ==
    ASSUME QueueInit
    PROVE  QueueInv /\ Fifo!Init
<1>1. PICK v \in Value : m_array = [s \in Slot |-> Fresh(v)]
  BY DEF QueueInit
<1>2. /\ Fresh(v) \in Node /\ ~Fresh(v).m_linked
      /\ Fresh(v).m_next = NULL /\ Fresh(v).m_prev = NULL
  BY DEF Fresh, Node
<1>3. /\ 0 \in Slot /\ <<>> \in Seq(Slot) /\ 0 \in {0, 1}
  BY EmptySeq, QueueAssumption DEF Slot
<1>4. /\ m_array \in [Slot -> Node] /\ Line(m_array, <<>>)
      /\ ~m_array[0].m_linked
  <2>1. Len(<<>>) = 0
    BY EmptySeq
  <2>2. QED
    BY <1>1, <1>2, <1>3, <2>1 DEF Line
<1>5. Ends(<<>>, 0, m_head, m_tail)
  BY DEF QueueInit, Ends
<1>6. LinksInv
  BY <1>3, <1>4, <1>5 DEF LinksInv
<1>7. Contents = <<>>
  <2>1. Contents = Values(m_array, Queued(<<>>, 0))
    BY <1>3, <1>4, <1>5, OrderIs
  <2>2. Queued(<<>>, 0) = <<>>
    BY DEF Queued
  <2>3. Values(m_array, <<>>) = <<>>
    BY DEF Values
  <2>4. QED
    BY <2>1, <2>2, <2>3
<1>8. QueueTypeOK /\ SearchInv
  BY <1>3, <1>4 DEF QueueInit, QueueTypeOK, SearchInv
<1>9. QED
  BY <1>6, <1>7, <1>8 DEF QueueInit, QueueInv, Fifo!Init

LEMMA QueueStep ==
    ASSUME QueueInv, [QueueNext]_vars
    PROVE  QueueInv' /\ [Fifo!Next]_(Fifo!vars)
<1>1. CASE UNCHANGED vars
  <2>1. /\ UNCHANGED <<m_array, m_head, m_tail, m_full>>
        /\ UNCHANGED <<m_next_available_slot, m_slot_index, result, overrun>>
    BY <1>1 DEF vars, links, search
  <2>2. QueueInv'
    BY <2>1 DEF QueueInv, QueueTypeOK, LinksInv, SearchInv
  <2>3. UNCHANGED Fifo!vars
    BY <2>1 DEF Fifo!vars, Contents, order
  <2>4. QED
    BY <2>2, <2>3
<1>2. CASE \E v \in Value : insert(v)
  BY <1>2, InsertStep
<1>3. CASE dequeue
  BY <1>3, DequeueStep DEF QueueInv, QueueTypeOK
<1>4. CASE \E s \in ToSet(order) : remove(s)
  BY <1>4, RemoveStep
<1>5. CASE reset
  BY <1>5, ResetStep
<1>6. QED
  BY <1>1, <1>2, <1>3, <1>4, <1>5 DEF QueueNext

LEMMA QueueInvariant == QueueSpec => []QueueInv
<1>1. QueueInit => QueueInv
  BY QueueInvInit
<1>2. QueueInv /\ [QueueNext]_vars => QueueInv'
  BY QueueStep
<1> QED
  BY <1>1, <1>2, PTL DEF QueueSpec

-----------------------------------------------------------------------------
(***************************************************************************)
(* The theorems                                                            *)
(***************************************************************************)

\* Every variable of the queue keeps its type; whatever slot is looked for is a
\* slot, none, or the one behind the array.
THEOREM QueueTypeCorrect == QueueSpec => []QueueTypeOK
<1>1. QueueInv => QueueTypeOK
  BY DEF QueueInv
<1> QED
  BY <1>1, QueueInvariant, PTL

\* In a queue of any capacity the slot found in advance is never one in the
\* queue: insert() overwrites no element.
THEOREM SlotStaysFree == QueueSpec => []SlotIsFree
<1>1. QueueInv => SlotIsFree
  <2> SUFFICES ASSUME QueueInv, m_next_available_slot \in ToSet(order)
               PROVE  FALSE
    BY DEF SlotIsFree
  <2>1. PICK c \in Seq(Slot), d \in {0, 1} :
          Line(m_array, c) /\ Ends(c, d, m_head, m_tail)
    BY DEF QueueInv, LinksInv
  <2>2. /\ order = Queued(c, d) /\ d <= Len(c)
        /\ Queued(c, d) \in Seq(Slot) /\ Len(Queued(c, d)) = Len(c) - d
        /\ \A i \in 1 .. Len(c) - d :
             Queued(c, d)[i] = c[i+d] /\ i + d \in 1 .. Len(c)
    BY <2>1, OrderIs, OrderIsQueued, QueuedIs
  <2>3. PICK k \in 1 .. Len(c) - d : m_next_available_slot = order[k]
    BY <2>2, LenProperties DEF ToSet
  <2>4. m_next_available_slot \in Slot /\ m_array[m_next_available_slot].m_linked
    BY <2>1, <2>2, <2>3, LenProperties DEF Line
  <2>5. QED
    BY <2>4 DEF QueueInv, SearchInv
<1> QED
  BY <1>1, QueueInvariant, PTL

\* In a queue of any capacity the nodes are linked both ways in the order of
\* arrival, and m_head is the newest, though dequeue() never moves it.
THEOREM NodesAreWellLinked == QueueSpec => []WellLinked
<1>1. QueueInv => WellLinked
  <2> SUFFICES ASSUME QueueInv PROVE WellLinked
    OBVIOUS
  <2>1. PICK c \in Seq(Slot), d \in {0, 1} :
          Line(m_array, c) /\ Ends(c, d, m_head, m_tail)
    BY DEF QueueInv, LinksInv
  <2>2. /\ order = Queued(c, d) /\ d <= Len(c) /\ Len(c) \in Nat
        /\ order \in Seq(Slot) /\ Len(order) = Len(c) - d
        /\ \A i \in 1 .. Len(c) - d : order[i] = c[i+d] /\ i + d \in 1 .. Len(c)
    <3>1. order = Queued(c, d)
      BY <2>1, OrderIs
    <3>2. d <= Len(c) /\ Len(c) \in Nat
      BY <2>1, OrderIsQueued, LenProperties
    <3>3. QED
      BY <3>1, <3>2, QueuedIs
  <2>3. ASSUME NEW i \in DOMAIN order
        PROVE  /\ m_array[order[i]].m_linked
               /\ i > 1 => m_array[order[i]].m_prev = order[i-1]
    <3>1. i \in 1 .. Len(c) - d
      BY <2>2, LenProperties
    <3>2. /\ m_array[c[i+d]].m_linked
          /\ m_array[c[i+d]].m_prev = IF i + d = 1 THEN NULL ELSE c[(i+d)-1]
      BY <2>1, <2>2, <3>1 DEF Line
    <3>3. i > 1 => i - 1 \in 1 .. Len(c) - d /\ (i - 1) + d = (i + d) - 1 /\ i + d # 1
      BY <2>2, <3>1
    <3>4. i > 1 => order[i-1] = c[(i+d)-1]
      BY <2>2, <3>3
    <3>5. QED
      BY <2>2, <3>1, <3>2, <3>3, <3>4
  <2>4. ASSUME order # <<>>
        PROVE  m_head = order[Len(order)]
    <3>1. Len(order) # 0 /\ Len(order) \in 1 .. Len(c) - d /\ Len(order) + d = Len(c)
      BY <2>2, <2>4, EmptySeq
    <3>2. m_head = c[Len(c)]
      BY <2>1, <2>2, <3>1, EmptySeq DEF Ends
    <3>3. QED
      BY <2>2, <3>1, <3>2
  <2>5. QED
    BY <2>3, <2>4 DEF WellLinked
<1> QED
  BY <1>1, QueueInvariant, PTL

\* A queue of any capacity, of any elements, is a first-in first-out queue:
\* insert() appends or refuses, dequeue() returns the oldest element, remove()
\* takes out one and leaves the others in their order, reset() empties it.
THEOREM QueueIsFifo == QueueSpec => ImplementsFifo
<1>1. QueueInit => Fifo!Init
  BY QueueInvInit
<1>2. QueueInv /\ [QueueNext]_vars => [Fifo!Next]_(Fifo!vars)
  BY QueueStep
<1> QED
  BY <1>1, <1>2, QueueInvariant, PTL DEF QueueSpec, ImplementsFifo, Fifo!Spec

\* After reset() of a queue of any capacity every slot of its array is free.
THEOREM ResetFreesAll == QueueSpec => ResetFrees
<1>1. QueueInv /\ [QueueNext]_vars =>
        [reset => \A s \in Slot : ~m_array'[s].m_linked]_vars
  BY ResetStep
<1> QED
  BY <1>1, QueueInvariant, PTL DEF QueueSpec, ResetFrees
=============================================================================
