----------------------------- MODULE StaticQueue -----------------------------
(***************************************************************************)
(* libs/static_queue: a queue of N_MEMB elements in an array of doubly     *)
(* linked nodes.  LinkedNode keeps the links, LinkedQueue the two ends,    *)
(* StaticQueue the array and the slot the next element will go to, which   *)
(* is looked for at the end of the insertion before.                       *)
(*                                                                         *)
(* Elements leave at m_tail and arrive at m_head; m_next points from the   *)
(* older to the newer.  dequeue() leaves m_head where it was.              *)
(*                                                                         *)
(* remove() is called for nodes in the queue, as its tests do.             *)
(***************************************************************************)
EXTENDS SequencesExt

CONSTANTS N_MEMB,
          Value,
          Behind,   \* what the byte behind the array may read as, as a bool
          NULL

Slot == 0 .. N_MEMB - 1

ASSUME QueueAssumption ==
    /\ N_MEMB \in Nat \ {0}
    /\ Behind \in (SUBSET BOOLEAN) \ {{}}
    /\ NULL \notin 0 .. N_MEMB

VARIABLES m_array,                  \* the nodes
          m_head, m_tail, m_full,
          m_next_available_slot,
          m_slot_index,
          result,                   \* what the last call returned
          overrun                   \* an element was written behind the array

links == <<m_array, m_head, m_tail, m_full>>
search == <<m_next_available_slot, m_slot_index>>
vars == <<links, search, result, overrun>>

Node == [m_linked : BOOLEAN, m_next : Slot \cup {NULL}, m_prev : Slot \cup {NULL},
         m_value : Value]

QueueTypeOK ==
    /\ m_array \in [Slot -> Node]
    /\ m_head \in Slot
    /\ m_tail \in Slot \cup {NULL}
    /\ m_full \in BOOLEAN
    /\ m_next_available_slot \in Slot \cup {N_MEMB, NULL}
    /\ m_slot_index \in Slot \cup {N_MEMB}
    /\ overrun \in BOOLEAN

Fresh(v) == [m_linked |-> FALSE, m_next |-> NULL, m_prev |-> NULL, m_value |-> v]

\* length(): the nodes from tail on, each the m_next of the one before.
chain(a, tail) ==
    LET walk[k \in 0 .. N_MEMB] ==
          IF k = 0 THEN tail
          ELSE IF walk[k-1] = NULL THEN NULL ELSE a[walk[k-1]].m_next
    IN  [k \in {i \in 1 .. N_MEMB + 1 : walk[i-1] # NULL} |-> walk[k-1]]

order == chain(m_array, m_tail)

Contents == [i \in DOMAIN order |-> m_array[order[i]].m_value]

\* What the queue is for.
Fifo == INSTANCE BoundedFifo WITH items <- Contents

-----------------------------------------------------------------------------
(***************************************************************************)
(* LinkedNode: what the array a becomes.                                   *)
(***************************************************************************)

\* s.linkPrev(p) and s.linkNext(p): the node counts as linked from then on.
linkPrev(a, s, p) ==
    [a EXCEPT ![s].m_linked = TRUE, ![s].m_prev = IF p = s THEN @ ELSE p]
linkNext(a, s, p) ==
    [a EXCEPT ![s].m_linked = TRUE, ![s].m_next = IF p = s THEN @ ELSE p]

\* s.link(t)
link(a, s, t) ==
    IF s = t THEN [a EXCEPT ![s].m_linked = TRUE]
    ELSE linkPrev([a EXCEPT ![s].m_linked = TRUE, ![s].m_next = t], t, s)

\* s.unlink(): the neighbours are linked to each other.
unlink(a, s) ==
    LET n == a[s].m_next
        p == a[s].m_prev
        b == IF n = NULL THEN a ELSE linkPrev(a, n, p)
        c == IF p = NULL THEN b ELSE linkNext(b, p, n)
    IN  [c EXCEPT ![s].m_prev = NULL, ![s].m_next = NULL, ![s].m_linked = FALSE]

-----------------------------------------------------------------------------
(***************************************************************************)
(* findEmptySlot(), where m_slot_index is index: the slots in turn after   *)
(* it, up to itself.  After the last slot the code reads m_array[N_MEMB],  *)
(* which is not a node, and goes on with slot 1.                           *)
(***************************************************************************)

Searched(index) ==
    Slot \ (IF index = N_MEMB - 1 THEN {0, index} ELSE {index})

\* Mutant: the node is not asked whether it is in use.
Empty_Any(a, index) == Searched(index)

Empty(a, index) == {i \in Searched(index) : ~a[i].m_linked}

\* What it may find in the array a.
findEmptySlot(a, index) ==
    LET distance(i) == (i + N_MEMB - index) % N_MEMB
        pastEnd == index = N_MEMB - 1
    IN
    { s \in Slot \cup {N_MEMB, NULL} :
        \/ s = N_MEMB /\ pastEnd /\ FALSE \in Behind
        \/ /\ pastEnd => TRUE \in Behind
           /\ \/ s = NULL /\ Empty(a, index) = {}
              \/ /\ s \in Empty(a, index)
                 /\ \A i \in Empty(a, index) : distance(s) <= distance(i) }

-----------------------------------------------------------------------------
(***************************************************************************)
(* The calls                                                               *)
(***************************************************************************)

\* The nodes of a new queue hold no value yet; any will do.
QueueInit ==
    /\ \E v \in Value : m_array = [s \in Slot |-> Fresh(v)]
    /\ m_head = 0 /\ m_tail = NULL /\ m_full = FALSE
    /\ m_next_available_slot = 0 /\ m_slot_index = 0
    /\ result = Fifo!Returned
    /\ overrun = FALSE

\* enqueueNode(slot) in the array a; insert() ignores its result.
enqueueNode(a, slot) ==
    IF m_full
      THEN m_array' = a /\ UNCHANGED <<m_head, m_tail>>
      ELSE /\ m_array' = link(a, m_head, slot)
           /\ m_tail' = IF m_tail = NULL THEN slot ELSE m_tail
           /\ m_head' = slot

\* Mutant: the index follows a search that finds nothing.
lookAhead_Lost(index) ==
    \E next \in findEmptySlot(m_array', index) :
        /\ m_next_available_slot' = next
        /\ m_slot_index' = next
        /\ m_full' = (m_full \/ next = NULL)

\* The slot for the next element is looked for in advance, from index on.
lookAhead(index) ==
    \E next \in findEmptySlot(m_array', index) :
        /\ m_next_available_slot' = next
        /\ m_slot_index' = IF next = NULL THEN index ELSE next
        /\ m_full' = (m_full \/ next = NULL)

insert(v) ==
    \E slot \in IF m_next_available_slot # NULL THEN {m_next_available_slot}
                ELSE findEmptySlot(m_array, m_slot_index) :
        \/ /\ slot = NULL
           /\ result' = Fifo!Refused
           /\ UNCHANGED <<links, search, overrun>>
        \/ /\ slot = N_MEMB
           /\ overrun' = TRUE
           /\ UNCHANGED <<links, search, result>>
        \/ /\ slot \in Slot
           /\ enqueueNode([m_array EXCEPT ![slot] = Fresh(v)], slot)
           /\ lookAhead(IF m_next_available_slot # NULL THEN m_slot_index ELSE slot)
           /\ result' = Fifo!Inserted
           /\ UNCHANGED overrun

\* Mutant: on to the node on the other side.
takeTail_Prev ==
    /\ m_tail' = m_array[m_tail].m_prev
    /\ m_array' = unlink(m_array, m_tail)
    /\ m_full' = FALSE
    /\ UNCHANGED m_head

\* dequeueNode() of a queue that is not empty; m_head stays.
takeTail ==
    /\ m_tail' = m_array[m_tail].m_next
    /\ m_array' = unlink(m_array, m_tail)
    /\ m_full' = FALSE
    /\ UNCHANGED m_head

dequeue ==
    /\ IF m_tail = NULL
         THEN result' = Fifo!Nothing /\ UNCHANGED links
         ELSE result' = Fifo!Dequeued(m_array[m_tail].m_value) /\ takeTail
    /\ UNCHANGED <<search, overrun>>

\* Mutant: m_head stays at the node removed.
remove_HeadStays(s) ==
    /\ IF m_tail = s
         THEN takeTail
         ELSE /\ m_array' = unlink(m_array, s)
              /\ m_full' = FALSE
              /\ UNCHANGED <<m_head, m_tail>>
    /\ result' = Fifo!Returned
    /\ UNCHANGED <<search, overrun>>

remove(s) ==
    /\ IF m_tail = s
         THEN takeTail
         ELSE /\ m_head' = IF m_head = s THEN m_array[s].m_prev ELSE m_head
              /\ m_array' = unlink(m_array, s)
              /\ m_full' = FALSE
              /\ UNCHANGED m_tail
    /\ result' = Fifo!Returned
    /\ UNCHANGED <<search, overrun>>

\* Mutant: the queue is emptied, its nodes stay linked.
reset_Linked ==
    /\ UNCHANGED m_array
    /\ m_head' = 0 /\ m_tail' = NULL /\ m_full' = FALSE
    /\ m_next_available_slot' = 0 /\ m_slot_index' = 0
    /\ result' = Fifo!Returned
    /\ UNCHANGED overrun

\* Every node is unlinked, in the order of the array.
unlinkAll(a) ==
    LET unlinked[i \in 0 .. N_MEMB] ==
          IF i = 0 THEN a ELSE unlink(unlinked[i-1], i-1)
    IN  unlinked[N_MEMB]

reset ==
    /\ m_array' = unlinkAll(m_array)
    /\ m_head' = 0 /\ m_tail' = NULL /\ m_full' = FALSE
    /\ m_next_available_slot' = 0 /\ m_slot_index' = 0
    /\ result' = Fifo!Returned
    /\ UNCHANGED overrun

\* Once it has written behind the array the program has no meaning.
QueueNext ==
    /\ ~overrun
    /\ \/ \E v \in Value : insert(v)
       \/ dequeue
       \/ \E s \in ToSet(order) : remove(s)
       \/ reset

QueueSpec == QueueInit /\ [][QueueNext]_vars

-----------------------------------------------------------------------------
(***************************************************************************)
(* Properties                                                              *)
(***************************************************************************)

\* Whatever is inserted, removed from the middle and inserted again, what the
\* links of the nodes say is a first-in first-out queue, and dequeue() returns
\* its oldest element.
ImplementsFifo == Fifo!Spec

\* The slot looked for by an insertion and used by the next one is still free
\* when it is used, whatever was called in between: nothing is overwritten.
SlotIsFree == m_next_available_slot \notin ToSet(order)

\* The nodes of the queue are linked to each other, and m_head is the newest.
WellLinked ==
    /\ \A i \in DOMAIN order :
         /\ m_array[order[i]].m_linked
         /\ i > 1 => m_array[order[i]].m_prev = order[i-1]
    /\ order # <<>> => m_head = order[Len(order)]

\* After reset() all of the array is free again, in whatever state it was:
\* unlinking a node links its neighbours, earlier ones among them.
ResetFrees == [][ reset => \A s \in Slot : ~m_array'[s].m_linked ]_vars

\* test.cpp:234: "Remove even object from a full list, and insert more objects".
\* insert() may refuse, and isFull() say so, with room in the queue: the first
\* slot is not searched after the last, and a queue that has been emptied
\* loses the slot m_head still points to.
TakesWhenNotFull == Fifo!NoSpuriousRefusal
=============================================================================
