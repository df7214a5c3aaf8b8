----------------------------- MODULE BoundedFifo -----------------------------
(***************************************************************************)
(* What a caller of StaticQueue<T, N_MEMB> relies on: a first-in first-out *)
(* sequence of at most N_MEMB elements, of which any may be removed.       *)
(*                                                                         *)
(* An insertion may be refused at any time.  That it is refused only when  *)
(* there is no room is the stronger promise NoSpuriousRefusal.             *)
(***************************************************************************)
EXTENDS SequencesExt

CONSTANTS N_MEMB,   \* capacity
          Value     \* the elements

VARIABLES items,    \* oldest first
          result    \* what the last call returned

vars == <<items, result>>

Refused == [call |-> "insert", done |-> FALSE]
Inserted == [call |-> "insert", done |-> TRUE]
Nothing == [call |-> "dequeue", done |-> FALSE]
Dequeued(v) == [call |-> "dequeue", done |-> TRUE, value |-> v]
Returned == [call |-> "void", done |-> TRUE]

Init == items = <<>> /\ result = Returned

Insert(v) ==
    \/ /\ Len(items) < N_MEMB
       /\ items' = Append(items, v)
       /\ result' = Inserted
    \/ /\ UNCHANGED items
       /\ result' = Refused

Dequeue ==
    IF items = <<>>
      THEN UNCHANGED items /\ result' = Nothing
      ELSE items' = Tail(items) /\ result' = Dequeued(Head(items))

RemoveKth(k) ==
    /\ items' = RemoveAt(items, k)
    /\ result' = Returned

Reset == items' = <<>> /\ result' = Returned

Next ==
    \/ \E v \in Value : Insert(v)
    \/ Dequeue
    \/ \E k \in 1 .. Len(items) : RemoveKth(k)
    \/ Reset

Spec == Init /\ [][Next]_vars

\* A queue with room in it takes what it is given.
NoSpuriousRefusal ==
    [][ result' = Refused => result = Refused \/ Len(items) = N_MEMB ]_vars
=============================================================================
