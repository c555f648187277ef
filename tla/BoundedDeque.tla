---------------------------- MODULE BoundedDeque ----------------------------
(***************************************************************************)
(* What adt::ring_buffer promises: a double-ended queue of at most         *)
(* Capacity elements.  A push on a full deque and a pop on an empty one    *)
(* are refused and change nothing.                                         *)
(***************************************************************************)
EXTENDS Naturals, Sequences

CONSTANTS Capacity, Elem, None

VARIABLES
  items,     \* the elements, front first
  outcome,   \* did the last call do anything (true / a value, or false / none)
  popped     \* the element the last successful pop returned

vars == <<items, outcome, popped>>

Refuse == outcome' = "refused" /\ UNCHANGED <<items, popped>>

Init ==
  /\ items \in UNION { [1..m -> Elem] : m \in 0..Capacity }
  /\ outcome = "done"
  /\ popped = None

PushBack(v) ==
  \/ Len(items) = Capacity /\ Refuse
  \/ /\ Len(items) < Capacity
     /\ items' = Append(items, v)
     /\ outcome' = "done"
     /\ UNCHANGED popped

PushFront(v) ==
  \/ Len(items) = Capacity /\ Refuse
  \/ /\ Len(items) < Capacity
     /\ items' = <<v>> \o items
     /\ outcome' = "done"
     /\ UNCHANGED popped

PopFront ==
  \/ items = <<>> /\ Refuse
  \/ /\ items # <<>>
     /\ items' = Tail(items)
     /\ popped' = Head(items)
     /\ outcome' = "done"

PopBack ==
  \/ items = <<>> /\ Refuse
  \/ /\ items # <<>>
     /\ items' = SubSeq(items, 1, Len(items) - 1)
     /\ popped' = items[Len(items)]
     /\ outcome' = "done"

Clear ==
  /\ items' = <<>>
  /\ UNCHANGED <<outcome, popped>>

Next ==
  \/ \E v \in Elem : PushBack(v) \/ PushFront(v)
  \/ PopFront
  \/ PopBack
  \/ Clear

Spec == Init /\ [][Next]_vars
=============================================================================
