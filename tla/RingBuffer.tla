----------------------------- MODULE RingBuffer -----------------------------
(***************************************************************************)
(* adt::ring_buffer<T, N> (libadt/ring_buffer.h): an array of Capacity     *)
(* slots, the index of the first element, the index after the last one,    *)
(* and the number of elements.  begin = end both when the buffer is empty  *)
(* and when it is full; only count tells the two apart.                    *)
(***************************************************************************)
EXTENDS Naturals, Sequences

CONSTANTS
  Capacity,  \* the template parameter N
  Elem,      \* the values of T the run pushes
  None       \* adt::none, and the content of a slot nobody wrote

ASSUME CapacityAssumption == Capacity \in Nat \ {0}
ASSUME NoneAssumption == None \notin Elem

VARIABLES
  storage,   \* storage
  begin,     \* _begin
  end,       \* _end
  count,     \* count
  outcome,   \* what the last push returned, or whether the last pop had a value
  popped     \* the value inside the optional of the last successful pop

vars == <<storage, begin, end, count, outcome, popped>>

Slots == 0 .. Capacity - 1

ForwardPastTheEnd(i) == IF i + 1 <= Capacity THEN i + 1 ELSE 0
forward_wrap(i) == IF i + 1 < Capacity THEN i + 1 ELSE 0
backward_wrap(i) == IF i > 0 THEN i - 1 ELSE Capacity - 1

empty == count = 0
full == count = Capacity

Refuse == outcome' = "refused" /\ UNCHANGED <<storage, begin, end, count, popped>>

(* Both constructors: the default one (m = 0) and the one from an array of *)
(* m elements.                                                             *)
Init ==
  \E m \in 0..Capacity : \E input \in [0 .. m - 1 -> Elem] :
    /\ storage = [i \in Slots |-> IF i < m THEN input[i] ELSE None]
    /\ begin = 0
    /\ end = IF m = Capacity THEN 0 ELSE m
    /\ count = m
    /\ outcome = "done"
    /\ popped = None

push_back(v) ==
  \/ full /\ Refuse
  \/ /\ ~full
     /\ storage' = [storage EXCEPT ![end] = v]
     /\ end' = forward_wrap(end)
     /\ count' = count + 1
     /\ outcome' = "done"
     /\ UNCHANGED <<begin, popped>>

push_front(v) ==
  \/ full /\ Refuse
  \/ /\ ~full
     /\ begin' = backward_wrap(begin)
     /\ storage' = [storage EXCEPT ![begin'] = v]
     /\ count' = count + 1
     /\ outcome' = "done"
     /\ UNCHANGED <<end, popped>>

pop_front ==
  \/ empty /\ Refuse
  \/ /\ ~empty
     /\ popped' = storage[begin]
     /\ begin' = forward_wrap(begin)
     /\ count' = count - 1
     /\ outcome' = "done"
     /\ UNCHANGED <<storage, end>>

PopBackAtEnd ==
  /\ ~empty
  /\ end' = backward_wrap(end)
  /\ popped' = storage[end]
  /\ count' = count - 1
  /\ outcome' = "done"
  /\ UNCHANGED <<storage, begin>>

pop_back ==
  \/ empty /\ Refuse
  \/ /\ ~empty
     /\ end' = backward_wrap(end)
     /\ popped' = storage[end']
     /\ count' = count - 1
     /\ outcome' = "done"
     /\ UNCHANGED <<storage, begin>>

ClearKeepingEnd ==
  /\ begin' = 0
  /\ count' = 0
  /\ UNCHANGED <<storage, end, outcome, popped>>

clear ==
  /\ begin' = 0
  /\ end' = 0
  /\ count' = 0
  /\ UNCHANGED <<storage, outcome, popped>>

Next ==
  \/ \E v \in Elem : push_back(v) \/ push_front(v)
  \/ pop_front
  \/ pop_back
  \/ clear

Spec == Init /\ [][Next]_vars

-----------------------------------------------------------------------------
front == storage[begin]
BackAtEnd == storage[end]
back == storage[backward_wrap(end)]

(* The k-th slot from the front, counting from 1. *)
Slot(k) == IF begin + k - 1 < Capacity THEN begin + k - 1
                                       ELSE begin + k - 1 - Capacity

Contents == [k \in 1..count |-> storage[Slot(k)]]

(* The elements a range-for over the buffer visits: from begin, forward    *)
(* until the iterator equals end.                                          *)
Visited ==
  LET steps == IF begin <= end THEN end - begin ELSE end + Capacity - begin
  IN  [k \in 1..steps |-> storage[Slot(k)]]

-----------------------------------------------------------------------------
(* Types of the members of ring_buffer.                                    *)
TypeOK ==
  /\ storage \in [Slots -> Elem \cup {None}]
  /\ begin \in Slots
  /\ end \in Slots
  /\ count \in 0..Capacity
  /\ outcome \in {"done", "refused"}
  /\ popped \in Elem \cup {None}

(* The three members agree after any sequence of calls: end is count slots *)
(* after begin, modulo the capacity, and the occupied slots were written.  *)
Consistent ==
  /\ end = Slot(count + 1)
  /\ \A k \in 1..count : storage[Slot(k)] \in Elem

(* front() and back() of a non-empty buffer are the two ends of its        *)
(* contents, also when the contents wrap around the end of the array.      *)
FrontAndBack ==
  count > 0 => front = Contents[1] /\ back = Contents[count]

(* A range-for (input.cpp:64 walks the subscribers this way, clear() the   *)
(* elements to destroy) visits exactly the elements of the buffer.         *)
IterationVisitsAll == Visited = Contents

(* Every call of the ring buffer is a call of a bounded deque.             *)
Deque == INSTANCE BoundedDeque WITH items <- Contents
RefinesDeque == Deque!Spec
=============================================================================
