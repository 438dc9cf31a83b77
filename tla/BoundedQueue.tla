---------------------------- MODULE BoundedQueue ----------------------------
(***************************************************************************)
(* What the hub's queues promise: a first-in first-out sequence of at most *)
(* Capacity items that can also be extended at the front, with operations  *)
(* that never block and report through their result whether they took      *)
(* effect.  ThreadSafeQueue is shown to implement this specification.      *)
(***************************************************************************)
EXTENDS Naturals, Sequences

CONSTANTS
    Capacity,   \* template parameter N of ThreadSafeQueue<T, N>
    Item,       \* template parameter T
    None        \* the value of an operation that returns no item

VARIABLES
    items,      \* the queued items, oldest first
    result      \* what the last operation returned

vars == <<items, result>>

Result(op, ok, item) == [op |-> op, ok |-> ok, item |-> item]

Init ==
    /\ items = <<>>
    /\ result = Result("none", TRUE, None)

(* An item is accepted at the back, or refused when the queue is full. *)
Push(x) ==
    \/ /\ Len(items) < Capacity
       /\ items' = Append(items, x)
       /\ result' = Result("push", TRUE, None)
    \/ /\ Len(items) = Capacity
       /\ UNCHANGED items
       /\ result' = Result("push", FALSE, None)

(* An item is accepted at the front, or refused when the queue is full. *)
PushFront(x) ==
    \/ /\ Len(items) < Capacity
       /\ items' = <<x>> \o items
       /\ result' = Result("pushFront", TRUE, None)
    \/ /\ Len(items) = Capacity
       /\ UNCHANGED items
       /\ result' = Result("pushFront", FALSE, None)

(* The oldest item is handed out, or nothing when the queue is empty. *)
Pop ==
    \/ /\ items # <<>>
       /\ items' = Tail(items)
       /\ result' = Result("pop", TRUE, Head(items))
    \/ /\ items = <<>>
       /\ UNCHANGED items
       /\ result' = Result("pop", FALSE, None)

(* Membership of one item; the queue is not changed. *)
Contains(x) ==
    /\ UNCHANGED items
    /\ result' = Result("contains", \E i \in 1..Len(items) : items[i] = x, None)

(* Whether the queue has no room. *)
Full ==
    /\ UNCHANGED items
    /\ result' = Result("full", Len(items) = Capacity, None)

Next ==
    \/ \E x \in Item : Push(x) \/ PushFront(x) \/ Contains(x)
    \/ Pop
    \/ Full

Spec == Init /\ [][Next]_vars

=============================================================================
