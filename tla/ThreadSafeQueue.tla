-------------------------- MODULE ThreadSafeQueue ---------------------------
(***************************************************************************)
(* The ring buffer behind every queue of the hub (connection requests,     *)
(* sensor reports, command acknowledgements, pending commands):            *)
(* firmware/src/hub/util/thread_safe_queue.h.                              *)
(*                                                                         *)
(* Each public operation is one portENTER_CRITICAL section, and each       *)
(* "Unsafe" operation runs inside the critical section of PendingPool, so  *)
(* an operation is one atomic step whichever task calls it.                *)
(***************************************************************************)
EXTENDS Integers, Sequences

CONSTANTS
    N,      \* template parameter: number of cells
    Item,   \* template parameter T
    None    \* no item returned

ASSUME QueueAssumption ==
    /\ N \in Nat \ {0}
    /\ None \notin Item

VARIABLES
    buf,    \* buf_: the cells
    head,   \* head_: next cell to pop
    tail,   \* tail_: next cell to fill
    count,  \* count_: number of items
    result  \* what the last operation returned

vars == <<buf, head, tail, count, result>>

Cell == 0 .. N - 1

Result(op, ok, item) == [op |-> op, ok |-> ok, item |-> item]

-----------------------------------------------------------------------------
(* Mutated forms of the definitions below. *)

Mut_AfterNoWrap(i) == IF i + 1 <= N THEN i + 1 ELSE 0
Mut_BeforeStays(i) == i % N
-----------------------------------------------------------------------------

(* (i + 1) % N: where head and tail go after a pop or a push. *)
After(i) == (i + 1) % N

(* (i - 1 + N) % N: where head goes before a pushFront. *)
Before(i) == (i - 1 + N) % N

IsFull == count >= N

IsEmpty == count <= 0

(* The i-th oldest item, as contains() walks them. *)
At(i) == buf[(head + i) % N]

(* The constructor leaves the cells uninitialised: any contents. *)
Init ==
    /\ buf \in [Cell -> Item]
    /\ head = 0
    /\ tail = 0
    /\ count = 0
    /\ result = Result("none", TRUE, None)

(* push() and pushUnsafe() *)
Push(x) ==
    \/ /\ ~IsFull
       /\ buf' = [buf EXCEPT ![tail] = x]
       /\ tail' = After(tail)
       /\ count' = count + 1
       /\ result' = Result("push", TRUE, None)
       /\ UNCHANGED head
    \/ /\ IsFull
       /\ result' = Result("push", FALSE, None)
       /\ UNCHANGED <<buf, head, tail, count>>

(* pushFrontUnsafe() *)
PushFront(x) ==
    \/ /\ ~IsFull
       /\ head' = Before(head)
       /\ buf' = [buf EXCEPT ![Before(head)] = x]
       /\ count' = count + 1
       /\ result' = Result("pushFront", TRUE, None)
       /\ UNCHANGED tail
    \/ /\ IsFull
       /\ result' = Result("pushFront", FALSE, None)
       /\ UNCHANGED <<buf, head, tail, count>>

(* pop() and popUnsafe() *)
Pop ==
    \/ /\ ~IsEmpty
       /\ result' = Result("pop", TRUE, buf[head])
       /\ head' = After(head)
       /\ count' = count - 1
       /\ UNCHANGED <<buf, tail>>
    \/ /\ IsEmpty
       /\ result' = Result("pop", FALSE, None)
       /\ UNCHANGED <<buf, head, tail, count>>

(* contains() with the predicate "equal to x", its only use in the hub *)
Contains(x) ==
    /\ result' = Result("contains", \E i \in 0 .. count - 1 : At(i) = x, None)
    /\ UNCHANGED <<buf, head, tail, count>>

(* full() *)
Full ==
    /\ result' = Result("full", IsFull, None)
    /\ UNCHANGED <<buf, head, tail, count>>

Next ==
    \/ \E x \in Item : Push(x) \/ PushFront(x) \/ Contains(x)
    \/ Pop
    \/ Full

Spec == Init /\ [][Next]_vars

-----------------------------------------------------------------------------
(* The cells, cursors and counter stay in their ranges, and the two        *)
(* cursors and the counter agree: tail is count cells after head, modulo   *)
(* N, although pushFront moves only head, push only tail and pop only head *)
(* (thread_safe_queue.h:97-127).                                           *)
RingInv ==
    /\ buf \in [Cell -> Item]
    /\ head \in Cell
    /\ tail \in Cell
    /\ count \in 0 .. N
    /\ tail = (head + count) % N

(* The queue that the ring stores. *)
Stored == [i \in 1 .. count |-> At(i - 1)]

Fifo == INSTANCE BoundedQueue WITH Capacity <- N, items <- Stored

(* Any sequence of push, pushFront, pop, contains and full through the     *)
(* ring returns exactly what a bounded double-ended sequence returns: no   *)
(* item is lost, duplicated, reordered or read before it is written,       *)
(* across every wrap of head and tail (thread_safe_queue.h:25-127).        *)
ImplementsFifo == Fifo!Spec

=============================================================================
