---------------------------- MODULE PendingPool -----------------------------
(***************************************************************************)
(* The pool of commands that could not be sent yet, one bounded queue per  *)
(* node: firmware/src/hub/util/pending_pool.h.                             *)
(*                                                                         *)
(* push, pushFront and pop hold the pool's mutex from the search of the    *)
(* slot to the change of its queue, so each is one atomic step whichever   *)
(* task calls it.  A slot's ThreadSafeQueue is the sequence that           *)
(* ThreadSafeQueue is shown to implement.                                  *)
(***************************************************************************)
EXTENDS Integers, Sequences, FiniteSets, SlotSearch

CONSTANTS
    Node,       \* addresses a command can name
    MAX_NODES,  \* number of slots
    PerNode,    \* CMD_PENDING_PER_NODE: commands one slot can hold
    TTL,        \* CMD_TTL_MS, in clock ticks
    ClockMod,   \* millis() wraps to 0 after this many ticks (2^32 ms)
    StartTime,  \* when observation starts
    None        \* no node, no command

ASSUME PoolAssumption ==
    /\ MAX_NODES \in Nat \ {0}
    /\ PerNode \in Nat \ {0}
    /\ ClockMod \in Nat \ {0}
    /\ TTL \in 1 .. ClockMod
    /\ StartTime \in Nat
    /\ None \notin Node

VARIABLES
    slots,  \* slots_: [used, node_id, queue of [id, queued_at]]
    now     \* ticks since boot

SlotIdx == 1 .. MAX_NODES

-----------------------------------------------------------------------------
(* Mutated forms of the definitions below. *)

Mut_FreshBySum(e) == now % ClockMod < (e.queued_at + TTL) % ClockMod
Mut_hasWork(i) == slots[i].used /\ Len(slots[i].queue) > 1
Mut_HasRoom(i) == Len(slots[i].queue) <= PerNode

-----------------------------------------------------------------------------

(* millis(): a 32-bit count of milliseconds. *)
millis == now % ClockMod

Stamped(id) == [id |-> id, queued_at |-> millis]

(* now - cmd.queued_at < CMD_TTL_MS, in unsigned 32-bit arithmetic *)
Fresh(e) == (millis - e.queued_at) % ClockMod < TTL

findSlot(n) == Lowest({i \in SlotIdx : slots[i].used /\ slots[i].node_id = n})

Mut_findOrCreate(n) == IF findSlot(n) # 0 THEN findSlot(n) ELSE Lowest(SlotIdx)

findOrCreate(n) ==
    IF findSlot(n) # 0 THEN findSlot(n)
    ELSE Lowest({i \in SlotIdx : ~slots[i].used})

hasWork(i) == slots[i].used /\ slots[i].queue # <<>>

HasRoom(i) == Len(slots[i].queue) < PerNode

(* The value push and pushFront return. *)
Accepts(n) == findOrCreate(n) # 0 /\ HasRoom(findOrCreate(n))

(* findOrCreate marks the slot it picks before the queue is asked. *)
StoreAs(n, q) ==
    IF findOrCreate(n) = 0 THEN slots
    ELSE [slots EXCEPT ![findOrCreate(n)] =
            [used |-> TRUE,
             node_id |-> n,
             queue |-> IF HasRoom(findOrCreate(n)) THEN q ELSE @.queue]]

(* The pool is empty at boot, and again whenever every command has left    *)
(* the hub, so the clock may show any time.                                *)
PoolInit ==
    /\ slots = [i \in SlotIdx |-> [used |-> FALSE, node_id |-> None, queue |-> <<>>]]
    /\ now = StartTime

Mut_PushFront(n, id) ==
    slots' = StoreAs(n, Append(slots[findOrCreate(n)].queue, Stamped(id)))

push(n, id) ==
    slots' = StoreAs(n, Append(slots[findOrCreate(n)].queue, Stamped(id)))

pushFront(n, id) ==
    slots' = StoreAs(n, <<Stamped(id)>> \o slots[findOrCreate(n)].queue)

(* Positions of n's queue that pop would hand out. *)
FreshAt(n) ==
    IF findSlot(n) = 0 THEN {}
    ELSE LET q == slots[findSlot(n)].queue
         IN  {k \in 1 .. Len(q) : Fresh(q[k])}

(* The command pop hands out. *)
popped(n) ==
    IF FreshAt(n) = {} THEN None
    ELSE slots[findSlot(n)].queue[Min(FreshAt(n))].id

(* The commands pop throws away before the one it hands out. *)
expired(n) ==
    IF findSlot(n) = 0 THEN {}
    ELSE LET q == slots[findSlot(n)].queue
             last == IF FreshAt(n) = {} THEN Len(q) ELSE Min(FreshAt(n)) - 1
         IN  {q[k].id : k \in 1 .. last}

Mut_PopReleases(n) ==
    slots' =
        IF findSlot(n) = 0 THEN slots
        ELSE LET i == findSlot(n)
                 q == slots[i].queue
                 rest == IF FreshAt(n) = {} THEN <<>>
                         ELSE SubSeq(q, Min(FreshAt(n)) + 1, Len(q))
             IN  [slots EXCEPT ![i].queue = rest, ![i].used = rest # <<>>]

Mut_PopPeeks(n) ==
    slots' =
        IF findSlot(n) = 0 THEN slots
        ELSE LET i == findSlot(n)
                 q == slots[i].queue
             IN  IF FreshAt(n) = {}
                 THEN [slots EXCEPT ![i].queue = <<>>, ![i].used = FALSE]
                 ELSE [slots EXCEPT ![i].queue = SubSeq(q, Min(FreshAt(n)), Len(q))]

(* A slot is released only when its queue is found without a fresh command;*)
(* the pop that takes the last one leaves the slot in use.                 *)
pop(n) ==
    slots' =
        IF findSlot(n) = 0 THEN slots
        ELSE LET i == findSlot(n)
                 q == slots[i].queue
             IN  IF FreshAt(n) = {}
                 THEN [slots EXCEPT ![i].queue = <<>>, ![i].used = FALSE]
                 ELSE [slots EXCEPT ![i].queue = SubSeq(q, Min(FreshAt(n)) + 1, Len(q))]

=============================================================================
