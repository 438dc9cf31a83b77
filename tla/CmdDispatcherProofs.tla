------------------------ MODULE CmdDispatcherProofs -------------------------
(***************************************************************************)
(* Commands are conserved, kept in order and in their node's slot, and the *)
(* dispatcher implements Delivery: for any number of nodes, slots,         *)
(* commands and any clock; and what is sent is fresh until the hub has     *)
(* counted a whole turn of its clock.                                      *)
(***************************************************************************)
EXTENDS CmdDispatcher, SlotSearchProofs, SequenceTheorems, TLAPS

(* What each task's record holds at each point of its code, and which      *)
(* nodes the slots in use have.                                            *)
Control ==
    /\ mqtt.pc # "idle" <=> mqtt.cmd # None
    /\ mqtt.cmd # None => mqtt.cmd = Len(cmds)
    /\ mqtt.pc \in {"write", "push"} => cmds[mqtt.cmd].target \in Node
    /\ loop.pc \in {"send", "write", "putback"} <=> loop.cmd # None
    /\ loop.pc \in {"flush", "pop", "send", "write", "putback"} => loop.node \in Node
    /\ loop.cmd # None => loop.cmd <= Len(cmds) /\ cmds[loop.cmd].target = loop.node

SlotNodes ==
    /\ \A i \in SlotIdx : slots[i].used => slots[i].node_id \in Node
    /\ \A i \in SlotIdx : ~slots[i].used => slots[i].queue = <<>>
    /\ \A i, j \in SlotIdx :
          (slots[i].used /\ slots[j].used /\ slots[i].node_id = slots[j].node_id) => i = j

(* A queue holds commands the hub has received, for its node.              *)
Contents ==
    \A i \in SlotIdx : \A k \in 1 .. Len(slots[i].queue) :
        /\ slots[i].queue[k].id <= Len(cmds)
        /\ cmds[slots[i].queue[k].id].target = slots[i].node_id

Types == TypeOK /\ Control /\ SlotNodes /\ Contents

-----------------------------------------------------------------------------
(* What the operations of the pool do to its slots.                        *)

LEMMA FindSlotFacts ==
    ASSUME NEW n
    PROVE  /\ findSlot(n) # 0 =>
                 /\ findSlot(n) \in SlotIdx
                 /\ slots[findSlot(n)].used /\ slots[findSlot(n)].node_id = n
           /\ findSlot(n) = 0 => \A i \in SlotIdx : ~(slots[i].used /\ slots[i].node_id = n)
<1> DEFINE S == {i \in SlotIdx : slots[i].used /\ slots[i].node_id = n}
<1>1. S \subseteq 1 .. MAX_NODES /\ MAX_NODES \in Nat
  BY PoolAssumption DEF SlotIdx
<1>2. (Lowest(S) = 0 <=> S = {}) /\ (Lowest(S) # 0 => Lowest(S) \in S)
  BY <1>1, LowestFound
<1> QED BY <1>2 DEF findSlot

LEMMA FindOrCreateFacts ==
    ASSUME NEW n
    PROVE  findOrCreate(n) # 0 =>
             /\ findOrCreate(n) \in SlotIdx
             /\ \/ slots[findOrCreate(n)].used /\ slots[findOrCreate(n)].node_id = n
                \/ /\ ~slots[findOrCreate(n)].used
                   /\ \A i \in SlotIdx : ~(slots[i].used /\ slots[i].node_id = n)
<1> DEFINE S == {i \in SlotIdx : ~slots[i].used}
<1>1. S \subseteq 1 .. MAX_NODES /\ MAX_NODES \in Nat
  BY PoolAssumption DEF SlotIdx
<1>2. (Lowest(S) = 0 <=> S = {}) /\ (Lowest(S) # 0 => Lowest(S) \in S)
  BY <1>1, LowestFound
<1>3. CASE findSlot(n) # 0
  BY <1>3, FindSlotFacts DEF findOrCreate
<1>4. CASE findSlot(n) = 0
  BY <1>2, <1>4, FindSlotFacts DEF findOrCreate
<1> QED BY <1>3, <1>4

(* A node that has a slot keeps using it.                                  *)
LEMMA OwnSlot ==
    ASSUME NEW n, SlotNodes, NEW i \in SlotIdx, slots[i].used, slots[i].node_id = n
    PROVE  findSlot(n) = i /\ findOrCreate(n) = i
<1>1. findSlot(n) # 0
  BY FindSlotFacts
<1>2. findSlot(n) = i
  BY <1>1, FindSlotFacts DEF SlotNodes
<1> QED BY <1>1, <1>2 DEF findOrCreate

(* A queue that is given a new content goes to a slot of its node, or      *)
(* nothing changes: a slot that is marked for a refused command was the    *)
(* node's already.                                                         *)
LEMMA StoreFacts ==
    ASSUME TypeOK, SlotNodes, NEW n \in Node, NEW q, slots' = StoreAs(n, q)
    PROVE  /\ ~Accepts(n) => slots' = slots
           /\ Accepts(n) =>
                /\ findOrCreate(n) \in SlotIdx
                /\ Len(slots[findOrCreate(n)].queue) < PerNode
                /\ slots' = [slots EXCEPT ![findOrCreate(n)] =
                               [used |-> TRUE, node_id |-> n, queue |-> q]]
<1> DEFINE f == findOrCreate(n)
<1>1. CASE f = 0
  BY <1>1 DEF StoreAs, Accepts
<1>2. CASE f # 0
  <2>1. f \in SlotIdx /\ slots[f] \in SlotType
    BY <1>2, FindOrCreateFacts DEF TypeOK
  <2>2. slots' = [slots EXCEPT ![f] = [used |-> TRUE, node_id |-> n,
                                       queue |-> IF HasRoom(f) THEN q ELSE slots[f].queue]]
    BY <1>2 DEF StoreAs
  <2>3. CASE HasRoom(f)
    BY <1>2, <2>1, <2>2, <2>3 DEF Accepts, HasRoom
  <2>4. CASE ~HasRoom(f)
    <3>1. slots[f].used /\ slots[f].node_id = n
      <4>1. slots[f].queue # <<>>
        <5>1. Len(<<>>) = 0 /\ 0 < PerNode
          BY PoolAssumption
        <5> QED BY <2>4, <5>1 DEF HasRoom
      <4> QED BY <1>2, <2>1, <4>1, FindOrCreateFacts DEF SlotNodes
    <3>2. slots[f] = [used |-> TRUE, node_id |-> n, queue |-> slots[f].queue]
      BY <2>1, <3>1 DEF SlotType
    <3>3. slots' = [slots EXCEPT ![f] = slots[f]]
      BY <2>2, <2>4, <3>2
    <3>4. slots \in [SlotIdx -> SlotType]
      BY DEF TypeOK
    <3> HIDE DEF f, SlotType
    <3> QED BY <2>1, <2>4, <3>3, <3>4 DEF Accepts, f
  <2> QED BY <2>3, <2>4
<1> QED BY <1>1, <1>2

LEMMA StampedEntry ==
    ASSUME TypeOK, NEW c \in Id
    PROVE  Stamped(c) \in Entry /\ Stamped(c).id = c
<1>1. now \in Nat /\ ClockMod \in Nat \ {0}
  BY PoolAssumption DEF TypeOK
<1>2. now % ClockMod \in 0 .. ClockMod - 1
  BY <1>1
<1> QED BY <1>2 DEF Stamped, millis, Entry

(* An accepted push or pushFront puts its command at its end of the queue  *)
(* of its node and touches no other slot.                                  *)
LEMMA StoredFacts ==
    ASSUME TypeOK, SlotNodes, NEW n \in Node, Accepts(n), NEW q \in Seq(Entry),
           Len(q) = Len(slots[findOrCreate(n)].queue) + 1, slots' = StoreAs(n, q)
    PROVE  /\ findOrCreate(n) \in SlotIdx
           /\ slots' \in [SlotIdx -> SlotType]
           /\ slots'[findOrCreate(n)] = [used |-> TRUE, node_id |-> n, queue |-> q]
           /\ Len(q) <= PerNode
           /\ \A j \in SlotIdx : j # findOrCreate(n) => slots'[j] = slots[j]
<1> DEFINE f == findOrCreate(n)
           r == [used |-> TRUE, node_id |-> n, queue |-> q]
<1>1. /\ f \in SlotIdx /\ Len(slots[f].queue) < PerNode
      /\ slots' = [slots EXCEPT ![f] = r]
  BY StoreFacts
<1>2. r \in SlotType
  BY DEF SlotType
<1>3. slots \in [SlotIdx -> SlotType] /\ Len(slots[f].queue) \in Nat /\ PerNode \in Nat
  <2>1. slots \in [SlotIdx -> SlotType]
    BY DEF TypeOK
  <2>2. slots[f].queue \in Seq(Entry)
    BY <1>1, <2>1 DEF SlotType
  <2> QED BY <2>1, <2>2, PoolAssumption
<1> HIDE DEF f, r, SlotType
<1>4. /\ slots' \in [SlotIdx -> SlotType] /\ slots'[f] = r
      /\ \A j \in SlotIdx : j # f => slots'[j] = slots[j]
  BY <1>1, <1>2, <1>3
<1>5. Len(q) <= PerNode
  BY <1>1, <1>3 DEF f
<1> QED BY <1>1, <1>4, <1>5 DEF f, r

LEMMA QueueTypes ==
    ASSUME TypeOK, NEW i \in SlotIdx
    PROVE  /\ slots[i].queue \in Seq(Entry)
           /\ Len(slots[i].queue) \in Nat
           /\ \A k \in 1 .. Len(slots[i].queue) :
                 slots[i].queue[k] \in Entry /\ slots[i].queue[k].id \in Id
<1>1. slots[i].queue \in Seq(Entry)
  BY DEF TypeOK, SlotType
<1>2. \A k \in 1 .. Len(slots[i].queue) : slots[i].queue[k] \in Entry
  BY <1>1, ElementOfSeq
<1>3. \A k \in 1 .. Len(slots[i].queue) : slots[i].queue[k].id \in Id
  BY <1>2 DEF Entry
<1> QED BY <1>1, <1>2, <1>3

LEMMA PushFacts ==
    ASSUME TypeOK, SlotNodes, NEW n \in Node, NEW c \in Id, Accepts(n), push(n, c)
    PROVE  LET f == findOrCreate(n)
               L == Len(slots[f].queue)
           IN  /\ f \in SlotIdx
               /\ slots' \in [SlotIdx -> SlotType]
               /\ slots'[f].used /\ slots'[f].node_id = n
               /\ Len(slots'[f].queue) = L + 1 /\ L + 1 <= PerNode
               /\ slots'[f].queue[L + 1].id = c
               /\ \A k \in 1 .. L : slots'[f].queue[k] = slots[f].queue[k]
               /\ \A j \in SlotIdx : j # f => slots'[j] = slots[j]
<1> DEFINE f == findOrCreate(n)
           L == Len(slots[f].queue)
           q == Append(slots[f].queue, Stamped(c))
<1>1. f \in SlotIdx
  BY FindOrCreateFacts DEF Accepts
<1>2. slots[f].queue \in Seq(Entry) /\ L \in Nat
  BY <1>1, QueueTypes
<1>3. /\ q \in Seq(Entry) /\ Len(q) = L + 1 /\ q[L + 1] = Stamped(c)
      /\ \A k \in 1 .. L : q[k] = slots[f].queue[k]
  BY <1>2, StampedEntry
<1>4. slots' = StoreAs(n, q)
  BY DEF push
<1> HIDE DEF q
<1>5. /\ slots' \in [SlotIdx -> SlotType]
      /\ slots'[f] = [used |-> TRUE, node_id |-> n, queue |-> q]
      /\ Len(q) <= PerNode
      /\ \A j \in SlotIdx : j # f => slots'[j] = slots[j]
  BY <1>3, <1>4, StoredFacts
<1> QED BY <1>1, <1>3, <1>5, StampedEntry

LEMMA PushFrontFacts ==
    ASSUME TypeOK, SlotNodes, NEW n \in Node, NEW c \in Id, Accepts(n), pushFront(n, c)
    PROVE  LET f == findOrCreate(n)
               L == Len(slots[f].queue)
           IN  /\ f \in SlotIdx
               /\ slots' \in [SlotIdx -> SlotType]
               /\ slots'[f].used /\ slots'[f].node_id = n
               /\ Len(slots'[f].queue) = L + 1 /\ L + 1 <= PerNode
               /\ slots'[f].queue[1].id = c
               /\ \A k \in 1 .. L : slots'[f].queue[k + 1] = slots[f].queue[k]
               /\ \A j \in SlotIdx : j # f => slots'[j] = slots[j]
<1> DEFINE f == findOrCreate(n)
           L == Len(slots[f].queue)
           q == <<Stamped(c)>> \o slots[f].queue
<1>1. f \in SlotIdx
  BY FindOrCreateFacts DEF Accepts
<1>2. slots[f].queue \in Seq(Entry) /\ L \in Nat
  BY <1>1, QueueTypes
<1>3. /\ q \in Seq(Entry) /\ Len(q) = L + 1 /\ q[1] = Stamped(c)
      /\ \A k \in 1 .. L : q[k + 1] = slots[f].queue[k]
  <2>1. /\ <<Stamped(c)>> \in Seq(Entry) /\ Len(<<Stamped(c)>>) = 1
        /\ <<Stamped(c)>>[1] = Stamped(c)
    BY StampedEntry
  <2>2. /\ q \in Seq(Entry) /\ Len(q) = 1 + L
        /\ \A i \in 1 .. 1 + L :
              q[i] = IF i <= 1 THEN <<Stamped(c)>>[i] ELSE slots[f].queue[i - 1]
    BY <1>2, <2>1, ConcatProperties
  <2> HIDE DEF q
  <2>3. q[1] = Stamped(c)
    BY <1>2, <2>1, <2>2
  <2>4. ASSUME NEW k \in 1 .. L
        PROVE  q[k + 1] = slots[f].queue[k]
    <3>1. k + 1 \in 1 .. 1 + L /\ ~(k + 1 <= 1) /\ (k + 1) - 1 = k
      BY <1>2
    <3>2. q[k + 1] = slots[f].queue[(k + 1) - 1]
      BY <2>2, <3>1
    <3> QED BY <3>1, <3>2
  <2>5. 1 + L = L + 1
    BY <1>2
  <2> QED BY <2>2, <2>3, <2>4, <2>5
<1>4. slots' = StoreAs(n, q)
  BY DEF pushFront
<1> HIDE DEF q
<1>5. /\ slots' \in [SlotIdx -> SlotType]
      /\ slots'[f] = [used |-> TRUE, node_id |-> n, queue |-> q]
      /\ Len(q) <= PerNode
      /\ \A j \in SlotIdx : j # f => slots'[j] = slots[j]
  BY <1>3, <1>4, StoredFacts
<1> QED BY <1>1, <1>3, <1>5, StampedEntry

(* A pop that finds nothing fresh empties the slot and releases it.        *)
LEMMA PopNothing ==
    ASSUME TypeOK, NEW n \in Node, pop(n), FreshAt(n) = {}
    PROVE  /\ popped(n) = None
           /\ slots' \in [SlotIdx -> SlotType]
           /\ findSlot(n) = 0 => slots' = slots /\ expired(n) = {}
           /\ findSlot(n) # 0 =>
                /\ slots'[findSlot(n)] = [slots[findSlot(n)] EXCEPT !.queue = <<>>, !.used = FALSE]
                /\ \A j \in SlotIdx : j # findSlot(n) => slots'[j] = slots[j]
                /\ expired(n) = {slots[findSlot(n)].queue[k].id :
                                   k \in 1 .. Len(slots[findSlot(n)].queue)}
<1>0. slots \in [SlotIdx -> SlotType]
  BY DEF TypeOK
<1>1. popped(n) = None
  BY DEF popped
<1>2. CASE findSlot(n) = 0
  BY <1>0, <1>1, <1>2 DEF pop, expired
<1>3. CASE findSlot(n) # 0
  <2> DEFINE i == findSlot(n)
             r == [slots[i] EXCEPT !.queue = <<>>, !.used = FALSE]
  <2>1. i \in SlotIdx /\ slots[i] \in SlotType
    BY <1>0, <1>3, FindSlotFacts
  <2>2. slots' = [slots EXCEPT ![i] = r]
    <3>1. slots' = [slots EXCEPT ![i].queue = <<>>, ![i].used = FALSE]
      BY <1>3 DEF pop
    <3> HIDE DEF i
    <3> QED BY <1>0, <2>1, <3>1 DEF SlotType
  <2>3. r \in SlotType
    <3>1. ASSUME NEW e \in SlotType
          PROVE  [e EXCEPT !.queue = <<>>, !.used = FALSE] \in SlotType
      <4>1. <<>> \in Seq(Entry)
        BY EmptySeq
      <4> QED BY <4>1 DEF SlotType
    <3> HIDE DEF i, SlotType
    <3> QED BY <2>1, <3>1
  <2>4. expired(n) = {slots[i].queue[k].id : k \in 1 .. Len(slots[i].queue)}
    BY <1>3 DEF expired
  <2> HIDE DEF r, i, SlotType
  <2>5. slots' \in [SlotIdx -> SlotType] /\ slots'[i] = r
        /\ \A j \in SlotIdx : j # i => slots'[j] = slots[j]
    BY <1>0, <2>1, <2>2, <2>3
  <2> QED BY <1>1, <1>3, <2>4, <2>5 DEF r, i
<1> QED BY <1>2, <1>3

(* A pop that finds a fresh command takes it and drops those before it.    *)
LEMMA PopSome ==
    ASSUME TypeOK, NEW n \in Node, pop(n), FreshAt(n) # {}
    PROVE  LET i == findSlot(n)
               q == slots[i].queue
           IN  /\ i \in SlotIdx /\ slots[i].used /\ slots[i].node_id = n
               /\ slots' \in [SlotIdx -> SlotType]
               /\ \A j \in SlotIdx : j # i => slots'[j] = slots[j]
               /\ slots'[i].used /\ slots'[i].node_id = n
               /\ \E m \in 1 .. Len(q) :
                     /\ popped(n) = q[m].id
                     /\ expired(n) = {q[k].id : k \in 1 .. m - 1}
                     /\ Len(slots'[i].queue) = Len(q) - m
                     /\ \A k \in 1 .. Len(q) - m : slots'[i].queue[k] = q[k + m]
<1> DEFINE i == findSlot(n)
           q == slots[i].queue
           m == Min(FreshAt(n))
<1>0. slots \in [SlotIdx -> SlotType]
  BY DEF TypeOK
<1>1. findSlot(n) # 0
  BY DEF FreshAt
<1>2. i \in SlotIdx /\ slots[i].used /\ slots[i].node_id = n /\ slots[i] \in SlotType
  BY <1>0, <1>1, FindSlotFacts
<1>3. q \in Seq(Entry) /\ Len(q) \in Nat
  BY <1>2, QueueTypes
<1>4. m \in 1 .. Len(q)
  <2>1. FreshAt(n) \subseteq 1 .. Len(q)
    BY <1>1 DEF FreshAt
  <2>2. \E x \in FreshAt(n) : \A y \in FreshAt(n) : x <= y
    BY <1>3, <2>1, LeastIndex
  <2>3. m \in FreshAt(n)
    BY <2>2 DEF Min
  <2> QED BY <2>1, <2>3
<1>5. popped(n) = q[m].id
  BY DEF popped
<1>6. expired(n) = {q[k].id : k \in 1 .. m - 1}
  BY <1>1 DEF expired
<1> DEFINE rest == SubSeq(q, m + 1, Len(q))
           r == [slots[i] EXCEPT !.queue = rest]
<1>7. slots' = [slots EXCEPT ![i] = r]
  <2>1. slots' = [slots EXCEPT ![i].queue = rest]
    BY <1>1 DEF pop
  <2> HIDE DEF i, rest
  <2> QED BY <1>0, <1>2, <2>1
<1> HIDE DEF m
<1>8. /\ rest \in Seq(Entry) /\ Len(rest) = Len(q) - m
      /\ \A k \in 1 .. Len(q) - m : rest[k] = q[k + m]
  <2>1. m + 1 \in Int /\ Len(q) \in Int /\ \A k \in m + 1 .. Len(q) : q[k] \in Entry
    <3>1. \A k \in 1 .. Len(q) : q[k] \in Entry
      BY <1>3, ElementOfSeq
    <3> QED BY <1>3, <1>4, <3>1
  <2> HIDE DEF q
  <2>2. /\ rest \in Seq(Entry)
        /\ Len(rest) = IF m + 1 <= Len(q) THEN Len(q) - (m + 1) + 1 ELSE 0
        /\ \A k \in 1 .. Len(q) - (m + 1) + 1 : rest[k] = q[(m + 1) + k - 1]
    BY <2>1, SubSeqProperties
  <2>3. Len(q) - (m + 1) + 1 = Len(q) - m /\ (m + 1 > Len(q) => Len(q) - m = 0)
    BY <1>3, <1>4
  <2>4. \A k \in 1 .. Len(q) - m : (m + 1) + k - 1 = k + m
    BY <1>3, <1>4
  <2> HIDE DEF rest
  <2>5. Len(rest) = Len(q) - m
    <3>1. CASE m + 1 <= Len(q)
      BY <2>2, <2>3, <3>1
    <3>2. CASE ~(m + 1 <= Len(q))
      <4>1. m + 1 > Len(q)
        BY <1>3, <1>4, <3>2
      <4> QED BY <2>2, <2>3, <3>2, <4>1
    <3> QED BY <3>1, <3>2
  <2>6. ASSUME NEW k \in 1 .. Len(q) - m
        PROVE  rest[k] = q[k + m]
    <3>1. rest[k] = q[(m + 1) + k - 1]
      BY <2>2, <2>3
    <3>2. (m + 1) + k - 1 = k + m
      BY <2>4
    <3> QED BY <3>1, <3>2
  <2> QED BY <2>2, <2>5, <2>6
<1> HIDE DEF rest
<1>9. r \in SlotType /\ r.queue = rest /\ r.used /\ r.node_id = n
  BY <1>2, <1>8 DEF SlotType
<1> HIDE DEF r, i, q, SlotType
<1>10. /\ slots' \in [SlotIdx -> SlotType] /\ slots'[i] = r
       /\ \A j \in SlotIdx : j # i => slots'[j] = slots[j]
  BY <1>0, <1>2, <1>7, <1>9
<1>11. /\ slots'[i].used /\ slots'[i].node_id = n
       /\ Len(slots'[i].queue) = Len(q) - m
       /\ \A k \in 1 .. Len(q) - m : slots'[i].queue[k] = q[k + m]
  BY <1>8, <1>9, <1>10
<1>12. \E p \in 1 .. Len(q) :
         /\ popped(n) = q[p].id
         /\ expired(n) = {q[k].id : k \in 1 .. p - 1}
         /\ Len(slots'[i].queue) = Len(q) - p
         /\ \A k \in 1 .. Len(q) - p : slots'[i].queue[k] = q[k + p]
  BY <1>4, <1>5, <1>6, <1>11
<1> QED BY <1>2, <1>10, <1>11, <1>12 DEF i, q

(* The commands in the queues after a push: the new one and those of before. *)
LEMMA PushCells ==
    ASSUME TypeOK, SlotNodes, NEW n \in Node, NEW c \in Id, Accepts(n),
           push(n, c) \/ pushFront(n, c)
    PROVE  /\ \A i \in SlotIdx : \A k \in 1 .. Len(slots'[i].queue) :
                 \/ slots'[i].queue[k].id = c /\ slots'[i].node_id = n
                 \/ \E m \in 1 .. Len(slots[i].queue) :
                       /\ slots'[i].queue[k] = slots[i].queue[m]
                       /\ slots'[i].node_id = slots[i].node_id
           /\ \A i \in SlotIdx : \A m \in 1 .. Len(slots[i].queue) :
                 \E k \in 1 .. Len(slots'[i].queue) : slots'[i].queue[k] = slots[i].queue[m]
           /\ \E i \in SlotIdx : \E k \in 1 .. Len(slots'[i].queue) : slots'[i].queue[k].id = c
<1> DEFINE f == findOrCreate(n)
           L == Len(slots[f].queue)
<1>1. /\ f \in SlotIdx /\ slots'[f].node_id = n /\ Len(slots'[f].queue) = L + 1
      /\ \A j \in SlotIdx : j # f => slots'[j] = slots[j]
      /\ \/ /\ slots'[f].queue[L + 1].id = c
            /\ \A k \in 1 .. L : slots'[f].queue[k] = slots[f].queue[k]
         \/ /\ slots'[f].queue[1].id = c
            /\ \A k \in 1 .. L : slots'[f].queue[k + 1] = slots[f].queue[k]
  BY PushFacts, PushFrontFacts
<1>2. L \in Nat
  BY <1>1, QueueTypes
<1>3. L > 0 => slots[f].node_id = n
  <2>1. L > 0 => slots[f].used
    <3>1. Len(<<>>) = 0
      OBVIOUS
    <3> QED BY <1>1, <1>2, <3>1 DEF SlotNodes
  <2>2. f # 0
    BY <1>1 DEF SlotIdx
  <2> QED BY <2>1, <2>2, FindOrCreateFacts
<1> HIDE DEF f
<1>4. \A k \in 1 .. L + 1 :
        \/ slots'[f].queue[k].id = c
        \/ \E m \in 1 .. L : slots'[f].queue[k] = slots[f].queue[m]
  <2> SUFFICES ASSUME NEW k \in 1 .. L + 1
               PROVE  \/ slots'[f].queue[k].id = c
                      \/ \E m \in 1 .. L : slots'[f].queue[k] = slots[f].queue[m]
    OBVIOUS
  <2> HIDE DEF L
  <2>1. CASE slots'[f].queue[L + 1].id = c /\ \A m \in 1 .. L : slots'[f].queue[m] = slots[f].queue[m]
    <3>1. k = L + 1 \/ k \in 1 .. L
      BY <1>2
    <3> QED BY <2>1, <3>1
  <2>2. CASE slots'[f].queue[1].id = c /\ \A m \in 1 .. L : slots'[f].queue[m + 1] = slots[f].queue[m]
    <3>1. k = 1 \/ (k - 1 \in 1 .. L /\ (k - 1) + 1 = k)
      BY <1>2
    <3> QED BY <2>2, <3>1
  <2> QED BY <1>1, <2>1, <2>2 DEF L
<1>5. \A m \in 1 .. L : \E k \in 1 .. L + 1 : slots'[f].queue[k] = slots[f].queue[m]
  <2> SUFFICES ASSUME NEW m \in 1 .. L
               PROVE  \E k \in 1 .. L + 1 : slots'[f].queue[k] = slots[f].queue[m]
    OBVIOUS
  <2>1. m \in 1 .. L + 1 /\ m + 1 \in 1 .. L + 1
    BY <1>2
  <2> QED BY <1>1, <2>1
<1>6. \E k \in 1 .. L + 1 : slots'[f].queue[k].id = c
  <2>1. 1 \in 1 .. L + 1 /\ L + 1 \in 1 .. L + 1
    BY <1>2
  <2> QED BY <1>1, <2>1
<1>7. ASSUME NEW i \in SlotIdx, NEW k \in 1 .. Len(slots'[i].queue)
      PROVE  \/ slots'[i].queue[k].id = c /\ slots'[i].node_id = n
             \/ \E m \in 1 .. Len(slots[i].queue) :
                   /\ slots'[i].queue[k] = slots[i].queue[m]
                   /\ slots'[i].node_id = slots[i].node_id
  <2>1. CASE i # f
    <3>1. slots'[i] = slots[i]
      BY <1>1, <2>1
    <3> QED BY <3>1
  <2>2. CASE i = f
    <3>1. k \in 1 .. L + 1
      BY <1>1, <1>7, <2>2
    <3>2. (\E m \in 1 .. L : TRUE) => L > 0
      BY <1>2
    <3> QED BY <1>1, <1>3, <1>4, <2>2, <3>1, <3>2
  <2> QED BY <2>1, <2>2
<1>8. ASSUME NEW i \in SlotIdx, NEW m \in 1 .. Len(slots[i].queue)
      PROVE  \E k \in 1 .. Len(slots'[i].queue) : slots'[i].queue[k] = slots[i].queue[m]
  <2>1. CASE i # f
    <3>1. slots'[i] = slots[i]
      BY <1>1, <2>1
    <3> QED BY <3>1
  <2>2. CASE i = f
    BY <1>1, <1>5, <1>8, <2>2
  <2> QED BY <2>1, <2>2
<1> QED BY <1>1, <1>6, <1>7, <1>8

(* The commands in the queues before a pop: the one handed out, the ones   *)
(* that expire and those that stay.                                        *)
LEMMA PopCells ==
    ASSUME TypeOK, NEW n \in Node, pop(n)
    PROVE  /\ \A i \in SlotIdx : \A k \in 1 .. Len(slots'[i].queue) :
                 \E m \in 1 .. Len(slots[i].queue) :
                       /\ slots'[i].queue[k] = slots[i].queue[m]
                       /\ slots'[i].node_id = slots[i].node_id
           /\ \A i \in SlotIdx : \A m \in 1 .. Len(slots[i].queue) :
                 \/ slots[i].queue[m].id = popped(n)
                 \/ slots[i].queue[m].id \in expired(n)
                 \/ \E k \in 1 .. Len(slots'[i].queue) : slots'[i].queue[k] = slots[i].queue[m]
           /\ \A c : (c \in expired(n) \/ (popped(n) # None /\ c = popped(n))) =>
                 \E i \in SlotIdx :
                     /\ slots[i].used /\ slots[i].node_id = n
                     /\ \E m \in 1 .. Len(slots[i].queue) : slots[i].queue[m].id = c
<1> DEFINE i == findSlot(n)
           q == slots[i].queue
<1>1. CASE FreshAt(n) = {} /\ i = 0
  <2>1. slots' = slots /\ expired(n) = {} /\ popped(n) = None
    BY <1>1, PopNothing
  <2> QED BY <2>1
<1>2. CASE FreshAt(n) = {} /\ i # 0
  <2>1. /\ popped(n) = None
        /\ slots'[i] = [slots[i] EXCEPT !.queue = <<>>, !.used = FALSE]
        /\ \A j \in SlotIdx : j # i => slots'[j] = slots[j]
        /\ expired(n) = {q[k].id : k \in 1 .. Len(q)}
    BY <1>2, PopNothing
  <2>2. i \in SlotIdx /\ slots[i].used /\ slots[i].node_id = n /\ slots[i] \in SlotType
    BY <1>2, FindSlotFacts DEF TypeOK
  <2> HIDE DEF i
  <2>3. Len(slots'[i].queue) = 0
    <3>1. slots'[i].queue = <<>>
      BY <2>1, <2>2 DEF SlotType
    <3> QED BY <3>1
  <2>4. \A k \in 1 .. Len(slots'[i].queue) : FALSE
    BY <2>3
  <2>5. \A m \in 1 .. Len(q) : q[m].id \in expired(n)
    BY <2>1
  <2>6. \A c \in expired(n) : \E m \in 1 .. Len(q) : q[m].id = c
    BY <2>1
  <2>7. \A j \in SlotIdx : j = i \/ slots'[j] = slots[j]
    BY <2>1
  <2> QED BY <2>1, <2>2, <2>4, <2>5, <2>6, <2>7
<1>3. CASE FreshAt(n) # {}
  <2>1. /\ i \in SlotIdx /\ slots[i].used /\ slots[i].node_id = n
        /\ \A j \in SlotIdx : j # i => slots'[j] = slots[j]
        /\ slots'[i].node_id = n
        /\ \E m \in 1 .. Len(q) :
              /\ popped(n) = q[m].id
              /\ expired(n) = {q[k].id : k \in 1 .. m - 1}
              /\ Len(slots'[i].queue) = Len(q) - m
              /\ \A k \in 1 .. Len(q) - m : slots'[i].queue[k] = q[k + m]
    BY <1>3, PopSome
  <2>2. Len(q) \in Nat
    BY <2>1, QueueTypes
  <2> HIDE DEF i
  <2>3. PICK p \in 1 .. Len(q) :
              /\ popped(n) = q[p].id
              /\ expired(n) = {q[k].id : k \in 1 .. p - 1}
              /\ Len(slots'[i].queue) = Len(q) - p
              /\ \A k \in 1 .. Len(q) - p : slots'[i].queue[k] = q[k + p]
    BY <2>1
  <2>4. \A k \in 1 .. Len(slots'[i].queue) :
           k + p \in 1 .. Len(q) /\ slots'[i].queue[k] = q[k + p]
    BY <2>2, <2>3
  <2>5. ASSUME NEW m \in 1 .. Len(q)
        PROVE  \/ q[m].id = popped(n)
               \/ q[m].id \in expired(n)
               \/ \E k \in 1 .. Len(slots'[i].queue) : slots'[i].queue[k] = q[m]
    <3>1. CASE m = p
      BY <2>3, <3>1
    <3>2. CASE m < p
      <4>1. m \in 1 .. p - 1
        BY <2>2, <3>2
      <4> QED BY <2>3, <4>1
    <3>3. CASE m > p
      <4>1. m - p \in 1 .. Len(q) - p /\ (m - p) + p = m
        BY <2>2, <3>3
      <4> QED BY <2>3, <4>1
    <3> QED BY <2>2, <3>1, <3>2, <3>3
  <2>6. \A c : (c \in expired(n) \/ c = popped(n)) => \E m \in 1 .. Len(q) : q[m].id = c
    <3>1. \A k \in 1 .. p - 1 : k \in 1 .. Len(q)
      BY <2>2
    <3> QED BY <2>3, <3>1
  <2>7. \A j \in SlotIdx : j = i \/ slots'[j] = slots[j]
    BY <2>1
  <2>8. ASSUME NEW j \in SlotIdx, NEW k \in 1 .. Len(slots'[j].queue)
        PROVE  \E m \in 1 .. Len(slots[j].queue) :
                       /\ slots'[j].queue[k] = slots[j].queue[m]
                       /\ slots'[j].node_id = slots[j].node_id
    BY <2>1, <2>4, <2>7, <2>8
  <2>9. ASSUME NEW j \in SlotIdx, NEW m \in 1 .. Len(slots[j].queue)
        PROVE  \/ slots[j].queue[m].id = popped(n)
               \/ slots[j].queue[m].id \in expired(n)
               \/ \E k \in 1 .. Len(slots'[j].queue) : slots'[j].queue[k] = slots[j].queue[m]
    BY <2>5, <2>7, <2>9
  <2> QED BY <2>1, <2>6, <2>8, <2>9
<1> QED BY <1>1, <1>2, <1>3

-----------------------------------------------------------------------------
(* Types: the records of the slots and of the tasks.                       *)

SlotsTyped ==
    /\ slots \in [SlotIdx -> SlotType]
    /\ \A i \in SlotIdx : Len(slots[i].queue) <= PerNode

LEMMA RefusedTypes ==
    ASSUME TypeOK, SlotNodes, slots' = slots
    PROVE  SlotsTyped' /\ SlotNodes'
BY DEF TypeOK, SlotsTyped, SlotNodes

(* Both kinds of push change one slot, to a slot of the command's node.    *)
LEMMA OneSlotTypes ==
    ASSUME TypeOK, SlotNodes, NEW n \in Node, NEW f \in SlotIdx,
           f = findOrCreate(n),
           slots' \in [SlotIdx -> SlotType],
           slots'[f].used, slots'[f].node_id = n, Len(slots'[f].queue) <= PerNode,
           \A j \in SlotIdx : j # f => slots'[j] = slots[j]
    PROVE  SlotsTyped' /\ SlotNodes'
<1>1. SlotsTyped'
  <2>1. \A i \in SlotIdx : Len(slots'[i].queue) <= PerNode
    BY DEF TypeOK
  <2> QED BY <2>1 DEF SlotsTyped
<1>2. f # 0
  BY DEF SlotIdx
<1>3. \A j \in SlotIdx : (j # f /\ slots[j].used) => slots[j].node_id # n
  BY <1>2, FindOrCreateFacts DEF SlotNodes
<1>4. SlotNodes'
  <2>1. \A i \in SlotIdx : slots'[i].used => slots'[i].node_id \in Node
    BY DEF SlotNodes
  <2>2. \A i \in SlotIdx : ~slots'[i].used => slots'[i].queue = <<>>
    BY DEF SlotNodes
  <2>3. \A i, j \in SlotIdx :
          (slots'[i].used /\ slots'[j].used /\ slots'[i].node_id = slots'[j].node_id) => i = j
    BY <1>3 DEF SlotNodes
  <2> QED BY <2>1, <2>2, <2>3 DEF SlotNodes
<1> QED BY <1>1, <1>4

LEMMA PushTypes ==
    ASSUME TypeOK, SlotNodes, NEW n \in Node, NEW c \in Id, push(n, c) \/ pushFront(n, c)
    PROVE  SlotsTyped' /\ SlotNodes'
<1>1. CASE ~Accepts(n)
  <2>1. slots' = slots
    BY <1>1, StoreFacts DEF push, pushFront
  <2> QED BY <2>1, RefusedTypes
<1>2. CASE Accepts(n) /\ push(n, c)
  BY <1>2, PushFacts, OneSlotTypes
<1>3. CASE Accepts(n) /\ pushFront(n, c)
  BY <1>3, PushFrontFacts, OneSlotTypes
<1> QED BY <1>1, <1>2, <1>3

LEMMA PopTypes ==
    ASSUME TypeOK, SlotNodes, NEW n \in Node, pop(n)
    PROVE  SlotsTyped' /\ SlotNodes' /\ popped(n) \in Id \cup {None}
<1> DEFINE i == findSlot(n)
<1>0. PerNode \in Nat
  BY PoolAssumption
<1>1. CASE FreshAt(n) = {} /\ i = 0
  BY <1>1, PopNothing, RefusedTypes
<1>2. CASE FreshAt(n) = {} /\ i # 0
  <2>1. /\ slots' \in [SlotIdx -> SlotType] /\ popped(n) = None
        /\ slots'[i] = [slots[i] EXCEPT !.queue = <<>>, !.used = FALSE]
        /\ \A j \in SlotIdx : j # i => slots'[j] = slots[j]
    BY <1>2, PopNothing
  <2>2. i \in SlotIdx /\ slots[i] \in SlotType
    BY <1>2, FindSlotFacts DEF TypeOK
  <2> HIDE DEF i
  <2>3. ~slots'[i].used /\ slots'[i].queue = <<>>
    BY <2>1, <2>2 DEF SlotType
  <2>4. SlotsTyped'
    <3>1. \A j \in SlotIdx : Len(slots'[j].queue) <= PerNode
      <4>1. Len(slots'[i].queue) <= PerNode
        BY <1>0, <2>3
      <4>2. \A j \in SlotIdx : j # i => Len(slots'[j].queue) <= PerNode
        BY <2>1 DEF TypeOK
      <4> QED BY <4>1, <4>2
    <3> QED BY <2>1, <3>1 DEF SlotsTyped
  <2>5. SlotNodes'
    BY <2>1, <2>3 DEF SlotNodes
  <2> QED BY <2>1, <2>4, <2>5
<1>3. CASE FreshAt(n) # {}
  <2> DEFINE q == slots[i].queue
  <2>1. /\ i \in SlotIdx /\ slots[i].used /\ slots[i].node_id = n
        /\ slots' \in [SlotIdx -> SlotType]
        /\ \A j \in SlotIdx : j # i => slots'[j] = slots[j]
        /\ slots'[i].used /\ slots'[i].node_id = n
        /\ \E m \in 1 .. Len(q) :
              /\ popped(n) = q[m].id
              /\ Len(slots'[i].queue) = Len(q) - m
    BY <1>3, PopSome
  <2> HIDE DEF i
  <2>2. PICK m \in 1 .. Len(q) : popped(n) = q[m].id /\ Len(slots'[i].queue) = Len(q) - m
    BY <2>1
  <2>3. Len(q) \in Nat /\ Len(q) <= PerNode /\ q[m].id \in Id
    BY <2>1, QueueTypes DEF TypeOK
  <2>4. Len(slots'[i].queue) <= PerNode
    BY <1>0, <2>2, <2>3
  <2>5. SlotsTyped'
    <3>1. \A j \in SlotIdx : Len(slots'[j].queue) <= PerNode
      BY <2>1, <2>4 DEF TypeOK
    <3> QED BY <2>1, <3>1 DEF SlotsTyped
  <2>6. SlotNodes'
    BY <2>1 DEF SlotNodes
  <2> QED BY <2>2, <2>3, <2>5, <2>6
<1> QED BY <1>1, <1>2, <1>3

LEMMA ContentsKept ==
    ASSUME Contents, slots' = slots, cmds' = cmds
    PROVE  Contents'
BY DEF Contents

LEMMA ContentsPush ==
    ASSUME TypeOK, SlotNodes, Contents, NEW n \in Node, NEW c \in Id,
           c <= Len(cmds), cmds[c].target = n, cmds' = cmds,
           push(n, c) \/ pushFront(n, c)
    PROVE  Contents'
<1>1. CASE ~Accepts(n)
  <2>1. slots' = slots
    BY <1>1, StoreFacts DEF push, pushFront
  <2> QED BY <2>1, ContentsKept
<1>2. CASE Accepts(n)
  <2> SUFFICES ASSUME NEW i \in SlotIdx, NEW k \in 1 .. Len(slots'[i].queue)
               PROVE  /\ slots'[i].queue[k].id <= Len(cmds)
                      /\ cmds[slots'[i].queue[k].id].target = slots'[i].node_id
    BY DEF Contents
  <2>1. \/ slots'[i].queue[k].id = c /\ slots'[i].node_id = n
        \/ \E m \in 1 .. Len(slots[i].queue) :
              /\ slots'[i].queue[k] = slots[i].queue[m]
              /\ slots'[i].node_id = slots[i].node_id
    BY <1>2, PushCells
  <2> QED BY <2>1 DEF Contents
<1> QED BY <1>1, <1>2

LEMMA ContentsPop ==
    ASSUME TypeOK, Contents, NEW n \in Node, cmds' = cmds, pop(n)
    PROVE  /\ Contents'
           /\ popped(n) # None =>
                 popped(n) <= Len(cmds) /\ cmds[popped(n)].target = n
<1>1. Contents'
  <2> SUFFICES ASSUME NEW i \in SlotIdx, NEW k \in 1 .. Len(slots'[i].queue)
               PROVE  /\ slots'[i].queue[k].id <= Len(cmds)
                      /\ cmds[slots'[i].queue[k].id].target = slots'[i].node_id
    BY DEF Contents
  <2>1. \E m \in 1 .. Len(slots[i].queue) :
              /\ slots'[i].queue[k] = slots[i].queue[m]
              /\ slots'[i].node_id = slots[i].node_id
    BY PopCells
  <2> QED BY <2>1 DEF Contents
<1>2. ASSUME popped(n) # None
      PROVE  popped(n) <= Len(cmds) /\ cmds[popped(n)].target = n
  <2>1. \E i \in SlotIdx :
            /\ slots[i].node_id = n
            /\ \E m \in 1 .. Len(slots[i].queue) : slots[i].queue[m].id = popped(n)
    BY <1>2, PopCells
  <2> QED BY <2>1 DEF Contents
<1> QED BY <1>1, <1>2

(* What the tasks' records hold, as facts about their fields.              *)
LEMMA HandTypes ==
    ASSUME Types
    PROVE  /\ None \notin Id /\ None \notin Node
           /\ mqtt.cmd # None => /\ mqtt.cmd \in Id /\ mqtt.cmd = Len(cmds)
                                 /\ cmds[mqtt.cmd] \in CommandRecord
           /\ loop.cmd # None => /\ loop.cmd \in Id /\ loop.cmd \in 1 .. Len(cmds)
                                 /\ cmds[loop.cmd] \in CommandRecord
           /\ Len(cmds) \in Nat
<1>1. None \notin Id /\ None \notin Node
  BY PoolAssumption, DispatcherAssumption DEF Id
<1>2. Len(cmds) \in Nat /\ \A c \in 1 .. Len(cmds) : cmds[c] \in CommandRecord
  <2>1. cmds \in Seq(CommandRecord)
    BY DEF Types, TypeOK
  <2> QED BY <2>1, ElementOfSeq, LenProperties
<1>3. mqtt.cmd # None => mqtt.cmd \in Id
  BY DEF Types, TypeOK, MqttRecord
<1>4. loop.cmd # None => loop.cmd \in Id
  BY DEF Types, TypeOK, LoopRecord
<1>5. mqtt.cmd # None => mqtt.cmd \in 1 .. Len(cmds)
  BY <1>2, <1>3 DEF Types, Control, Id
<1>6. loop.cmd # None => loop.cmd \in 1 .. Len(cmds)
  BY <1>2, <1>4 DEF Types, Control, Id
<1> QED BY <1>1, <1>2, <1>3, <1>4, <1>5, <1>6 DEF Types, Control

(* A delivered write appends the command to what its target has executed.  *)
LEMMA DeliveredFacts ==
    ASSUME exec \in [Node -> Seq(Id)], NEW c \in Id, cmds[c].target \in Node, Delivered(c)
    PROVE  LET t == cmds[c].target IN
           /\ exec' \in [Node -> Seq(Id)]
           /\ \A n \in Node : n # t => exec'[n] = exec[n]
           /\ Len(exec[t]) \in Nat /\ Len(exec'[t]) = Len(exec[t]) + 1
           /\ exec'[t][Len(exec[t]) + 1] = c
           /\ \A k \in 1 .. Len(exec[t]) : exec'[t][k] = exec[t][k]
<1> DEFINE t == cmds[c].target
           s == exec[t]
<1>1. t \in Node /\ s \in Seq(Id)
  OBVIOUS
<1>2. exec' = [exec EXCEPT ![t] = Append(s, c)]
  BY DEF Delivered
<1>3. /\ Append(s, c) \in Seq(Id) /\ Len(s) \in Nat /\ Len(Append(s, c)) = Len(s) + 1
      /\ Append(s, c)[Len(s) + 1] = c
      /\ \A k \in 1 .. Len(s) : Append(s, c)[k] = s[k]
  BY <1>1
<1> DEFINE a == Append(s, c)
<1> HIDE DEF a
<1>4. exec'[t] = a /\ \A n \in Node : n # t => exec'[n] = exec[n]
  BY <1>1, <1>2 DEF a
<1>5. exec' \in [Node -> Seq(Id)]
  BY <1>1, <1>2, <1>3 DEF a
<1> QED BY <1>3, <1>4, <1>5 DEF a

(* The histories keep their types through a write and through a put in the *)
(* pool.                                                                   *)
HistTyped ==
    /\ exec \in [Node -> Seq(Id)]
    /\ fate \in [Id -> Fates]
    /\ unanswered \subseteq Id
    /\ first \in [Id -> Nat \cup {None}]
    /\ last \in [Id -> Nat \cup {None}]

LEMMA WriteTypes ==
    ASSUME TypeOK, NEW c \in Id, cmds[c].target \in Node,
           WriteReturnsTrue(c) \/ WriteReturnsFalse(c)
    PROVE  HistTyped'
<1>1. exec \in [Node -> Seq(Id)] /\ fate \in [Id -> Fates] /\ "sent" \in Fates
  BY DEF TypeOK, Fates
<1>2. exec' \in [Node -> Seq(Id)]
  <2>1. exec' = exec \/ Delivered(c)
    BY DEF WriteReturnsTrue, WriteReturnsFalse
  <2> QED BY <1>1, <2>1, DeliveredFacts
<1>3. fate' \in [Id -> Fates]
  BY <1>1 DEF WriteReturnsTrue, WriteReturnsFalse
<1>4. unanswered' \subseteq Id
  BY DEF WriteReturnsTrue, WriteReturnsFalse, TypeOK
<1>5. first' = first /\ last' = last
  BY DEF WriteReturnsTrue, WriteReturnsFalse
<1> QED BY <1>2, <1>3, <1>4, <1>5 DEF HistTyped, TypeOK

LEMMA PooledTypes ==
    ASSUME TypeOK, NEW c \in Id, NEW r \in Fates, Pooled(c, r)
    PROVE  HistTyped'
BY DEF TypeOK, HistTyped, Pooled

TasksTyped ==
    /\ now \in Nat
    /\ conn \subseteq Node
    /\ cmds \in Seq(CommandRecord)
    /\ Len(cmds) <= MaxCmds
    /\ mqtt \in MqttRecord
    /\ loop \in LoopRecord

LEMMA TypeParts ==
    /\ SlotsTyped /\ TasksTyped /\ HistTyped => TypeOK
    /\ SlotsTyped' /\ TasksTyped' /\ HistTyped' => TypeOK'
BY DEF TypeOK, SlotsTyped, TasksTyped, HistTyped

LEMMA TypesInit == Init => Types
<1> SUFFICES ASSUME Init PROVE Types
  OBVIOUS
<1>1. SlotsTyped /\ SlotNodes
  <2>1. <<>> \in Seq(Entry) /\ Len(<<>>) = 0 /\ PerNode \in Nat
    BY PoolAssumption
  <2>2. \A i \in SlotIdx : ~slots[i].used /\ slots[i].queue = <<>>
    BY DEF Init, PoolInit
  <2>3. slots \in [SlotIdx -> SlotType]
    BY <2>1 DEF Init, PoolInit, SlotType
  <2>4. \A i \in SlotIdx : Len(slots[i].queue) <= PerNode
    BY <2>1, <2>2
  <2> QED BY <2>2, <2>3, <2>4 DEF SlotsTyped, SlotNodes
<1>2. TasksTyped
  <2>1. 1 \in 1 .. MAX_NODES + 1 /\ StartTime \in Nat /\ MaxCmds \in Nat
    BY PoolAssumption, DispatcherAssumption
  <2>2. cmds \in Seq(CommandRecord) /\ Len(cmds) = 0
    BY DEF Init
  <2> QED BY <2>1, <2>2 DEF Init, PoolInit, TasksTyped, MqttRecord, LoopRecord
<1>3. HistTyped
  <2>1. exec \in [Node -> Seq(Id)]
    BY DEF Init
  <2> QED BY <2>1 DEF Init, HistTyped, Fates
<1>4. Control
  BY DEF Init, Control
<1>5. Contents
  <2>1. \A i \in SlotIdx : Len(slots[i].queue) = 0
    BY DEF Init, PoolInit
  <2> QED BY <2>1 DEF Contents
<1> QED BY <1>1, <1>2, <1>3, <1>4, <1>5, TypeParts DEF Types

LEMMA TypesReceive ==
    ASSUME Types, NEW t \in Node \cup {Hub}, NEW k \in Kinds, Receive(t, k)
    PROVE  Types'
<1> DEFINE e == [target |-> t, kind |-> k]
<1>1. e \in CommandRecord /\ cmds \in Seq(CommandRecord) /\ Len(cmds) < MaxCmds
  BY DEF Types, TypeOK, CommandRecord, Receive
<1>2. cmds' = Append(cmds, e)
  BY DEF Receive
<1> HIDE DEF e
<1>3. /\ cmds' \in Seq(CommandRecord) /\ Len(cmds') = Len(cmds) + 1
      /\ \A c \in 1 .. Len(cmds) : cmds'[c] = cmds[c]
  BY <1>1, <1>2
<1>4. Len(cmds) \in Nat /\ MaxCmds \in Nat /\ Len(cmds) + 1 \in Id
  BY <1>1, HandTypes, DispatcherAssumption DEF Id
<1>5. /\ mqtt' = [pc |-> "dispatch", cmd |-> Len(cmds) + 1] /\ loop' = loop
      /\ slots' = slots /\ now' = now /\ conn' = conn
      /\ exec' = exec /\ fate' = fate /\ unanswered' = unanswered
      /\ first' = first /\ last' = last
  BY DEF Receive, pool, hist
<1>6. SlotsTyped' /\ HistTyped' /\ SlotNodes'
  BY <1>5 DEF Types, TypeOK, SlotsTyped, HistTyped, SlotNodes
<1>7. TasksTyped'
  <2>1. mqtt' \in MqttRecord
    BY <1>4, <1>5 DEF MqttRecord
  <2>2. Len(cmds') <= MaxCmds
    BY <1>1, <1>3, <1>4
  <2> QED BY <1>3, <1>5, <2>1, <2>2 DEF Types, TypeOK, TasksTyped
<1>8. Control'
  <2>1. loop.cmd # None => loop.cmd <= Len(cmds') /\ cmds'[loop.cmd] = cmds[loop.cmd]
    BY <1>3, <1>4, HandTypes
  <2>2. mqtt'.cmd # None /\ mqtt'.cmd = Len(cmds')
    BY <1>3, <1>4, <1>5, HandTypes
  <2>3. mqtt'.pc = "dispatch"
    BY <1>5
  <2>4. /\ loop.pc \in {"send", "write", "putback"} <=> loop.cmd # None
        /\ loop.pc \in {"flush", "pop", "send", "write", "putback"} => loop.node \in Node
        /\ loop.cmd # None => cmds[loop.cmd].target = loop.node
    BY DEF Types, Control
  <2>5. loop' = loop
    BY <1>5
  <2> QED BY <2>1, <2>2, <2>3, <2>4, <2>5 DEF Control
<1>9. Contents'
  <2> SUFFICES ASSUME NEW i \in SlotIdx, NEW j \in 1 .. Len(slots[i].queue)
               PROVE  /\ slots[i].queue[j].id <= Len(cmds')
                      /\ cmds'[slots[i].queue[j].id].target = slots[i].node_id
    BY <1>5 DEF Contents
  <2>1. slots[i].queue[j].id \in Id /\ slots[i].queue[j].id <= Len(cmds)
    BY QueueTypes DEF Types, Contents
  <2>2. slots[i].queue[j].id \in 1 .. Len(cmds)
    BY <1>4, <2>1 DEF Id
  <2> QED BY <1>3, <1>4, <2>1, <2>2 DEF Types, Contents
<1> QED BY <1>6, <1>7, <1>8, <1>9, TypeParts DEF Types

LEMMA TypesMqtt ==
    ASSUME Types, MqttTask
    PROVE  Types'
<1>1. /\ loop' = loop /\ cmds' = cmds /\ now' = now /\ conn' = conn
      /\ mqtt.pc # "idle" /\ mqtt.cmd \in Id /\ mqtt.cmd # None
  <2>1. mqtt.pc # "idle" => mqtt.cmd \in Id /\ mqtt.cmd # None
    BY HandTypes DEF Types, Control
  <2> QED BY <2>1 DEF MqttTask, HubCommand, MqttSend, MqttWriteOk, MqttWriteFail, MqttPush,
                      pool, hist
<1>2. cmds[mqtt.cmd] \in CommandRecord /\ None \notin Id
  BY <1>1, HandTypes
<1>3. cmds[mqtt.cmd].target \in Node \/ cmds[mqtt.cmd].target = Hub
  BY <1>2 DEF CommandRecord
<1>4. /\ loop.pc \in {"send", "write", "putback"} <=> loop.cmd # None
      /\ loop.pc \in {"flush", "pop", "send", "write", "putback"} => loop.node \in Node
      /\ loop.cmd # None => loop.cmd <= Len(cmds) /\ cmds[loop.cmd].target = loop.node
  BY DEF Types, Control
<1>5. \/ mqtt' = [pc |-> "idle", cmd |-> None]
      \/ /\ mqtt'.cmd = mqtt.cmd /\ mqtt'.pc \in {"write", "push"} /\ mqtt' \in MqttRecord
         /\ cmds[mqtt.cmd].target \in Node
  <2>1. mqtt \in MqttRecord
    BY DEF Types, TypeOK
  <2>2. mqtt.pc \in {"write", "push"} => cmds[mqtt.cmd].target \in Node
    BY DEF Types, Control
  <2> QED BY <1>3, <2>1, <2>2 DEF MqttRecord, MqttTask, HubCommand, MqttSend, MqttWriteOk,
                                  MqttWriteFail, MqttPush
<1>6. Control'
  <2>1. mqtt.cmd = Len(cmds)
    BY <1>1, HandTypes
  <2>2. CASE mqtt' = [pc |-> "idle", cmd |-> None]
    <3>1. mqtt'.pc = "idle" /\ mqtt'.cmd = None
      BY <2>2
    <3> QED BY <1>1, <1>4, <3>1 DEF Control
  <2>3. CASE mqtt'.cmd = mqtt.cmd /\ mqtt'.pc \in {"write", "push"} /\ cmds[mqtt.cmd].target \in Node
    BY <1>1, <1>4, <2>1, <2>3 DEF Control
  <2> QED BY <1>5, <2>2, <2>3
<1>7. TasksTyped'
  <2>1. mqtt' \in MqttRecord
    BY <1>5 DEF MqttRecord
  <2> QED BY <1>1, <2>1 DEF Types, TypeOK, TasksTyped
<1>8. SlotsTyped' /\ SlotNodes'
  <2>1. CASE MqttPush
    <3>1. cmds[mqtt.cmd].target \in Node /\ push(cmds[mqtt.cmd].target, mqtt.cmd)
      BY <2>1 DEF MqttPush, Types, Control
    <3> QED BY <1>1, <3>1, PushTypes DEF Types
  <2>2. CASE ~MqttPush
    <3>1. slots' = slots
      BY <2>2 DEF MqttTask, HubCommand, MqttSend, MqttWriteOk, MqttWriteFail, pool
    <3> QED BY <3>1, RefusedTypes DEF Types
  <2> QED BY <2>1, <2>2
<1>9. Contents'
  <2>1. CASE MqttPush
    <3>1. push(cmds[mqtt.cmd].target, mqtt.cmd) /\ cmds[mqtt.cmd].target \in Node
      BY <2>1 DEF MqttPush, Types, Control
    <3>2. mqtt.cmd <= Len(cmds)
      BY <1>1, HandTypes
    <3> QED BY <1>1, <3>1, <3>2, ContentsPush DEF Types
  <2>2. CASE ~MqttPush
    <3>1. slots' = slots
      BY <2>2 DEF MqttTask, HubCommand, MqttSend, MqttWriteOk, MqttWriteFail, pool
    <3> QED BY <1>1, <3>1, ContentsKept DEF Types
  <2> QED BY <2>1, <2>2
<1>10. HistTyped'
  <2>1. CASE HubCommand
    BY <2>1 DEF HubCommand, Types, TypeOK, HistTyped, Fates
  <2>2. CASE MqttSend
    BY <2>2 DEF MqttSend, hist, Types, TypeOK, HistTyped
  <2>3. CASE MqttWriteOk \/ MqttWriteFail
    <3>1. cmds[mqtt.cmd].target \in Node
      BY <2>3 DEF MqttWriteOk, MqttWriteFail, Types, Control
    <3> QED BY <1>1, <2>3, <3>1, WriteTypes DEF MqttWriteOk, MqttWriteFail, Types
  <2>4. CASE MqttPush
    BY <1>1, <2>4, PooledTypes DEF MqttPush, Types, Fates
  <2> QED BY <2>1, <2>2, <2>3, <2>4 DEF MqttTask
<1> QED BY <1>6, <1>7, <1>8, <1>9, <1>10, TypeParts DEF Types

(* The part of Types that a step of the loop task has to restore.          *)
LoopTyped ==
    /\ loop \in LoopRecord
    /\ loop.pc \in {"send", "write", "putback"} <=> loop.cmd # None
    /\ loop.pc \in {"flush", "pop", "send", "write", "putback"} => loop.node \in Node
    /\ loop.cmd # None => /\ loop.cmd \in Id /\ loop.cmd <= Len(cmds)
                          /\ cmds[loop.cmd].target = loop.node

LEMMA TypesLoop ==
    ASSUME Types, LoopTask \/ (\E n \in Node : Connect(n))
    PROVE  Types'
<1>1. mqtt' = mqtt /\ cmds' = cmds /\ now' = now /\ conn' \subseteq Node
  <2>1. conn \subseteq Node
    BY DEF Types, TypeOK
  <2> QED BY <2>1 DEF LoopTask, StartSweep, NextNode, FlushNode, LoopPop, LoopSend, LoopWriteOk,
                      LoopWriteFail, LoopPutBack, Connect, pool, hist
<1>2. LoopTyped
  BY HandTypes DEF Types, TypeOK, Control, LoopTyped
<1>3. /\ None \notin Id /\ None \notin Node /\ MAX_NODES \in Nat
      /\ 1 \in 1 .. MAX_NODES + 1
  BY HandTypes, PoolAssumption
<1>4. LoopTyped'
  <2>1. CASE \E n \in Node : Connect(n)
    BY <1>3, <2>1 DEF Connect, LoopTyped, LoopRecord
  <2>2. CASE StartSweep
    <3>1. loop' \in LoopRecord /\ loop'.pc = "next" /\ loop'.cmd = None
      BY <1>2, <2>2 DEF StartSweep, LoopTyped, LoopRecord
    <3> QED BY <3>1 DEF LoopTyped
  <2>3. CASE NextNode
    <3>1. loop.idx \in 1 .. MAX_NODES + 1 /\ loop.cmd = None
      BY <1>2, <2>3 DEF NextNode, LoopTyped, LoopRecord
    <3>2. ASSUME ~(loop.idx > MAX_NODES)
          PROVE  /\ loop.idx + 1 \in 1 .. MAX_NODES + 1
                 /\ hasWork(loop.idx) => slots[loop.idx].node_id \in Node
      BY <1>3, <3>1, <3>2 DEF hasWork, Types, SlotNodes, SlotIdx
    <3>3. /\ loop' \in LoopRecord /\ loop'.cmd = None
          /\ \/ loop'.pc \in {"ble", "next"}
             \/ loop'.pc = "flush" /\ loop'.node \in Node
      BY <1>2, <1>3, <2>3, <3>1, <3>2 DEF NextNode, LoopTyped, LoopRecord
    <3> QED BY <3>3 DEF LoopTyped
  <2>4. CASE FlushNode
    <3>1. loop.cmd = None /\ loop.node \in Node
      BY <1>2, <2>4 DEF FlushNode, LoopTyped
    <3>2. loop' \in LoopRecord /\ loop'.cmd = None /\ loop'.pc \in {"pop", "next"}
      BY <1>2, <2>4, <3>1 DEF FlushNode, Return, LoopTyped, LoopRecord
    <3>3. loop'.pc = "pop" => loop'.node \in Node
      BY <1>2, <2>4, <3>1 DEF FlushNode, Return, LoopTyped, LoopRecord
    <3> QED BY <3>2, <3>3 DEF LoopTyped
  <2>5. CASE LoopPop
    <3> DEFINE c == popped(loop.node)
    <3>1. loop.node \in Node /\ pop(loop.node)
      BY <1>2, <2>5 DEF LoopPop, LoopTyped
    <3>2. /\ c \in Id \cup {None}
          /\ c # None => c <= Len(cmds) /\ cmds[c].target = loop.node
      BY <1>1, <3>1, PopTypes, ContentsPop DEF Types
    <3>3. CASE c = None
      <4>1. loop' = Return
        BY <2>5, <3>3 DEF LoopPop
      <4>2. loop' \in LoopRecord /\ loop'.pc = "next" /\ loop'.cmd = None
        BY <1>2, <4>1 DEF Return, LoopTyped, LoopRecord
      <4> QED BY <4>2 DEF LoopTyped
    <3>4. CASE c # None
      <4>1. loop' = [loop EXCEPT !.pc = "send", !.cmd = c]
        BY <2>5, <3>4 DEF LoopPop
      <4> HIDE DEF c
      <4>2. /\ loop' \in LoopRecord /\ loop'.pc = "send" /\ loop'.cmd = c
            /\ loop'.node = loop.node
        BY <1>2, <3>2, <4>1 DEF LoopTyped, LoopRecord
      <4> QED BY <1>1, <3>1, <3>2, <3>4, <4>2 DEF LoopTyped
    <3> QED BY <3>3, <3>4
  <2>6. CASE LoopSend \/ LoopWriteFail
    <3>1. /\ loop.cmd # None
          /\ \/ loop' = [loop EXCEPT !.pc = "write"]
             \/ loop' = [loop EXCEPT !.pc = "putback"]
      BY <1>2, <2>6 DEF LoopSend, LoopWriteFail, LoopTyped
    <3>2. /\ loop' \in LoopRecord /\ loop'.pc \in {"write", "putback"}
          /\ loop'.cmd = loop.cmd /\ loop'.node = loop.node
      BY <1>2, <3>1 DEF LoopTyped, LoopRecord
    <3>3. loop.node \in Node
      BY <1>2, <3>1 DEF LoopTyped
    <3> QED BY <1>1, <1>2, <3>1, <3>2, <3>3 DEF LoopTyped
  <2>7. CASE LoopWriteOk
    <3>1. loop.node \in Node
      BY <1>2, <2>7 DEF LoopWriteOk, LoopTyped
    <3>2. /\ loop' \in LoopRecord /\ loop'.pc = "pop"
          /\ loop'.cmd = None /\ loop'.node = loop.node
      BY <1>2, <2>7 DEF LoopWriteOk, LoopTyped, LoopRecord
    <3> QED BY <3>1, <3>2 DEF LoopTyped
  <2>8. CASE LoopPutBack
    <3>1. loop' \in LoopRecord /\ loop'.pc = "next" /\ loop'.cmd = None
      BY <1>2, <2>8 DEF LoopPutBack, Return, LoopTyped, LoopRecord
    <3> QED BY <3>1 DEF LoopTyped
  <2> QED BY <2>1, <2>2, <2>3, <2>4, <2>5, <2>6, <2>7, <2>8 DEF LoopTask
<1>5. Control' /\ TasksTyped'
  <2>1. Control'
    <3>1. /\ mqtt.pc # "idle" <=> mqtt.cmd # None
          /\ mqtt.cmd # None => mqtt.cmd = Len(cmds)
          /\ mqtt.pc \in {"write", "push"} => cmds[mqtt.cmd].target \in Node
      BY DEF Types, Control
    <3> QED BY <1>1, <1>4, <3>1 DEF Control, LoopTyped
  <2> QED BY <1>1, <1>4, <2>1 DEF Types, TypeOK, TasksTyped, LoopTyped
<1>6. SlotsTyped' /\ SlotNodes' /\ Contents'
  <2>1. CASE LoopPop
    <3>1. loop.node \in Node /\ pop(loop.node)
      BY <1>2, <2>1 DEF LoopPop, LoopTyped
    <3> QED BY <1>1, <3>1, PopTypes, ContentsPop DEF Types
  <2>2. CASE LoopPutBack
    <3>1. /\ loop.node \in Node /\ pushFront(loop.node, loop.cmd)
          /\ loop.cmd \in Id /\ loop.cmd <= Len(cmds) /\ cmds[loop.cmd].target = loop.node
      BY <1>2, <2>2 DEF LoopPutBack, LoopTyped
    <3> QED BY <1>1, <3>1, PushTypes, ContentsPush DEF Types
  <2>3. CASE ~LoopPop /\ ~LoopPutBack
    <3>1. slots' = slots
      BY <2>3 DEF LoopTask, StartSweep, NextNode, FlushNode, LoopSend, LoopWriteOk,
                  LoopWriteFail, Connect, pool
    <3> QED BY <1>1, <3>1, RefusedTypes, ContentsKept DEF Types
  <2> QED BY <2>1, <2>2, <2>3
<1>7. HistTyped'
  <2>1. CASE LoopPop
    BY <2>1 DEF LoopPop, Types, TypeOK, HistTyped, Fates
  <2>2. CASE LoopWriteOk \/ LoopWriteFail
    <3>1. loop.cmd \in Id /\ cmds[loop.cmd].target \in Node
      BY <1>2, <2>2 DEF LoopWriteOk, LoopWriteFail, LoopTyped
    <3> QED BY <2>2, <3>1, WriteTypes DEF LoopWriteOk, LoopWriteFail, Types
  <2>3. CASE LoopPutBack
    <3>1. loop.cmd \in Id
      BY <1>2, <2>3 DEF LoopPutBack, LoopTyped
    <3> QED BY <2>3, <3>1, PooledTypes DEF LoopPutBack, Types, Fates
  <2>4. CASE ~LoopPop /\ ~LoopWriteOk /\ ~LoopWriteFail /\ ~LoopPutBack
    <3>1. exec' = exec /\ fate' = fate /\ unanswered' = unanswered /\ first' = first /\ last' = last
      BY <2>4 DEF LoopTask, StartSweep, NextNode, FlushNode, LoopSend, Connect, hist
    <3> QED BY <3>1 DEF Types, TypeOK, HistTyped
  <2> QED BY <2>1, <2>2, <2>3, <2>4
<1> QED BY <1>5, <1>6, <1>7, TypeParts DEF Types

LEMMA TypesStep ==
    ASSUME Types, [Next]_vars
    PROVE  Types'
<1>1. CASE \E t \in Node \cup {Hub}, k \in Kinds : Receive(t, k)
  BY <1>1, TypesReceive
<1>2. CASE MqttTask
  BY <1>2, TypesMqtt
<1>3. CASE LoopTask \/ (\E n \in Node : Connect(n))
  BY <1>3, TypesLoop
<1>4. CASE \E n \in Node : Disconnect(n)
  BY <1>4 DEF Disconnect, pool, hist, Types, TypeOK, Control, SlotNodes, Contents
<1>5. CASE Tick
  BY <1>5 DEF Tick, hist, Types, TypeOK, Control, SlotNodes, Contents
<1>6. CASE UNCHANGED vars
  BY <1>6 DEF vars, Types, TypeOK, Control, SlotNodes, Contents
<1> QED BY <1>1, <1>2, <1>3, <1>4, <1>5, <1>6 DEF Next

(* The tasks' records, the slots and the histories stay well formed, and   *)
(* no queue exceeds CMD_PENDING_PER_NODE (pending_pool.h:123).             *)
THEOREM TypeCorrect == Spec => []TypeOK
<1>1. Types /\ [Next]_vars => Types'
  BY TypesStep
<1>2. Types => TypeOK
  BY DEF Types
<1> QED BY <1>1, <1>2, TypesInit, PTL DEF Spec

-----------------------------------------------------------------------------
(* Where each command is.                                                  *)

Ordered ==
    \A i \in SlotIdx : \A j, k \in 1 .. Len(slots[i].queue) :
        j < k => slots[i].queue[j].id < slots[i].queue[k].id

(* The command in the loop task's hand is older than those in its slot,    *)
(* which stays in use.                                                     *)
Taken ==
    loop.cmd # None =>
        \E i \in SlotIdx :
            /\ slots[i].used /\ slots[i].node_id = loop.node
            /\ \A k \in 1 .. Len(slots[i].queue) : loop.cmd < slots[i].queue[k].id

(* A command that waits or is in a hand has not left the hub, and no two   *)
(* of these places hold the same one.                                      *)
Placed ==
    /\ \A i \in SlotIdx : \A k \in 1 .. Len(slots[i].queue) :
         /\ fate[slots[i].queue[k].id] = "open"
         /\ slots[i].queue[k].id # mqtt.cmd
         /\ slots[i].queue[k].id # loop.cmd
    /\ mqtt.cmd # None => fate[mqtt.cmd] = "open" /\ mqtt.cmd # loop.cmd
    /\ loop.cmd # None => fate[loop.cmd] = "open"
    /\ \A c \in Id : c > Len(cmds) => fate[c] = "open"

(* A command that has not left is somewhere.                               *)
Waits(c) == \E i \in SlotIdx : \E k \in 1 .. Len(slots[i].queue) : slots[i].queue[k].id = c

NoneMislaid ==
    \A c \in Id : (c <= Len(cmds) /\ fate[c] = "open") =>
        mqtt.cmd = c \/ loop.cmd = c \/ Waits(c)

Places == Ordered /\ Taken /\ Placed /\ NoneMislaid

LEMMA PushKeepsSlots ==
    ASSUME TypeOK, SlotNodes, NEW n \in Node, NEW c \in Id, push(n, c) \/ pushFront(n, c)
    PROVE  \A i \in SlotIdx : slots[i].used =>
               slots'[i].used /\ slots'[i].node_id = slots[i].node_id
<1>1. CASE ~Accepts(n)
  <2>1. slots' = slots
    BY <1>1, StoreFacts DEF push, pushFront
  <2> QED BY <2>1
<1>2. CASE Accepts(n)
  <2> DEFINE f == findOrCreate(n)
  <2>1. /\ f \in SlotIdx /\ slots'[f].used /\ slots'[f].node_id = n
        /\ \A j \in SlotIdx : j # f => slots'[j] = slots[j]
    BY <1>2, PushFacts, PushFrontFacts
  <2>2. f # 0
    BY <2>1 DEF SlotIdx
  <2>3. slots[f].used => slots[f].node_id = n
    BY <2>2, FindOrCreateFacts
  <2> HIDE DEF f
  <2> QED BY <2>1, <2>3
<1> QED BY <1>1, <1>2

LEMMA OrderPush ==
    ASSUME TypeOK, SlotNodes, Ordered, NEW n \in Node, NEW c \in Id,
           \/ /\ push(n, c)
              /\ \A k \in 1 .. Len(slots[findOrCreate(n)].queue) :
                    slots[findOrCreate(n)].queue[k].id < c
           \/ /\ pushFront(n, c)
              /\ \A k \in 1 .. Len(slots[findOrCreate(n)].queue) :
                    c < slots[findOrCreate(n)].queue[k].id
    PROVE  Ordered'
<1>1. CASE ~Accepts(n)
  <2>1. slots' = slots
    BY <1>1, StoreFacts DEF push, pushFront
  <2> QED BY <2>1 DEF Ordered
<1>2. CASE Accepts(n)
  <2> DEFINE f == findOrCreate(n)
             q == slots[f].queue
             r == slots'[f].queue
  <2>1. /\ f \in SlotIdx /\ Len(r) = Len(q) + 1
        /\ \A j \in SlotIdx : j # f => slots'[j] = slots[j]
        /\ \/ /\ r[Len(q) + 1].id = c
              /\ \A k \in 1 .. Len(q) : r[k] = q[k] /\ q[k].id < c
           \/ /\ r[1].id = c
              /\ \A k \in 1 .. Len(q) : r[k + 1] = q[k] /\ c < q[k].id
    BY <1>2, PushFacts, PushFrontFacts
  <2>2. Len(q) \in Nat /\ \A j, k \in 1 .. Len(q) : j < k => q[j].id < q[k].id
    BY <2>1, QueueTypes DEF Ordered
  <2> HIDE DEF f, q, r
  <2>3. ASSUME NEW j \in 1 .. Len(r), NEW k \in 1 .. Len(r), j < k
        PROVE  r[j].id < r[k].id
    <3>1. CASE /\ r[Len(q) + 1].id = c
               /\ \A m \in 1 .. Len(q) : r[m] = q[m] /\ q[m].id < c
      <4>1. j \in 1 .. Len(q) /\ (k = Len(q) + 1 \/ k \in 1 .. Len(q))
        BY <2>1, <2>2, <2>3
      <4> QED BY <2>2, <2>3, <3>1, <4>1
    <3>2. CASE /\ r[1].id = c
               /\ \A m \in 1 .. Len(q) : r[m + 1] = q[m] /\ c < q[m].id
      <4>1. /\ k - 1 \in 1 .. Len(q) /\ (k - 1) + 1 = k
            /\ j = 1 \/ (j - 1 \in 1 .. Len(q) /\ (j - 1) + 1 = j /\ j - 1 < k - 1)
        BY <2>1, <2>2, <2>3
      <4>2. r[k] = q[k - 1] /\ c < q[k - 1].id
        BY <3>2, <4>1
      <4>3. CASE j = 1
        BY <3>2, <4>2, <4>3
      <4>4. CASE j # 1
        <5>1. r[j] = q[j - 1]
          BY <3>2, <4>1, <4>4
        <5> QED BY <2>2, <4>1, <4>2, <4>4, <5>1
      <4> QED BY <4>3, <4>4
    <3> QED BY <2>1, <3>1, <3>2
  <2>4. ASSUME NEW i \in SlotIdx,
               NEW j \in 1 .. Len(slots'[i].queue), NEW k \in 1 .. Len(slots'[i].queue), j < k
        PROVE  slots'[i].queue[j].id < slots'[i].queue[k].id
    <3>1. CASE i = f
      BY <2>3, <2>4, <3>1 DEF r
    <3>2. CASE i # f
      <4>1. slots'[i] = slots[i]
        BY <2>1, <3>2
      <4> QED BY <2>4, <4>1 DEF Ordered
    <3> QED BY <3>1, <3>2
  <2> QED BY <2>4 DEF Ordered
<1> QED BY <1>1, <1>2

(* What a pop hands out is older than all that stays behind it, and what   *)
(* it drops is older still.                                                *)
LEMMA OrderPop ==
    ASSUME Types, Ordered, NEW n \in Node, pop(n)
    PROVE  /\ Ordered'
           /\ popped(n) # None =>
                 /\ popped(n) \notin expired(n)
                 /\ \E i \in SlotIdx :
                       /\ slots'[i].used /\ slots'[i].node_id = n
                       /\ \A k \in 1 .. Len(slots'[i].queue) :
                             popped(n) < slots'[i].queue[k].id
           /\ \A i \in SlotIdx : \A k \in 1 .. Len(slots'[i].queue) :
                 slots[i].node_id = n => /\ slots'[i].queue[k].id # popped(n)
                                         /\ slots'[i].queue[k].id \notin expired(n)
<1> DEFINE i == findSlot(n)
           q == slots[i].queue
           r == slots'[i].queue
<1>0. TypeOK /\ SlotNodes /\ None \notin Id
  BY HandTypes DEF Types
<1>1. CASE FreshAt(n) = {} /\ i = 0
  <2>1. slots' = slots /\ expired(n) = {} /\ popped(n) = None
    BY <1>0, <1>1, PopNothing
  <2>2. \A j \in SlotIdx : \A k \in 1 .. Len(slots[j].queue) : slots[j].queue[k].id # None
    BY <1>0, QueueTypes
  <2> QED BY <2>1, <2>2 DEF Ordered
<1>2. CASE FreshAt(n) = {} /\ i # 0
  <2>1. /\ popped(n) = None
        /\ slots'[i] = [slots[i] EXCEPT !.queue = <<>>, !.used = FALSE]
        /\ \A j \in SlotIdx : j # i => slots'[j] = slots[j]
    BY <1>0, <1>2, PopNothing
  <2>2. i \in SlotIdx /\ slots[i].used /\ slots[i].node_id = n /\ slots[i] \in SlotType
    BY <1>0, <1>2, FindSlotFacts DEF TypeOK
  <2> HIDE DEF i
  <2>3. \A k \in 1 .. Len(slots'[i].queue) : FALSE
    <3>1. slots'[i].queue = <<>>
      BY <2>1, <2>2 DEF SlotType
    <3>2. Len(slots'[i].queue) = 0
      BY <3>1
    <3> QED BY <3>2
  <2>4. \A j \in SlotIdx : j = i \/ slots'[j] = slots[j]
    BY <2>1
  <2>5. \A j \in SlotIdx : (j # i /\ slots[j].node_id = n) => Len(slots[j].queue) = 0
    <3>1. \A j \in SlotIdx : (j # i /\ slots[j].node_id = n) => slots[j].queue = <<>>
      BY <1>0, <2>2 DEF SlotNodes
    <3> QED BY <3>1
  <2>6. \A j \in SlotIdx : slots[j].node_id = n => Len(slots'[j].queue) = 0 \/ j = i
    BY <2>4, <2>5
  <2>7. \A j \in SlotIdx : slots[j].node_id = n => \A k \in 1 .. Len(slots'[j].queue) : FALSE
    BY <2>3, <2>6
  <2>8. Ordered'
    BY <2>3, <2>4 DEF Ordered
  <2> QED BY <2>1, <2>7, <2>8
<1>3. CASE FreshAt(n) # {}
  <2>1. /\ i \in SlotIdx /\ slots[i].used /\ slots[i].node_id = n
        /\ \A j \in SlotIdx : j # i => slots'[j] = slots[j]
        /\ slots'[i].used /\ slots'[i].node_id = n
        /\ \E m \in 1 .. Len(q) :
              /\ popped(n) = q[m].id
              /\ expired(n) = {q[k].id : k \in 1 .. m - 1}
              /\ Len(r) = Len(q) - m
              /\ \A k \in 1 .. Len(q) - m : r[k] = q[k + m]
    BY <1>0, <1>3, PopSome
  <2>2. /\ Len(q) \in Nat /\ \A j \in 1 .. Len(q) : q[j].id \in Id
        /\ \A j, k \in 1 .. Len(q) : j < k => q[j].id < q[k].id
    BY <1>0, <2>1, QueueTypes DEF Ordered
  <2> HIDE DEF i, q, r
  <2>3. PICK p \in 1 .. Len(q) :
              /\ popped(n) = q[p].id
              /\ expired(n) = {q[k].id : k \in 1 .. p - 1}
              /\ Len(r) = Len(q) - p
              /\ \A k \in 1 .. Len(q) - p : r[k] = q[k + p]
    BY <2>1
  <2>4. \A k \in 1 .. Len(r) : k + p \in 1 .. Len(q) /\ p < k + p /\ r[k] = q[k + p]
    BY <2>2, <2>3
  <2>5. \A k \in 1 .. Len(r) : popped(n) < r[k].id
    BY <2>2, <2>3, <2>4
  <2>6. \A c \in expired(n) : \E m \in 1 .. Len(q) : m < p /\ c = q[m].id
    <3>1. \A m \in 1 .. p - 1 : m \in 1 .. Len(q) /\ m < p
      BY <2>2
    <3> QED BY <2>3, <3>1
  <2>7. \A x, y \in Id : x < y => x # y
    BY DispatcherAssumption DEF Id
  <2>8. popped(n) \notin expired(n)
    BY <2>2, <2>3, <2>6, <2>7
  <2>9. \A k \in 1 .. Len(r) : r[k].id # popped(n) /\ r[k].id \notin expired(n)
    <3> SUFFICES ASSUME NEW k \in 1 .. Len(r)
                 PROVE  r[k].id # popped(n) /\ r[k].id \notin expired(n)
      OBVIOUS
    <3>1. r[k].id \in Id /\ popped(n) \in Id /\ popped(n) < r[k].id
      BY <2>2, <2>3, <2>4, <2>5
    <3>2. ASSUME NEW m \in 1 .. Len(q), m < p
          PROVE  r[k].id # q[m].id
      <4>1. k + p \in 1 .. Len(q) /\ m < k + p /\ r[k] = q[k + p]
        BY <2>2, <2>4, <3>2
      <4>2. q[m].id < r[k].id /\ q[m].id \in Id
        BY <2>2, <4>1
      <4> QED BY <2>7, <3>1, <4>2
    <3> QED BY <2>6, <2>7, <3>1, <3>2
  <2>10. \A j \in SlotIdx : (j # i /\ slots[j].node_id = n) => Len(slots'[j].queue) = 0
    <3>1. \A j \in SlotIdx : (j # i /\ slots[j].node_id = n) => slots'[j].queue = <<>>
      BY <1>0, <2>1 DEF SlotNodes
    <3> QED BY <3>1
  <2>11. ASSUME NEW j \in SlotIdx, NEW k \in 1 .. Len(slots'[j].queue), slots[j].node_id = n
         PROVE  slots'[j].queue[k].id # popped(n) /\ slots'[j].queue[k].id \notin expired(n)
    <3>1. CASE j = i
      BY <2>9, <2>11, <3>1 DEF r
    <3>2. CASE j # i
      <4>1. Len(slots'[j].queue) = 0
        BY <2>10, <2>11, <3>2
      <4> QED BY <2>11, <4>1
    <3> QED BY <3>1, <3>2
  <2>12. Ordered'
    <3> SUFFICES ASSUME NEW s \in SlotIdx, NEW j \in 1 .. Len(slots'[s].queue),
                        NEW k \in 1 .. Len(slots'[s].queue), j < k
                 PROVE  slots'[s].queue[j].id < slots'[s].queue[k].id
      BY DEF Ordered
    <3>1. CASE s = i
      <4>1. j \in 1 .. Len(r) /\ k \in 1 .. Len(r) /\ slots'[s].queue = r
        BY <3>1 DEF r
      <4>2. j + p \in 1 .. Len(q) /\ k + p \in 1 .. Len(q) /\ j + p < k + p
        BY <2>2, <2>4, <4>1
      <4> QED BY <2>2, <2>4, <4>1, <4>2
    <3>2. CASE s # i
      <4>1. slots'[s] = slots[s]
        BY <2>1, <3>2
      <4> QED BY <4>1 DEF Ordered
    <3> QED BY <3>1, <3>2
  <2> QED BY <2>1, <2>5, <2>8, <2>11, <2>12 DEF r
<1> QED BY <1>1, <1>2, <1>3

(* Steps that move no command.                                             *)
LEMMA PlacesQuiet ==
    ASSUME Places, slots' = slots, fate' = fate, cmds' = cmds, mqtt'.cmd = mqtt.cmd,
           loop'.cmd = loop.cmd, loop.cmd # None => loop'.node = loop.node
    PROVE  Places'
BY DEF Places, Ordered, Taken, Placed, NoneMislaid, Waits

LEMMA PlacesReceive ==
    ASSUME Types, Places, NEW t \in Node \cup {Hub}, NEW k \in Kinds, Receive(t, k)
    PROVE  Places'
<1> DEFINE e == Len(cmds) + 1
<1>1. /\ Len(cmds) \in Nat /\ Len(cmds') = e /\ e \in Id
      /\ mqtt'.cmd = e /\ mqtt.cmd = None
      /\ loop' = loop /\ slots' = slots /\ fate' = fate
  <2>1. cmds \in Seq(CommandRecord) /\ [target |-> t, kind |-> k] \in CommandRecord
    BY DEF Types, TypeOK, CommandRecord
  <2>2. Len(cmds') = e
    BY <2>1 DEF Receive
  <2>3. MaxCmds \in Nat /\ Len(cmds) \in Nat /\ Len(cmds) < MaxCmds
    BY HandTypes, DispatcherAssumption DEF Receive
  <2>4. e \in Id
    BY <2>3 DEF Id
  <2>5. mqtt.cmd = None
    BY DEF Receive, Types, Control
  <2> QED BY <2>2, <2>3, <2>4, <2>5 DEF Receive, pool, hist
<1>2. \A i \in SlotIdx : \A j \in 1 .. Len(slots[i].queue) :
         slots[i].queue[j].id \in Id /\ slots[i].queue[j].id <= Len(cmds)
  BY QueueTypes DEF Types, Contents
<1>3. loop.cmd # None => loop.cmd \in Id /\ loop.cmd <= Len(cmds)
  BY HandTypes
<1>4. \A c \in Id : (c <= e <=> c <= Len(cmds) \/ c = e) /\ (c = e => ~(c <= Len(cmds)) /\ c > Len(cmds))
                    /\ (c > e => c > Len(cmds))
  BY <1>1, DispatcherAssumption DEF Id
<1> HIDE DEF e
<1>5. fate[e] = "open" /\ None \notin Id
  BY <1>1, <1>4, HandTypes DEF Places, Placed
<1>6. Ordered' /\ Taken'
  BY <1>1 DEF Places, Ordered, Taken
<1>7. Placed'
  <2>1. \A i \in SlotIdx : \A j \in 1 .. Len(slots[i].queue) : slots[i].queue[j].id # e
    BY <1>2, <1>4
  <2>2. loop.cmd # e
    BY <1>1, <1>3, <1>4, <1>5
  <2> QED BY <1>1, <1>4, <1>5, <2>1, <2>2 DEF Places, Placed
<1>8. NoneMislaid'
  <2>1. \A c \in Id : Waits(c)' <=> Waits(c)
    BY <1>1 DEF Waits
  <2>2. \A c \in Id : c <= Len(cmds') => c <= Len(cmds) \/ c = e
    BY <1>1, <1>4
  <2>3. \A c \in Id : (c <= Len(cmds) /\ fate[c] = "open") => loop.cmd = c \/ Waits(c)
    BY <1>1, <1>5 DEF Places, NoneMislaid
  <2> QED BY <1>1, <2>1, <2>2, <2>3 DEF NoneMislaid
<1> QED BY <1>6, <1>7, <1>8 DEF Places

(* A command leaves the hub from the hand of a task.                       *)
LEMMA PlacesLeave ==
    ASSUME Types, Places, NEW c \in Id, NEW f \in Fates, f # "open",
           fate' = [fate EXCEPT ![c] = f], slots' = slots, cmds' = cmds,
           \/ mqtt.cmd = c /\ mqtt'.cmd = None /\ loop' = loop
           \/ loop.cmd = c /\ loop'.cmd = None /\ mqtt' = mqtt
    PROVE  Places'
<1>1. /\ None \notin Id /\ c <= Len(cmds) /\ Len(cmds) \in Nat
      /\ fate'[c] # "open" /\ \A d \in Id : d # c => fate'[d] = fate[d]
  BY HandTypes DEF Types, TypeOK
<1>2. \A i \in SlotIdx : \A j \in 1 .. Len(slots[i].queue) :
         slots[i].queue[j].id \in Id /\ slots[i].queue[j].id # c
  BY QueueTypes DEF Types, Places, Placed
<1>3. Ordered' /\ Taken'
  BY <1>1 DEF Places, Ordered, Taken
<1>4. Placed'
  <2>1. \A d \in Id : d > Len(cmds) => d # c
    BY <1>1, DispatcherAssumption DEF Id
  <2>2. /\ mqtt.cmd # None => mqtt.cmd \in Id
        /\ loop.cmd # None => loop.cmd \in Id
    BY HandTypes
  <2>3. \A i \in SlotIdx : \A j \in 1 .. Len(slots'[i].queue) :
          /\ fate'[slots'[i].queue[j].id] = "open"
          /\ slots'[i].queue[j].id # mqtt'.cmd
          /\ slots'[i].queue[j].id # loop'.cmd
    BY <1>1, <1>2 DEF Places, Placed
  <2>4. mqtt'.cmd # None => fate'[mqtt'.cmd] = "open" /\ mqtt'.cmd # loop'.cmd
    BY <1>1, <2>2 DEF Places, Placed
  <2>5. loop'.cmd # None => fate'[loop'.cmd] = "open"
    BY <1>1, <2>2 DEF Places, Placed
  <2>6. \A d \in Id : d > Len(cmds') => fate'[d] = "open"
    BY <1>1, <2>1 DEF Places, Placed
  <2> QED BY <2>3, <2>4, <2>5, <2>6 DEF Placed
<1>5. NoneMislaid'
  <2>1. \A d \in Id : Waits(d)' <=> Waits(d)
    BY DEF Waits
  <2> QED BY <1>1, <2>1 DEF Places, NoneMislaid
<1> QED BY <1>3, <1>4, <1>5 DEF Places

(* A command goes from the hand of a task to its queue, or is refused.     *)
LEMMA PlacesPushed ==
    ASSUME Types, Places, NEW n \in Node, NEW c \in Id, NEW f \in Fates, f # "open",
           c <= Len(cmds), cmds' = cmds,
           fate' = IF Accepts(n) THEN fate ELSE [fate EXCEPT ![c] = f],
           \/ push(n, c) /\ mqtt.cmd = c /\ mqtt'.cmd = None /\ loop' = loop
           \/ pushFront(n, c) /\ loop.cmd = c /\ loop.node = n
                /\ loop'.cmd = None /\ mqtt' = mqtt
    PROVE  Places'
<1>0. /\ TypeOK /\ SlotNodes /\ None \notin Id /\ Len(cmds) \in Nat
      /\ mqtt.cmd # None => mqtt.cmd \in Id /\ mqtt.cmd = Len(cmds)
      /\ loop.cmd # None => loop.cmd \in Id /\ loop.cmd <= Len(cmds)
  BY HandTypes DEF Types
<1>1. CASE ~Accepts(n)
  <2>1. slots' = slots
    BY <1>0, <1>1, StoreFacts DEF push, pushFront
  <2>2. fate' = [fate EXCEPT ![c] = f]
    BY <1>1
  <2> QED BY <2>1, <2>2, PlacesLeave
<1>2. CASE Accepts(n)
  <2>0. fate' = fate /\ fate[c] = "open"
    BY <1>0, <1>2 DEF Places, Placed
  <2>1. \A i \in SlotIdx : \A k \in 1 .. Len(slots[i].queue) :
           /\ slots[i].queue[k].id \in Id /\ slots[i].queue[k].id <= Len(cmds)
           /\ slots[i].queue[k].id # mqtt.cmd /\ slots[i].queue[k].id # loop.cmd
           /\ fate[slots[i].queue[k].id] = "open"
    BY QueueTypes DEF Types, Contents, Places, Placed
  <2>2. \A x \in Id : (x <= Len(cmds) /\ x # Len(cmds)) => x < Len(cmds)
    BY <1>0, DispatcherAssumption DEF Id
  <2>3. Ordered'
    <3>1. CASE push(n, c) /\ mqtt.cmd = c
      <4>1. findOrCreate(n) \in SlotIdx
        BY <1>2, FindOrCreateFacts DEF Accepts
      <4>2. \A k \in 1 .. Len(slots[findOrCreate(n)].queue) :
                slots[findOrCreate(n)].queue[k].id < c
        BY <1>0, <2>1, <2>2, <3>1, <4>1
      <4> QED BY <1>0, <3>1, <4>2, OrderPush DEF Places
    <3>2. CASE pushFront(n, c) /\ loop.cmd = c /\ loop.node = n
      <4>1. PICK i \in SlotIdx : /\ slots[i].used /\ slots[i].node_id = n
                                 /\ \A k \in 1 .. Len(slots[i].queue) : c < slots[i].queue[k].id
        BY <1>0, <3>2 DEF Places, Taken
      <4>2. findOrCreate(n) = i
        BY <1>0, <4>1, OwnSlot
      <4> QED BY <1>0, <3>2, <4>1, <4>2, OrderPush DEF Places
    <3> QED BY <3>1, <3>2
  <2>4. Taken'
    <3> SUFFICES ASSUME loop'.cmd # None PROVE Taken'
      BY DEF Taken
    <3>1. /\ push(n, c) /\ mqtt.cmd = c /\ mqtt'.cmd = None /\ loop' = loop /\ loop.cmd # None
          /\ loop.cmd \in Id /\ loop.cmd < c
      BY <1>0, <2>2 DEF Places, Placed
    <3>2. PICK i \in SlotIdx :
              /\ slots[i].used /\ slots[i].node_id = loop.node
              /\ \A k \in 1 .. Len(slots[i].queue) : loop.cmd < slots[i].queue[k].id
      BY <3>1 DEF Places, Taken
    <3>3. slots'[i].used /\ slots'[i].node_id = loop.node
      BY <1>0, <3>1, <3>2, PushKeepsSlots
    <3>4. \A k \in 1 .. Len(slots'[i].queue) : loop.cmd < slots'[i].queue[k].id
      <4>1. \A k \in 1 .. Len(slots'[i].queue) :
               \/ slots'[i].queue[k].id = c
               \/ \E m \in 1 .. Len(slots[i].queue) : slots'[i].queue[k] = slots[i].queue[m]
        BY <1>0, <1>2, PushCells
      <4> QED BY <3>1, <3>2, <4>1
    <3> QED BY <3>1, <3>3, <3>4 DEF Taken
  <2>5. Placed'
    <3>1. \A i \in SlotIdx : \A k \in 1 .. Len(slots'[i].queue) :
             \/ slots'[i].queue[k].id = c
             \/ \E m \in 1 .. Len(slots[i].queue) : slots'[i].queue[k] = slots[i].queue[m]
      BY <1>0, <1>2, PushCells
    <3>2. mqtt'.cmd # c /\ loop'.cmd # c
      BY <1>0 DEF Places, Placed
    <3>3. /\ mqtt'.cmd = None \/ mqtt'.cmd = mqtt.cmd
          /\ loop'.cmd = None \/ loop'.cmd = loop.cmd
      OBVIOUS
    <3>4. \A i \in SlotIdx : \A k \in 1 .. Len(slots'[i].queue) :
             /\ slots'[i].queue[k].id \in Id
             /\ fate[slots'[i].queue[k].id] = "open"
             /\ slots'[i].queue[k].id # mqtt'.cmd
             /\ slots'[i].queue[k].id # loop'.cmd
      <4> SUFFICES ASSUME NEW i \in SlotIdx, NEW k \in 1 .. Len(slots'[i].queue)
                   PROVE  /\ slots'[i].queue[k].id \in Id
                          /\ fate[slots'[i].queue[k].id] = "open"
                          /\ slots'[i].queue[k].id # mqtt'.cmd
                          /\ slots'[i].queue[k].id # loop'.cmd
        OBVIOUS
      <4>1. CASE slots'[i].queue[k].id = c
        BY <2>0, <3>2, <4>1
      <4>2. CASE \E m \in 1 .. Len(slots[i].queue) : slots'[i].queue[k] = slots[i].queue[m]
        BY <1>0, <2>1, <3>3, <4>2
      <4> QED BY <3>1, <4>1, <4>2
    <3>5. /\ mqtt'.cmd # None => fate[mqtt'.cmd] = "open" /\ mqtt'.cmd # loop'.cmd
          /\ loop'.cmd # None => fate[loop'.cmd] = "open"
      BY <3>3 DEF Places, Placed
    <3> QED BY <2>0, <3>4, <3>5 DEF Places, Placed
  <2>6. NoneMislaid'
    <3>1. \A d \in Id : Waits(d) => Waits(d)'
      <4> SUFFICES ASSUME NEW d \in Id, Waits(d) PROVE Waits(d)'
        OBVIOUS
      <4>1. PICK i \in SlotIdx : \E k \in 1 .. Len(slots[i].queue) : slots[i].queue[k].id = d
        BY DEF Waits
      <4>2. PICK k \in 1 .. Len(slots[i].queue) : slots[i].queue[k].id = d
        BY <4>1
      <4>3. \E j \in 1 .. Len(slots'[i].queue) : slots'[i].queue[j] = slots[i].queue[k]
        BY <1>0, <1>2, PushCells
      <4> QED BY <4>2, <4>3 DEF Waits
    <3>2. Waits(c)'
      <4>1. \E i \in SlotIdx : \E k \in 1 .. Len(slots'[i].queue) : slots'[i].queue[k].id = c
        BY <1>0, <1>2, PushCells
      <4> QED BY <4>1 DEF Waits
    <3>3. \A d \in Id : (d <= Len(cmds) /\ fate[d] = "open" /\ d # c) =>
              mqtt'.cmd = d \/ loop'.cmd = d \/ Waits(d)
      BY DEF Places, NoneMislaid
    <3>4. \A d \in Id : d = c => Waits(d)'
      BY <3>2
    <3> QED BY <2>0, <3>1, <3>3, <3>4 DEF NoneMislaid
  <2> QED BY <2>3, <2>4, <2>5, <2>6 DEF Places
<1> QED BY <1>1, <1>2

(* The loop task takes a command out of a queue, or finds none.            *)
LEMMA PlacesPopped ==
    ASSUME Types, Places, LoopPop
    PROVE  Places'
<1> DEFINE n == loop.node
           c == popped(n)
<1>0. /\ TypeOK /\ SlotNodes /\ None \notin Id
      /\ n \in Node /\ pop(n) /\ loop.cmd = None
      /\ mqtt' = mqtt /\ cmds' = cmds
      /\ mqtt.cmd # None => mqtt.cmd \in Id
  BY HandTypes DEF LoopPop, Types, Control
<1>1. fate' = [d \in Id |-> IF d \in expired(n) THEN "expired" ELSE fate[d]]
  BY DEF LoopPop
<1>2. loop'.cmd = c /\ (c # None => loop'.node = n)
  BY <1>0 DEF LoopPop, Return, Types, TypeOK, LoopRecord
<1>3. c \in Id \cup {None}
  BY <1>0, PopTypes
<1>4. /\ Ordered'
      /\ c # None => /\ c \notin expired(n)
                     /\ \E i \in SlotIdx :
                           /\ slots'[i].used /\ slots'[i].node_id = n
                           /\ \A k \in 1 .. Len(slots'[i].queue) : c < slots'[i].queue[k].id
      /\ \A i \in SlotIdx : \A k \in 1 .. Len(slots'[i].queue) :
            slots[i].node_id = n =>
                slots'[i].queue[k].id # c /\ slots'[i].queue[k].id \notin expired(n)
  BY <1>0, OrderPop DEF Places
<1>5. /\ \A i \in SlotIdx : \A k \in 1 .. Len(slots'[i].queue) :
           \E m \in 1 .. Len(slots[i].queue) : slots'[i].queue[k] = slots[i].queue[m]
      /\ \A i \in SlotIdx : \A m \in 1 .. Len(slots[i].queue) :
           \/ slots[i].queue[m].id = c
           \/ slots[i].queue[m].id \in expired(n)
           \/ \E k \in 1 .. Len(slots'[i].queue) : slots'[i].queue[k] = slots[i].queue[m]
      /\ \A d : (d \in expired(n) \/ (c # None /\ d = c)) =>
           \E i \in SlotIdx :
               /\ slots[i].node_id = n
               /\ \E m \in 1 .. Len(slots[i].queue) : slots[i].queue[m].id = d
  <2>1. \A i \in SlotIdx : \A k \in 1 .. Len(slots'[i].queue) :
           \E m \in 1 .. Len(slots[i].queue) : slots'[i].queue[k] = slots[i].queue[m]
    BY <1>0, PopCells
  <2>2. \A i \in SlotIdx : \A m \in 1 .. Len(slots[i].queue) :
           \/ slots[i].queue[m].id = c
           \/ slots[i].queue[m].id \in expired(n)
           \/ \E k \in 1 .. Len(slots'[i].queue) : slots'[i].queue[k] = slots[i].queue[m]
    BY <1>0, PopCells
  <2>3. \A d : (d \in expired(n) \/ (c # None /\ d = c)) =>
           \E i \in SlotIdx :
               /\ slots[i].used /\ slots[i].node_id = n
               /\ \E m \in 1 .. Len(slots[i].queue) : slots[i].queue[m].id = d
    BY <1>0, PopCells
  <2> HIDE DEF n, c
  <2> QED BY <2>1, <2>2, <2>3
<1>6. \A i \in SlotIdx : \A k \in 1 .. Len(slots[i].queue) :
         /\ slots[i].queue[k].id \in Id /\ slots[i].queue[k].id <= Len(cmds)
         /\ cmds[slots[i].queue[k].id].target = slots[i].node_id
         /\ slots[i].queue[k].id # mqtt.cmd
         /\ fate[slots[i].queue[k].id] = "open"
  BY <1>0, QueueTypes DEF Types, Contents, Places, Placed
<1> HIDE DEF n, c
<1>7. \A d : (d \in expired(n) \/ (c # None /\ d = c)) =>
         /\ d \in Id /\ d <= Len(cmds) /\ cmds[d].target = n
         /\ d # mqtt.cmd /\ fate[d] = "open"
  BY <1>5, <1>6
<1>8. \A i \in SlotIdx : \A k \in 1 .. Len(slots'[i].queue) :
         /\ slots'[i].queue[k].id \in Id
         /\ slots'[i].queue[k].id # c /\ slots'[i].queue[k].id \notin expired(n)
         /\ slots'[i].queue[k].id # mqtt.cmd /\ fate[slots'[i].queue[k].id] = "open"
  <2> SUFFICES ASSUME NEW i \in SlotIdx, NEW k \in 1 .. Len(slots'[i].queue)
               PROVE  /\ slots'[i].queue[k].id \in Id
                      /\ slots'[i].queue[k].id # c /\ slots'[i].queue[k].id \notin expired(n)
                      /\ slots'[i].queue[k].id # mqtt.cmd /\ fate[slots'[i].queue[k].id] = "open"
    OBVIOUS
  <2> DEFINE d == slots'[i].queue[k].id
  <2>1. /\ d \in Id /\ d # mqtt.cmd /\ fate[d] = "open"
        /\ cmds[d].target = slots[i].node_id
    <3>1. PICK m \in 1 .. Len(slots[i].queue) : slots'[i].queue[k] = slots[i].queue[m]
      BY <1>5
    <3> QED BY <1>6, <3>1
  <2> HIDE DEF d
  <2>2. CASE slots[i].node_id = n
    BY <1>4, <2>1, <2>2 DEF d
  <2>3. CASE slots[i].node_id # n
    <3>1. d \notin expired(n) /\ ~(c # None /\ d = c)
      BY <1>7, <2>1, <2>3
    <3> QED BY <1>0, <2>1, <3>1 DEF d
  <2> QED BY <2>2, <2>3
<1>9. Taken'
  BY <1>2, <1>4 DEF Taken
<1>10. \A d \in Id : fate'[d] = IF d \in expired(n) THEN "expired" ELSE fate[d]
  BY <1>1 DEF n
<1>11. Placed'
  <2>1. /\ \A i \in SlotIdx : \A k \in 1 .. Len(slots'[i].queue) :
             /\ fate'[slots'[i].queue[k].id] = "open"
             /\ slots'[i].queue[k].id # mqtt'.cmd
             /\ slots'[i].queue[k].id # loop'.cmd
    BY <1>0, <1>2, <1>8, <1>10
  <2>2. mqtt.cmd # None => fate'[mqtt.cmd] = "open" /\ mqtt.cmd # loop'.cmd
    <3> SUFFICES ASSUME mqtt.cmd # None PROVE fate'[mqtt.cmd] = "open" /\ mqtt.cmd # loop'.cmd
      OBVIOUS
    <3>1. mqtt.cmd \in Id /\ fate[mqtt.cmd] = "open" /\ mqtt.cmd \notin expired(n) /\ mqtt.cmd # c
      BY <1>0, <1>7 DEF Places, Placed
    <3> QED BY <1>2, <1>10, <3>1
  <2>3. loop'.cmd # None => fate'[loop'.cmd] = "open"
    BY <1>2, <1>3, <1>4, <1>7, <1>10
  <2>4. \A d \in Id : d > Len(cmds) => fate'[d] = "open"
    <3>1. \A d \in Id : d > Len(cmds) => ~(d <= Len(cmds))
      BY HandTypes, DispatcherAssumption DEF Id
    <3> QED BY <1>7, <1>10, <3>1 DEF Places, Placed
  <2> QED BY <1>0, <2>1, <2>2, <2>3, <2>4 DEF Placed
<1>12. NoneMislaid'
  <2> SUFFICES ASSUME NEW d \in Id, d <= Len(cmds), fate'[d] = "open"
               PROVE  mqtt.cmd = d \/ loop'.cmd = d \/ Waits(d)'
    BY <1>0 DEF NoneMislaid
  <2>1. d \notin expired(n) /\ fate[d] = "open"
    BY <1>10
  <2>2. mqtt.cmd = d \/ Waits(d)
    BY <1>0, <2>1 DEF Places, NoneMislaid
  <2>3. ASSUME Waits(d)
        PROVE  loop'.cmd = d \/ Waits(d)'
    <3>1. PICK i \in SlotIdx : \E k \in 1 .. Len(slots[i].queue) : slots[i].queue[k].id = d
      BY <2>3 DEF Waits
    <3>2. PICK k \in 1 .. Len(slots[i].queue) : slots[i].queue[k].id = d
      BY <3>1
    <3>3. d = c \/ \E j \in 1 .. Len(slots'[i].queue) : slots'[i].queue[j] = slots[i].queue[k]
      BY <1>5, <2>1, <3>2
    <3> QED BY <1>2, <3>2, <3>3 DEF Waits
  <2> QED BY <2>2, <2>3
<1> QED BY <1>4, <1>9, <1>11, <1>12 DEF Places

LEMMA PlacesInit == Init => Places
<1> SUFFICES ASSUME Init PROVE Places
  OBVIOUS
<1>1. \A i \in SlotIdx : Len(slots[i].queue) = 0
  BY DEF Init, PoolInit
<1>2. mqtt.cmd = None /\ loop.cmd = None /\ Len(cmds) = 0 /\ \A c \in Id : fate[c] = "open"
  BY DEF Init
<1>3. \A c \in Id : ~(c <= 0)
  BY DispatcherAssumption DEF Id
<1> QED BY <1>1, <1>2, <1>3 DEF Places, Ordered, Taken, Placed, NoneMislaid

LEMMA PlacesStep ==
    ASSUME Types, Places, [Next]_vars
    PROVE  Places'
<1>1. /\ mqtt.pc # "idle" => mqtt.cmd \in Id /\ mqtt.cmd <= Len(cmds)
      /\ loop.pc \in {"send", "write", "putback"} =>
            /\ loop.cmd \in Id /\ loop.cmd <= Len(cmds) /\ loop.node \in Node
            /\ cmds[loop.cmd].target = loop.node
      /\ loop.pc \notin {"send", "write", "putback"} => loop.cmd = None
      /\ mqtt.pc = "push" => cmds[mqtt.cmd].target \in Node
  BY HandTypes DEF Types, Control
<1>2. {"hub", "sent", "refused", "lost"} \subseteq Fates
  BY DEF Fates
<1>3. CASE \E t \in Node \cup {Hub}, k \in Kinds : Receive(t, k)
  BY <1>3, PlacesReceive
<1>4. CASE HubCommand
  BY <1>1, <1>2, <1>4, PlacesLeave DEF HubCommand, pool
<1>5. CASE MqttWriteOk
  BY <1>1, <1>2, <1>5, PlacesLeave DEF MqttWriteOk, WriteReturnsTrue, pool
<1>6. CASE LoopWriteOk
  BY <1>1, <1>2, <1>6, PlacesLeave DEF LoopWriteOk, WriteReturnsTrue, pool, Types, TypeOK, LoopRecord
<1>7. CASE MqttPush
  BY <1>1, <1>2, <1>7, PlacesPushed DEF MqttPush, Pooled
<1>8. CASE LoopPutBack
  <2>1. /\ pushFront(loop.node, loop.cmd) /\ mqtt' = mqtt /\ cmds' = cmds
        /\ fate' = IF Accepts(cmds[loop.cmd].target) THEN fate
                   ELSE [fate EXCEPT ![loop.cmd] = "lost"]
        /\ loop' = Return /\ loop.pc = "putback"
    BY <1>8 DEF LoopPutBack, Pooled
  <2>2. loop'.cmd = None
    BY <2>1 DEF Return, Types, TypeOK, LoopRecord
  <2>3. /\ loop.cmd \in Id /\ loop.cmd <= Len(cmds) /\ loop.node \in Node
        /\ cmds[loop.cmd].target = loop.node
    BY <1>1, <2>1
  <2> QED BY <1>2, <2>1, <2>2, <2>3, PlacesPushed
<1>9. CASE LoopPop
  BY <1>9, PlacesPopped
<1>10. CASE MqttSend \/ MqttWriteFail
  BY <1>10, PlacesQuiet DEF MqttSend, MqttWriteFail, WriteReturnsFalse, pool, hist,
                           Types, TypeOK, MqttRecord
<1>11. CASE LoopSend \/ LoopWriteFail
  BY <1>11, PlacesQuiet DEF LoopSend, LoopWriteFail, WriteReturnsFalse, pool, hist,
                           Types, TypeOK, LoopRecord
<1>12. CASE StartSweep \/ NextNode \/ FlushNode \/ (\E n \in Node : Connect(n))
  <2>1. loop.cmd = None
    BY <1>1, <1>12 DEF StartSweep, NextNode, FlushNode, Connect
  <2>2. loop'.cmd = None
    <3>1. loop \in LoopRecord
      BY DEF Types, TypeOK
    <3>2. CASE StartSweep \/ NextNode
      BY <2>1, <3>1, <3>2 DEF StartSweep, NextNode, LoopRecord
    <3>3. CASE FlushNode
      BY <2>1, <3>1, <3>3 DEF FlushNode, Return, LoopRecord
    <3>4. CASE \E n \in Node : Connect(n)
      BY <3>4 DEF Connect
    <3> QED BY <1>12, <3>2, <3>3, <3>4
  <2> QED BY <1>12, <2>1, <2>2, PlacesQuiet DEF StartSweep, NextNode, FlushNode, Connect, pool, hist
<1>13. CASE Tick \/ (\E n \in Node : Disconnect(n)) \/ UNCHANGED vars
  BY <1>13, PlacesQuiet DEF Tick, Disconnect, pool, hist, vars
<1> QED BY <1>3, <1>4, <1>5, <1>6, <1>7, <1>8, <1>9, <1>10, <1>11, <1>12, <1>13
        DEF Next, MqttTask, LoopTask

LEMMA Located == Spec => [](Types /\ Places)
<1>1. Types /\ Places /\ [Next]_vars => (Types /\ Places)'
  BY TypesStep, PlacesStep
<1> QED BY <1>1, TypesInit, PlacesInit, PTL DEF Spec

(* Two cells that hold one command are the same cell: its target has one   *)
(* slot, where the order is strict.                                        *)
LEMMA OneCell ==
    ASSUME Types, Places, NEW c, NEW p \in InQueue(c), NEW r \in InQueue(c)
    PROVE  p = r
<1>1. /\ p \in SlotIdx \X (1 .. PerNode) /\ r \in SlotIdx \X (1 .. PerNode)
      /\ p[2] <= Len(slots[p[1]].queue) /\ slots[p[1]].queue[p[2]].id = c
      /\ r[2] <= Len(slots[r[1]].queue) /\ slots[r[1]].queue[r[2]].id = c
  BY DEF InQueue
<1>2. /\ p[1] \in SlotIdx /\ r[1] \in SlotIdx
      /\ Len(slots[p[1]].queue) \in Nat /\ Len(slots[r[1]].queue) \in Nat
      /\ p[2] \in 1 .. Len(slots[p[1]].queue) /\ r[2] \in 1 .. Len(slots[r[1]].queue)
  <2>1. /\ p[1] \in SlotIdx /\ r[1] \in SlotIdx
        /\ p[2] \in 1 .. PerNode /\ r[2] \in 1 .. PerNode /\ PerNode \in Nat
    BY <1>1, PoolAssumption
  <2>2. Len(slots[p[1]].queue) \in Nat /\ Len(slots[r[1]].queue) \in Nat
    BY <2>1, QueueTypes DEF Types
  <2> QED BY <1>1, <2>1, <2>2
<1>3. p[1] = r[1]
  <2>1. cmds[c].target = slots[p[1]].node_id /\ cmds[c].target = slots[r[1]].node_id
    BY <1>1, <1>2 DEF Types, Contents
  <2>2. slots[p[1]].used /\ slots[r[1]].used
    <3>1. Len(<<>>) = 0
      OBVIOUS
    <3>2. slots[p[1]].queue # <<>> /\ slots[r[1]].queue # <<>>
      BY <1>2, <3>1
    <3> QED BY <1>2, <3>2 DEF Types, SlotNodes
  <2> QED BY <1>2, <2>1, <2>2 DEF Types, SlotNodes
<1>4. p[2] = r[2]
  <2> DEFINE j == p[2]
             k == r[2]
             q == slots[p[1]].queue
  <2>1. /\ j \in 1 .. Len(q) /\ k \in 1 .. Len(q) /\ Len(q) \in Nat
        /\ q[j].id = c /\ q[k].id = c
    BY <1>1, <1>2, <1>3
  <2>2. \A x, y \in 1 .. Len(q) : x < y => q[x].id < q[y].id
    BY <1>2 DEF Places, Ordered
  <2>3. c \in Nat
    BY <1>1, <1>2, QueueTypes, DispatcherAssumption DEF Types, Id
  <2> HIDE DEF j, k, q
  <2>4. j \in Nat /\ k \in Nat /\ ~(j < k) /\ ~(k < j)
    BY <2>1, <2>2, <2>3
  <2>5. j = k
    BY <2>4
  <2> QED BY <2>5 DEF j, k
<1> QED BY <1>1, <1>3, <1>4

LEMMA WaitsInQueue ==
    ASSUME Types, NEW c
    PROVE  InQueue(c) # {} <=> Waits(c)
<1>1. \A i \in SlotIdx : Len(slots[i].queue) \in Nat /\ Len(slots[i].queue) <= PerNode
  BY QueueTypes DEF Types, TypeOK
<1>2. ASSUME NEW p \in InQueue(c)
      PROVE  Waits(c)
  <2>1. p[1] \in SlotIdx /\ p[2] \in 1 .. PerNode /\ p[2] <= Len(slots[p[1]].queue)
        /\ slots[p[1]].queue[p[2]].id = c
    BY DEF InQueue
  <2>2. p[2] \in 1 .. Len(slots[p[1]].queue)
    BY <1>1, <2>1, PoolAssumption
  <2> QED BY <2>1, <2>2 DEF Waits
<1>3. ASSUME NEW i \in SlotIdx, NEW k \in 1 .. Len(slots[i].queue), slots[i].queue[k].id = c
      PROVE  <<i, k>> \in InQueue(c)
  <2>1. k \in 1 .. PerNode /\ k <= Len(slots[i].queue)
    BY <1>1, PoolAssumption
  <2> QED BY <1>3, <2>1 DEF InQueue
<1> QED BY <1>2, <1>3 DEF Waits

(* A command received and not gone is in exactly one queue cell or hand;   *)
(* one that has gone is nowhere (cmd_dispatcher.cpp:135-153).              *)
THEOREM ConservationCorrect == Spec => []Conservation
<1>1. ASSUME Types, Places
      PROVE  Conservation
  <2> SUFFICES ASSUME NEW c \in Id
               PROVE  /\ (c <= Len(cmds) /\ fate[c] = "open") <=> (InQueue(c) # {} \/ InHand(c))
                      /\ InHand(c) => InQueue(c) = {}
                      /\ ~(mqtt.cmd = c /\ loop.cmd = c)
                      /\ \A p, q \in InQueue(c) : p = q
    BY DEF Conservation
  <2>1. c # None /\ (InQueue(c) # {} <=> Waits(c))
    BY <1>1, HandTypes, WaitsInQueue
  <2>2. mqtt.cmd = c => c <= Len(cmds) /\ fate[c] = "open" /\ loop.cmd # c
    <3>1. mqtt.cmd = c => c = Len(cmds) /\ Len(cmds) \in Nat
      BY <1>1, <2>1, HandTypes
    <3> QED BY <1>1, <2>1, <3>1 DEF Places, Placed
  <2>3. loop.cmd = c => c <= Len(cmds) /\ fate[c] = "open"
    BY <1>1, <2>1, HandTypes DEF Types, Control, Places, Placed
  <2>4. Waits(c) => /\ c <= Len(cmds) /\ fate[c] = "open"
                    /\ mqtt.cmd # c /\ loop.cmd # c
    BY <1>1 DEF Waits, Types, Contents, Places, Placed
  <2>5. (c <= Len(cmds) /\ fate[c] = "open") => InHand(c) \/ Waits(c)
    BY <1>1 DEF Places, NoneMislaid, InHand
  <2>6. \A p, q \in InQueue(c) : p = q
    BY <1>1, OneCell
  <2> QED BY <2>1, <2>2, <2>3, <2>4, <2>5, <2>6 DEF InHand
<1> QED BY <1>1, Located, PTL

(* Each queue is in order of arrival and the command in the loop task's    *)
(* hand is older than those in its queue (pending_pool.h:36-50).           *)
THEOREM OrderCorrect == Spec => []QueueOrder
<1>1. ASSUME Types, Places
      PROVE  QueueOrder
  <2> SUFFICES ASSUME NEW i \in SlotIdx
               PROVE  /\ \A j, k \in 1 .. Len(slots[i].queue) :
                            j < k => slots[i].queue[j].id < slots[i].queue[k].id
                      /\ (loop.cmd # None /\ slots[i].used /\ slots[i].node_id = loop.node) =>
                            \A k \in 1 .. Len(slots[i].queue) : loop.cmd < slots[i].queue[k].id
    BY DEF QueueOrder
  <2>1. ASSUME loop.cmd # None, slots[i].used, slots[i].node_id = loop.node
        PROVE  \A k \in 1 .. Len(slots[i].queue) : loop.cmd < slots[i].queue[k].id
    <3>1. PICK j \in SlotIdx :
              /\ slots[j].used /\ slots[j].node_id = loop.node
              /\ \A k \in 1 .. Len(slots[j].queue) : loop.cmd < slots[j].queue[k].id
      BY <1>1, <2>1 DEF Places, Taken
    <3>2. j = i
      BY <1>1, <2>1, <3>1 DEF Types, SlotNodes
    <3> QED BY <3>1, <3>2
  <2> QED BY <1>1, <2>1 DEF Places, Ordered
<1> QED BY <1>1, Located, PTL

(* A node has one slot, a queue only its node's commands, and the slot a   *)
(* put-back needs stays allocated (pending_pool.h:132-153).                *)
THEOREM SlotsCorrect == Spec => []SlotsSound
<1>1. ASSUME Types, Places
      PROVE  SlotsSound
  <2>1. loop.cmd # None => findSlot(loop.node) # 0
    BY <1>1, FindSlotFacts DEF Places, Taken
  <2> QED BY <1>1, <2>1 DEF SlotsSound, Types, SlotNodes, Contents
<1> QED BY <1>1, Located, PTL

-----------------------------------------------------------------------------
(* What the nodes have executed.                                           *)

Confirmed ==
    \A n \in Node : \A j \in 1 .. Len(exec[n]) :
        fate[exec[n][j]] = "sent" \/ exec[n][j] \in unanswered

LEMMA ExecutedInit == Init => Confirmed /\ NoNeedlessRepeat
<1> SUFFICES ASSUME Init PROVE Confirmed /\ NoNeedlessRepeat
  OBVIOUS
<1>1. \A n \in Node : Len(exec[n]) = 0
  BY DEF Init
<1> QED BY <1>1 DEF Confirmed, NoNeedlessRepeat

(* A step that leaves exec alone keeps what was sent as it is.             *)
LEMMA ExecutedKept ==
    ASSUME Types, Confirmed, NoNeedlessRepeat, exec' = exec, unanswered' = unanswered,
           \A c \in Id : fate[c] = "sent" => fate'[c] = "sent"
    PROVE  Confirmed' /\ NoNeedlessRepeat'
<1>1. \A n \in Node : \A j \in 1 .. Len(exec[n]) : exec[n][j] \in Id
  <2>1. \A n \in Node : exec[n] \in Seq(Id)
    BY DEF Types, TypeOK
  <2> QED BY <2>1, ElementOfSeq
<1> QED BY <1>1 DEF Confirmed, NoNeedlessRepeat

(* A delivered write adds a command that has not left the hub: executed    *)
(* before, it is one of the unanswered.                                    *)
LEMMA ExecutedDelivered ==
    ASSUME Types, Confirmed, NoNeedlessRepeat, NEW c \in Id, fate[c] = "open",
           cmds[c].target \in Node, Delivered(c),
           unanswered \subseteq unanswered',
           \A d \in Id : fate[d] = "sent" => fate'[d] = "sent",
           fate'[c] = "sent" \/ c \in unanswered'
    PROVE  Confirmed' /\ NoNeedlessRepeat'
<1> DEFINE t == cmds[c].target
           L == Len(exec[t])
<1>1. /\ \A n \in Node : n # t => exec'[n] = exec[n]
      /\ L \in Nat /\ Len(exec'[t]) = L + 1 /\ exec'[t][L + 1] = c
      /\ \A k \in 1 .. L : exec'[t][k] = exec[t][k]
  BY DeliveredFacts DEF Types, TypeOK
<1>2. \A n \in Node : \A j \in 1 .. Len(exec[n]) : exec[n][j] \in Id
  <2>1. \A n \in Node : exec[n] \in Seq(Id)
    BY DEF Types, TypeOK
  <2> QED BY <2>1, ElementOfSeq
<1>3. \A k \in 1 .. L : exec[t][k] = c => c \in unanswered
  BY DEF Confirmed
<1> HIDE DEF L, t
<1>4. \A k \in 1 .. L + 1 : k \in 1 .. L \/ k = L + 1
  BY <1>1
<1>5. Confirmed'
  <2> SUFFICES ASSUME NEW n \in Node, NEW j \in 1 .. Len(exec'[n])
               PROVE  fate'[exec'[n][j]] = "sent" \/ exec'[n][j] \in unanswered'
    BY DEF Confirmed
  <2>1. CASE n # t
    BY <1>1, <1>2, <2>1 DEF Confirmed
  <2>2. CASE n = t
    <3>1. j \in 1 .. L \/ j = L + 1
      BY <1>1, <1>4, <2>2
    <3>2. CASE j = L + 1
      BY <1>1, <2>2, <3>2
    <3>3. CASE j \in 1 .. L
      <4>1. exec'[n][j] = exec[n][j] /\ exec[n][j] \in Id
        BY <1>1, <1>2, <2>2, <3>3 DEF L
      <4> QED BY <2>2, <3>3, <4>1 DEF Confirmed, L
    <3> QED BY <3>1, <3>2, <3>3
  <2> QED BY <2>1, <2>2
<1>6. NoNeedlessRepeat'
  <2> SUFFICES ASSUME NEW n \in Node, NEW j \in 1 .. Len(exec'[n]), NEW k \in 1 .. Len(exec'[n]),
                      j # k, exec'[n][j] = exec'[n][k]
               PROVE  exec'[n][j] \in unanswered'
    BY DEF NoNeedlessRepeat
  <2>1. CASE n # t
    BY <1>1, <2>1 DEF NoNeedlessRepeat
  <2>2. CASE n = t
    <3>1. (j \in 1 .. L \/ j = L + 1) /\ (k \in 1 .. L \/ k = L + 1)
      BY <1>1, <1>4, <2>2
    <3>2. CASE j \in 1 .. L /\ k \in 1 .. L
      BY <1>1, <2>2, <3>2 DEF NoNeedlessRepeat, L
    <3>3. CASE j = L + 1 /\ k \in 1 .. L
      BY <1>1, <1>3, <2>2, <3>3
    <3>4. CASE j \in 1 .. L /\ k = L + 1
      BY <1>1, <1>3, <2>2, <3>4
    <3> QED BY <3>1, <3>2, <3>3, <3>4
  <2> QED BY <2>1, <2>2
<1> QED BY <1>5, <1>6

LEMMA ExecutedStep ==
    ASSUME Types, Places, Confirmed, NoNeedlessRepeat, [Next]_vars
    PROVE  Confirmed' /\ NoNeedlessRepeat'
<1>1. /\ mqtt.pc # "idle" => mqtt.cmd \in Id /\ fate[mqtt.cmd] = "open"
      /\ mqtt.pc = "write" => cmds[mqtt.cmd].target \in Node
      /\ loop.pc \in {"send", "write", "putback"} =>
            loop.cmd \in Id /\ fate[loop.cmd] = "open" /\ cmds[loop.cmd].target \in Node
      /\ fate \in [Id -> Fates]
  BY HandTypes DEF Types, TypeOK, Control, Places, Placed
<1>2. ASSUME NEW c \in Id, fate[c] = "open", cmds[c].target \in Node,
             WriteReturnsTrue(c) \/ WriteReturnsFalse(c)
      PROVE  Confirmed' /\ NoNeedlessRepeat'
  <2>1. CASE WriteReturnsTrue(c)
    <3>1. Delivered(c) /\ unanswered' = unanswered /\ fate' = [fate EXCEPT ![c] = "sent"]
      BY <2>1 DEF WriteReturnsTrue
    <3>2. fate'[c] = "sent" /\ \A d \in Id : fate[d] = "sent" => fate'[d] = "sent"
      BY <1>1, <3>1
    <3> QED BY <1>2, <3>1, <3>2, ExecutedDelivered
  <2>2. CASE WriteReturnsFalse(c) /\ exec' = exec /\ unanswered' = unanswered
    <3>1. fate' = fate
      BY <2>2 DEF WriteReturnsFalse
    <3> QED BY <2>2, <3>1, ExecutedKept
  <2>3. CASE WriteReturnsFalse(c) /\ ~(exec' = exec /\ unanswered' = unanswered)
    <3>1. Delivered(c) /\ unanswered' = unanswered \cup {c} /\ fate' = fate
      BY <2>3 DEF WriteReturnsFalse
    <3> QED BY <1>2, <3>1, ExecutedDelivered
  <2> QED BY <1>2, <2>1, <2>2, <2>3
<1>3. CASE MqttWriteOk \/ MqttWriteFail
  BY <1>1, <1>2, <1>3 DEF MqttWriteOk, MqttWriteFail
<1>4. CASE LoopWriteOk \/ LoopWriteFail
  BY <1>1, <1>2, <1>4 DEF LoopWriteOk, LoopWriteFail
<1>5. CASE HubCommand
  BY <1>1, <1>5, ExecutedKept DEF HubCommand
<1>6. CASE MqttPush \/ LoopPutBack
  BY <1>1, <1>6, ExecutedKept DEF MqttPush, LoopPutBack, Pooled
<1>7. CASE LoopPop
  <2>1. loop.node \in Node /\ pop(loop.node)
    BY <1>7 DEF LoopPop, Types, Control
  <2>2. \A c \in expired(loop.node) : c \in Id /\ fate[c] = "open"
    <3> SUFFICES ASSUME NEW c \in expired(loop.node) PROVE c \in Id /\ fate[c] = "open"
      OBVIOUS
    <3>1. \E i \in SlotIdx : \E m \in 1 .. Len(slots[i].queue) : slots[i].queue[m].id = c
      BY <2>1, PopCells DEF Types
    <3> QED BY <3>1, QueueTypes DEF Types, Places, Placed
  <2>3. /\ exec' = exec /\ unanswered' = unanswered
        /\ fate' = [c \in Id |-> IF c \in expired(loop.node) THEN "expired" ELSE fate[c]]
    BY <1>7 DEF LoopPop
  <2>4. \A c \in Id : fate[c] = "sent" => fate'[c] = "sent"
    BY <2>2, <2>3
  <2> QED BY <2>3, <2>4, ExecutedKept
<1>8. CASE /\ exec' = exec /\ unanswered' = unanswered /\ fate' = fate
  BY <1>8, ExecutedKept
<1> QED BY <1>3, <1>4, <1>5, <1>6, <1>7, <1>8
        DEF Next, MqttTask, LoopTask, Receive, MqttSend, StartSweep, NextNode, FlushNode,
            LoopSend, Connect, Disconnect, Tick, hist, vars

(* A node executes a command twice only after an unanswered write of it    *)
(* (cmd_dispatcher.cpp:135-153).                                           *)
THEOREM RepeatCorrect == Spec => []NoNeedlessRepeat
<1> DEFINE I == Confirmed /\ NoNeedlessRepeat
<1>1. (Types /\ Places) /\ I /\ [Next]_vars => I'
  BY ExecutedStep
<1>2. Init => I
  BY ExecutedInit
<1>3. I => NoNeedlessRepeat
  OBVIOUS
<1> HIDE DEF I
<1> QED BY <1>1, <1>2, <1>3, Located, PTL DEF Spec

(* A command put back is lost only to newer ones that fill its queue, and  *)
(* never for want of a slot (cmd_dispatcher.cpp:147-150).                  *)
THEOREM LossCorrect == Spec => LostToNewer
<1> DEFINE A == \A c \in Id : (fate[c] = "open" /\ fate'[c] = "lost") =>
                   \E i \in SlotIdx :
                       /\ slots[i].node_id = cmds[c].target
                       /\ Len(slots[i].queue) = PerNode
                       /\ \A k \in 1 .. PerNode : slots[i].queue[k].id > c
<1>1. ASSUME Types, Places, [Next]_vars
      PROVE  A
  <2> SUFFICES ASSUME NEW c \in Id, fate[c] = "open", fate'[c] = "lost"
               PROVE  \E i \in SlotIdx :
                       /\ slots[i].node_id = cmds[c].target
                       /\ Len(slots[i].queue) = PerNode
                       /\ \A k \in 1 .. PerNode : slots[i].queue[k].id > c
    OBVIOUS
  <2>1. /\ fate \in [Id -> Fates]
        /\ loop.pc = "putback" => /\ loop.cmd # None /\ cmds[loop.cmd].target = loop.node
                                  /\ loop.node \in Node
    BY <1>1 DEF Types, TypeOK, Control
  <2>2. LoopPutBack
    <3>1. fate' # fate
      OBVIOUS
    <3> QED BY <1>1, <2>1, <3>1
            DEF Next, MqttTask, LoopTask, Receive, HubCommand, MqttSend, MqttWriteOk,
                MqttWriteFail, MqttPush, StartSweep, NextNode, FlushNode, LoopPop, LoopSend,
                LoopWriteOk, LoopWriteFail, Connect, Disconnect, Tick, hist, vars,
                WriteReturnsTrue, WriteReturnsFalse, Pooled
  <2>3. ~Accepts(loop.node) /\ loop.cmd = c
    BY <2>1, <2>2 DEF LoopPutBack, Pooled
  <2>4. loop.cmd # None /\ cmds[c].target = loop.node /\ loop.node \in Node
    BY <2>1, <2>2, <2>3 DEF LoopPutBack
  <2>5. PICK i \in SlotIdx : /\ slots[i].used /\ slots[i].node_id = loop.node
                             /\ \A k \in 1 .. Len(slots[i].queue) : c < slots[i].queue[k].id
    BY <1>1, <2>3, <2>4 DEF Places, Taken
  <2>6. findOrCreate(loop.node) = i /\ i # 0
    BY <1>1, <2>5, OwnSlot DEF Types, SlotIdx
  <2>7. Len(slots[i].queue) = PerNode
    <3>1. ~(Len(slots[i].queue) < PerNode)
      BY <2>3, <2>6 DEF Accepts, HasRoom
    <3>2. Len(slots[i].queue) \in Nat /\ Len(slots[i].queue) <= PerNode /\ PerNode \in Nat
      BY <1>1, QueueTypes, PoolAssumption DEF Types, TypeOK
    <3> QED BY <3>1, <3>2
  <2>8. \A k \in 1 .. PerNode : slots[i].queue[k].id > c
    <3>1. \A k \in 1 .. PerNode : slots[i].queue[k].id \in Nat /\ c \in Nat
      BY <1>1, <2>7, QueueTypes, DispatcherAssumption DEF Types, Id
    <3> QED BY <2>5, <2>7, <3>1
  <2> QED BY <2>4, <2>5, <2>7, <2>8
<1>2. Types /\ Places /\ [Next]_vars => [A]_vars
  BY <1>1
<1> HIDE DEF A
<1>3. Spec => [][A]_vars
  BY <1>2, Located, PTL DEF Spec
<1> QED BY <1>3 DEF LostToNewer, A

-----------------------------------------------------------------------------
(* The dispatcher implements Delivery.                                     *)

Bar == [c \in Id |-> Outcome(fate[c])]

LEMMA PromiseUnfolds ==
    /\ \A c \in Id : Promise!Held(c) <=> c <= Len(cmds) /\ Outcome(fate[c]) = "open"
    /\ \A f \in Fates : Outcome(f) = "open" <=> f = "open"
    /\ Promise!Id = Id
BY DEF Promise!Held, Promise!Id, Id, Outcome, Fates

(* A step that changes nothing a client of the hub can see.                *)
LEMMA PromiseStutters ==
    ASSUME cmds' = cmds, exec' = exec, fate' = fate, unanswered' = unanswered
    PROVE  UNCHANGED Promise!vars
BY DEF Promise!vars

LEMMA PromiseDrops ==
    ASSUME Types, NEW C \in SUBSET Id, NEW f \in {"refused", "expired", "lost"},
           \A c \in C : c <= Len(cmds) /\ fate[c] = "open",
           fate' = [c \in Id |-> IF c \in C THEN f ELSE fate[c]],
           cmds' = cmds, exec' = exec, unanswered' = unanswered
    PROVE  Promise!Next
<1>1. Bar' = [c \in Id |-> IF c \in C THEN "dropped" ELSE Bar[c]]
  BY DEF Bar, Outcome
<1>2. \A c \in C : Promise!Held(c)
  BY PromiseUnfolds DEF Outcome
<1>3. Promise!Drop(C)
  BY <1>1, <1>2, PromiseUnfolds DEF Promise!Drop, Bar
<1> QED BY <1>3, PromiseUnfolds DEF Promise!Next

LEMMA PromiseWrites ==
    ASSUME Types, NEW c \in Id, c <= Len(cmds), fate[c] = "open", cmds[c].target \in Node,
           cmds' = cmds, WriteReturnsTrue(c) \/ WriteReturnsFalse(c)
    PROVE  Promise!Next \/ UNCHANGED Promise!vars
<1>1. Promise!Held(c)
  BY PromiseUnfolds DEF Outcome
<1>2. CASE WriteReturnsTrue(c)
  <2>1. Bar' = [Bar EXCEPT ![c] = "sent"]
    BY <1>2 DEF WriteReturnsTrue, Bar, Outcome, Types, TypeOK
  <2>2. Promise!Confirm(c)
    BY <1>1, <1>2, <2>1 DEF Promise!Confirm, Promise!Execute, WriteReturnsTrue, Delivered, Bar
  <2> QED BY <2>2, PromiseUnfolds DEF Promise!Next
<1>3. CASE WriteReturnsFalse(c) /\ exec' = exec /\ unanswered' = unanswered
  BY <1>3, PromiseStutters DEF WriteReturnsFalse
<1>4. CASE WriteReturnsFalse(c) /\ ~(exec' = exec /\ unanswered' = unanswered)
  <2>1. /\ Delivered(c) /\ c \notin unanswered /\ unanswered' = unanswered \cup {c}
        /\ fate' = fate
    BY <1>4 DEF WriteReturnsFalse
  <2>2. Promise!ExecuteUnanswered(c)
    BY <1>1, <2>1 DEF Promise!ExecuteUnanswered, Promise!Execute, Delivered
  <2> QED BY <2>2, PromiseUnfolds DEF Promise!Next
<1> QED BY <1>2, <1>3, <1>4

LEMMA PromiseStep ==
    ASSUME Types, Places, [Next]_vars
    PROVE  Promise!Next \/ UNCHANGED Promise!vars
<1>1. /\ mqtt.pc # "idle" => /\ mqtt.cmd \in Id /\ mqtt.cmd <= Len(cmds)
                             /\ fate[mqtt.cmd] = "open"
      /\ mqtt.pc \in {"write", "push"} => cmds[mqtt.cmd].target \in Node
      /\ loop.pc \in {"send", "write", "putback"} =>
            /\ loop.cmd \in Id /\ loop.cmd <= Len(cmds)
            /\ fate[loop.cmd] = "open" /\ cmds[loop.cmd].target \in Node
      /\ fate \in [Id -> Fates]
  BY HandTypes DEF Types, TypeOK, Control, Places, Placed
<1>2. CASE \E t \in Node \cup {Hub}, k \in Kinds : Receive(t, k)
  <2>1. PICK t \in Node \cup {Hub}, k \in Kinds : Receive(t, k)
    BY <1>2
  <2>2. Promise!Accept(t, k)
    BY <2>1 DEF Promise!Accept, Receive, hist
  <2> QED BY <2>2 DEF Promise!Next
<1>3. CASE HubCommand
  <2> DEFINE c == mqtt.cmd
  <2>1. c \in Id /\ c <= Len(cmds) /\ fate[c] = "open" /\ cmds[c].target = Hub
    BY <1>1, <1>3 DEF HubCommand
  <2>2. Promise!Held(c)
    BY <2>1, PromiseUnfolds DEF Outcome
  <2>3. Bar' = [Bar EXCEPT ![c] = "hub"]
    BY <1>1, <1>3, <2>1 DEF HubCommand, Bar, Outcome
  <2>4. Promise!Answer(c)
    BY <1>3, <2>1, <2>2, <2>3 DEF Promise!Answer, HubCommand, Bar
  <2> QED BY <2>1, <2>4, PromiseUnfolds DEF Promise!Next
<1>4. CASE MqttWriteOk \/ MqttWriteFail
  BY <1>1, <1>4, PromiseWrites DEF MqttWriteOk, MqttWriteFail
<1>5. CASE LoopWriteOk \/ LoopWriteFail
  BY <1>1, <1>5, PromiseWrites DEF LoopWriteOk, LoopWriteFail
<1>6. ASSUME NEW c \in Id, c <= Len(cmds), fate[c] = "open", cmds' = cmds,
             NEW f \in {"refused", "lost"}, Pooled(c, f)
      PROVE  Promise!Next \/ UNCHANGED Promise!vars
  <2>1. CASE fate' = fate
    BY <1>6, <2>1, PromiseStutters DEF Pooled
  <2>2. CASE fate' # fate
    <3>1. fate' = [d \in Id |-> IF d \in {c} THEN f ELSE fate[d]]
      BY <1>1, <1>6, <2>2 DEF Pooled
    <3> QED BY <1>6, <3>1, PromiseDrops DEF Pooled
  <2> QED BY <2>1, <2>2
<1>7. CASE MqttPush \/ LoopPutBack
  BY <1>1, <1>6, <1>7 DEF MqttPush, LoopPutBack
<1>8. CASE LoopPop
  <2>1. loop.node \in Node /\ pop(loop.node)
    BY <1>8 DEF LoopPop, Types, Control
  <2>2. \A c \in expired(loop.node) : c \in Id /\ c <= Len(cmds) /\ fate[c] = "open"
    <3> SUFFICES ASSUME NEW c \in expired(loop.node)
                 PROVE  c \in Id /\ c <= Len(cmds) /\ fate[c] = "open"
      OBVIOUS
    <3>1. \E i \in SlotIdx : \E m \in 1 .. Len(slots[i].queue) : slots[i].queue[m].id = c
      BY <2>1, PopCells DEF Types
    <3> QED BY <3>1, QueueTypes DEF Types, Contents, Places, Placed
  <2>3. /\ exec' = exec /\ unanswered' = unanswered /\ cmds' = cmds
        /\ fate' = [c \in Id |-> IF c \in expired(loop.node) THEN "expired" ELSE fate[c]]
    BY <1>8 DEF LoopPop
  <2> DEFINE C == expired(loop.node)
  <2>4. C \in SUBSET Id
    BY <2>2
  <2> HIDE DEF C
  <2>5. /\ \A c \in C : c <= Len(cmds) /\ fate[c] = "open"
        /\ fate' = [c \in Id |-> IF c \in C THEN "expired" ELSE fate[c]]
    BY <2>2, <2>3 DEF C
  <2> QED BY <2>3, <2>4, <2>5, PromiseDrops
<1>9. CASE cmds' = cmds /\ exec' = exec /\ unanswered' = unanswered /\ fate' = fate
  BY <1>9, PromiseStutters
<1> QED BY <1>2, <1>3, <1>4, <1>5, <1>7, <1>8, <1>9
        DEF Next, MqttTask, LoopTask, MqttSend, StartSweep, NextNode, FlushNode,
            LoopSend, Connect, Disconnect, Tick, hist, vars

LEMMA PromiseInit == Init => Promise!Init
BY DEF Init, Promise!Init, Promise!Id, Id, Outcome

(* Whatever its pool and its tasks look like, the dispatcher does to the   *)
(* commands what Delivery allows (cmd_dispatcher.cpp:109-162).             *)
THEOREM DispatcherImplementsDelivery == Spec => ImplementsDelivery
<1>1. Types /\ Places /\ [Next]_vars => [Promise!Next]_(Promise!vars)
  BY PromiseStep
<1> QED BY <1>1, Located, PromiseInit, PTL DEF Spec, ImplementsDelivery, Promise!Spec

-----------------------------------------------------------------------------
(* The age of a command on a clock that wraps.                             *)

(* A multiple of M between -M and M is 0. *)
LEMMA SmallMultiple ==
    ASSUME NEW M \in Nat \ {0}, NEW d \in Int, 0 - M < M * d, M * d < M
    PROVE  d = 0
<1>1. CASE d >= 1
  <2>1. M * d >= M * 1
    BY <1>1
  <2> QED BY <2>1
<1>2. CASE d <= 0 - 1
  <2>1. M * d <= M * (0 - 1)
    BY <1>2
  <2> QED BY <2>1
<1> QED BY <1>1, <1>2

(* Unsigned subtraction gives the time elapsed if it is less than a turn   *)
(* of the counter.                                                         *)
LEMMA Elapsed ==
    ASSUME NEW M \in Nat \ {0}, NEW a \in Nat, NEW b \in Nat, b <= a, a - b < M
    PROVE  ((a % M) - (b % M)) % M = a - b
<1> DEFINE x == (a % M) - (b % M)
           d == (a \div M) - (b \div M) + (x \div M)
<1>1. /\ a % M \in 0 .. M - 1 /\ a \div M \in Int /\ a = M * (a \div M) + (a % M)
      /\ b % M \in 0 .. M - 1 /\ b \div M \in Int /\ b = M * (b \div M) + (b % M)
  OBVIOUS
<1>2. x \in Int
  BY <1>1
<1>3. x % M \in 0 .. M - 1 /\ x \div M \in Int /\ x = M * (x \div M) + (x % M)
  <2> HIDE DEF x
  <2> QED BY <1>2
<1>4. /\ d \in Int
      /\ M * d = M * (a \div M) - M * (b \div M) + M * (x \div M)
  BY <1>1, <1>3
<1>5. M * d = (a - b) - (x % M)
  BY <1>1, <1>3, <1>4
<1>6. d = 0
  <2>1. 0 - M < M * d /\ M * d < M
    BY <1>3, <1>5
  <2> HIDE DEF d
  <2> QED BY <1>4, <2>1, SmallMultiple
<1>7. M * d = 0
  BY <1>6
<1>8. x % M = a - b
  BY <1>3, <1>5, <1>7
<1> QED BY <1>8

(* Every entry carries the counter's value at the time its command was     *)
(* last put in the pool.                                                   *)
Stamps ==
    /\ StartTime <= now
    /\ now <= MaxTime \/ now = StartTime
    /\ \A i \in SlotIdx : \A k \in 1 .. Len(slots[i].queue) :
          LET e == slots[i].queue[k]
          IN  /\ last[e.id] \in Nat
              /\ StartTime <= last[e.id]
              /\ last[e.id] <= now
              /\ e.queued_at = last[e.id] % ClockMod

(* After push or pushFront an entry is the new one or one of before.       *)
LEMMA EntriesPushed ==
    ASSUME TypeOK, SlotNodes, NEW n \in Node, NEW c \in Id, push(n, c) \/ pushFront(n, c),
           NEW j \in SlotIdx, NEW k \in 1 .. Len(slots'[j].queue)
    PROVE  \/ slots'[j].queue[k] = Stamped(c)
           \/ \E m \in 1 .. Len(slots[j].queue) : slots'[j].queue[k] = slots[j].queue[m]
<1> DEFINE f == findOrCreate(n)
           new == <<Stamped(c)>>
           old == slots[f].queue
           L == Len(old)
<1>1. CASE ~Accepts(n)
  <2>1. slots' = slots
    BY <1>1, StoreFacts DEF push, pushFront
  <2> QED BY <2>1
<1>2. CASE Accepts(n)
  <2>1. /\ f \in SlotIdx /\ slots \in [SlotIdx -> SlotType]
        /\ old \in Seq(Entry) /\ L \in Nat
    BY <1>2, FindOrCreateFacts, QueueTypes DEF Accepts, TypeOK
  <2>2. PICK q : /\ q = Append(old, Stamped(c)) \/ q = new \o old
                 /\ slots' = StoreAs(n, q)
    BY DEF push, pushFront
  <2>3. slots' = [slots EXCEPT ![f] = [used |-> TRUE, node_id |-> n, queue |-> q]]
    BY <1>2, <2>2, StoreFacts
  <2>4. CASE j # f
    <3>1. slots'[j] = slots[j]
      BY <2>1, <2>3, <2>4
    <3> QED BY <3>1
  <2>5. CASE j = f
    <3>1. slots'[j].queue = q
      BY <2>1, <2>3, <2>5
    <3>2. CASE q = Append(old, Stamped(c))
      <4>1. Len(q) = L + 1 /\ q[L + 1] = Stamped(c) /\ \A m \in 1 .. L : q[m] = old[m]
        BY <2>1, <3>2, StampedEntry
      <4>2. k \in 1 .. L + 1 /\ (k = L + 1 \/ k \in 1 .. L)
        BY <2>1, <3>1, <4>1
      <4> QED BY <2>5, <3>1, <4>1, <4>2
    <3>3. CASE q = new \o old
      <4>1. new \in Seq(Entry) /\ Len(new) = 1 /\ new[1] = Stamped(c)
        BY StampedEntry
      <4> HIDE DEF new
      <4>2. /\ Len(q) = 1 + L
            /\ \A m \in 1 .. 1 + L : q[m] = IF m <= 1 THEN new[m] ELSE old[m - 1]
        <5>1. /\ Len(new \o old) = Len(new) + Len(old)
              /\ \A m \in 1 .. Len(new) + Len(old) :
                    (new \o old)[m] = IF m <= Len(new) THEN new[m] ELSE old[m - Len(new)]
          BY <2>1, <4>1, ConcatProperties
        <5> HIDE DEF old
        <5> QED BY <3>3, <4>1, <5>1
      <4>3. k \in 1 .. 1 + L /\ (k = 1 \/ k - 1 \in 1 .. L)
        BY <2>1, <3>1, <4>2
      <4>4. q[k] = IF k <= 1 THEN new[k] ELSE old[k - 1]
        BY <4>2, <4>3
      <4>5. CASE k = 1
        BY <3>1, <4>1, <4>4, <4>5
      <4>6. CASE k - 1 \in 1 .. L
        <5>1. q[k] = old[k - 1]
          BY <2>1, <4>4, <4>6
        <5> QED BY <2>5, <3>1, <4>6, <5>1
      <4> QED BY <4>3, <4>5, <4>6
    <3> QED BY <2>2, <3>2, <3>3
  <2> QED BY <2>4, <2>5
<1> QED BY <1>1, <1>2

(* Only the entries of the command that is put in the pool are new.        *)
LEMMA StampsPushed ==
    ASSUME Types, Stamps, NEW n \in Node, NEW c \in Id, push(n, c) \/ pushFront(n, c),
           \A i \in SlotIdx : \A k \in 1 .. Len(slots[i].queue) : slots[i].queue[k].id # c,
           last' = [last EXCEPT ![c] = now], now' = now
    PROVE  Stamps'
<1>1. now \in Nat /\ last \in [Id -> Nat \cup {None}]
  BY DEF Types, TypeOK
<1>2. last'[c] = now /\ \A d \in Id : d # c => last'[d] = last[d]
  BY <1>1
<1> SUFFICES ASSUME NEW i \in SlotIdx, NEW k \in 1 .. Len(slots'[i].queue)
             PROVE  LET e == slots'[i].queue[k]
                    IN  /\ last'[e.id] \in Nat
                        /\ StartTime <= last'[e.id]
                        /\ last'[e.id] <= now
                        /\ e.queued_at = last'[e.id] % ClockMod
  BY DEF Stamps
<1>3. CASE slots'[i].queue[k] = Stamped(c)
  <2>1. Stamped(c).id = c /\ Stamped(c).queued_at = now % ClockMod
    BY DEF Stamped, millis
  <2> QED BY <1>1, <1>2, <1>3, <2>1 DEF Stamps
<1>4. ASSUME NEW m \in 1 .. Len(slots[i].queue), slots'[i].queue[k] = slots[i].queue[m]
      PROVE  LET e == slots'[i].queue[k]
             IN  /\ last'[e.id] \in Nat
                 /\ StartTime <= last'[e.id]
                 /\ last'[e.id] <= now
                 /\ e.queued_at = last'[e.id] % ClockMod
  <2>1. slots[i].queue[m].id \in Id /\ slots[i].queue[m].id # c
    BY QueueTypes DEF Types
  <2>2. last'[slots[i].queue[m].id] = last[slots[i].queue[m].id]
    BY <1>2, <2>1
  <2> QED BY <1>4, <2>2 DEF Stamps
<1> QED BY <1>3, <1>4, EntriesPushed DEF Types

LEMMA EntriesPopped ==
    ASSUME Types, NEW n \in Node, pop(n),
           NEW j \in SlotIdx, NEW k \in 1 .. Len(slots'[j].queue)
    PROVE  \E m \in 1 .. Len(slots[j].queue) : slots'[j].queue[k] = slots[j].queue[m]
<1> DEFINE i == findSlot(n)
<1>1. CASE FreshAt(n) = {}
  <2>1. i = 0 => slots' = slots
    BY <1>1, PopNothing DEF Types
  <2>2. i # 0 => /\ slots'[i].queue = <<>>
                 /\ \A l \in SlotIdx : l # i => slots'[l] = slots[l]
    <3> SUFFICES ASSUME i # 0
                 PROVE  /\ slots'[i].queue = <<>>
                        /\ \A l \in SlotIdx : l # i => slots'[l] = slots[l]
      OBVIOUS
    <3>1. i \in SlotIdx /\ slots[i] \in SlotType
      BY FindSlotFacts DEF Types, TypeOK
    <3>2. /\ slots'[i] = [slots[i] EXCEPT !.queue = <<>>, !.used = FALSE]
          /\ \A l \in SlotIdx : l # i => slots'[l] = slots[l]
      BY <1>1, PopNothing DEF Types
    <3> HIDE DEF i
    <3> QED BY <3>1, <3>2 DEF SlotType
  <2>3. Len(<<>>) = 0
    OBVIOUS
  <2>4. slots'[j] = slots[j]
    BY <2>1, <2>2, <2>3
  <2> QED BY <2>4
<1>2. CASE FreshAt(n) # {}
  <2>1. /\ \A l \in SlotIdx : l # i => slots'[l] = slots[l]
        /\ i \in SlotIdx
    BY <1>2, PopSome DEF Types
  <2>2. PICK p \in 1 .. Len(slots[i].queue) :
           /\ Len(slots'[i].queue) = Len(slots[i].queue) - p
           /\ \A l \in 1 .. Len(slots[i].queue) - p :
                 slots'[i].queue[l] = slots[i].queue[l + p]
    BY <1>2, PopSome DEF Types
  <2>3. CASE j = i
    <3>1. Len(slots[i].queue) \in Nat
      BY <2>1, QueueTypes DEF Types
    <3> HIDE DEF i
    <3>2. k + p \in 1 .. Len(slots[i].queue)
      BY <2>2, <2>3, <3>1
    <3> QED BY <2>2, <2>3, <3>2
  <2>4. CASE j # i
    BY <2>1, <2>4
  <2> QED BY <2>3, <2>4
<1> QED BY <1>1, <1>2

LEMMA StampsPopped ==
    ASSUME Types, Stamps, NEW n \in Node, pop(n), UNCHANGED <<last, now>>
    PROVE  Stamps'
<1> SUFFICES ASSUME NEW i \in SlotIdx, NEW k \in 1 .. Len(slots'[i].queue)
             PROVE  LET e == slots'[i].queue[k]
                    IN  /\ last[e.id] \in Nat
                        /\ StartTime <= last[e.id]
                        /\ last[e.id] <= now
                        /\ e.queued_at = last[e.id] % ClockMod
  BY DEF Stamps
<1>1. PICK m \in 1 .. Len(slots[i].queue) : slots'[i].queue[k] = slots[i].queue[m]
  BY EntriesPopped
<1> QED BY <1>1 DEF Stamps

LEMMA StampsInit == Init => Stamps
<1> SUFFICES ASSUME Init PROVE Stamps
  OBVIOUS
<1>1. \A i \in SlotIdx : Len(slots[i].queue) = 0
  BY DEF Init, PoolInit
<1>2. now = StartTime /\ StartTime \in Nat
  BY PoolAssumption DEF Init, PoolInit
<1> QED BY <1>1, <1>2 DEF Stamps

LEMMA StampsStep ==
    ASSUME Types, Places, Stamps, [Next]_vars
    PROVE  Stamps'
<1>1. CASE UNCHANGED <<slots, last, now>>
  BY <1>1 DEF Stamps
<1>2. CASE Tick
  <2>1. now' = now + 1 /\ now < MaxTime /\ UNCHANGED <<slots, last>>
    BY <1>2 DEF Tick, hist
  <2>2. now \in Nat /\ MaxTime \in Nat /\ StartTime \in Nat
    BY PoolAssumption, DispatcherAssumption DEF Types, TypeOK
  <2>3. StartTime <= now' /\ now' <= MaxTime
    BY <2>1, <2>2 DEF Stamps
  <2>4. ASSUME NEW i \in SlotIdx, NEW k \in 1 .. Len(slots[i].queue)
        PROVE  LET e == slots[i].queue[k]
               IN  /\ last[e.id] \in Nat
                   /\ StartTime <= last[e.id]
                   /\ last[e.id] <= now'
                   /\ e.queued_at = last[e.id] % ClockMod
    <3>1. LET e == slots[i].queue[k]
          IN  /\ last[e.id] \in Nat /\ StartTime <= last[e.id] /\ last[e.id] <= now
              /\ e.queued_at = last[e.id] % ClockMod
      BY DEF Stamps
    <3> QED BY <2>1, <2>2, <3>1
  <2> QED BY <2>1, <2>3, <2>4 DEF Stamps
<1>3. CASE MqttPush
  <2>1. mqtt.cmd \in Id /\ cmds[mqtt.cmd].target \in Node
    BY <1>3 DEF MqttPush, Types, TypeOK, MqttRecord, Control
  <2>2. \A i \in SlotIdx : \A k \in 1 .. Len(slots[i].queue) : slots[i].queue[k].id # mqtt.cmd
    BY DEF Places, Placed
  <2> QED BY <1>3, <2>1, <2>2, StampsPushed DEF MqttPush, Pooled
<1>4. CASE LoopPutBack
  <2>1. loop.cmd \in Id /\ loop.node \in Node
    BY <1>4 DEF LoopPutBack, Types, TypeOK, LoopRecord, Control
  <2>2. \A i \in SlotIdx : \A k \in 1 .. Len(slots[i].queue) : slots[i].queue[k].id # loop.cmd
    BY DEF Places, Placed
  <2> QED BY <1>4, <2>1, <2>2, StampsPushed DEF LoopPutBack, Pooled
<1>5. CASE LoopPop
  <2>1. loop.node \in Node
    BY <1>5 DEF LoopPop, Types, Control
  <2> QED BY <1>5, <2>1, StampsPopped DEF LoopPop
<1>6. \/ UNCHANGED <<slots, last, now>>
      \/ Tick \/ MqttPush \/ LoopPutBack \/ LoopPop
  BY DEF Next, vars, Receive, MqttTask, HubCommand, MqttSend, MqttWriteOk, MqttWriteFail,
         WriteReturnsTrue, WriteReturnsFalse, Connect, Disconnect, LoopTask, StartSweep,
         NextNode, FlushNode, LoopSend, LoopWriteOk, LoopWriteFail, pool, hist
<1> QED BY <1>1, <1>2, <1>3, <1>4, <1>5, <1>6

(* As long as the hub has not counted a whole turn of its millisecond      *)
(* counter, a command that pop hands out was put in its queue less than    *)
(* the TTL ago, wherever in the turn the counter started                   *)
(* (pending_pool.h:64-71).                                                 *)
THEOREM FreshCorrect ==
    ASSUME MaxTime - StartTime < ClockMod
    PROVE  Spec => HandedOutFresh
<1>1. ASSUME Types, Places, Stamps, [Next]_vars, loop.pc = "pop", loop'.pc = "send"
      PROVE  now - last[loop'.cmd] < TTL
  <2>1. LoopPop
    <3>1. loop' # loop
      BY <1>1
    <3>2. LoopTask \/ \E n \in Node : Connect(n)
      BY <1>1, <3>1 DEF Next, vars, Receive, MqttTask, HubCommand, MqttSend, MqttWriteOk,
         MqttWriteFail, MqttPush, Disconnect, Tick
    <3> QED BY <1>1, <3>2 DEF LoopTask, Connect, StartSweep, NextNode, FlushNode, LoopSend,
         LoopWriteOk, LoopWriteFail, LoopPutBack
  <2> DEFINE n == loop.node
             i == findSlot(n)
             m == Min(FreshAt(n))
             e == slots[i].queue[m]
  <2>2. FreshAt(n) # {} /\ loop'.cmd = popped(n)
    <3>1. loop \in LoopRecord
      BY <1>1 DEF Types, TypeOK
    <3>2. popped(n) # None
      BY <1>1, <2>1, <3>1 DEF LoopPop, Return, LoopRecord
    <3>3. loop' = [loop EXCEPT !.pc = "send", !.cmd = popped(n)]
      BY <2>1, <3>2 DEF LoopPop
    <3>4. loop'.cmd = popped(n)
      BY <3>1, <3>3 DEF LoopRecord
    <3> QED BY <3>2, <3>4 DEF popped
  <2>3. i # 0 /\ i \in SlotIdx
    BY <2>2, FindSlotFacts DEF FreshAt
  <2>4. m \in FreshAt(n)
    <3>1. FreshAt(n) \subseteq 1 .. Len(slots[i].queue) /\ Len(slots[i].queue) \in Nat
      BY <1>1, <2>3, QueueTypes DEF FreshAt, Types
    <3>2. \E x \in FreshAt(n) : \A y \in FreshAt(n) : x <= y
      BY <2>2, <3>1, LeastIndex
    <3> QED BY <3>2 DEF Min
  <2>5. m \in 1 .. Len(slots[i].queue) /\ Fresh(e)
    BY <2>3, <2>4 DEF FreshAt
  <2>6. loop'.cmd = e.id
    BY <2>2 DEF popped
  <2> HIDE DEF m, i, n
  <2>7. /\ last[e.id] \in Nat /\ StartTime <= last[e.id] /\ last[e.id] <= now
        /\ e.queued_at = last[e.id] % ClockMod
        /\ now <= MaxTime \/ now = StartTime
    BY <1>1, <2>3, <2>5 DEF Stamps
  <2> DEFINE l == last[e.id]
  <2>8. ((now % ClockMod) - (l % ClockMod)) % ClockMod < TTL
    BY <2>5, <2>7 DEF Fresh, millis
  <2> HIDE DEF l
  <2>9. now \in Nat /\ ClockMod \in Nat \ {0} /\ StartTime \in Nat /\ MaxTime \in Nat
    BY <1>1, PoolAssumption, DispatcherAssumption DEF Types, TypeOK
  <2>10. l \in Nat /\ l <= now /\ now - l < ClockMod
    <3>1. l \in Nat /\ StartTime <= l /\ l <= now /\ (now <= MaxTime \/ now = StartTime)
      BY <2>7 DEF l
    <3> QED BY <2>9, <3>1
  <2>11. now - l < TTL
    BY <2>8, <2>9, <2>10, Elapsed
  <2> QED BY <2>6, <2>11 DEF l
<1>2. Types /\ Places /\ Stamps /\ [Next]_vars =>
        [(loop.pc = "pop" /\ loop'.pc = "send") => now - last[loop'.cmd] < TTL]_vars
  BY <1>1
<1>3. Init => Stamps
  BY StampsInit
<1>4. Types /\ Places /\ Stamps /\ [Next]_vars => Stamps'
  BY StampsStep
<1> QED BY <1>2, <1>3, <1>4, Located, PTL DEF Spec, HandedOutFresh

-----------------------------------------------------------------------------
(* Who overtakes, and what stays in place.                                 *)

(* Nothing the hub still holds for a node is older than the command of     *)
(* that node in the loop task's hand.                                      *)
LEMMA LoopHoldsOldest ==
    ASSUME Types, Places, loop.cmd # None,
           NEW c \in 1 .. loop.cmd - 1, cmds[c].target = cmds[loop.cmd].target
    PROVE  fate[c] # "open"
<1> SUFFICES ASSUME fate[c] = "open" PROVE FALSE
  OBVIOUS
<1>1. /\ loop.cmd \in Id /\ loop.cmd \in 1 .. Len(cmds) /\ Len(cmds) \in Nat
      /\ mqtt.cmd # None => mqtt.cmd = Len(cmds)
      /\ MaxCmds \in Nat
  BY HandTypes, DispatcherAssumption
<1>2. c \in Id /\ c <= Len(cmds) /\ c < loop.cmd
  BY <1>1 DEF Id
<1>3. c # None
  BY <1>2, HandTypes
<1>4. mqtt.cmd # c /\ loop.cmd # c
  BY <1>1, <1>2, <1>3
<1>5. PICK i \in SlotIdx : \E k \in 1 .. Len(slots[i].queue) : slots[i].queue[k].id = c
  BY <1>2, <1>4 DEF Places, NoneMislaid, Waits
<1>6. PICK k \in 1 .. Len(slots[i].queue) : slots[i].queue[k].id = c
  BY <1>5
<1>7. slots[i].node_id = loop.node
  BY <1>6 DEF Types, Control, Contents
<1>8. slots[i].used
  <2>1. slots[i].queue # <<>>
    BY <1>6
  <2> QED BY <2>1 DEF Types, SlotNodes
<1>9. PICK j \in SlotIdx : /\ slots[j].used /\ slots[j].node_id = loop.node
                           /\ \A m \in 1 .. Len(slots[j].queue) : loop.cmd < slots[j].queue[m].id
  BY DEF Places, Taken
<1>10. j = i
  BY <1>7, <1>8, <1>9 DEF Types, SlotNodes
<1>11. loop.cmd < c
  BY <1>6, <1>9, <1>10
<1> QED BY <1>1, <1>2, <1>11

(* Only the direct send of a command that has just arrived overtakes       *)
(* (cmd_dispatcher.cpp:135-153).                                           *)
THEOREM OvertakingCorrect == Spec => OnlyDirectOvertakes
<1> DEFINE A == \A n \in Node : exec'[n] # exec[n] =>
                  LET d == exec'[n][Len(exec'[n])] IN
                  \/ d = mqtt.cmd
                  \/ \A c \in 1 .. d - 1 : ~(fate[c] = "open" /\ cmds[c].target = n)
<1>1. ASSUME Types, Places, [Next]_vars
      PROVE  A
  <2> SUFFICES ASSUME NEW n \in Node, exec'[n] # exec[n]
               PROVE  LET d == exec'[n][Len(exec'[n])] IN
                      \/ d = mqtt.cmd
                      \/ \A c \in 1 .. d - 1 : ~(fate[c] = "open" /\ cmds[c].target = n)
    OBVIOUS
  <2>1. \/ mqtt.pc = "write" /\ Delivered(mqtt.cmd)
        \/ loop.pc = "write" /\ Delivered(loop.cmd)
    <3>1. exec' # exec
      OBVIOUS
    <3> QED BY <1>1, <3>1
            DEF Next, MqttTask, LoopTask, Receive, HubCommand, MqttSend, MqttWriteOk,
                MqttWriteFail, MqttPush, StartSweep, NextNode, FlushNode, LoopPop, LoopSend,
                LoopWriteOk, LoopWriteFail, LoopPutBack, Connect, Disconnect, Tick, hist, vars,
                WriteReturnsTrue, WriteReturnsFalse, Pooled
  <2>2. ASSUME NEW c \in Id, cmds[c].target \in Node, Delivered(c)
        PROVE  n = cmds[c].target /\ exec'[n][Len(exec'[n])] = c
    <3>1. LET t == cmds[c].target IN
          /\ \A m \in Node : m # t => exec'[m] = exec[m]
          /\ Len(exec'[t]) = Len(exec[t]) + 1
          /\ exec'[t][Len(exec[t]) + 1] = c
      BY <1>1, <2>2, DeliveredFacts DEF Types, TypeOK
    <3>2. n = cmds[c].target
      BY <3>1
    <3> QED BY <3>1, <3>2
  <2>3. CASE mqtt.pc = "write" /\ Delivered(mqtt.cmd)
    <3>1. mqtt.cmd \in Id /\ cmds[mqtt.cmd].target \in Node
      BY <1>1, <2>3, HandTypes DEF Types, Control
    <3> QED BY <2>2, <2>3, <3>1
  <2>4. CASE loop.pc = "write" /\ Delivered(loop.cmd)
    <3>1. loop.cmd # None /\ loop.cmd \in Id /\ cmds[loop.cmd].target \in Node
      BY <1>1, <2>4, HandTypes DEF Types, Control
    <3>2. n = cmds[loop.cmd].target /\ exec'[n][Len(exec'[n])] = loop.cmd
      BY <2>2, <2>4, <3>1
    <3>3. \A c \in 1 .. loop.cmd - 1 : ~(fate[c] = "open" /\ cmds[c].target = n)
      BY <1>1, <3>1, <3>2, LoopHoldsOldest
    <3> QED BY <3>2, <3>3
  <2> QED BY <2>1, <2>3, <2>4
<1>2. Types /\ Places /\ [Next]_vars => [A]_vars
  BY <1>1
<1> HIDE DEF A
<1>3. Spec => [][A]_vars
  BY <1>2, Located, PTL DEF Spec
<1> QED BY <1>3 DEF OnlyDirectOvertakes, A

(* What waits in a slot keeps its place through a push for any node.       *)
LEMMA PushKeepsPlaces ==
    ASSUME TypeOK, SlotNodes, NEW n \in Node, NEW c \in Id, push(n, c),
           NEW i \in SlotIdx, slots[i].used
    PROVE  /\ slots'[i].used /\ slots'[i].node_id = slots[i].node_id
           /\ Len(slots[i].queue) <= Len(slots'[i].queue)
           /\ \A k \in 1 .. Len(slots[i].queue) : slots'[i].queue[k] = slots[i].queue[k]
<1>1. slots'[i].used /\ slots'[i].node_id = slots[i].node_id
  BY PushKeepsSlots
<1>2. Len(slots[i].queue) \in Nat
  BY QueueTypes
<1>3. CASE ~Accepts(n)
  <2>1. slots' = slots
    BY <1>3, StoreFacts DEF push
  <2> QED BY <1>2, <2>1
<1>4. CASE Accepts(n)
  <2> DEFINE f == findOrCreate(n)
             L == Len(slots[f].queue)
  <2>1. /\ Len(slots'[f].queue) = L + 1
        /\ \A k \in 1 .. L : slots'[f].queue[k] = slots[f].queue[k]
        /\ \A j \in SlotIdx : j # f => slots'[j] = slots[j]
    BY <1>4, PushFacts
  <2>2. CASE i = f
    BY <1>1, <1>2, <2>1, <2>2
  <2>3. CASE i # f
    BY <1>2, <2>1, <2>3
  <2> QED BY <2>2, <2>3
<1> QED BY <1>1, <1>3, <1>4

(* What a pop or a put-back for one node does, it does to that node's slot.*)
LEMMA FlushTouchesOwn ==
    ASSUME TypeOK, SlotNodes, NEW n \in Node, NEW i \in SlotIdx,
           slots[i].used, slots[i].node_id # n,
           pop(n) \/ \E c \in Id : pushFront(n, c)
    PROVE  slots'[i] = slots[i]
<1>1. CASE pop(n) /\ FreshAt(n) = {}
  <2>1. findSlot(n) # 0 => slots[findSlot(n)].node_id = n
    BY FindSlotFacts
  <2>2. findSlot(n) # i
    BY <2>1 DEF SlotIdx
  <2> QED BY <1>1, <2>2, PopNothing
<1>2. CASE pop(n) /\ FreshAt(n) # {}
  <2>1. slots[findSlot(n)].node_id = n /\ \A j \in SlotIdx : j # findSlot(n) => slots'[j] = slots[j]
    BY <1>2, PopSome
  <2> QED BY <2>1
<1>3. ASSUME NEW c \in Id, pushFront(n, c)
      PROVE  slots'[i] = slots[i]
  <2>1. CASE ~Accepts(n)
    <3>1. slots' = slots
      BY <1>3, <2>1, StoreFacts DEF pushFront
    <3> QED BY <3>1
  <2>2. CASE Accepts(n)
    <3>1. findOrCreate(n) # i
      BY <2>2, FindOrCreateFacts DEF Accepts
    <3> QED BY <1>3, <2>2, <3>1, PushFrontFacts
  <2> QED BY <2>1, <2>2
<1> QED BY <1>1, <1>2, <1>3

(* What waits for a node stays as it is while that node is not flushed     *)
(* (cmd_dispatcher.cpp:144-162, pending_pool.h:56-79, 132-153).            *)
THEOREM WaitingStays == Spec => OthersUntouched
<1> DEFINE Kept(i) == /\ slots'[i].used
                      /\ slots'[i].node_id = slots[i].node_id
                      /\ Len(slots[i].queue) <= Len(slots'[i].queue)
                      /\ \A k \in 1 .. Len(slots[i].queue) :
                            slots'[i].queue[k] = slots[i].queue[k]
           A == \A i \in SlotIdx :
                  (/\ slots[i].used
                   /\ ~(loop.pc \in {"pop", "putback"} /\ loop.node = slots[i].node_id)) => Kept(i)
<1>1. ASSUME Types, Places, [Next]_vars
      PROVE  A
  <2> SUFFICES ASSUME NEW i \in SlotIdx, slots[i].used,
                      ~(loop.pc \in {"pop", "putback"} /\ loop.node = slots[i].node_id)
               PROVE  Kept(i)
    OBVIOUS
  <2>1. Len(slots[i].queue) \in Nat
    BY <1>1, QueueTypes DEF Types
  <2>2. slots'[i] = slots[i] => Kept(i)
    BY <2>1
  <2> HIDE DEF Kept
  <2>3. CASE slots' = slots
    BY <2>2, <2>3
  <2>4. CASE MqttPush
    <3>1. mqtt.cmd \in Id /\ cmds[mqtt.cmd].target \in Node
      BY <1>1, <2>4 DEF MqttPush, Types, TypeOK, MqttRecord, Control
    <3> QED BY <1>1, <2>4, <3>1, PushKeepsPlaces DEF MqttPush, Types, Kept
  <2>5. CASE LoopPop
    <3>1. loop.node \in Node /\ pop(loop.node) /\ slots[i].node_id # loop.node
      BY <1>1, <2>5 DEF LoopPop, Types, Control
    <3> QED BY <1>1, <2>2, <3>1, FlushTouchesOwn DEF Types
  <2>6. CASE LoopPutBack
    <3>1. /\ loop.node \in Node /\ loop.cmd \in Id /\ pushFront(loop.node, loop.cmd)
          /\ slots[i].node_id # loop.node
      BY <1>1, <2>6 DEF LoopPutBack, Types, TypeOK, LoopRecord, Control
    <3> QED BY <1>1, <2>2, <3>1, FlushTouchesOwn DEF Types
  <2> QED BY <1>1, <2>3, <2>4, <2>5, <2>6
          DEF Next, vars, Receive, MqttTask, HubCommand, MqttSend, MqttWriteOk, MqttWriteFail,
              Connect, Disconnect, LoopTask, StartSweep, NextNode, FlushNode, LoopSend,
              LoopWriteOk, LoopWriteFail, Tick, pool
<1>2. Types /\ Places /\ [Next]_vars => [A]_vars
  BY <1>1
<1> HIDE DEF A
<1>3. Spec => [][A]_vars
  BY <1>2, Located, PTL DEF Spec
<1> QED BY <1>3 DEF OthersUntouched, A

=============================================================================
