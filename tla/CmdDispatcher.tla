--------------------------- MODULE CmdDispatcher ----------------------------
(***************************************************************************)
(* Delivery of server commands to nodes:                                   *)
(* firmware/src/hub/cmd/cmd_dispatcher.cpp over PendingPool.               *)
(*                                                                         *)
(* Two tasks run concurrently.  The esp_mqtt task takes each command of    *)
(* each MQTT message in turn, tries to write it to the node at once and    *)
(* puts it in the pool when that fails.  The Arduino loop task flushes the *)
(* queue of a node it has just connected and, on every turn, the queue of  *)
(* every node that has one.  A command is its position in the order of     *)
(* arrival; what a handler needs to know of it is the target and its kind: *)
(* "plain"; "bad", which cannot be converted to a packet (unknown type,    *)
(* payload that does not parse, IR timings that do not fit); "reset",      *)
(* which its node executes by restarting instead of answering the write.   *)
(*                                                                         *)
(* The table of connected nodes is the set conn here; BleCentral models    *)
(* how that table is kept.                                                 *)
(***************************************************************************)
EXTENDS PendingPool

CONSTANTS
    Hub,        \* the empty target: a command for the hub itself
    MaxCmds,    \* bound: commands received
    MaxTime,    \* bound: the last tick
    MaxUnanswered, \* bound: commands with a delivered write that returns false
    Kinds       \* kinds of command the server sends

ASSUME DispatcherAssumption ==
    /\ Hub \notin Node \cup {None}
    /\ None \notin Nat
    /\ MaxCmds \in Nat
    /\ MaxTime \in Nat
    /\ MaxUnanswered \in Nat
    /\ Kinds \subseteq {"plain", "bad", "reset"}

VARIABLES
    conn,   \* nodes that bleIsNodeConnected and findSlotByAddr find
    cmds,   \* the commands received, in order: [target, kind]
    mqtt,   \* esp_mqtt task: [pc, cmd]
    loop,   \* Arduino loop task: [pc, idx, node, cmd]
    exec,   \* history: what each node has executed, in order
    fate,   \* history: how each command left the hub
    unanswered, \* history: commands with a delivered write that returned false
    first,  \* history: when a command was first put in the pool
    last    \* history: when a command was last put in the pool

pool  == <<slots, now>>
hist  == <<exec, fate, unanswered, first, last>>
vars  == <<slots, now, conn, cmds, mqtt, loop, exec, fate, unanswered, first, last>>

Id == 1 .. MaxCmds

Fates == {"open", "hub", "sent", "refused", "expired", "lost"}

-----------------------------------------------------------------------------

Init ==
    /\ PoolInit
    /\ conn = {}
    /\ cmds = <<>>
    /\ mqtt = [pc |-> "idle", cmd |-> None]
    /\ loop = [pc |-> "ble", idx |-> 1, node |-> None, cmd |-> None]
    /\ exec = [n \in Node |-> <<>>]
    /\ fate = [c \in Id |-> "open"]
    /\ unanswered = {}
    /\ first = [c \in Id |-> None]
    /\ last = [c \in Id |-> None]

(* What trySend finds before it writes: the command converts and           *)
(* bleSendToNode finds the node with its CONFIG characteristic.            *)
Sendable(c) == cmds[c].kind # "bad" /\ cmds[c].target \in conn

(* The history of one writeValue: with a response, so that true means the  *)
(* node has executed the command; false says nothing about delivery.  A    *)
(* second delivery without an answer adds nothing to the history.          *)
Delivered(c) == exec' = [exec EXCEPT ![cmds[c].target] = Append(@, c)]

WriteReturnsTrue(c) ==
    /\ cmds[c].target \in conn
    /\ cmds[c].kind # "reset"
    /\ Delivered(c)
    /\ fate' = [fate EXCEPT ![c] = "sent"]
    /\ UNCHANGED <<unanswered, first, last>>

WriteReturnsFalse(c) ==
    /\ \/ UNCHANGED <<exec, unanswered>>
       \/ /\ cmds[c].target \in conn
          /\ c \notin unanswered
          /\ cmds[c].kind = "reset" \/ Cardinality(unanswered) < MaxUnanswered
          /\ Delivered(c)
          /\ unanswered' = unanswered \cup {c}
    /\ UNCHANGED <<fate, first, last>>

(* The history of an attempt to put c in the pool. *)
Pooled(c, refusal) ==
    /\ fate' = IF Accepts(cmds[c].target) THEN fate ELSE [fate EXCEPT ![c] = refusal]
    /\ first' = IF first[c] = None THEN [first EXCEPT ![c] = now] ELSE first
    /\ last' = [last EXCEPT ![c] = now]
    /\ UNCHANGED <<exec, unanswered>>

-----------------------------------------------------------------------------
(* The esp_mqtt task *)

(* parseAndDispatchCommands reaches the next command of a message. *)
Receive(t, k) ==
    /\ mqtt.pc = "idle"
    /\ Len(cmds) < MaxCmds
    /\ cmds' = Append(cmds, [target |-> t, kind |-> k])
    /\ mqtt' = [pc |-> "dispatch", cmd |-> Len(cmds) + 1]
    /\ UNCHANGED <<pool, conn, loop, hist>>

(* dispatchCommand with an empty target: handleHubCommand reads counters   *)
(* and publishes them, or ignores a type it does not know.                 *)
HubCommand ==
    /\ mqtt.pc = "dispatch"
    /\ cmds[mqtt.cmd].target = Hub
    /\ fate' = [fate EXCEPT ![mqtt.cmd] = "hub"]
    /\ mqtt' = [pc |-> "idle", cmd |-> None]
    /\ UNCHANGED <<pool, conn, cmds, loop, exec, unanswered, first, last>>

(* dispatchCommand calls trySend, up to the write. *)
MqttSend ==
    /\ mqtt.pc = "dispatch"
    /\ cmds[mqtt.cmd].target # Hub
    /\ mqtt' = [mqtt EXCEPT !.pc = IF Sendable(mqtt.cmd) THEN "write" ELSE "push"]
    /\ UNCHANGED <<pool, conn, cmds, loop, hist>>

Mut_MqttWriteOk ==
    /\ mqtt.pc = "write"
    /\ WriteReturnsTrue(mqtt.cmd)
    /\ mqtt' = [mqtt EXCEPT !.pc = "push"]
    /\ UNCHANGED <<pool, conn, cmds, loop>>

MqttWriteOk ==
    /\ mqtt.pc = "write"
    /\ WriteReturnsTrue(mqtt.cmd)
    /\ mqtt' = [pc |-> "idle", cmd |-> None]
    /\ UNCHANGED <<pool, conn, cmds, loop>>

MqttWriteFail ==
    /\ mqtt.pc = "write"
    /\ WriteReturnsFalse(mqtt.cmd)
    /\ mqtt' = [mqtt EXCEPT !.pc = "push"]
    /\ UNCHANGED <<pool, conn, cmds, loop>>

(* The result of pool.push is ignored: a refused command is gone. *)
MqttPush ==
    /\ mqtt.pc = "push"
    /\ push(cmds[mqtt.cmd].target, mqtt.cmd)
    /\ Pooled(mqtt.cmd, "refused")
    /\ mqtt' = [pc |-> "idle", cmd |-> None]
    /\ UNCHANGED <<now, conn, cmds, loop>>

MqttTask ==
    \/ HubCommand
    \/ MqttSend
    \/ MqttWriteOk
    \/ MqttWriteFail
    \/ MqttPush

-----------------------------------------------------------------------------
(* The Arduino loop task *)

(* flushNodePending returns to the sweep. *)
Return == [loop EXCEPT !.pc = "next", !.node = None, !.cmd = None]

(* bleCentralLoop connects a node; registerNode flushes its queue. *)
Connect(n) ==
    /\ loop.pc = "ble"
    /\ n \notin conn
    /\ conn' = conn \cup {n}
    /\ loop' = [pc |-> "flush", idx |-> 1, node |-> n, cmd |-> None]
    /\ UNCHANGED <<pool, cmds, mqtt, hist>>

(* bleCentralLoop connects nothing, and flushAllPending starts. *)
StartSweep ==
    /\ loop.pc = "ble"
    /\ loop' = [loop EXCEPT !.pc = "next"]
    /\ UNCHANGED <<pool, conn, cmds, mqtt, hist>>

(* nextNode looks at one slot per critical section. *)
NextNode ==
    /\ loop.pc = "next"
    /\ loop' = IF loop.idx > MAX_NODES
               THEN [loop EXCEPT !.pc = "ble", !.idx = 1]
               ELSE IF hasWork(loop.idx)
               THEN [loop EXCEPT !.pc = "flush", !.idx = @ + 1,
                                 !.node = slots[loop.idx].node_id]
               ELSE [loop EXCEPT !.idx = @ + 1]
    /\ UNCHANGED <<pool, conn, cmds, mqtt, hist>>

(* flushNodePending returns at once for a node that is not connected. *)
FlushNode ==
    /\ loop.pc = "flush"
    /\ loop' = IF loop.node \in conn THEN [loop EXCEPT !.pc = "pop"] ELSE Return
    /\ UNCHANGED <<pool, conn, cmds, mqtt, hist>>

LoopPop ==
    /\ loop.pc = "pop"
    /\ pop(loop.node)
    /\ fate' = [c \in Id |-> IF c \in expired(loop.node) THEN "expired" ELSE fate[c]]
    /\ loop' = IF popped(loop.node) = None
               THEN Return
               ELSE [loop EXCEPT !.pc = "send", !.cmd = popped(loop.node)]
    /\ UNCHANGED <<now, conn, cmds, mqtt, exec, unanswered, first, last>>

Mut_LoopSend ==
    /\ loop.pc = "send"
    /\ loop' = IF Sendable(loop.cmd) THEN [loop EXCEPT !.pc = "write"] ELSE Return
    /\ UNCHANGED <<pool, conn, cmds, mqtt, hist>>

LoopSend ==
    /\ loop.pc = "send"
    /\ loop' = [loop EXCEPT !.pc = IF Sendable(loop.cmd) THEN "write" ELSE "putback"]
    /\ UNCHANGED <<pool, conn, cmds, mqtt, hist>>

LoopWriteOk ==
    /\ loop.pc = "write"
    /\ WriteReturnsTrue(loop.cmd)
    /\ loop' = [loop EXCEPT !.pc = "pop", !.cmd = None]
    /\ UNCHANGED <<pool, conn, cmds, mqtt>>

LoopWriteFail ==
    /\ loop.pc = "write"
    /\ WriteReturnsFalse(loop.cmd)
    /\ loop' = [loop EXCEPT !.pc = "putback"]
    /\ UNCHANGED <<pool, conn, cmds, mqtt>>

(* The result of pool.pushFront is ignored; the flush of this node ends. *)
LoopPutBack ==
    /\ loop.pc = "putback"
    /\ pushFront(loop.node, loop.cmd)
    /\ Pooled(loop.cmd, "lost")
    /\ loop' = Return
    /\ UNCHANGED <<now, conn, cmds, mqtt>>

LoopTask ==
    \/ StartSweep
    \/ NextNode
    \/ FlushNode
    \/ LoopPop
    \/ LoopSend
    \/ LoopWriteOk
    \/ LoopWriteFail
    \/ LoopPutBack

-----------------------------------------------------------------------------
(* The radio link and the clock *)

Disconnect(n) ==
    /\ n \in conn
    /\ conn' = conn \ {n}
    /\ UNCHANGED <<pool, cmds, mqtt, loop, hist>>

Tick ==
    /\ now < MaxTime
    /\ now' = now + 1
    /\ UNCHANGED <<slots, conn, cmds, mqtt, loop, hist>>

Next ==
    \/ \E t \in Node \cup {Hub}, k \in Kinds : Receive(t, k)
    \/ MqttTask
    \/ \E n \in Node : Connect(n) \/ Disconnect(n)
    \/ LoopTask
    \/ Tick

Spec == Init /\ [][Next]_vars

(* Both tasks are FreeRTOS tasks that are always scheduled again; a node   *)
(* whose write is retried for ever answers in the end.                     *)
Fairness ==
    /\ WF_vars(MqttTask)
    /\ WF_vars(LoopTask)
    /\ SF_vars(LoopWriteOk)
    /\ WF_vars(Tick)

FairSpec == Spec /\ Fairness

-----------------------------------------------------------------------------
(* Properties *)

Entry == [id : Id, queued_at : 0 .. ClockMod - 1]

SlotType == [used : BOOLEAN, node_id : Node \cup {None}, queue : Seq(Entry)]

MqttRecord == [pc : {"idle", "dispatch", "write", "push"}, cmd : Id \cup {None}]

LoopRecord == [pc : {"ble", "next", "flush", "pop", "send", "write", "putback"},
               idx : 1 .. MAX_NODES + 1, node : Node \cup {None}, cmd : Id \cup {None}]

CommandRecord == [target : Node \cup {Hub}, kind : Kinds]

(* Type invariant; the slots' queues never exceed CMD_PENDING_PER_NODE     *)
(* (pending_pool.h:123).                                                   *)
TypeOK ==
    /\ slots \in [SlotIdx -> SlotType]
    /\ \A i \in SlotIdx : Len(slots[i].queue) <= PerNode
    /\ now \in Nat
    /\ conn \subseteq Node
    /\ cmds \in Seq(CommandRecord)
    /\ Len(cmds) <= MaxCmds
    /\ mqtt \in MqttRecord
    /\ loop \in LoopRecord
    /\ exec \in [Node -> Seq(Id)]
    /\ fate \in [Id -> Fates]
    /\ unanswered \subseteq Id
    /\ first \in [Id -> Nat \cup {None}]
    /\ last \in [Id -> Nat \cup {None}]

(* The cells of the pool, and the tasks, that hold a command. *)
InQueue(c) == {ik \in SlotIdx \X (1 .. PerNode) :
                 /\ ik[2] <= Len(slots[ik[1]].queue)
                 /\ slots[ik[1]].queue[ik[2]].id = c}

InHand(c) == mqtt.cmd = c \/ loop.cmd = c

(* A command that has been received and has not left the hub is in exactly *)
(* one place (one queue cell, or the hand of one task), and one that has   *)
(* left is nowhere: two tasks and the retries never duplicate a command    *)
(* and never mislay it except at the three ignored results and the TTL     *)
(* (cmd_dispatcher.cpp:135-153, pending_pool.h:21-79).                     *)
Conservation ==
    \A c \in Id :
        /\ (c <= Len(cmds) /\ fate[c] = "open") <=> (InQueue(c) # {} \/ InHand(c))
        /\ InHand(c) => InQueue(c) = {}
        /\ ~(mqtt.cmd = c /\ loop.cmd = c)
        /\ \A p, q \in InQueue(c) : p = q

(* Within one node's queue commands stay in order of arrival, and the one  *)
(* the loop task is trying to send is older than all that wait behind it,  *)
(* so that putting it back at the front restores the order                 *)
(* (pending_pool.h:36-50, cmd_dispatcher.cpp:144-153).                     *)
QueueOrder ==
    \A i \in SlotIdx :
        LET q == slots[i].queue IN
        /\ \A j, k \in 1 .. Len(q) : j < k => q[j].id < q[k].id
        /\ (loop.cmd # None /\ slots[i].used /\ slots[i].node_id = loop.node)
             => \A k \in 1 .. Len(q) : loop.cmd < q[k].id

(* A node never has two slots, a released slot is empty, a queue holds     *)
(* only commands for its node, and the slot of the node whose command the  *)
(* loop task holds stays allocated, so that the put-back always finds it   *)
(* (pending_pool.h:56-79, 132-153).                                        *)
SlotsSound ==
    /\ \A i, j \in SlotIdx :
         (slots[i].used /\ slots[j].used /\ slots[i].node_id = slots[j].node_id) => i = j
    /\ \A i \in SlotIdx : ~slots[i].used => slots[i].queue = <<>>
    /\ \A i \in SlotIdx : \A k \in 1 .. Len(slots[i].queue) :
         cmds[slots[i].queue[k].id].target = slots[i].node_id
    /\ loop.cmd # None => findSlot(loop.node) # 0

(* A command taken out to be sent is lost only to commands that arrived    *)
(* after it and filled its queue meanwhile, never for want of a slot       *)
(* (cmd_dispatcher.cpp:147-150, pending_pool.h:36-79).                     *)
LostToNewer ==
    [][\A c \in Id : (fate[c] = "open" /\ fate'[c] = "lost") =>
         \E i \in SlotIdx :
             /\ slots[i].node_id = cmds[c].target
             /\ Len(slots[i].queue) = PerNode
             /\ \A k \in 1 .. PerNode : slots[i].queue[k].id > c]_vars

(* Only the direct send of the esp_mqtt task overtakes: when a node        *)
(* executes a command while the hub holds an older one for it, the command *)
(* has just arrived.  The retries of the loop task, put-backs and lost     *)
(* answers included, keep the order of arrival                             *)
(* (cmd_dispatcher.cpp:135-153, pending_pool.h:36-79).                     *)
OnlyDirectOvertakes ==
    [][\A n \in Node : exec'[n] # exec[n] =>
         LET d == exec'[n][Len(exec'[n])] IN
         \/ d = mqtt.cmd
         \/ \A c \in 1 .. d - 1 : ~(fate[c] = "open" /\ cmds[c].target = n)]_vars

(* The commands that wait for a node keep their slot, their places and     *)
(* their order while the loop task is not flushing that node: no other     *)
(* node's flush and no full pool takes anything from them, and they do not *)
(* expire either, so that a node that stays away keeps its slot            *)
(* (cmd_dispatcher.cpp:144-162, pending_pool.h:56-79, 132-153).            *)
OthersUntouched ==
    [][\A i \in SlotIdx :
         (/\ slots[i].used
          /\ ~(loop.pc \in {"pop", "putback"} /\ loop.node = slots[i].node_id)) =>
             /\ slots'[i].used
             /\ slots'[i].node_id = slots[i].node_id
             /\ Len(slots[i].queue) <= Len(slots'[i].queue)
             /\ \A k \in 1 .. Len(slots[i].queue) :
                   slots'[i].queue[k] = slots[i].queue[k]]_vars

(* A node executes a command twice only when an earlier write of it went   *)
(* unanswered: the retry paths of the two tasks never send again what a    *)
(* write confirmed (cmd_dispatcher.cpp:135-153).                           *)
NoNeedlessRepeat ==
    \A n \in Node : \A j, k \in 1 .. Len(exec[n]) :
        (j # k /\ exec[n][j] = exec[n][k]) => exec[n][j] \in unanswered

(* Across the wrap of the millisecond counter, a command that pop hands    *)
(* out was put in its queue less than the TTL ago (pending_pool.h:64-71).  *)
(* A command that waits for a whole turn of the counter would count as     *)
(* fresh again; MaxTime keeps the run below that.                          *)
HandedOutFresh ==
    [][(loop.pc = "pop" /\ loop'.pc = "send") => now - last[loop'.cmd] < TTL]_vars

(* A command for a node that is connected from some moment on leaves the   *)
(* hub: the sweep of the loop task finds its slot and every retry ends     *)
(* (cmd_dispatcher.cpp:144-162, pending_pool.h:106-119).  Only commands    *)
(* that can be converted keep this promise: one that cannot is put back at *)
(* the head of the queue for ever.                                         *)
EventuallyLeaves ==
    \A c \in Id : \A n \in Node :
        (<>[](n \in conn)) =>
            [](  (c <= Len(cmds) /\ cmds[c].target = n) => <>(fate[c] # "open"))

(* What the hub does with commands, whatever its pool and tasks look like: *)
(* the specification Delivery is implemented                               *)
(* (cmd_dispatcher.cpp:109-162, pending_pool.h).                           *)
Outcome(f) == IF f \in {"refused", "expired", "lost"} THEN "dropped" ELSE f

Promise == INSTANCE Delivery WITH fate <- [c \in Id |-> Outcome(fate[c])]

ImplementsDelivery == Promise!Spec

-----------------------------------------------------------------------------
(* Statements of the documentation that the code does not keep. *)

(* docs/spec/command-protocol.md, rule 5: a command that could not be sent *)
(* is discarded once it is older than the TTL; it is not sent after that.  *)
StaleNeverSent ==
    [][(loop.pc = "pop" /\ loop'.pc = "send") => now - first[loop'.cmd] < TTL]_vars

=============================================================================
