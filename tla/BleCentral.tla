----------------------------- MODULE BleCentral -----------------------------
(***************************************************************************)
(* The hub's table of BLE connections: how nodes are found, connected,     *)
(* registered, lost and found again.                                       *)
(* firmware/src/hub/ble/ble_central.cpp, ble_connection.cpp, ble_data.cpp. *)
(*                                                                         *)
(* Three tasks use the table nodes[] without a lock.  The Arduino loop     *)
(* task connects and registers; the NimBLE host task runs the callbacks    *)
(* onResult, onDisconnect and onDataNotify, one at a time; the esp_mqtt    *)
(* task sends.  A step of this model is what one task does between two     *)
(* points where another can change what it has read.                       *)
(*                                                                         *)
(* The NimBLE stack is external.  It is modelled by what the code relies   *)
(* on: the host task completes a connection or a discovery, so neither     *)
(* ends while a callback runs; a client object holds at most one link and  *)
(* an address at most one; a scan reports an advertiser once, and starting *)
(* a scan forgets what was reported.                                       *)
(***************************************************************************)
EXTENDS Integers, Sequences, FiniteSets, SlotSearch

CONSTANTS
    Node,        \* addresses of the tempio nodes
    MAX_NODES,   \* slots of nodes[]; also CONFIG_BT_NIMBLE_MAX_CONNECTIONS
    PENDING_MAX, \* capacity of pendingQueue
    Target,      \* nodes the esp_mqtt task sends commands to
    None         \* null pointer, no address

ASSUME CentralAssumption ==
    /\ MAX_NODES \in Nat \ {0}
    /\ PENDING_MAX \in Nat \ {0}
    /\ Target \subseteq Node
    /\ None \notin Node
    /\ None \notin Nat

VARIABLES
    nodes,    \* nodes[]: [client, configChar, addr, used]
    created,  \* client objects created so far; createClient never frees one
    link,     \* client -> address its link leads to, in the host's view
    closing,  \* clients whose link the hub has asked to close
    pendingQueue, \* addresses waiting to be connected
    doScan,   \* flag: start scanning again
    scanning, \* whether the scan runs
    seen,     \* advertisers this scan has reported
    adv,      \* nodes that are awake and advertising
    talks,    \* clients whose node has been written to over its link
    loop,     \* Arduino loop task: [pc, addr, slot, client]
    host,     \* NimBLE host task: [pc, addr, client, slot]
    sender,   \* esp_mqtt task inside bleSendToNode: [pc, slot]
    up        \* FALSE after a null pointer was followed

vars == <<nodes, created, link, closing, pendingQueue, doScan, scanning, seen,
          adv, talks, loop, host, sender, up>>

table == <<nodes, created>>
radio == <<link, closing, adv, talks>>
scan  == <<pendingQueue, doScan, scanning, seen>>

Slot == 1 .. MAX_NODES
Client == 1 .. MAX_NODES

EmptySlotRecord == [client |-> None, configChar |-> FALSE, addr |-> None, used |-> FALSE]

IdleLoop   == [pc |-> "tick", addr |-> None, slot |-> 0, client |-> None]
Finish     == [IdleLoop EXCEPT !.pc = "restart"]
IdleHost   == [pc |-> "idle", addr |-> None, client |-> None, slot |-> 0]
IdleSender == [pc |-> "idle", slot |-> 0]

(* Where a task of a running hub is. *)
LoopAt(pc)   == up /\ loop.pc = pc
HostAt(pc)   == up /\ host.pc = pc
SenderAt(pc) == up /\ sender.pc = pc

-----------------------------------------------------------------------------
(* Mutated forms of the definitions below. *)

Mut_findReusable == Lowest({s \in Slot : nodes[s].client # None})
Mut_findSlotByClient(c) == Lowest({s \in Slot : nodes[s].client = c})
Mut_isAlreadyPending(a) == FALSE
Mut_CanCreate == created <= MAX_NODES
Mut_Taken(s) == nodes

-----------------------------------------------------------------------------
(* ble_central.cpp: searches of the table *)

isAlreadyConnected(a) == \E s \in Slot : nodes[s].used /\ nodes[s].addr = a

findEmptySlot == Lowest({s \in Slot : ~nodes[s].used})

findSlotByClient(c) == Lowest({s \in Slot : nodes[s].used /\ nodes[s].client = c})

findSlotByAddr(a) == Lowest({s \in Slot : nodes[s].used /\ nodes[s].addr = a})

(* The slot whose stored client findReusableClient takes. *)
findReusable == Lowest({s \in Slot : ~nodes[s].used /\ nodes[s].client # None})

(* findReusableClient empties the slot it takes the client from. *)
Taken(s) == [nodes EXCEPT ![s].client = None]

(* NimBLEDevice::createClient has room for another client object. *)
CanCreate == created < MAX_NODES

(* The slot where stashClient leaves a client. *)
stashSlot == Lowest({s \in Slot : ~nodes[s].used /\ nodes[s].client = None})

isAlreadyPending(a) == \E i \in 1 .. Len(pendingQueue) : pendingQueue[i] = a

(* The state of a hub that has just run bleCentralInit. *)
HubInit ==
    /\ nodes = [s \in Slot |-> EmptySlotRecord]
    /\ created = 0
    /\ link = [c \in Client |-> None]
    /\ closing = {}
    /\ pendingQueue = <<>>
    /\ doScan = FALSE
    /\ scanning = TRUE
    /\ seen = {}
    /\ loop = IdleLoop
    /\ host = IdleHost
    /\ sender = IdleSender
    /\ up = TRUE

Init == HubInit /\ adv = {} /\ talks = {}

-----------------------------------------------------------------------------
(* The nodes *)

(* A node wakes, also while the hub has not yet noticed that the link of   *)
(* its last waking time is gone.                                           *)
Wake(a) ==
    /\ a \notin adv
    /\ adv' = adv \cup {a}
    /\ UNCHANGED <<table, link, closing, talks, scan, loop, host, sender, up>>

(* A node gives up waiting for the hub and sleeps. *)
Sleep(a) ==
    /\ a \in adv
    /\ adv' = adv \ {a}
    /\ UNCHANGED <<table, link, closing, talks, scan, loop, host, sender, up>>

-----------------------------------------------------------------------------
(* NimBLE host task *)

(* onResult: an advertiser the hub could connect to; the checks. *)
ScanResult(a) ==
    /\ HostAt("idle")
    /\ scanning
    /\ a \in adv \ seen
    /\ seen' = seen \cup {a}
    /\ host' = IF \/ isAlreadyConnected(a)
                  \/ isAlreadyPending(a)
                  \/ findEmptySlot = 0
                  \/ Len(pendingQueue) >= PENDING_MAX
               THEN host
               ELSE [host EXCEPT !.pc = "push", !.addr = a]
    /\ UNCHANGED <<table, radio, pendingQueue, doScan, scanning, loop, sender, up>>

(* onResult: pendingQueue.push, after the checks. *)
PushResult ==
    /\ HostAt("push")
    /\ pendingQueue' = IF Len(pendingQueue) < PENDING_MAX
                       THEN Append(pendingQueue, host.addr) ELSE pendingQueue
    /\ host' = IdleHost
    /\ UNCHANGED <<table, radio, doScan, scanning, seen, loop, sender, up>>

(* The host task notices that a link is gone and calls onDisconnect. *)
LinkLost(c) ==
    /\ HostAt("idle")
    /\ link[c] # None
    /\ link' = [link EXCEPT ![c] = None]
    /\ closing' = closing \ {c}
    /\ talks' = talks \ {c}
    /\ host' = [host EXCEPT !.pc = "disconnect", !.client = c]
    /\ UNCHANGED <<table, scan, adv, loop, sender, up>>

(* onDisconnect finds the slot: nodes[slot].used = false. *)
OnDisconnect ==
    /\ HostAt("disconnect")
    /\ host' = [host EXCEPT !.pc = "clear", !.slot = findSlotByClient(host.client)]
    /\ nodes' = IF findSlotByClient(host.client) = 0 THEN nodes
                ELSE [nodes EXCEPT ![findSlotByClient(host.client)].used = FALSE]
    /\ UNCHANGED <<created, radio, scan, loop, sender, up>>

Cleared(s) == IF s = 0 THEN nodes ELSE [nodes EXCEPT ![s].configChar = FALSE]

Mut_OnDisconnectEnds ==
    /\ HostAt("clear")
    /\ nodes' = Cleared(host.slot)
    /\ host' = IdleHost
    /\ UNCHANGED <<created, radio, pendingQueue, doScan, scanning, seen, loop, sender, up>>

(* onDisconnect: nodes[slot].configChar = nullptr, then doScan = true even *)
(* when no slot was found.                                                 *)
OnDisconnectEnds ==
    /\ HostAt("clear")
    /\ nodes' = Cleared(host.slot)
    /\ doScan' = TRUE
    /\ host' = IdleHost
    /\ UNCHANGED <<created, radio, pendingQueue, scanning, seen, loop, sender, up>>

(* onDataNotify: the node at the other end sends a report or an            *)
(* acknowledgement, which it does only once it has been written to; the    *)
(* slot is looked up.                                                      *)
OnNotify(c) ==
    /\ HostAt("idle")
    /\ c \in talks
    /\ host' = [host EXCEPT !.pc = "notify", !.client = c, !.slot = findSlotByClient(c)]
    /\ UNCHANGED <<table, radio, scan, loop, sender, up>>

(* onDataNotify labels the message with the address of the slot and, for a *)
(* report, asks the slot's client for the signal strength.  The queues it  *)
(* then fills are drained by loop().                                       *)
OnNotifyEnds ==
    /\ HostAt("notify")
    /\ up' = (host.slot # 0 => nodes[host.slot].client # None)
    /\ host' = IdleHost
    /\ UNCHANGED <<table, radio, scan, loop, sender>>

HostTask ==
    \/ OnNotifyEnds
    \/ PushResult
    \/ OnDisconnect
    \/ OnDisconnectEnds

-----------------------------------------------------------------------------
(* Arduino loop task: bleCentralLoop *)

(* cleanupDisconnected, then the test of doScan. *)
LoopStart ==
    /\ LoopAt("tick")
    /\ nodes' = [s \in Slot |-> IF ~nodes[s].used /\ nodes[s].client # None
                                THEN [nodes[s] EXCEPT !.configChar = FALSE] ELSE nodes[s]]
    /\ doScan' = FALSE
    /\ loop' = [loop EXCEPT !.pc = IF doScan THEN "rescan" ELSE "pop"]
    /\ UNCHANGED <<created, radio, pendingQueue, scanning, seen, host, sender, up>>

(* getScan()->start(0, false), from bleCentralLoop or at the end of        *)
(* processNextPending.                                                     *)
StartScan ==
    /\ LoopAt("rescan") \/ LoopAt("restart")
    /\ scanning' = TRUE
    /\ seen' = {}
    /\ loop' = IF loop.pc = "rescan" THEN [loop EXCEPT !.pc = "pop"] ELSE IdleLoop
    /\ UNCHANGED <<table, radio, pendingQueue, doScan, host, sender, up>>

PopPending ==
    /\ LoopAt("pop")
    /\ IF pendingQueue = <<>>
       THEN /\ loop' = IdleLoop
            /\ UNCHANGED pendingQueue
       ELSE /\ loop' = [loop EXCEPT !.pc = "stop", !.addr = Head(pendingQueue)]
            /\ pendingQueue' = Tail(pendingQueue)
    /\ UNCHANGED <<table, radio, doScan, scanning, seen, host, sender, up>>

StopScan ==
    /\ LoopAt("stop")
    /\ scanning' = FALSE
    /\ loop' = [loop EXCEPT !.pc = "slot"]
    /\ UNCHANGED <<table, radio, pendingQueue, doScan, seen, host, sender, up>>

(* connectToNode: findEmptySlot. *)
ChooseSlot ==
    /\ LoopAt("slot")
    /\ loop' = IF findEmptySlot = 0 THEN Finish
               ELSE [loop EXCEPT !.pc = "acquire", !.slot = findEmptySlot]
    /\ UNCHANGED <<table, radio, scan, host, sender, up>>

(* acquireClient: a client left in an unused slot, or a new one while the  *)
(* stack has room for one.                                                 *)
AcquireClient ==
    /\ LoopAt("acquire")
    /\ \/ /\ findReusable # 0
          /\ loop' = [loop EXCEPT !.pc = "connect", !.client = nodes[findReusable].client]
          /\ nodes' = Taken(findReusable)
          /\ UNCHANGED created
       \/ /\ findReusable = 0
          /\ CanCreate
          /\ loop' = [loop EXCEPT !.pc = "connect", !.client = created + 1]
          /\ created' = created + 1
          /\ UNCHANGED nodes
       \/ /\ findReusable = 0
          /\ ~CanCreate
          /\ loop' = Finish
          /\ UNCHANGED <<nodes, created>>
    /\ UNCHANGED <<radio, scan, host, sender, up>>

(* client->connect(addr) returns true: the node was advertising and        *)
(* neither the client nor the address has a link.                          *)
ConnectOk ==
    /\ LoopAt("connect")
    /\ host.pc = "idle"
    /\ loop.addr \in adv
    /\ \A c \in Client : link[c] # loop.addr
    /\ link[loop.client] = None
    /\ link' = [link EXCEPT ![loop.client] = loop.addr]
    /\ adv' = adv \ {loop.addr}
    /\ loop' = [loop EXCEPT !.pc = "discover"]
    /\ UNCHANGED <<table, closing, talks, scan, host, sender, up>>

ConnectFails ==
    /\ LoopAt("connect")
    /\ loop' = [loop EXCEPT !.pc = "stash"]
    /\ UNCHANGED <<table, radio, scan, host, sender, up>>

(* discoverAndSubscribe returns the service.  The result of subscribe is   *)
(* not looked at, so the link may be lost again when it returns.           *)
DiscoverOk ==
    /\ LoopAt("discover")
    /\ host.pc = "idle"
    /\ link[loop.client] # None
    /\ loop' = [loop EXCEPT !.pc = "register"]
    /\ UNCHANGED <<table, radio, scan, host, sender, up>>

DiscoverFails ==
    /\ LoopAt("discover")
    /\ loop' = [loop EXCEPT !.pc = "stash"]
    /\ UNCHANGED <<table, radio, scan, host, sender, up>>

Mut_DisconnectAndStash ==
    /\ LoopAt("stash")
    /\ nodes' = IF stashSlot = 0 THEN nodes
                ELSE [nodes EXCEPT ![stashSlot].client = loop.client]
    /\ loop' = Finish
    /\ UNCHANGED <<created, radio, scan, host, sender, up>>

(* disconnectAndStash: disconnect() asks for the link to be closed, if     *)
(* there is one; stashClient keeps the client, if there is a place.        *)
DisconnectAndStash ==
    /\ LoopAt("stash")
    /\ closing' = IF link[loop.client] = None THEN closing
                  ELSE closing \cup {loop.client}
    /\ nodes' = IF stashSlot = 0 THEN nodes
                ELSE [nodes EXCEPT ![stashSlot].client = loop.client]
    /\ loop' = Finish
    /\ UNCHANGED <<created, link, adv, talks, scan, host, sender, up>>

Mut_RegisterClient ==
    /\ LoopAt("register")
    /\ \E ok \in BOOLEAN :
         /\ ok => host.pc = "idle" /\ link[loop.client] # None
         /\ nodes' = [nodes EXCEPT ![loop.slot].client = loop.client,
                                   ![loop.slot].configChar = ok]
    /\ loop' = [loop EXCEPT !.pc = "use"]
    /\ UNCHANGED <<created, radio, scan, host, sender, up>>

(* registerNode up to the lookup of the CONFIG characteristic, which is    *)
(* null when the link is gone, and may be for any node.                    *)
RegisterClient ==
    /\ LoopAt("register")
    /\ \E ok \in BOOLEAN :
         /\ ok => host.pc = "idle" /\ link[loop.client] # None
         /\ nodes' = [nodes EXCEPT ![loop.slot].client = loop.client,
                                   ![loop.slot].configChar = ok,
                                   ![loop.slot].addr = loop.addr]
    /\ loop' = [loop EXCEPT !.pc = "use"]
    /\ UNCHANGED <<created, radio, scan, host, sender, up>>

(* registerNode: nodes[slot].used = true. *)
RegisterSlot ==
    /\ LoopAt("use")
    /\ nodes' = [nodes EXCEPT ![loop.slot].used = TRUE]
    /\ loop' = [loop EXCEPT !.pc = "ready", !.client = None]
    /\ UNCHANGED <<created, radio, scan, host, sender, up>>

(* registerNode after its delay: the test of configChar before HUB_READY.  *)
(* The flush of pending commands that follows is in CmdDispatcher.         *)
CheckReady ==
    /\ LoopAt("ready")
    /\ loop' = IF nodes[loop.slot].configChar THEN [loop EXCEPT !.pc = "write"] ELSE Finish
    /\ UNCHANGED <<table, radio, scan, host, sender, up>>

(* configChar->writeValue reaches the node while the client has its link.  *)
Written(s) ==
    talks \cup {c \in Client : nodes[s].configChar /\ nodes[s].client = c /\ link[c] # None}

(* registerNode: configChar->writeValue(HUB_READY), configChar read again. *)
WriteReady ==
    /\ LoopAt("write")
    /\ up' = nodes[loop.slot].configChar
    /\ talks' = Written(loop.slot)
    /\ loop' = Finish
    /\ UNCHANGED <<table, link, closing, adv, scan, host, sender>>

(* The steps of the loop task that do not depend on the radio. *)
LoopTask ==
    \/ LoopStart
    \/ StartScan
    \/ PopPending
    \/ StopScan
    \/ ChooseSlot
    \/ AcquireClient
    \/ ConnectFails
    \/ DiscoverFails
    \/ DisconnectAndStash
    \/ RegisterClient
    \/ RegisterSlot
    \/ CheckReady
    \/ WriteReady
    \/ ConnectOk
    \/ DiscoverOk

-----------------------------------------------------------------------------
(* esp_mqtt task: bleSendToNode *)

SendCheck(a) ==
    /\ SenderAt("idle")
    /\ findSlotByAddr(a) # 0
    /\ nodes[findSlotByAddr(a)].configChar
    /\ sender' = [pc |-> "write", slot |-> findSlotByAddr(a)]
    /\ UNCHANGED <<table, radio, scan, loop, host, up>>

(* nodes[slot].configChar->writeValue, configChar read again. *)
SendWrite ==
    /\ SenderAt("write")
    /\ up' = nodes[sender.slot].configChar
    /\ talks' = Written(sender.slot)
    /\ sender' = IdleSender
    /\ UNCHANGED <<table, link, closing, adv, scan, loop, host>>

-----------------------------------------------------------------------------

(* A hub that followed a null pointer restarts; nothing of the table is    *)
(* persistent and its links are gone.                                      *)
Reboot ==
    /\ ~up
    /\ nodes' = [s \in Slot |-> EmptySlotRecord]
    /\ created' = 0
    /\ link' = [c \in Client |-> None]
    /\ closing' = {}
    /\ talks' = {}
    /\ pendingQueue' = <<>>
    /\ doScan' = FALSE
    /\ scanning' = TRUE
    /\ seen' = {}
    /\ loop' = IdleLoop
    /\ host' = IdleHost
    /\ sender' = IdleSender
    /\ up' = TRUE
    /\ UNCHANGED adv

Next ==
    \/ \E a \in Node : Wake(a) \/ Sleep(a) \/ ScanResult(a)
    \/ \E c \in Client : LinkLost(c) \/ OnNotify(c)
    \/ HostTask
    \/ LoopTask
    \/ \E a \in Target : SendCheck(a)
    \/ SendWrite
    \/ Reboot

Spec == Init /\ [][Next]_vars

(* The tasks run for ever.  The stack reports the end of a link that was   *)
(* closed, or whose node is advertising again, and it reports a node that  *)
(* keeps advertising.                                                      *)
Fairness ==
    /\ WF_vars(LoopTask)
    /\ WF_vars(HostTask)
    /\ \A c \in Client : WF_vars((c \in closing \/ link[c] \in adv) /\ LinkLost(c))
    /\ \A a \in Node : SF_vars(ScanResult(a))
    /\ WF_vars(Reboot)

FairSpec == Spec /\ Fairness

-----------------------------------------------------------------------------
(* Properties *)

(* What the table and the records of the tasks range over. *)
NodeRecord == [client : Client \cup {None}, configChar : BOOLEAN,
               addr : Node \cup {None}, used : BOOLEAN]

LoopRecord == [pc : {"tick", "rescan", "pop", "stop", "slot", "acquire", "connect",
                     "discover", "stash", "register", "use", "ready", "write", "restart"},
               addr : Node \cup {None}, slot : Slot \cup {0}, client : Client \cup {None}]

HostRecord == [pc : {"idle", "push", "disconnect", "clear", "notify"}, addr : Node \cup {None},
               client : Client \cup {None}, slot : Slot \cup {0}]

SenderRecord == [pc : {"idle", "write"}, slot : Slot \cup {0}]

(* Type invariant. *)
TypeOK ==
    /\ nodes \in [Slot -> NodeRecord]
    /\ created \in 0 .. MAX_NODES
    /\ link \in [Client -> Node \cup {None}]
    /\ closing \subseteq Client
    /\ pendingQueue \in Seq(Node)
    /\ Len(pendingQueue) <= PENDING_MAX
    /\ doScan \in BOOLEAN
    /\ scanning \in BOOLEAN
    /\ seen \subseteq Node
    /\ adv \subseteq Node
    /\ talks \subseteq Client
    /\ loop \in LoopRecord
    /\ host \in HostRecord
    /\ sender \in SenderRecord
    /\ up \in BOOLEAN

(* The registration is under way: the slot refers to the loop task's own   *)
(* client and is not in use yet.                                           *)
Registering(s) == loop.pc = "use" /\ loop.slot = s

(* A client object belongs to one slot or to the loop task, never to two:  *)
(* reusing and stashing clients without a lock never connects one object   *)
(* for two nodes, and a slot in use has a client                           *)
(* (ble_central.cpp:70-78, ble_connection.cpp:65-104).                     *)
ClientsNotShared ==
    /\ \A s, t \in Slot :
         (nodes[s].client # None /\ nodes[s].client = nodes[t].client) => s = t
    /\ \A s \in Slot : (nodes[s].client # None /\ nodes[s].client = loop.client) => Registering(s)
    /\ \A s \in Slot : nodes[s].used => nodes[s].client # None

(* The end of a client's link is known to the host task and on its way to  *)
(* the table.                                                              *)
Reported(c) == host.pc = "disconnect" /\ host.client = c

(* A slot in use whose link is gone and that no callback will free.        *)
Ghost(s) ==
    /\ nodes[s].used
    /\ link[nodes[s].client] # nodes[s].addr
    /\ ~Reported(nodes[s].client)

(* Every link is accounted for: its client is registered for that address, *)
(* or the loop task is setting it up, or the hub has asked to close it, so *)
(* that a node is never held in a connection the hub does not use          *)
(* (ble_connection.cpp:75-139).                                            *)
NoOrphanLink ==
    \A c \in Client : link[c] # None =>
        \/ \E s \in Slot : nodes[s].used /\ nodes[s].client = c /\ nodes[s].addr = link[c]
        \/ loop.client = c
        \/ c \in closing

(* The second half of onDisconnect, which clears configChar without a      *)
(* lock, never hits a slot the loop task has registered, or is             *)
(* registering, for a new connection (ble_connection.cpp:45-56, 99-104).   *)
NoLateClear ==
    (host.pc = "clear" /\ host.slot # 0) =>
        ~nodes[host.slot].used /\ ~Registering(host.slot)

(* A report or an acknowledgement is labelled with the address its         *)
(* sender's link leads to, and the slot that was looked up keeps its       *)
(* client, so that no null pointer is followed for the signal strength.    *)
(* Only on a hub that sends commands while the table changes can one come  *)
(* from a node without a slot: a node speaks after the hub has entered it  *)
(* in the table, or when a write meant for another node has reached it     *)
(* (ble_data.cpp:12-15, 29-42, 73-95, ble_connection.cpp:99-112).          *)
NotificationAttributed ==
    host.pc = "notify" =>
        /\ host.slot = 0 => Target # {}
        /\ host.slot # 0 =>
              /\ nodes[host.slot].used
              /\ nodes[host.slot].client = host.client
              /\ nodes[host.slot].addr = link[host.client]

(* disconnectAndStash always finds a slot without a client, although       *)
(* onDisconnect may free slots at any time, so a failed connection never   *)
(* leaks a client (ble_connection.cpp:65-78).                              *)
StashFindsPlace == loop.pc = "stash" => stashSlot # 0

(* The loop task has work that ends with a new scan, which reports every   *)
(* advertiser again.                                                       *)
ScanWillRestart ==
    \/ doScan
    \/ loop.pc \notin {"tick", "pop"}
    \/ pendingQueue # <<>>
    \/ host.pc # "idle"

(* No advertiser is forgotten: one that the running scan will not report   *)
(* again, because it was turned down or its connection failed, is followed *)
(* by a new scan, unless the table has no free slot or holds a connection  *)
(* to it whose end the hub will notice (ble_connection.cpp:25-56,          *)
(* ble_central.cpp:105-114).                                               *)
NoneForgotten ==
    \A a \in seen \cap adv :
        \/ ScanWillRestart
        \/ findEmptySlot = 0
        \/ isAlreadyConnected(a)
        \/ \E c \in Client : link[c] = a

(* pendingQueue holds an address at most once (ble_connection.cpp:15-36).  *)
PendingDistinct ==
    \A i, j \in 1 .. Len(pendingQueue) : pendingQueue[i] = pendingQueue[j] => i = j

TriesToConnect(a) == loop.pc = "connect" /\ loop.addr = a

(* A node that keeps advertising is tried again and again, if a slot stays *)
(* free and no ghost holds its address (ble_central.cpp:105-114,           *)
(* ble_connection.cpp:25-56, 151-158).                                     *)
EventuallyTried ==
    \A a \in Node :
        (<>[](/\ up
              /\ a \in adv
              /\ findEmptySlot # 0
              /\ \A s \in Slot : ~(Ghost(s) /\ nodes[s].addr = a)))
            => []<>TriesToConnect(a)

-----------------------------------------------------------------------------
(* Statements of the documentation that the code does not keep. *)

(* docs/ROADMAP.md: a node that wakes is connected again automatically.    *)
ReconnectedOnWake ==
    \A a \in Node :
        (<>[](up /\ a \in adv /\ findEmptySlot # 0)) => []<>TriesToConnect(a)

(* ble_central.h: sending to a node that is not connected, or was lost     *)
(* meanwhile, returns false; no null pointer is followed.                  *)
SendNeverCrashes == [][SendWrite => up']_vars

=============================================================================
