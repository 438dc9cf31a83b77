-------------------------- MODULE BleCentralProofs --------------------------
(***************************************************************************)
(* Type correctness of the connection table, and that no client object is  *)
(* ever shared, for any number of slots and nodes.                         *)
(***************************************************************************)
EXTENDS BleCentral, SlotSearchProofs, TLAPS

(* Where the loop task has chosen a slot. *)
WithSlot == {"acquire", "connect", "discover", "stash", "register", "use", "ready", "write"}

(* Where the loop task owns a client. *)
WithClient == {"connect", "discover", "stash", "register", "use"}

(* What each task's record holds at each point of its code. *)
Control ==
    /\ loop.pc \in WithSlot => loop.slot \in Slot
    /\ loop.pc \in WithClient <=> loop.client # None
    /\ host.pc = "push" => host.addr \in Node
    /\ sender.pc = "write" => sender.slot \in Slot

(* Who holds which client object; only created ones are held. *)
Ownership ==
    /\ \A s \in Slot : nodes[s].client # None => nodes[s].client <= created
    /\ loop.client # None => loop.client <= created
    /\ loop.pc = "use" => nodes[loop.slot].client = loop.client
    /\ ClientsNotShared

IInv == TypeOK /\ Control /\ Ownership

(* The searches of the table return 0 or a slot.                           *)
LEMMA Searches ==
    /\ findEmptySlot \in Slot \cup {0}
    /\ findReusable \in Slot \cup {0}
    /\ stashSlot \in Slot \cup {0}
    /\ \A c : findSlotByClient(c) \in Slot \cup {0}
    /\ \A a : findSlotByAddr(a) \in Slot \cup {0}
<1> USE CentralAssumption
<1>1. ASSUME NEW S \in SUBSET Slot PROVE Lowest(S) \in Slot \cup {0}
  BY LowestFound DEF Slot
<1> QED BY <1>1 DEF findEmptySlot, findReusable, stashSlot, findSlotByClient, findSlotByAddr

(* What the searches return satisfies their predicates.                    *)
LEMMA Found ==
    /\ findReusable # 0 => /\ findReusable \in Slot
                           /\ ~nodes[findReusable].used
                           /\ nodes[findReusable].client # None
    /\ findReusable = 0 => \A s \in Slot : ~nodes[s].used => nodes[s].client = None
    /\ stashSlot # 0 => /\ stashSlot \in Slot
                        /\ ~nodes[stashSlot].used
                        /\ nodes[stashSlot].client = None
<1> USE CentralAssumption
<1>1. ASSUME NEW S \in SUBSET Slot
      PROVE  (Lowest(S) = 0 <=> S = {}) /\ (Lowest(S) # 0 => Lowest(S) \in S)
  BY LowestFound DEF Slot
<1>2. findReusable # 0 => findReusable \in {s \in Slot : ~nodes[s].used /\ nodes[s].client # None}
  BY <1>1 DEF findReusable
<1>3. findReusable = 0 => {s \in Slot : ~nodes[s].used /\ nodes[s].client # None} = {}
  BY <1>1 DEF findReusable
<1>4. stashSlot # 0 => stashSlot \in {s \in Slot : ~nodes[s].used /\ nodes[s].client = None}
  BY <1>1 DEF stashSlot
<1> QED BY <1>2, <1>3, <1>4

(* Assigning one field of a slot keeps the type of the table.              *)
LEMMA SlotUpdate ==
    ASSUME NEW table0 \in [Slot -> NodeRecord], NEW s \in Slot
    PROVE  /\ \A v \in BOOLEAN : [table0 EXCEPT ![s].used = v] \in [Slot -> NodeRecord]
           /\ \A v \in BOOLEAN : [table0 EXCEPT ![s].configChar = v] \in [Slot -> NodeRecord]
           /\ \A c \in Client \cup {None} :
                [table0 EXCEPT ![s].client = c] \in [Slot -> NodeRecord]
<1>1. \A v \in BOOLEAN : [table0[s] EXCEPT !.used = v] \in NodeRecord
  BY DEF NodeRecord
<1>2. \A v \in BOOLEAN : [table0[s] EXCEPT !.configChar = v] \in NodeRecord
  BY DEF NodeRecord
<1>3. \A c \in Client \cup {None} : [table0[s] EXCEPT !.client = c] \in NodeRecord
  BY DEF NodeRecord
<1> QED BY <1>1, <1>2, <1>3

(* The table a hub starts with. *)
LEMMA EmptyTableType == [s \in Slot |-> EmptySlotRecord] \in [Slot -> NodeRecord]
<1>1. EmptySlotRecord \in NodeRecord
  BY DEF EmptySlotRecord, NodeRecord
<1> QED BY <1>1

LEMMA TableType ==
    ASSUME TypeOK
    PROVE  nodes \in [Slot -> NodeRecord]
BY DEF TypeOK, NodeRecord

LEMMA SlotClient ==
    ASSUME TypeOK, NEW s \in Slot
    PROVE  nodes[s].client \in Client \cup {None}
<1>1. nodes[s] \in NodeRecord
  BY DEF TypeOK
<1> QED BY <1>1 DEF NodeRecord

-----------------------------------------------------------------------------
(* Every step of every task keeps the types and the meaning of the program *)
(* counters.                                                               *)
LEMMA TypeStep ==
    ASSUME TypeOK, Control, [Next]_vars
    PROVE  TypeOK' /\ Control'
<1> USE CentralAssumption DEF TypeOK, Control, WithSlot, WithClient, table, radio, scan,
        LoopAt, HostAt, SenderAt, Finish, IdleLoop, IdleHost, IdleSender, LoopRecord, HostRecord, SenderRecord
<1>1. ASSUME NEW a \in Node, Wake(a) PROVE TypeOK' /\ Control'
  BY <1>1 DEF Wake
<1>2. ASSUME NEW a \in Node, Sleep(a) PROVE TypeOK' /\ Control'
  BY <1>2 DEF Sleep
<1>3. ASSUME NEW a \in Node, ScanResult(a) PROVE TypeOK' /\ Control'
  <2>1. host' = host \/ host' = [host EXCEPT !.pc = "push", !.addr = a]
    BY <1>3 DEF ScanResult
  <2>2. host' \in HostRecord /\ (host'.pc = "push" => host'.addr \in Node)
    BY <2>1
  <2>3. /\ seen' = seen \cup {a}
        /\ UNCHANGED <<table, radio, pendingQueue, doScan, scanning, loop, sender, up>>
    BY <1>3 DEF ScanResult
  <2> QED BY <2>2, <2>3
<1>4. ASSUME NEW c \in Client, LinkLost(c) PROVE TypeOK' /\ Control'
  BY <1>4 DEF LinkLost
<1>5. CASE PushResult
  BY <1>5 DEF PushResult
<1>6. CASE OnDisconnect
  <2>1. nodes' \in [Slot -> NodeRecord]
    <3>1. CASE findSlotByClient(host.client) = 0
      BY <1>6, <3>1 DEF OnDisconnect, NodeRecord
    <3>2. CASE findSlotByClient(host.client) # 0
      <4>1. findSlotByClient(host.client) \in Slot
        BY <3>2, Searches
      <4> QED BY <1>6, <3>2, <4>1, TableType, SlotUpdate DEF OnDisconnect
    <3> QED BY <3>1, <3>2
  <2>2. host' \in HostRecord /\ host'.pc = "clear"
    BY <1>6, Searches DEF OnDisconnect, HostRecord
  <2> QED BY <1>6, <2>1, <2>2 DEF OnDisconnect
<1>7. CASE OnDisconnectEnds
  <2>1. nodes' \in [Slot -> NodeRecord]
    <3>1. CASE host.slot = 0
      BY <1>7, <3>1 DEF OnDisconnectEnds, Cleared, NodeRecord
    <3>2. CASE host.slot # 0
      <4>1. host.slot \in Slot
        BY <3>2
      <4> QED BY <1>7, <3>2, <4>1, TableType, SlotUpdate DEF OnDisconnectEnds, Cleared
    <3> QED BY <3>1, <3>2
  <2> QED BY <1>7, <2>1 DEF OnDisconnectEnds
<1>8. CASE LoopStart
  <2>1. nodes' \in [Slot -> NodeRecord]
    <3>1. \A s \in Slot : nodes[s] \in NodeRecord
                           /\ [nodes[s] EXCEPT !.configChar = FALSE] \in NodeRecord
      <4> TAKE s \in Slot
      <4>1. nodes[s] \in NodeRecord
        BY TableType
      <4>2. [nodes[s] EXCEPT !.configChar = FALSE] \in NodeRecord
        BY <4>1, Zenon DEF NodeRecord
      <4> QED BY <4>1, <4>2
    <3> QED BY <1>8, <3>1 DEF LoopStart
  <2>2. loop' \in LoopRecord /\ loop'.pc \in {"rescan", "pop"} /\ loop'.client = loop.client
    BY <1>8 DEF LoopStart, LoopRecord
  <2>3. /\ loop.pc = "tick"
        /\ doScan' = FALSE
        /\ UNCHANGED <<created, radio, pendingQueue, scanning, seen, host, sender, up>>
    BY <1>8 DEF LoopStart
  <2>4. TypeOK'
    BY <2>1, <2>2, <2>3
  <2>5. loop'.client = None /\ loop'.pc \notin WithSlot \cup WithClient
    BY <2>2, <2>3
  <2> QED BY <2>3, <2>4, <2>5
<1>9. CASE StartScan
  BY <1>9 DEF StartScan
<1>10. CASE PopPending
  <2>1. CASE pendingQueue = <<>>
    BY <1>10, <2>1 DEF PopPending
  <2>2. CASE pendingQueue # <<>>
    <3>1. /\ Head(pendingQueue) \in Node
          /\ Tail(pendingQueue) \in Seq(Node)
          /\ Len(Tail(pendingQueue)) <= PENDING_MAX
      BY <2>2
    <3>2. loop' \in LoopRecord /\ loop'.pc = "stop" /\ loop'.client = loop.client
      <4>1. loop' = [loop EXCEPT !.pc = "stop", !.addr = Head(pendingQueue)]
        BY <1>10, <2>2 DEF PopPending
      <4> QED BY <3>1, <4>1
    <3>3. /\ pendingQueue' = Tail(pendingQueue)
          /\ loop.pc = "pop"
          /\ UNCHANGED <<table, radio, doScan, scanning, seen, host, sender, up>>
      BY <1>10, <2>2 DEF PopPending
    <3> QED BY <3>1, <3>2, <3>3 DEF LoopRecord
  <2> QED BY <2>1, <2>2
<1>11. CASE StopScan
  BY <1>11 DEF StopScan
<1>12. CASE ChooseSlot
  <2>1. CASE findEmptySlot = 0
    BY <1>12, <2>1 DEF ChooseSlot
  <2>2. CASE findEmptySlot # 0
    <3>1. findEmptySlot \in Slot
      BY <2>2, Searches
    <3>2. /\ loop' = [loop EXCEPT !.pc = "acquire", !.slot = findEmptySlot]
          /\ loop.pc = "slot"
          /\ UNCHANGED <<table, radio, scan, host, sender, up>>
      BY <1>12, <2>2 DEF ChooseSlot
    <3>3. /\ loop' \in LoopRecord
          /\ loop'.pc = "acquire"
          /\ loop'.slot \in Slot
          /\ loop'.client = loop.client
      BY <3>1, <3>2
    <3> QED BY <3>2, <3>3
  <2> QED BY <2>1, <2>2
<1>13. CASE AcquireClient
  <2>1. CASE findReusable # 0
    <3>1. /\ findReusable \in Slot
          /\ nodes[findReusable].client \in Client
          /\ nodes[findReusable].client # None
      BY <2>1, Found, TableType DEF NodeRecord
    <3>2. nodes' \in [Slot -> NodeRecord]
      BY <1>13, <2>1, <3>1 DEF AcquireClient, Taken, NodeRecord
    <3>3. loop' = [loop EXCEPT !.pc = "connect", !.client = nodes[findReusable].client]
      BY <1>13, <2>1 DEF AcquireClient
    <3>4. loop' \in LoopRecord /\ loop'.pc = "connect" /\ loop'.client # None
          /\ loop'.slot = loop.slot /\ loop.slot \in Slot
      <4> DEFINE c == nodes[findReusable].client
      <4>1. c \in Client /\ c # None
        BY <3>1
      <4>2. loop.slot \in Slot
        BY <1>13 DEF AcquireClient
      <4>3. loop' = [loop EXCEPT !.pc = "connect", !.client = c]
        BY <3>3
      <4> HIDE DEF c
      <4> QED BY <4>1, <4>2, <4>3 DEF LoopRecord
    <3>5. UNCHANGED <<created, link, closing, adv, talks, pendingQueue, doScan, scanning, seen,
                      host, sender, up>>
      BY <1>13, <2>1 DEF AcquireClient
    <3> QED BY <3>2, <3>4, <3>5
  <2>2. CASE findReusable = 0 /\ CanCreate
    <3>1. created + 1 \in Client /\ created + 1 # None
      BY <2>2 DEF CanCreate, Client
    <3>2. loop' = [loop EXCEPT !.pc = "connect", !.client = created + 1] /\ created' = created + 1
      BY <1>13, <2>2 DEF AcquireClient
    <3>3. loop' \in LoopRecord /\ loop'.pc = "connect" /\ loop'.client # None
          /\ loop'.slot = loop.slot /\ loop.slot \in Slot
      BY <1>13, <3>1, <3>2 DEF AcquireClient, LoopRecord
    <3>4. created' \in 0 .. MAX_NODES
      BY <2>2, <3>2 DEF CanCreate
    <3>5. UNCHANGED <<nodes, link, closing, adv, talks, pendingQueue, doScan, scanning, seen,
                      host, sender, up>>
      BY <1>13, <2>2 DEF AcquireClient
    <3> QED BY <3>3, <3>4, <3>5 DEF LoopRecord
  <2>3. CASE findReusable = 0 /\ ~CanCreate
    BY <1>13, <2>3 DEF AcquireClient
  <2> QED BY <2>1, <2>2, <2>3
<1>14. CASE ConnectFails
  BY <1>14 DEF ConnectFails
<1>15. CASE DiscoverFails
  BY <1>15 DEF DiscoverFails
<1>16. CASE DisconnectAndStash
  <2>1. nodes' \in [Slot -> NodeRecord]
    <3>1. CASE stashSlot = 0
      BY <1>16, <3>1 DEF DisconnectAndStash, NodeRecord
    <3>2. CASE stashSlot # 0
      <4>1. stashSlot \in Slot
        BY <3>2, Searches
      <4> QED BY <1>16, <3>2, <4>1 DEF DisconnectAndStash, NodeRecord
    <3> QED BY <3>1, <3>2
  <2>2. closing' \subseteq Client
    BY <1>16 DEF DisconnectAndStash
  <2>3. loop' = Finish
    BY <1>16 DEF DisconnectAndStash
  <2>4. UNCHANGED <<created, link, adv, talks, pendingQueue, doScan, scanning, seen, host, sender, up>>
    BY <1>16 DEF DisconnectAndStash
  <2> QED BY <2>1, <2>2, <2>3, <2>4
<1>17. CASE RegisterClient
  <2>1. loop.slot \in Slot /\ loop.client \in Client
    BY <1>17 DEF RegisterClient
  <2>2. PICK ok \in BOOLEAN : nodes' = [nodes EXCEPT ![loop.slot].client = loop.client,
                                                    ![loop.slot].configChar = ok,
                                                    ![loop.slot].addr = loop.addr]
    BY <1>17 DEF RegisterClient
  <2>3. nodes' \in [Slot -> NodeRecord]
    BY <2>1, <2>2, TableType DEF NodeRecord
  <2>4. /\ loop.pc = "register"
        /\ loop' = [loop EXCEPT !.pc = "use"]
        /\ UNCHANGED <<created, radio, scan, host, sender, up>>
    BY <1>17 DEF RegisterClient
  <2> QED BY <2>3, <2>4
<1>18. CASE RegisterSlot
  <2>1. nodes' \in [Slot -> NodeRecord]
    <3>1. loop.slot \in Slot /\ nodes' = [nodes EXCEPT ![loop.slot].used = TRUE]
      BY <1>18 DEF RegisterSlot
    <3> QED BY <3>1, TableType, SlotUpdate
  <2>2. loop' \in LoopRecord /\ loop'.pc = "ready" /\ loop'.client = None /\ loop'.slot \in Slot
    BY <1>18 DEF RegisterSlot, LoopRecord
  <2> QED BY <1>18, <2>1, <2>2 DEF RegisterSlot
<1>19. CASE CheckReady
  BY <1>19 DEF CheckReady
<1>20. CASE WriteReady
  <2>1. up' \in BOOLEAN
    BY <1>20, TableType DEF WriteReady, NodeRecord
  <2>2. talks' \subseteq Client
    BY <1>20 DEF WriteReady, Written
  <2> QED BY <1>20, <2>1, <2>2 DEF WriteReady
<1>21. CASE ConnectOk
  BY <1>21 DEF ConnectOk
<1>22. CASE DiscoverOk
  BY <1>22 DEF DiscoverOk
<1>23. ASSUME NEW a \in Target, SendCheck(a) PROVE TypeOK' /\ Control'
  <2>1. findSlotByAddr(a) \in Slot
    BY <1>23, Searches DEF SendCheck
  <2> QED BY <1>23, <2>1 DEF SendCheck
<1>24. CASE SendWrite
  <2>1. up' \in BOOLEAN
    BY <1>24, TableType DEF SendWrite, NodeRecord
  <2>2. talks' \subseteq Client
    BY <1>24 DEF SendWrite, Written
  <2> QED BY <1>24, <2>1, <2>2 DEF SendWrite
<1>25. CASE Reboot
  <2>1. nodes' \in [Slot -> NodeRecord]
    <3>1. nodes' = [s \in Slot |-> EmptySlotRecord]
      BY <1>25 DEF Reboot
    <3> QED BY <3>1, EmptyTableType
  <2>2. /\ created' \in 0 .. MAX_NODES
        /\ link' \in [Client -> Node \cup {None}]
        /\ pendingQueue' \in Seq(Node)
        /\ Len(pendingQueue') <= PENDING_MAX
    BY <1>25 DEF Reboot
  <2> QED BY <1>25, <2>1, <2>2 DEF Reboot
<1>26. CASE UNCHANGED vars
  BY <1>26 DEF vars
<1>27. ASSUME NEW c \in Client, OnNotify(c) PROVE TypeOK' /\ Control'
  <2>1. host' \in HostRecord /\ host'.pc = "notify"
    BY <1>27, Searches DEF OnNotify, HostRecord
  <2> QED BY <1>27, <2>1 DEF OnNotify, HostRecord
<1>28. CASE OnNotifyEnds
  BY <1>28 DEF OnNotifyEnds
<1> QED
  BY <1>1, <1>2, <1>3, <1>4, <1>5, <1>6, <1>7, <1>8, <1>9, <1>10, <1>11, <1>12, <1>13, <1>14, <1>15, <1>16, <1>17, <1>18, <1>19, <1>20, <1>21, <1>22, <1>23, <1>24, <1>25, <1>26, <1>27, <1>28
  DEF Next, HostTask, LoopTask

(* No step makes two owners of one client.  Only the loop task moves       *)
(* clients; the host task at any moment frees a slot, whose client may     *)
(* then be taken, but only once.                                           *)
LEMMA OwnershipStep ==
    ASSUME IInv, [Next]_vars
    PROVE  Ownership'
<1> USE CentralAssumption DEF IInv, TypeOK, Control, Ownership, ClientsNotShared, Registering,
        WithSlot, WithClient, table, radio, scan, LoopAt, HostAt, SenderAt,
        Finish, IdleLoop, IdleHost, IdleSender
<1>1. ASSUME NEW a \in Node, Wake(a) PROVE Ownership'
  BY <1>1 DEF Wake
<1>2. ASSUME NEW a \in Node, Sleep(a) PROVE Ownership'
  BY <1>2 DEF Sleep
<1>3. ASSUME NEW a \in Node, ScanResult(a) PROVE Ownership'
  BY <1>3 DEF ScanResult
<1>4. ASSUME NEW c \in Client, LinkLost(c) PROVE Ownership'
  BY <1>4 DEF LinkLost
<1>5. CASE PushResult
  BY <1>5 DEF PushResult
<1>6. CASE OnDisconnect
  BY <1>6 DEF OnDisconnect
<1>7. CASE OnDisconnectEnds
  <2>1. \A s \in Slot : nodes'[s].client = nodes[s].client /\ nodes'[s].used = nodes[s].used
    BY <1>7 DEF OnDisconnectEnds, Cleared
  <2>2. loop' = loop /\ created' = created
    BY <1>7 DEF OnDisconnectEnds
  <2> QED BY <2>1, <2>2
<1>8. CASE LoopStart
  BY <1>8 DEF LoopStart
<1>9. CASE StartScan
  BY <1>9 DEF StartScan
<1>10. CASE PopPending
  <2>1. nodes' = nodes /\ created' = created
    BY <1>10 DEF PopPending
  <2>2. loop.client = None /\ loop'.client = None /\ loop'.pc \in {"tick", "stop"}
    <3>1. loop.client = None
      BY <1>10 DEF PopPending
    <3>2. CASE pendingQueue = <<>>
      BY <1>10, <3>2 DEF PopPending
    <3>3. CASE pendingQueue # <<>>
      <4>1. loop' = [loop EXCEPT !.pc = "stop", !.addr = Head(pendingQueue)]
        BY <1>10, <3>3 DEF PopPending
      <4> QED BY <3>1, <4>1
    <3> QED BY <3>1, <3>2, <3>3
  <2> QED BY <2>1, <2>2
<1>11. CASE StopScan
  BY <1>11 DEF StopScan
<1>12. CASE ChooseSlot
  BY <1>12 DEF ChooseSlot
<1>13. CASE AcquireClient
  <2>1. CASE findReusable # 0
    <3>1. /\ findReusable \in Slot
          /\ ~nodes[findReusable].used
          /\ nodes[findReusable].client # None
      BY <2>1, Found
    <3>2. /\ nodes' = [nodes EXCEPT ![findReusable].client = None]
          /\ loop' = [loop EXCEPT !.pc = "connect", !.client = nodes[findReusable].client]
          /\ created' = created
      BY <1>13, <2>1 DEF AcquireClient, Taken
    <3>3. \A s \in Slot : /\ nodes'[s].used = nodes[s].used
                           /\ (s # findReusable => nodes'[s].client = nodes[s].client)
                           /\ (s = findReusable => nodes'[s].client = None)
      BY <3>1, <3>2
    <3>4. loop'.client = nodes[findReusable].client /\ loop'.pc = "connect"
      BY <3>2
    <3> QED BY <3>1, <3>2, <3>3, <3>4
  <2>2. CASE findReusable = 0 /\ CanCreate
    <3>1. /\ loop' = [loop EXCEPT !.pc = "connect", !.client = created + 1]
          /\ created' = created + 1
          /\ nodes' = nodes
      BY <1>13, <2>2 DEF AcquireClient
    <3>2. loop'.client = created + 1 /\ loop'.pc = "connect"
      BY <3>1
    <3>3. \A s \in Slot : nodes[s].client # None =>
             nodes[s].client \in Nat /\ nodes[s].client <= created
      <4> TAKE s \in Slot
      <4>1. nodes[s].client \in Client \cup {None}
        BY SlotClient
      <4>2. nodes[s].client # None => nodes[s].client <= created
        OBVIOUS
      <4> QED BY <4>1, <4>2 DEF Client
    <3> QED BY <3>1, <3>2, <3>3
  <2>3. CASE findReusable = 0 /\ ~CanCreate
    BY <1>13, <2>3 DEF AcquireClient
  <2> QED BY <2>1, <2>2, <2>3
<1>14. CASE ConnectFails
  BY <1>14 DEF ConnectFails
<1>15. CASE DiscoverFails
  BY <1>15 DEF DiscoverFails
<1>16. CASE DisconnectAndStash
  BY <1>16 DEF DisconnectAndStash
<1>17. CASE RegisterClient
  BY <1>17 DEF RegisterClient
<1>18. CASE RegisterSlot
  BY <1>18 DEF RegisterSlot
<1>19. CASE CheckReady
  BY <1>19 DEF CheckReady
<1>20. CASE WriteReady
  BY <1>20 DEF WriteReady
<1>21. CASE ConnectOk
  BY <1>21 DEF ConnectOk
<1>22. CASE DiscoverOk
  BY <1>22 DEF DiscoverOk
<1>23. ASSUME NEW a \in Target, SendCheck(a) PROVE Ownership'
  BY <1>23 DEF SendCheck
<1>24. CASE SendWrite
  BY <1>24 DEF SendWrite
<1>25. CASE Reboot
  <2>1. /\ nodes' = [s \in Slot |-> EmptySlotRecord]
        /\ loop'.client = None /\ loop'.pc = "tick"
    BY <1>25 DEF Reboot
  <2>2. \A s \in Slot : nodes'[s].client = None /\ ~nodes'[s].used
    BY <2>1 DEF EmptySlotRecord
  <2> QED BY <2>1, <2>2
<1>26. CASE UNCHANGED vars
  BY <1>26 DEF vars
<1>27. ASSUME NEW c \in Client, OnNotify(c) PROVE Ownership'
  BY <1>27 DEF OnNotify
<1>28. CASE OnNotifyEnds
  BY <1>28 DEF OnNotifyEnds
<1> QED
  BY <1>1, <1>2, <1>3, <1>4, <1>5, <1>6, <1>7, <1>8, <1>9, <1>10, <1>11, <1>12, <1>13, <1>14, <1>15, <1>16, <1>17, <1>18, <1>19, <1>20, <1>21, <1>22, <1>23, <1>24, <1>25, <1>26, <1>27, <1>28
  DEF Next, HostTask, LoopTask

(* The invariant holds in every reachable state, crashes and restarts      *)
(* included.                                                               *)
THEOREM Invariance == Spec => []IInv
<1>1. Init => IInv
  <2> SUFFICES ASSUME Init PROVE IInv
    OBVIOUS
  <2>1. nodes \in [Slot -> NodeRecord] /\ \A s \in Slot : nodes[s].client = None /\ ~nodes[s].used
    BY EmptyTableType DEF Init, HubInit, EmptySlotRecord
  <2>2. TypeOK
    <3>1. loop = IdleLoop /\ host = IdleHost /\ sender = IdleSender
      BY DEF Init, HubInit
    <3>2. loop \in LoopRecord /\ host \in HostRecord /\ sender \in SenderRecord
      BY <3>1 DEF IdleLoop, IdleHost, IdleSender, LoopRecord, HostRecord, SenderRecord
    <3>3. /\ created \in 0 .. MAX_NODES
          /\ link \in [Client -> Node \cup {None}]
          /\ pendingQueue \in Seq(Node)
          /\ Len(pendingQueue) <= PENDING_MAX
      BY CentralAssumption DEF Init, HubInit
    <3>4. /\ closing \subseteq Client /\ doScan \in BOOLEAN /\ scanning \in BOOLEAN
          /\ seen \subseteq Node /\ adv \subseteq Node /\ talks \subseteq Client
          /\ up \in BOOLEAN
      BY DEF Init, HubInit
    <3> QED BY <2>1, <3>2, <3>3, <3>4 DEF TypeOK
  <2>3. Control /\ Ownership
    BY <2>1 DEF Init, HubInit, Control, Ownership, ClientsNotShared, WithSlot, WithClient,
                IdleLoop, IdleHost, IdleSender
  <2> QED BY <2>2, <2>3 DEF IInv
<1>2. IInv /\ [Next]_vars => IInv'
  BY TypeStep, OwnershipStep DEF IInv
<1> QED BY <1>1, <1>2, PTL DEF Spec

(* The type invariant of the table, the queue and the three tasks          *)
(* (ble_internal.h:18-24, ble_connection.cpp:12).                          *)
THEOREM TypeCorrect == Spec => []TypeOK
<1>1. IInv => TypeOK
  BY DEF IInv
<1> QED BY <1>1, Invariance, PTL

(* However the callbacks of the host task fall between the steps of the    *)
(* loop task, no client object is in two slots, or in a slot and in the    *)
(* loop task's hands, and every slot in use has one                        *)
(* (ble_central.cpp:70-78, ble_connection.cpp:65-104).                     *)
THEOREM ClientsNeverShared == Spec => []ClientsNotShared
<1>1. IInv => ClientsNotShared
  BY DEF IInv, Ownership
<1> QED BY <1>1, Invariance, PTL

=============================================================================
