--------------------------- MODULE BleLinkProofs ---------------------------
(***************************************************************************)
(* What the hub's table of connections keeps true of the links, of the     *)
(* queue of found nodes and of the scan, for any number of slots and       *)
(* nodes.  Every invariant here is proved inductive on top of the one of   *)
(* BleCentralProofs.                                                       *)
(***************************************************************************)
EXTENDS BleCentralProofs

(* Where the loop task holds a slot it has not yet put in use. *)
Holding == {"acquire", "connect", "discover", "stash", "register", "use"}

(* Only the loop task puts a slot in use, so the one it has chosen stays   *)
(* unused until then.                                                      *)
SlotHeld ==
    /\ loop.pc \in Holding => ~nodes[loop.slot].used
    /\ loop.pc = "use" => nodes[loop.slot].addr = loop.addr

(* What findEmptySlot and findSlotByClient return satisfies their          *)
(* predicates.                                                             *)
LEMMA FoundInUse ==
    /\ findEmptySlot # 0 => findEmptySlot \in Slot /\ ~nodes[findEmptySlot].used
    /\ \A c : findSlotByClient(c) # 0 =>
                /\ findSlotByClient(c) \in Slot
                /\ nodes[findSlotByClient(c)].used
                /\ nodes[findSlotByClient(c)].client = c
    /\ \A c : findSlotByClient(c) = 0 =>
                \A s \in Slot : ~(nodes[s].used /\ nodes[s].client = c)
<1>1. ASSUME NEW S \in SUBSET Slot
      PROVE  (Lowest(S) = 0 <=> S = {}) /\ (Lowest(S) # 0 => Lowest(S) \in S)
  BY LowestFound, CentralAssumption DEF Slot
<1>2. findEmptySlot # 0 => findEmptySlot \in {s \in Slot : ~nodes[s].used}
  BY <1>1 DEF findEmptySlot
<1>3. ASSUME NEW c
      PROVE  LET S == {s \in Slot : nodes[s].used /\ nodes[s].client = c}
             IN  (findSlotByClient(c) = 0 <=> S = {})
                 /\ (findSlotByClient(c) # 0 => findSlotByClient(c) \in S)
  BY <1>1 DEF findSlotByClient
<1> QED BY <1>2, <1>3

(* The steps after which the loop task holds no slot for a new node.       *)
LEMMA LoopGoesOn ==
    ASSUME TypeOK, LoopStart \/ StartScan \/ PopPending \/ StopScan \/ DisconnectAndStash
                   \/ RegisterSlot \/ CheckReady \/ WriteReady \/ Reboot
    PROVE  loop'.pc \notin Holding
<1> USE DEF Holding, Finish, IdleLoop, LoopRecord
<1>0. loop \in LoopRecord
  BY DEF TypeOK
<1>1. CASE PopPending
  <2>1. CASE pendingQueue = <<>>
    BY <1>1, <2>1 DEF PopPending
  <2>2. CASE pendingQueue # <<>>
    <3> DEFINE a == Head(pendingQueue)
    <3>1. loop' = [loop EXCEPT !.pc = "stop", !.addr = a]
      BY <1>1, <2>2 DEF PopPending
    <3> HIDE DEF a
    <3> QED BY <1>0, <3>1
  <2> QED BY <2>1, <2>2
<1>2. CASE LoopStart
  BY <1>0, <1>2 DEF LoopStart
<1>3. CASE StartScan
  BY <1>0, <1>3 DEF StartScan
<1>4. CASE StopScan \/ RegisterSlot
  BY <1>0, <1>4 DEF StopScan, RegisterSlot
<1>5. CASE DisconnectAndStash \/ WriteReady \/ Reboot
  BY <1>5 DEF DisconnectAndStash, WriteReady, Reboot
<1>6. CASE CheckReady
  BY <1>0, <1>6 DEF CheckReady
<1> QED BY <1>1, <1>2, <1>3, <1>4, <1>5, <1>6

(* A chosen slot stays unused: onDisconnect only frees slots.              *)
LEMMA SlotHeldStep ==
    ASSUME IInv, SlotHeld, [Next]_vars
    PROVE  SlotHeld'
<1> USE DEF SlotHeld, Holding, LoopAt, HostAt, SenderAt, table, radio, scan
<1>0. /\ nodes \in [Slot -> NodeRecord] /\ loop \in LoopRecord
      /\ loop.pc \in WithSlot => loop.slot \in Slot
  BY DEF IInv, TypeOK, Control
<1>1. CASE UNCHANGED <<nodes, loop>>
  BY <1>1
<1>2. CASE OnDisconnect
  <2>1. \A s \in Slot : /\ nodes'[s].used => nodes[s].used
                        /\ nodes'[s].addr = nodes[s].addr
    BY <1>0, <1>2 DEF OnDisconnect
  <2> QED BY <1>0, <1>2, <2>1 DEF OnDisconnect, WithSlot
<1>3. CASE OnDisconnectEnds
  <2>1. \A s \in Slot : nodes'[s].used = nodes[s].used /\ nodes'[s].addr = nodes[s].addr
    BY <1>0, <1>3 DEF OnDisconnectEnds, Cleared
  <2> QED BY <1>0, <1>3, <2>1 DEF OnDisconnectEnds, WithSlot
<1>4. CASE ChooseSlot
  <2>1. CASE findEmptySlot = 0
    BY <1>0, <1>4, <2>1 DEF ChooseSlot, Finish, IdleLoop
  <2>2. CASE findEmptySlot # 0
    <3>1. /\ loop' = [loop EXCEPT !.pc = "acquire", !.slot = findEmptySlot]
          /\ nodes' = nodes
      BY <1>4, <2>2 DEF ChooseSlot
    <3>2. loop'.pc = "acquire" /\ loop'.slot = findEmptySlot
      BY <1>0, <3>1 DEF LoopRecord
    <3> QED BY <2>2, <3>1, <3>2, FoundInUse
  <2> QED BY <2>1, <2>2
<1>5. CASE AcquireClient
  <2>1. \A s \in Slot : nodes'[s].used = nodes[s].used
    <3>1. nodes' = nodes \/ nodes' = Taken(findReusable)
      BY <1>5 DEF AcquireClient
    <3> QED BY <1>0, <3>1 DEF Taken, NodeRecord
  <2>2. loop'.pc \in {"connect", "restart"}
        /\ (loop'.pc = "connect" => loop'.slot = loop.slot)
    BY <1>0, <1>5 DEF AcquireClient, Finish, IdleLoop, LoopRecord
  <2> QED BY <1>0, <1>5, <2>1, <2>2 DEF AcquireClient, WithSlot
<1>6. CASE RegisterClient
  <2>1. loop.pc = "register" /\ loop.slot \in Slot
    BY <1>0, <1>6 DEF RegisterClient, WithSlot
  <2>2. nodes'[loop.slot].used = nodes[loop.slot].used /\ nodes'[loop.slot].addr = loop.addr
    BY <1>0, <1>6, <2>1 DEF RegisterClient, NodeRecord
  <2>3. loop'.slot = loop.slot /\ loop'.addr = loop.addr
    BY <1>0, <1>6 DEF RegisterClient, LoopRecord
  <2> QED BY <2>1, <2>2, <2>3
<1>7. CASE ConnectFails \/ DiscoverFails \/ ConnectOk \/ DiscoverOk
  <2>1. nodes' = nodes /\ loop.pc \in Holding /\ loop'.slot = loop.slot /\ loop'.pc # "use"
    BY <1>0, <1>7 DEF ConnectFails, DiscoverFails, ConnectOk, DiscoverOk, LoopRecord
  <2> QED BY <2>1
<1>8. CASE LoopStart \/ StartScan \/ PopPending \/ StopScan \/ DisconnectAndStash
           \/ RegisterSlot \/ CheckReady \/ WriteReady \/ Reboot
  <2>1. loop'.pc \notin Holding
    BY <1>8, LoopGoesOn DEF IInv
  <2> QED BY <2>1
<1>9. (\E a \in Node : Wake(a) \/ Sleep(a) \/ ScanResult(a))
      \/ (\E c \in Client : LinkLost(c) \/ OnNotify(c))
      \/ (\E a \in Target : SendCheck(a))
      \/ SendWrite \/ PushResult \/ OnNotifyEnds \/ UNCHANGED vars
      => UNCHANGED <<nodes, loop>>
  BY DEF Wake, Sleep, ScanResult, LinkLost, OnNotify, SendCheck, SendWrite, PushResult,
         OnNotifyEnds, vars
<1> QED
  BY <1>1, <1>2, <1>3, <1>4, <1>5, <1>6, <1>7, <1>8, <1>9 DEF Next, HostTask, LoopTask

-----------------------------------------------------------------------------
(* A link belongs to someone, and the one the loop task is setting up      *)
(* leads to the node it is connecting; the host task frees a slot only     *)
(* after the link is gone.                                                 *)
Links ==
    /\ NoOrphanLink
    /\ loop.pc \in {"discover", "register", "use"} => link[loop.client] \in {None, loop.addr}
    /\ host.pc = "disconnect" => link[host.client] = None

(* What the short steps of the nodes and of the host task leave alone, and *)
(* where they leave the host task.                                         *)
LEMMA Quiet ==
    ASSUME host \in HostRecord
    PROVE  /\ \A a \in Node : Wake(a) \/ Sleep(a) =>
                UNCHANGED <<nodes, created, link, closing, talks, pendingQueue, doScan, scanning,
                            seen, loop, host, sender, up>>
           /\ \A a \in Node : ScanResult(a) =>
                /\ UNCHANGED <<nodes, created, link, closing, talks, pendingQueue, doScan,
                               scanning, loop, sender, up>>
                /\ host' = host \/ (host'.pc = "push" /\ host'.addr = a)
           /\ \A c \in Client : OnNotify(c) =>
                /\ UNCHANGED <<nodes, created, link, closing, talks, pendingQueue, doScan,
                               scanning, seen, loop, sender, up>>
                /\ host.pc = "idle"
                /\ host'.pc = "notify" /\ host'.client = c /\ host'.slot = findSlotByClient(c)
           /\ OnNotifyEnds =>
                /\ UNCHANGED <<nodes, created, link, closing, talks, pendingQueue, doScan,
                               scanning, seen, loop, sender>>
                /\ host.pc = "notify"
                /\ host'.pc = "idle"
<1> USE DEF HostAt, table, radio, scan
<1>1. ASSUME NEW a \in Node, ScanResult(a)
      PROVE  host' = host \/ (host'.pc = "push" /\ host'.addr = a)
  <2>1. host' = host \/ host' = [host EXCEPT !.pc = "push", !.addr = a]
    BY <1>1 DEF ScanResult
  <2> QED BY <2>1 DEF HostRecord
<1>2. ASSUME NEW a \in Node, ScanResult(a)
      PROVE  UNCHANGED <<nodes, created, link, closing, talks, pendingQueue, doScan,
                         scanning, loop, sender, up>>
  BY <1>2 DEF ScanResult
<1>3. ASSUME NEW c \in Client, OnNotify(c)
      PROVE  /\ UNCHANGED <<nodes, created, link, closing, talks, pendingQueue, doScan,
                            scanning, seen, loop, sender, up>>
             /\ host.pc = "idle"
             /\ host'.pc = "notify" /\ host'.client = c /\ host'.slot = findSlotByClient(c)
  BY <1>3 DEF OnNotify, HostRecord
<1>4. ASSUME NEW a \in Node, Wake(a) \/ Sleep(a)
      PROVE  UNCHANGED <<nodes, created, link, closing, talks, pendingQueue, doScan, scanning,
                         seen, loop, host, sender, up>>
  BY <1>4 DEF Wake, Sleep
<1>5. ASSUME OnNotifyEnds
      PROVE  /\ UNCHANGED <<nodes, created, link, closing, talks, pendingQueue, doScan,
                            scanning, seen, loop, sender>>
             /\ host.pc = "notify"
             /\ host'.pc = "idle"
  BY <1>5 DEF OnNotifyEnds, IdleHost
<1> QED BY <1>1, <1>2, <1>3, <1>4, <1>5

(* Steps that leave the links and their owners alone.                      *)
LEMMA LinksQuiet ==
    ASSUME Links, nodes \in [Slot -> NodeRecord],
           UNCHANGED <<link, closing, loop>>,
           host' = host \/ host'.pc # "disconnect",
           \A s \in Slot : /\ nodes'[s].used = nodes[s].used
                           /\ nodes'[s].client = nodes[s].client
                           /\ nodes'[s].addr = nodes[s].addr
    PROVE  Links'
BY DEF Links, NoOrphanLink

(* The loop task closes, keeps or registers every link it sets up.         *)
LEMMA LinksStep ==
    ASSUME IInv, SlotHeld, Links, [Next]_vars
    PROVE  Links'
<1> USE DEF LoopAt, HostAt, SenderAt, table, radio, scan
<1>0. /\ nodes \in [Slot -> NodeRecord] /\ loop \in LoopRecord /\ host \in HostRecord
      /\ link \in [Client -> Node \cup {None}] /\ closing \subseteq Client
      /\ loop.pc \in WithSlot => loop.slot \in Slot
      /\ loop.pc \in WithClient <=> loop.client # None
      /\ \A s \in Slot : nodes[s].used => nodes[s].client # None
      /\ None \notin Client
  BY CentralAssumption DEF IInv, TypeOK, Control, Ownership, ClientsNotShared, Client
<1>1. CASE /\ UNCHANGED <<nodes, link, closing, loop>>
           /\ host' = host \/ host'.pc # "disconnect"
  BY <1>0, <1>1, LinksQuiet
<1>2. (\E a \in Node : Wake(a) \/ Sleep(a) \/ ScanResult(a))
      \/ (\E c \in Client : OnNotify(c)) \/ (\E a \in Target : SendCheck(a))
      \/ SendWrite \/ PushResult \/ OnNotifyEnds \/ UNCHANGED vars
      => /\ UNCHANGED <<nodes, link, closing, loop>>
         /\ host' = host \/ host'.pc # "disconnect"
  BY <1>0, Quiet DEF SendCheck, SendWrite, PushResult, vars, IdleHost
<1>3. ASSUME NEW c \in Client, LinkLost(c) PROVE Links'
  <2>1. /\ link' = [link EXCEPT ![c] = None] /\ closing' = closing \ {c}
        /\ UNCHANGED <<nodes, loop>> /\ host'.pc = "disconnect" /\ host'.client = c
    BY <1>0, <1>3 DEF LinkLost, HostRecord
  <2>2. \A d \in Client : link'[d] = IF d = c THEN None ELSE link[d]
    BY <1>0, <2>1
  <2>3. NoOrphanLink'
    BY <1>0, <2>1, <2>2 DEF Links, NoOrphanLink
  <2>4. loop'.pc \in {"discover", "register", "use"} => link'[loop'.client] \in {None, loop'.addr}
    BY <1>0, <2>1, <2>2 DEF Links, WithClient, LoopRecord
  <2> QED BY <2>1, <2>2, <2>3, <2>4 DEF Links
<1>4. CASE OnDisconnect
  <2> DEFINE t == findSlotByClient(host.client)
  <2>1. /\ UNCHANGED <<link, closing, loop>> /\ host'.pc = "clear"
        /\ link[host.client] = None
    BY <1>0, <1>4 DEF OnDisconnect, Links, HostRecord
  <2>2. \A s \in Slot : /\ nodes'[s].client = nodes[s].client
                        /\ nodes'[s].addr = nodes[s].addr
                        /\ nodes'[s].used # nodes[s].used => nodes[s].client = host.client
    <3>1. t # 0 => t \in Slot /\ nodes[t].client = host.client
      BY FoundInUse
    <3>2. nodes' = IF t = 0 THEN nodes ELSE [nodes EXCEPT ![t].used = FALSE]
      BY <1>4 DEF OnDisconnect
    <3> HIDE DEF t
    <3> QED BY <1>0, <3>1, <3>2 DEF NodeRecord
  <2>3. NoOrphanLink'
    BY <1>0, <2>1, <2>2 DEF Links, NoOrphanLink
  <2> QED BY <2>1, <2>3 DEF Links
<1>5. CASE OnDisconnectEnds
  <2>1. \A s \in Slot : /\ nodes'[s].used = nodes[s].used
                        /\ nodes'[s].client = nodes[s].client
                        /\ nodes'[s].addr = nodes[s].addr
    BY <1>0, <1>5 DEF OnDisconnectEnds, Cleared, NodeRecord
  <2>2. UNCHANGED <<link, closing, loop>> /\ host'.pc # "disconnect"
    BY <1>5 DEF OnDisconnectEnds, IdleHost
  <2> QED BY <1>0, <2>1, <2>2, LinksQuiet
<1>6. CASE \/ LoopStart \/ StartScan \/ PopPending \/ StopScan
           \/ ChooseSlot \/ CheckReady \/ WriteReady
  <2>1. /\ loop.client = None
        /\ UNCHANGED <<link, closing, host>>
        /\ \A s \in Slot : /\ nodes'[s].used = nodes[s].used
                           /\ nodes'[s].client = nodes[s].client
                           /\ nodes'[s].addr = nodes[s].addr
    <3>1. CASE LoopStart
      BY <1>0, <3>1 DEF LoopStart, WithClient, NodeRecord
    <3>2. CASE StartScan \/ PopPending \/ StopScan \/ ChooseSlot \/ CheckReady \/ WriteReady
      BY <1>0, <3>2 DEF StartScan, PopPending, StopScan, ChooseSlot, CheckReady, WriteReady, WithClient
    <3> QED BY <1>6, <3>1, <3>2
  <2>2. loop'.pc \notin {"discover", "register", "use"}
    <3>1. CASE ChooseSlot
      BY <1>0, <3>1 DEF ChooseSlot, Finish, IdleLoop, LoopRecord
    <3>2. CASE LoopStart \/ StartScan \/ PopPending \/ StopScan \/ CheckReady \/ WriteReady
      BY <3>2, LoopGoesOn DEF Holding, IInv
    <3> QED BY <1>6, <3>1, <3>2
  <2> QED BY <1>0, <2>1, <2>2 DEF Links, NoOrphanLink
<1>7. CASE AcquireClient
  <2>1. /\ loop.client = None /\ UNCHANGED <<link, closing, host>>
        /\ loop'.pc \notin {"discover", "register", "use"}
    BY <1>0, <1>7 DEF AcquireClient, WithClient, Finish, IdleLoop, LoopRecord
  <2>2. \A s \in Slot : /\ nodes'[s].used = nodes[s].used
                        /\ nodes'[s].addr = nodes[s].addr
                        /\ nodes[s].used => nodes'[s].client = nodes[s].client
    <3>1. nodes' = nodes \/ (findReusable # 0 /\ nodes' = Taken(findReusable))
      BY <1>7 DEF AcquireClient
    <3> QED BY <1>0, <3>1, Found DEF Taken, NodeRecord
  <2> QED BY <1>0, <2>1, <2>2 DEF Links, NoOrphanLink
<1>8. CASE ConnectOk
  <2>1. /\ loop.client \in Client /\ loop'.client = loop.client /\ loop'.addr = loop.addr
        /\ host.pc = "idle" /\ UNCHANGED <<nodes, closing, host>>
        /\ link' = [link EXCEPT ![loop.client] = loop.addr]
    BY <1>0, <1>8 DEF ConnectOk, WithClient, LoopRecord
  <2>2. \A d \in Client : link'[d] = IF d = loop.client THEN loop.addr ELSE link[d]
    BY <1>0, <2>1
  <2> QED BY <1>0, <2>1, <2>2 DEF Links, NoOrphanLink
<1>9. CASE ConnectFails \/ DiscoverOk \/ DiscoverFails
  <2>1. /\ UNCHANGED <<nodes, link, closing, host>>
        /\ loop'.client = loop.client /\ loop'.addr = loop.addr
        /\ loop'.pc = "stash" \/ (loop.pc = "discover" /\ loop'.pc = "register")
    BY <1>0, <1>9 DEF ConnectFails, DiscoverOk, DiscoverFails, LoopRecord
  <2> QED BY <1>0, <2>1 DEF Links, NoOrphanLink
<1>10. CASE DisconnectAndStash
  <2>1. /\ UNCHANGED <<link, host>> /\ loop'.pc = "restart"
        /\ closing' = IF link[loop.client] = None THEN closing ELSE closing \cup {loop.client}
    BY <1>10 DEF DisconnectAndStash, Finish
  <2>2. \A s \in Slot : /\ nodes'[s].used = nodes[s].used
                        /\ nodes'[s].addr = nodes[s].addr
                        /\ nodes[s].used => nodes'[s].client = nodes[s].client
    <3>1. nodes' = nodes \/ (stashSlot # 0 /\ nodes' = [nodes EXCEPT ![stashSlot].client = loop.client])
      BY <1>10 DEF DisconnectAndStash
    <3> QED BY <1>0, <3>1, Found DEF NodeRecord
  <2> QED BY <1>0, <2>1, <2>2 DEF Links, NoOrphanLink
<1>11. CASE RegisterClient
  <2>1. /\ loop.slot \in Slot /\ ~nodes[loop.slot].used
        /\ UNCHANGED <<link, closing, host>>
        /\ loop.pc = "register" /\ loop'.client = loop.client /\ loop'.addr = loop.addr
    BY <1>0, <1>11 DEF RegisterClient, WithSlot, SlotHeld, Holding, LoopRecord
  <2>2. \A s \in Slot : s # loop.slot => nodes'[s] = nodes[s]
    BY <1>0, <1>11 DEF RegisterClient
  <2> QED BY <1>0, <2>1, <2>2 DEF Links, NoOrphanLink
<1>12. CASE RegisterSlot
  <2>1. /\ loop.slot \in Slot /\ loop.client \in Client
        /\ nodes[loop.slot].client = loop.client /\ nodes[loop.slot].addr = loop.addr
        /\ UNCHANGED <<link, closing, host>> /\ loop'.pc = "ready"
        /\ link[loop.client] \in {None, loop.addr}
    BY <1>0, <1>12 DEF RegisterSlot, WithSlot, WithClient, SlotHeld, IInv, Ownership, Links, LoopRecord
  <2>2. /\ \A s \in Slot : s # loop.slot => nodes'[s] = nodes[s]
        /\ nodes'[loop.slot].used /\ nodes'[loop.slot].client = loop.client
        /\ nodes'[loop.slot].addr = loop.addr
    BY <1>0, <1>12, <2>1 DEF RegisterSlot, NodeRecord
  <2>3. NoOrphanLink'
    BY <1>0, <2>1, <2>2 DEF Links, NoOrphanLink
  <2> QED BY <2>1, <2>3 DEF Links
<1>13. CASE Reboot
  BY <1>13 DEF Reboot, Links, NoOrphanLink, IdleLoop, IdleHost
<1> QED
  BY <1>1, <1>2, <1>3, <1>4, <1>5, <1>6, <1>7, <1>8, <1>9, <1>10, <1>11, <1>12, <1>13
  DEF Next, HostTask, LoopTask

-----------------------------------------------------------------------------
(* Between its two assignments onDisconnect has a slot that is neither in  *)
(* use nor the one being registered: no registration begins before the     *)
(* callback ends, because discovery ends on the host task.                 *)
Late ==
    (host.pc = "clear" /\ host.slot # 0) =>
        /\ host.slot \in Slot
        /\ ~nodes[host.slot].used
        /\ loop.pc \in {"register", "use"} => loop.slot # host.slot

LEMMA LateStep ==
    ASSUME IInv, SlotHeld, Late, [Next]_vars
    PROVE  Late'
<1> USE DEF Late, LoopAt, HostAt, SenderAt, table, radio, scan
<1>0. /\ nodes \in [Slot -> NodeRecord] /\ loop \in LoopRecord /\ host \in HostRecord
      /\ loop.pc \in WithSlot => loop.slot \in Slot
  BY DEF IInv, TypeOK, Control
<1>1. CASE host'.pc # "clear"
  BY <1>1
<1>2. CASE UNCHANGED <<nodes, host, loop>>
  BY <1>2
<1>3. CASE OnDisconnect
  <2> DEFINE t == findSlotByClient(host.client)
  <2>1. host'.pc = "clear" /\ host'.slot = t /\ loop' = loop
    BY <1>0, <1>3, Searches DEF OnDisconnect, HostRecord
  <2>2. t # 0 => t \in Slot /\ nodes[t].used
    BY FoundInUse
  <2>3. t # 0 => nodes' = [nodes EXCEPT ![t].used = FALSE]
    BY <1>3 DEF OnDisconnect
  <2>4. t # 0 => ~nodes'[t].used
    <3> HIDE DEF t
    <3> QED BY <1>0, <2>2, <2>3 DEF NodeRecord
  <2>5. loop.pc \in {"register", "use"} => ~nodes[loop.slot].used
    BY DEF SlotHeld, Holding
  <2> QED BY <2>1, <2>2, <2>4, <2>5
<1>4. CASE UNCHANGED host /\ LoopTask
  <2>1. CASE LoopStart \/ StartScan \/ PopPending \/ StopScan \/ CheckReady \/ WriteReady
    <3>1. loop'.pc \notin {"register", "use"}
      BY <2>1, LoopGoesOn DEF Holding, IInv
    <3>2. \A s \in Slot : nodes'[s].used = nodes[s].used
      <4>1. CASE LoopStart
        BY <1>0, <4>1 DEF LoopStart, NodeRecord
      <4>2. CASE StartScan \/ PopPending \/ StopScan \/ CheckReady \/ WriteReady
        BY <4>2 DEF StartScan, PopPending, StopScan, CheckReady, WriteReady
      <4> QED BY <2>1, <4>1, <4>2
    <3> QED BY <1>4, <3>1, <3>2
  <2>2. CASE ChooseSlot \/ ConnectFails \/ ConnectOk \/ DiscoverFails
    <3>1. nodes' = nodes /\ loop'.pc \notin {"register", "use"}
      BY <1>0, <2>2 DEF ChooseSlot, ConnectFails, ConnectOk, DiscoverFails, Finish, IdleLoop, LoopRecord
    <3> QED BY <1>4, <3>1
  <2>3. CASE AcquireClient
    <3>1. loop'.pc \notin {"register", "use"}
      BY <1>0, <2>3 DEF AcquireClient, Finish, IdleLoop, LoopRecord
    <3>2. \A s \in Slot : nodes'[s].used = nodes[s].used
      <4>1. nodes' = nodes \/ nodes' = Taken(findReusable)
        BY <2>3 DEF AcquireClient
      <4> QED BY <1>0, <4>1 DEF Taken, NodeRecord
    <3> QED BY <1>4, <3>1, <3>2
  <2>4. CASE DisconnectAndStash
    <3>1. loop'.pc \notin {"register", "use"}
      BY <2>4 DEF DisconnectAndStash, Finish
    <3>2. \A s \in Slot : nodes'[s].used = nodes[s].used
      <4>1. nodes' = nodes \/ nodes' = [nodes EXCEPT ![stashSlot].client = loop.client]
        BY <2>4 DEF DisconnectAndStash
      <4> QED BY <1>0, <4>1 DEF NodeRecord
    <3> QED BY <1>4, <3>1, <3>2
  <2>5. CASE DiscoverOk
    BY <1>4, <2>5 DEF DiscoverOk
  <2>6. CASE RegisterClient
    <3>1. \A s \in Slot : nodes'[s].used = nodes[s].used
      BY <1>0, <2>6 DEF RegisterClient, NodeRecord
    <3>2. loop.pc = "register" /\ loop'.slot = loop.slot
      BY <1>0, <2>6 DEF RegisterClient, LoopRecord
    <3> QED BY <1>4, <3>1, <3>2
  <2>7. CASE RegisterSlot
    <3>1. loop.pc = "use" /\ loop'.pc = "ready"
      BY <1>0, <2>7 DEF RegisterSlot, LoopRecord
    <3>2. \A s \in Slot : s # loop.slot => nodes'[s].used = nodes[s].used
      BY <1>0, <2>7 DEF RegisterSlot
    <3> QED BY <1>4, <3>1, <3>2
  <2> QED BY <1>4, <2>1, <2>2, <2>3, <2>4, <2>5, <2>6, <2>7 DEF LoopTask
<1>5. LoopTask => UNCHANGED host
  BY DEF LoopTask, LoopStart, StartScan, PopPending, StopScan, ChooseSlot, AcquireClient, ConnectFails,
         DiscoverFails, DisconnectAndStash, RegisterClient, RegisterSlot, CheckReady, WriteReady,
         ConnectOk, DiscoverOk
<1>6. ASSUME NEW c \in Client, LinkLost(c) PROVE Late'
  BY <1>0, <1>6 DEF LinkLost, HostRecord
<1>7. PushResult \/ OnDisconnectEnds \/ Reboot => host'.pc # "clear"
  BY DEF PushResult, OnDisconnectEnds, Reboot, IdleHost
<1>8. (\E a \in Target : SendCheck(a)) \/ SendWrite \/ UNCHANGED vars => UNCHANGED <<nodes, host, loop>>
  BY DEF SendCheck, SendWrite, vars
<1> QED
  BY <1>0, <1>1, <1>2, <1>3, <1>4, <1>5, <1>6, <1>7, <1>8, Quiet DEF Next, HostTask

-----------------------------------------------------------------------------
(* onResult checks an address and pushes it in two steps, and the loop     *)
(* task pops between them, but nobody else pushes.                         *)
NotQueued ==
    /\ PendingDistinct
    /\ host.pc = "push" => \A i \in 1 .. Len(pendingQueue) : pendingQueue[i] # host.addr

LEMMA NotQueuedStep ==
    ASSUME IInv, NotQueued, [Next]_vars
    PROVE  NotQueued'
<1> USE DEF NotQueued, PendingDistinct, LoopAt, HostAt, SenderAt, table, radio, scan
<1>0. host \in HostRecord /\ pendingQueue \in Seq(Node) /\ Len(pendingQueue) \in Nat
  BY DEF IInv, TypeOK
<1>1. CASE UNCHANGED pendingQueue /\ (host' = host \/ host'.pc # "push")
  BY <1>1
<1>2. ASSUME NEW a \in Node, ScanResult(a) PROVE NotQueued'
  <2>1. CASE isAlreadyPending(a)
    BY <1>2, <2>1 DEF ScanResult
  <2>2. CASE ~isAlreadyPending(a)
    BY <1>0, <1>2, <2>2, Quiet DEF isAlreadyPending
  <2> QED BY <2>1, <2>2
<1>3. CASE PushResult
  <2>1. host.pc = "push" /\ host'.pc = "idle"
    BY <1>3 DEF PushResult, IdleHost
  <2>2. pendingQueue' = pendingQueue \/ pendingQueue' = Append(pendingQueue, host.addr)
    BY <1>3 DEF PushResult
  <2> QED BY <1>0, <2>1, <2>2
<1>4. CASE PopPending
  <2>1. host' = host /\ (pendingQueue' = pendingQueue
                         \/ (pendingQueue # <<>> /\ pendingQueue' = Tail(pendingQueue)))
    BY <1>4 DEF PopPending
  <2>2. CASE pendingQueue' = pendingQueue
    BY <2>1, <2>2
  <2>3. CASE pendingQueue # <<>> /\ pendingQueue' = Tail(pendingQueue)
    <3>1. /\ Len(pendingQueue') = Len(pendingQueue) - 1 /\ Len(pendingQueue) >= 1
          /\ \A i \in 1 .. Len(pendingQueue') :
                i + 1 \in 1 .. Len(pendingQueue) /\ pendingQueue'[i] = pendingQueue[i + 1]
      BY <1>0, <2>3
    <3> HIDE DEF NotQueued, PendingDistinct
    <3>2. PendingDistinct'
      <4> SUFFICES ASSUME NEW i \in 1 .. Len(pendingQueue'), NEW j \in 1 .. Len(pendingQueue'),
                          pendingQueue'[i] = pendingQueue'[j]
                   PROVE  i = j
        BY DEF PendingDistinct
      <4>1. i + 1 = j + 1
        BY <3>1 DEF NotQueued, PendingDistinct
      <4> QED BY <4>1, <3>1, <1>0
    <3> QED BY <2>1, <3>1, <3>2 DEF NotQueued
  <2> QED BY <2>1, <2>2, <2>3
<1>5. CASE Reboot
  BY <1>5 DEF Reboot, IdleHost
<1>6. OnDisconnect \/ OnDisconnectEnds => UNCHANGED pendingQueue /\ host'.pc # "push"
  <2>1. OnDisconnect => host'.pc = "clear"
    <3> DEFINE t == findSlotByClient(host.client)
    <3>1. OnDisconnect => host' = [host EXCEPT !.pc = "clear", !.slot = t]
      BY DEF OnDisconnect
    <3> HIDE DEF t
    <3> QED BY <1>0, <3>1 DEF HostRecord
  <2> QED BY <2>1 DEF OnDisconnect, OnDisconnectEnds, IdleHost
<1>7. \A c \in Client : LinkLost(c) => UNCHANGED pendingQueue /\ host'.pc # "push"
  BY <1>0 DEF LinkLost, HostRecord
<1>8. LoopTask /\ ~PopPending => UNCHANGED <<pendingQueue, host>>
  BY DEF LoopTask, LoopStart, StartScan, StopScan, ChooseSlot, AcquireClient, ConnectFails,
         DiscoverFails, DisconnectAndStash, RegisterClient, RegisterSlot, CheckReady, WriteReady,
         ConnectOk, DiscoverOk
<1>9. (\E a \in Target : SendCheck(a)) \/ SendWrite \/ UNCHANGED vars => UNCHANGED <<pendingQueue, host>>
  BY DEF SendCheck, SendWrite, vars
<1> QED
  BY <1>0, <1>1, <1>2, <1>3, <1>4, <1>5, <1>6, <1>7, <1>8, <1>9, Quiet DEF Next, HostTask

-----------------------------------------------------------------------------
(* What will make the hub report advertiser a again, or why it need not.   *)
Remembered(a) ==
    \/ doScan
    \/ loop.pc \notin {"tick", "pop"}
    \/ pendingQueue # <<>>
    \/ host.pc \in {"push", "disconnect", "clear"}
    \/ findEmptySlot = 0
    \/ isAlreadyConnected(a)
    \/ \E c \in Client : link[c] = a

(* Also for nodes that have stopped advertising, which makes it inductive. *)
AllRemembered == \A a \in seen : Remembered(a)

(* The value of findEmptySlot and isAlreadyConnected depends on two fields *)
(* only.                                                                   *)
LEMMA SameSearches ==
    ASSUME \A s \in Slot : nodes'[s].used = nodes[s].used /\ nodes'[s].addr = nodes[s].addr
    PROVE  /\ findEmptySlot' = findEmptySlot
           /\ \A a : isAlreadyConnected(a)' <=> isAlreadyConnected(a)
<1>1. {s \in Slot : ~nodes'[s].used} = {s \in Slot : ~nodes[s].used}
  OBVIOUS
<1>2. findEmptySlot' = findEmptySlot
  BY <1>1 DEF findEmptySlot, Slot
<1>3. \A a : isAlreadyConnected(a)' <=> isAlreadyConnected(a)
  BY DEF isAlreadyConnected, Slot
<1> QED BY <1>2, <1>3

(* A connection attempt ends with a new scan, a callback that frees a slot *)
(* raises doScan, and in between the program counters say so.              *)
LEMMA RememberedStep ==
    ASSUME IInv, AllRemembered, [Next]_vars
    PROVE  AllRemembered'
<1> USE DEF AllRemembered, LoopAt, HostAt, SenderAt, table, radio, scan
<1>0. /\ nodes \in [Slot -> NodeRecord] /\ loop \in LoopRecord /\ host \in HostRecord
      /\ link \in [Client -> Node \cup {None}]
      /\ pendingQueue \in Seq(Node) /\ Len(pendingQueue) \in Nat
      /\ PENDING_MAX \in Nat \ {0}
  BY CentralAssumption DEF IInv, TypeOK
<1>1. CASE loop'.pc \notin {"tick", "pop"}
  BY <1>1 DEF Remembered
<1>2. CASE host'.pc \in {"push", "disconnect", "clear"}
  BY <1>2 DEF Remembered
<1>3. CASE doScan'
  BY <1>3 DEF Remembered
<1>4. CASE /\ UNCHANGED <<doScan, loop, pendingQueue, nodes, link, seen>>
           /\ host.pc \notin {"push", "disconnect", "clear"}
  <2>1. findEmptySlot' = findEmptySlot /\ \A a : isAlreadyConnected(a)' <=> isAlreadyConnected(a)
    BY <1>4, SameSearches
  <2> QED BY <1>4, <2>1 DEF Remembered
<1>5. CASE UNCHANGED <<doScan, loop, pendingQueue, nodes, link, seen, host>>
  <2>1. findEmptySlot' = findEmptySlot /\ \A a : isAlreadyConnected(a)' <=> isAlreadyConnected(a)
    BY <1>5, SameSearches
  <2> QED BY <1>5, <2>1 DEF Remembered
<1>6. ASSUME NEW a \in Node, ScanResult(a) PROVE AllRemembered'
  <2>1. UNCHANGED <<doScan, loop, pendingQueue, nodes, link>> /\ host.pc = "idle"
        /\ seen' = seen \cup {a}
    BY <1>6 DEF ScanResult
  <2>2. findEmptySlot' = findEmptySlot /\ \A b : isAlreadyConnected(b)' <=> isAlreadyConnected(b)
    BY <2>1, SameSearches
  <2>3. \A b \in seen : Remembered(b)'
    BY <2>1, <2>2 DEF Remembered
  <2>4. Remembered(a)'
    <3>1. CASE host'.pc = "push"
      BY <3>1 DEF Remembered
    <3>2. CASE host'.pc # "push"
      <4>1. \/ isAlreadyConnected(a) \/ isAlreadyPending(a) \/ findEmptySlot = 0
            \/ Len(pendingQueue) >= PENDING_MAX
        BY <1>0, <1>6, <3>2 DEF ScanResult, HostRecord
      <4>2. isAlreadyPending(a) \/ Len(pendingQueue) >= PENDING_MAX => pendingQueue # <<>>
        BY <1>0 DEF isAlreadyPending
      <4> QED BY <2>1, <2>2, <4>1, <4>2 DEF Remembered
    <3> QED BY <3>1, <3>2
  <2> QED BY <2>1, <2>3, <2>4
<1>7. CASE PushResult
  <2>1. pendingQueue' # <<>>
    BY <1>0, <1>7 DEF PushResult
  <2> QED BY <2>1 DEF Remembered
<1>8. CASE LoopStart
  <2>1. \A s \in Slot : nodes'[s].used = nodes[s].used /\ nodes'[s].addr = nodes[s].addr
    BY <1>0, <1>8 DEF LoopStart, NodeRecord
  <2>2. findEmptySlot' = findEmptySlot /\ \A a : isAlreadyConnected(a)' <=> isAlreadyConnected(a)
    BY <2>1, SameSearches
  <2>3. loop.pc = "tick" /\ (doScan => loop'.pc = "rescan")
        /\ UNCHANGED <<pendingQueue, link, seen, host>>
    BY <1>0, <1>8 DEF LoopStart, LoopRecord
  <2> QED BY <2>2, <2>3 DEF Remembered
<1>9. CASE StartScan \/ Reboot
  BY <1>9 DEF StartScan, Reboot
<1>10. CASE PopPending
  <2>1. CASE pendingQueue = <<>>
    <3>1. UNCHANGED <<doScan, pendingQueue, nodes, link, seen, host>> /\ loop.pc = "pop"
      BY <1>10, <2>1 DEF PopPending
    <3>2. findEmptySlot' = findEmptySlot /\ \A a : isAlreadyConnected(a)' <=> isAlreadyConnected(a)
      BY <3>1, SameSearches
    <3> QED BY <3>1, <3>2 DEF Remembered
  <2>2. CASE pendingQueue # <<>>
    <3> DEFINE a == Head(pendingQueue)
    <3>1. loop' = [loop EXCEPT !.pc = "stop", !.addr = a]
      BY <1>10, <2>2 DEF PopPending
    <3>2. loop'.pc = "stop"
      <4> HIDE DEF a
      <4> QED BY <1>0, <3>1 DEF LoopRecord
    <3> QED BY <1>1, <3>2
  <2> QED BY <2>1, <2>2
<1>11. LoopTask /\ ~LoopStart /\ ~StartScan /\ ~PopPending => loop'.pc \notin {"tick", "pop"}
  BY <1>0 DEF LoopTask, StopScan, ChooseSlot, AcquireClient, ConnectFails,
         DiscoverFails, DisconnectAndStash, RegisterClient, RegisterSlot, CheckReady, WriteReady,
         ConnectOk, DiscoverOk, Finish, IdleLoop, LoopRecord
<1>12. OnDisconnect => host'.pc = "clear"
  <2> DEFINE t == findSlotByClient(host.client)
  <2>1. OnDisconnect => host' = [host EXCEPT !.pc = "clear", !.slot = t]
    BY DEF OnDisconnect
  <2> HIDE DEF t
  <2> QED BY <1>0, <2>1 DEF HostRecord
<1>13. OnDisconnectEnds => doScan'
  BY DEF OnDisconnectEnds
<1>14. \A c \in Client : LinkLost(c) => host'.pc = "disconnect"
  BY <1>0 DEF LinkLost, HostRecord
<1>15. (\E a \in Target : SendCheck(a)) \/ SendWrite \/ UNCHANGED vars
       => UNCHANGED <<doScan, loop, pendingQueue, nodes, link, seen, host>>
  BY DEF SendCheck, SendWrite, vars
<1> QED
  BY <1>0, <1>1, <1>2, <1>3, <1>4, <1>5, <1>6, <1>7, <1>8, <1>9, <1>10, <1>11, <1>12, <1>13, <1>14,
     <1>15, Quiet DEF Next, HostTask

-----------------------------------------------------------------------------
(* disconnectAndStash finds a place by counting: if every unused slot kept *)
(* a client, every slot would have one of its own, and the loop task has   *)
(* one more, which is more than the stack creates.                         *)
LEMMA StashByCounting ==
    ASSUME IInv
    PROVE  StashFindsPlace
<1>0. /\ nodes \in [Slot -> NodeRecord] /\ loop \in LoopRecord
      /\ ClientsNotShared /\ MAX_NODES \in Nat
      /\ loop.pc = "stash" => loop.client \in Client
  BY CentralAssumption DEF IInv, TypeOK, Control, Ownership, WithClient, LoopRecord
<1>1. SUFFICES ASSUME loop.pc = "stash", stashSlot = 0
               PROVE  FALSE
  BY DEF StashFindsPlace
<1> DEFINE Others == Client \ {loop.client}
           holds == [s \in Slot |-> nodes[s].client]
<1>2. \A s \in Slot : nodes[s].client # None
  <2>1. {s \in Slot : ~nodes[s].used /\ nodes[s].client = None} = {}
    BY <1>0, <1>1, LowestFound DEF stashSlot, Slot
  <2> QED BY <1>0, <2>1 DEF ClientsNotShared
<1>3. holds \in [Slot -> Others]
  <2>1. \A s \in Slot : nodes[s].client \in Client /\ nodes[s].client # loop.client
    BY <1>0, <1>1, <1>2 DEF ClientsNotShared, Registering, NodeRecord
  <2> QED BY <2>1
<1>4. /\ IsFiniteSet(Slot) /\ Cardinality(Slot) = MAX_NODES
      /\ IsFiniteSet(Others) /\ Cardinality(Others) = MAX_NODES - 1
  <2>1. IsFiniteSet(Slot) /\ Cardinality(Slot) = MAX_NODES
    BY <1>0, CentralAssumption, FS_Interval DEF Slot
  <2>2. IsFiniteSet(Client) /\ Cardinality(Client) = MAX_NODES
    BY <2>1 DEF Slot, Client
  <2> QED BY <1>0, <1>1, <2>1, <2>2, FS_RemoveElement
<1>5. Cardinality(Others) < Cardinality(Slot)
  BY <1>0, <1>4
<1>6. \E x, y \in Slot : x # y /\ holds[x] = holds[y]
  <2> HIDE DEF holds, Others
  <2> QED BY <1>3, <1>4, <1>5, FS_PigeonHole
<1> QED BY <1>0, <1>2, <1>6 DEF ClientsNotShared

-----------------------------------------------------------------------------
(* The slot a notification is labelled from.  A client whose link is to be *)
(* closed has one, and is in no slot in use; one whose node has been       *)
(* written to has a link.                                                  *)
Spoken ==
    /\ \A c \in closing : link[c] # None
    /\ loop.pc \in {"discover", "register", "use"} => loop.client \notin closing
    /\ \A s \in Slot : nodes[s].used => nodes[s].client \notin closing
    /\ \A c \in talks : link[c] # None
    /\ host.pc = "notify" =>
          /\ host.client \in talks
          /\ host.slot # 0 => nodes[host.slot].used /\ nodes[host.slot].client = host.client

(* Steps that neither make nor close a link, nor put a slot in use.        *)
LEMMA SpokenQuiet ==
    ASSUME Spoken, host.slot \in Slot \cup {0}, UNCHANGED <<link, closing>>,
           talks \subseteq talks', \A c \in talks' : link[c] # None,
           loop'.pc \in {"discover", "register", "use"} =>
               loop.pc \in {"discover", "register", "use"} /\ loop'.client = loop.client,
           \A s \in Slot :
               nodes'[s].used => nodes[s].used /\ nodes'[s].client = nodes[s].client,
           host'.pc = "notify" =>
               UNCHANGED host /\ \A s \in Slot : nodes[s].used => nodes'[s].used
    PROVE  Spoken'
BY DEF Spoken

LEMMA SpokenStep ==
    ASSUME IInv, SlotHeld, Spoken, [Next]_vars
    PROVE  Spoken'
<1> USE DEF LoopAt, HostAt, SenderAt, table, radio, scan
<1> DEFINE Making == {"discover", "register", "use"}
           Tame == /\ loop'.pc \in Making => loop.pc \in Making /\ loop'.client = loop.client
                   /\ \A s \in Slot :
                         /\ nodes'[s].used = nodes[s].used
                         /\ nodes[s].used => nodes'[s].client = nodes[s].client
                   /\ UNCHANGED host \/ host'.pc # "notify"
<1>0. /\ nodes \in [Slot -> NodeRecord] /\ loop \in LoopRecord /\ host \in HostRecord
      /\ link \in [Client -> Node \cup {None}] /\ closing \subseteq Client /\ talks \subseteq Client
      /\ loop.pc \in WithSlot => loop.slot \in Slot
      /\ loop.pc \in WithClient <=> loop.client # None
      /\ host.slot \in Slot \cup {0}
      /\ None \notin Client /\ None \notin Node
  BY CentralAssumption DEF IInv, TypeOK, Control, Client, HostRecord
<1>1. CASE Tame /\ UNCHANGED <<link, closing, talks>>
  BY <1>0, <1>1, SpokenQuiet DEF Spoken
<1>2. ASSUME Tame, UNCHANGED <<link, closing>>, NEW s \in Slot, talks' = Written(s)
      PROVE  Spoken'
  <2>1. talks \subseteq talks' /\ \A c \in talks' : link[c] # None
    BY <1>2 DEF Written, Spoken
  <2> QED BY <1>0, <1>2, <2>1, SpokenQuiet
<1>3. ASSUME NEW c \in Client, LinkLost(c) PROVE Spoken'
  <2>1. /\ UNCHANGED <<nodes, loop>> /\ host'.pc = "disconnect"
        /\ closing' = closing \ {c} /\ talks' = talks \ {c} /\ link' = [link EXCEPT ![c] = None]
    BY <1>0, <1>3 DEF LinkLost, HostRecord
  <2> QED BY <1>0, <2>1 DEF Spoken
<1>4. ASSUME NEW c \in Client, OnNotify(c) PROVE Spoken'
  <2>1. c \in talks
    BY <1>4 DEF OnNotify
  <2>2. findSlotByClient(c) # 0 =>
            nodes[findSlotByClient(c)].used /\ nodes[findSlotByClient(c)].client = c
    BY FoundInUse
  <2>3. /\ UNCHANGED <<nodes, loop, link, closing, talks>>
        /\ host'.pc = "notify" /\ host'.client = c /\ host'.slot = findSlotByClient(c)
    BY <1>0, <1>4, Quiet
  <2> QED BY <2>1, <2>2, <2>3 DEF Spoken
<1>5. CASE OnDisconnect
  <2>1. UNCHANGED <<loop, link, closing, talks>>
    BY <1>5 DEF OnDisconnect
  <2>2. host'.pc = "clear"
    <3> DEFINE t == findSlotByClient(host.client)
    <3>1. host' = [host EXCEPT !.pc = "clear", !.slot = t]
      BY <1>5 DEF OnDisconnect
    <3> HIDE DEF t
    <3> QED BY <1>0, <3>1 DEF HostRecord
  <2>3. \A s \in Slot : nodes'[s].used => nodes[s].used /\ nodes'[s].client = nodes[s].client
    BY <1>0, <1>5 DEF OnDisconnect, NodeRecord
  <2> QED BY <1>0, <2>1, <2>2, <2>3, SpokenQuiet DEF Spoken
<1>6. CASE OnDisconnectEnds \/ PushResult
  <2>1. \A s \in Slot : nodes'[s].used = nodes[s].used /\ nodes'[s].client = nodes[s].client
    BY <1>0, <1>6 DEF OnDisconnectEnds, PushResult, Cleared, NodeRecord
  <2>2. UNCHANGED <<loop, link, closing, talks>> /\ host'.pc = "idle"
    BY <1>6 DEF OnDisconnectEnds, PushResult, IdleHost
  <2> QED BY <1>1, <2>1, <2>2
<1>7. CASE LoopStart \/ StartScan \/ PopPending \/ StopScan \/ CheckReady
  <2>1. loop'.pc \notin Making
    BY <1>7, LoopGoesOn DEF IInv, Holding
  <2>2. /\ UNCHANGED <<link, closing, talks, host>>
        /\ \A s \in Slot : nodes'[s].used = nodes[s].used /\ nodes'[s].client = nodes[s].client
    <3>1. CASE LoopStart
      BY <1>0, <3>1 DEF LoopStart, NodeRecord
    <3>2. CASE StartScan \/ PopPending \/ StopScan \/ CheckReady
      BY <3>2 DEF StartScan, PopPending, StopScan, CheckReady
    <3> QED BY <1>7, <3>1, <3>2
  <2> QED BY <1>1, <2>1, <2>2
<1>8. CASE ChooseSlot \/ AcquireClient \/ ConnectFails \/ DiscoverFails
  <2>1. loop'.pc \notin Making
    BY <1>0, <1>8
    DEF ChooseSlot, AcquireClient, ConnectFails, DiscoverFails, Finish, IdleLoop, LoopRecord
  <2>2. UNCHANGED <<link, closing, talks, host>>
    BY <1>8 DEF ChooseSlot, AcquireClient, ConnectFails, DiscoverFails
  <2>3. \A s \in Slot : /\ nodes'[s].used = nodes[s].used
                        /\ nodes[s].used => nodes'[s].client = nodes[s].client
    <3>1. nodes' = nodes \/ (findReusable # 0 /\ nodes' = Taken(findReusable))
      BY <1>8 DEF ChooseSlot, AcquireClient, ConnectFails, DiscoverFails
    <3> QED BY <1>0, <3>1, Found DEF Taken, NodeRecord
  <2> QED BY <1>1, <2>1, <2>2, <2>3
<1>9. CASE ConnectOk
  <2>1. /\ loop.client \in Client /\ link[loop.client] = None /\ loop'.client = loop.client
        /\ UNCHANGED <<nodes, closing, talks, host>>
        /\ link' = [link EXCEPT ![loop.client] = loop.addr] /\ host.pc = "idle"
    BY <1>0, <1>9 DEF ConnectOk, WithClient, LoopRecord
  <2>2. loop.client \notin closing /\ loop.client \notin talks
    BY <2>1 DEF Spoken
  <2> QED BY <1>0, <2>1, <2>2 DEF Spoken
<1>10. CASE DiscoverOk
  BY <1>0, <1>1, <1>10 DEF DiscoverOk, LoopRecord
<1>11. CASE DisconnectAndStash
  <2>1. /\ UNCHANGED <<link, talks, host>> /\ loop'.pc = "restart" /\ loop.client # None
        /\ closing' = IF link[loop.client] = None THEN closing ELSE closing \cup {loop.client}
    BY <1>0, <1>11 DEF DisconnectAndStash, Finish, WithClient
  <2>2. \A s \in Slot : /\ nodes'[s].used = nodes[s].used
                        /\ nodes[s].used => nodes'[s].client = nodes[s].client
    <3>1. nodes' = nodes \/ (stashSlot # 0 /\ nodes' = [nodes EXCEPT ![stashSlot].client = loop.client])
      BY <1>11 DEF DisconnectAndStash
    <3> QED BY <1>0, <3>1, Found DEF NodeRecord
  <2>3. \A s \in Slot : nodes[s].client # loop.client
    BY <1>11, <2>1 DEF DisconnectAndStash, IInv, Ownership, ClientsNotShared, Registering
  <2>4. /\ \A s \in Slot : nodes'[s].used => nodes'[s].client \notin closing'
        /\ \A c \in closing' : link[c] # None
    BY <2>1, <2>2, <2>3 DEF Spoken
  <2> QED BY <1>0, <2>1, <2>2, <2>4 DEF Spoken
<1>12. CASE RegisterClient
  <2>1. /\ loop.slot \in Slot /\ ~nodes[loop.slot].used /\ loop.pc = "register"
        /\ loop'.client = loop.client
        /\ UNCHANGED <<link, closing, talks, host>>
    BY <1>0, <1>12 DEF RegisterClient, WithSlot, SlotHeld, Holding, LoopRecord
  <2>2. nodes'[loop.slot].used = nodes[loop.slot].used
    BY <1>0, <1>12, <2>1 DEF RegisterClient, NodeRecord
  <2>3. \A s \in Slot : s # loop.slot => nodes'[s] = nodes[s]
    BY <1>0, <1>12 DEF RegisterClient
  <2> QED BY <1>1, <2>1, <2>2, <2>3
<1>13. CASE RegisterSlot
  <2>1. /\ loop.slot \in Slot /\ loop.pc = "use" /\ loop'.pc = "ready"
        /\ nodes[loop.slot].client = loop.client
        /\ UNCHANGED <<link, closing, talks, host>>
    BY <1>0, <1>13 DEF RegisterSlot, WithSlot, IInv, Ownership, LoopRecord
  <2>2. \A s \in Slot : /\ nodes'[s].client = nodes[s].client
                        /\ nodes[s].used => nodes'[s].used
                        /\ s # loop.slot => nodes'[s].used = nodes[s].used
    <3>1. nodes' = [nodes EXCEPT ![loop.slot].used = TRUE]
      BY <1>13 DEF RegisterSlot
    <3> QED BY <1>0, <2>1, <3>1 DEF NodeRecord
  <2>3. \A s \in Slot : nodes'[s].used => nodes'[s].client \notin closing
    BY <2>1, <2>2 DEF Spoken
  <2> QED BY <1>0, <2>1, <2>2, <2>3 DEF Spoken
<1>14. CASE WriteReady
  <2>1. /\ UNCHANGED <<nodes, link, closing, host>> /\ talks' = Written(loop.slot)
        /\ loop.slot \in Slot /\ loop'.pc \notin Making
    BY <1>0, <1>14 DEF WriteReady, Finish, WithSlot
  <2> QED BY <1>2, <2>1
<1>15. CASE SendWrite
  <2>1. /\ UNCHANGED <<nodes, link, closing, host, loop>> /\ talks' = Written(sender.slot)
        /\ sender.slot \in Slot
    BY <1>0, <1>15 DEF SendWrite, IInv, Control
  <2> QED BY <1>2, <2>1
<1>16. CASE Reboot
  <2>1. \A s \in Slot : nodes'[s] = EmptySlotRecord
    BY <1>16 DEF Reboot
  <2> QED BY <1>16, <2>1 DEF Reboot, Spoken, IdleLoop, IdleHost, EmptySlotRecord
<1>17. (\E a \in Node : Wake(a) \/ Sleep(a) \/ ScanResult(a)) \/ OnNotifyEnds
       \/ (\E a \in Target : SendCheck(a)) \/ UNCHANGED vars
       => Tame /\ UNCHANGED <<link, closing, talks>>
  BY <1>0, Quiet DEF SendCheck, vars
<1> QED
  BY <1>1, <1>3, <1>4, <1>5, <1>6, <1>7, <1>8, <1>9, <1>10, <1>11, <1>12, <1>13, <1>14, <1>15,
     <1>16, <1>17 DEF Next, HostTask, LoopTask

-----------------------------------------------------------------------------
(* A hub that sends nothing to a node it has not just registered: a client *)
(* whose node has been written to is in a slot in use, so that every       *)
(* notification finds a slot.                                              *)
Talking ==
    /\ sender.pc = "idle"
    /\ loop.pc \in {"ready", "write"} => nodes[loop.slot].client \notin closing
    /\ \A c \in talks : \E s \in Slot : nodes[s].used /\ nodes[s].client = c
    /\ host.pc = "notify" => host.slot \in Slot

(* Steps that leave what Talking speaks of alone.                          *)
LEMMA TalkingQuiet ==
    ASSUME Talking, UNCHANGED <<link, closing, talks, sender>>,
           UNCHANGED host \/ host'.pc # "notify",
           loop.pc \in WithSlot => loop.slot \in Slot,
           UNCHANGED loop \/ loop'.pc \notin {"ready", "write"},
           \A s \in Slot : nodes'[s].used = nodes[s].used,
           \A s \in Slot : nodes'[s].client = nodes[s].client \/ (~nodes[s].used /\ ~UNCHANGED loop)
    PROVE  Talking'
<1>1. \A c \in talks : \E s \in Slot : nodes'[s].used /\ nodes'[s].client = c
  BY DEF Talking
<1>2. loop'.pc \in {"ready", "write"} => nodes'[loop'.slot].client \notin closing
  BY DEF Talking, WithSlot
<1> QED BY <1>1, <1>2 DEF Talking

LEMMA TalkingStep ==
    ASSUME Target = {}, IInv, SlotHeld, Links, Spoken, Talking, [Next]_vars
    PROVE  Talking'
<1> USE DEF Spoken, LoopAt, HostAt, SenderAt, table, radio, scan
<1>0. /\ nodes \in [Slot -> NodeRecord] /\ loop \in LoopRecord /\ host \in HostRecord
      /\ link \in [Client -> Node \cup {None}] /\ closing \subseteq Client /\ talks \subseteq Client
      /\ loop.pc \in WithSlot => loop.slot \in Slot
      /\ loop.pc \in WithClient <=> loop.client # None
      /\ None \notin Client /\ None \notin Node
  BY CentralAssumption DEF IInv, TypeOK, Control, Client
<1>1. CASE UNCHANGED <<nodes, loop, link, closing, talks, sender>>
           /\ (UNCHANGED host \/ host'.pc # "notify")
  BY <1>0, <1>1, TalkingQuiet
<1>2. ASSUME NEW c \in Client, LinkLost(c) PROVE Talking'
  <2>1. /\ UNCHANGED <<nodes, loop, sender>> /\ host'.pc = "disconnect"
        /\ closing' = closing \ {c} /\ talks' = talks \ {c} /\ link' = [link EXCEPT ![c] = None]
    BY <1>0, <1>2 DEF LinkLost, HostRecord
  <2> QED BY <1>0, <2>1 DEF Talking
<1>3. ASSUME NEW c \in Client, OnNotify(c) PROVE Talking'
  <2>1. c \in talks
    BY <1>3 DEF OnNotify
  <2>2. /\ findSlotByClient(c) \in Slot
        /\ nodes[findSlotByClient(c)].used
        /\ nodes[findSlotByClient(c)].client = c
    BY <2>1, FoundInUse DEF Talking
  <2>3. /\ UNCHANGED <<nodes, loop, link, closing, talks, sender>>
        /\ host'.pc = "notify" /\ host'.client = c /\ host'.slot = findSlotByClient(c)
    BY <1>0, <1>3, Quiet
  <2> QED BY <2>1, <2>2, <2>3 DEF Talking
<1>4. CASE OnDisconnect
  <2> DEFINE t == findSlotByClient(host.client)
  <2>1. /\ UNCHANGED <<loop, link, closing, talks, sender>> /\ host'.pc = "clear"
        /\ host.client \notin talks
    <3>1. UNCHANGED <<loop, link, closing, talks, sender>> /\ host.pc = "disconnect"
      BY <1>4 DEF OnDisconnect
    <3>2. host' = [host EXCEPT !.pc = "clear", !.slot = t]
      BY <1>4 DEF OnDisconnect
    <3> HIDE DEF t
    <3> QED BY <1>0, <3>1, <3>2 DEF Links, Talking, HostRecord
  <2>2. \A s \in Slot : /\ nodes'[s].client = nodes[s].client
                        /\ nodes'[s].used => nodes[s].used
                        /\ nodes[s].used /\ ~nodes'[s].used => nodes[s].client = host.client
    <3>1. t # 0 => t \in Slot /\ nodes[t].client = host.client
      BY FoundInUse
    <3>2. nodes' = IF t = 0 THEN nodes ELSE [nodes EXCEPT ![t].used = FALSE]
      BY <1>4 DEF OnDisconnect
    <3> HIDE DEF t
    <3> QED BY <1>0, <3>1, <3>2 DEF NodeRecord
  <2>3. \A c \in talks : \E s \in Slot : nodes'[s].used /\ nodes'[s].client = c
    BY <2>1, <2>2 DEF Talking
  <2>4. loop.pc \in {"ready", "write"} => nodes'[loop.slot].client \notin closing
    BY <1>0, <2>2 DEF Talking, WithSlot
  <2> QED BY <2>1, <2>3, <2>4 DEF Talking
<1>5. CASE OnDisconnectEnds
  <2>1. \A s \in Slot : nodes'[s].used = nodes[s].used /\ nodes'[s].client = nodes[s].client
    BY <1>0, <1>5 DEF OnDisconnectEnds, Cleared, NodeRecord
  <2>2. UNCHANGED <<loop, link, closing, talks, sender>> /\ host'.pc = "idle"
    BY <1>5 DEF OnDisconnectEnds, IdleHost
  <2> QED BY <1>0, <2>1, <2>2, TalkingQuiet
<1>6. CASE LoopStart \/ StartScan \/ PopPending \/ StopScan
  <2>1. loop'.pc \notin {"ready", "write"} /\ ~UNCHANGED loop
    <3>1. CASE PopPending
      <4>1. loop' = IdleLoop
            \/ (pendingQueue # <<>> /\ loop' = [loop EXCEPT !.pc = "stop", !.addr = Head(pendingQueue)])
        BY <3>1 DEF PopPending
      <4> DEFINE a == Head(pendingQueue)
      <4>2. loop' = IdleLoop \/ loop' = [loop EXCEPT !.pc = "stop", !.addr = a]
        BY <4>1
      <4>3. loop.pc = "pop"
        BY <3>1 DEF PopPending
      <4>4. loop'.pc \in {"tick", "stop"}
        <5> HIDE DEF a
        <5>1. CASE loop' = IdleLoop
          BY <5>1 DEF IdleLoop
        <5>2. CASE loop' = [loop EXCEPT !.pc = "stop", !.addr = a]
          BY <1>0, <5>2 DEF LoopRecord
        <5> QED BY <4>2, <5>1, <5>2
      <4> QED BY <4>3, <4>4
    <3>2. CASE LoopStart \/ StartScan \/ StopScan
      BY <1>0, <3>2 DEF LoopStart, StartScan, StopScan, IdleLoop, LoopRecord
    <3> QED BY <1>6, <3>1, <3>2
  <2>2. /\ UNCHANGED <<link, closing, talks, sender, host>>
        /\ \A s \in Slot : nodes'[s].used = nodes[s].used /\ nodes'[s].client = nodes[s].client
    <3>1. CASE LoopStart
      BY <1>0, <3>1 DEF LoopStart, NodeRecord
    <3>2. CASE StartScan \/ PopPending \/ StopScan
      BY <3>2 DEF StartScan, PopPending, StopScan
    <3> QED BY <1>6, <3>1, <3>2
  <2> QED BY <1>0, <2>1, <2>2, TalkingQuiet
<1>7. CASE ChooseSlot \/ AcquireClient \/ ConnectFails \/ DiscoverFails
  <2>1. loop'.pc \notin {"ready", "write"} /\ ~UNCHANGED loop
    BY <1>0, <1>7 DEF ChooseSlot, AcquireClient, ConnectFails, DiscoverFails, Finish, IdleLoop, LoopRecord
  <2>2. UNCHANGED <<link, closing, talks, sender, host>>
    BY <1>7 DEF ChooseSlot, AcquireClient, ConnectFails, DiscoverFails
  <2>3. \A s \in Slot : /\ nodes'[s].used = nodes[s].used
                        /\ nodes[s].used => nodes'[s].client = nodes[s].client
    <3>1. nodes' = nodes \/ (findReusable # 0 /\ nodes' = Taken(findReusable))
      BY <1>7 DEF ChooseSlot, AcquireClient, ConnectFails, DiscoverFails
    <3> QED BY <1>0, <3>1, Found DEF Taken, NodeRecord
  <2> QED BY <1>0, <2>1, <2>2, <2>3, TalkingQuiet
<1>8. CASE ConnectOk
  <2>1. loop'.pc = "discover" /\ UNCHANGED <<nodes, closing, talks, sender, host>>
    BY <1>0, <1>8 DEF ConnectOk, LoopRecord
  <2> QED BY <2>1 DEF Talking
<1>9. CASE DiscoverOk
  BY <1>0, <1>9 DEF DiscoverOk, Talking, LoopRecord
<1>10. CASE DisconnectAndStash
  <2>1. UNCHANGED <<talks, sender, host>> /\ loop'.pc = "restart"
    BY <1>0, <1>10 DEF DisconnectAndStash, Finish
  <2>2. \A s \in Slot : /\ nodes'[s].used = nodes[s].used
                        /\ nodes[s].used => nodes'[s].client = nodes[s].client
    <3>1. nodes' = nodes \/ (stashSlot # 0 /\ nodes' = [nodes EXCEPT ![stashSlot].client = loop.client])
      BY <1>10 DEF DisconnectAndStash
    <3> QED BY <1>0, <3>1, Found DEF NodeRecord
  <2>3. \A c \in talks : \E s \in Slot : nodes'[s].used /\ nodes'[s].client = c
    BY <2>2 DEF Talking
  <2> QED BY <2>1, <2>3 DEF Talking
<1>11. CASE RegisterClient
  <2>1. /\ loop.slot \in Slot /\ ~nodes[loop.slot].used /\ loop.pc = "register"
        /\ loop'.pc = "use" /\ loop'.client = loop.client
        /\ UNCHANGED <<link, closing, talks, sender, host>>
    BY <1>0, <1>11 DEF RegisterClient, WithSlot, SlotHeld, Holding, LoopRecord
  <2>2. \A s \in Slot : /\ nodes'[s].used = nodes[s].used
                        /\ nodes[s].used => nodes'[s].client = nodes[s].client
    <3>1. nodes'[loop.slot].used = nodes[loop.slot].used
      BY <1>0, <1>11, <2>1 DEF RegisterClient, NodeRecord
    <3>2. \A s \in Slot : s # loop.slot => nodes'[s] = nodes[s]
      BY <1>0, <1>11 DEF RegisterClient
    <3> QED BY <2>1, <3>1, <3>2
  <2>3. \A c \in talks : \E s \in Slot : nodes'[s].used /\ nodes'[s].client = c
    BY <2>2 DEF Talking
  <2> QED BY <2>1, <2>2, <2>3 DEF Talking
<1>12. CASE RegisterSlot
  <2>1. /\ loop.slot \in Slot /\ loop.pc = "use" /\ loop'.pc = "ready" /\ loop'.slot = loop.slot
        /\ nodes[loop.slot].client = loop.client
        /\ UNCHANGED <<link, closing, talks, sender, host>>
    BY <1>0, <1>12 DEF RegisterSlot, WithSlot, IInv, Ownership, LoopRecord
  <2>2. \A s \in Slot : /\ nodes'[s].client = nodes[s].client
                        /\ nodes[s].used => nodes'[s].used
                        /\ s # loop.slot => nodes'[s].used = nodes[s].used
    <3>1. nodes' = [nodes EXCEPT ![loop.slot].used = TRUE]
      BY <1>12 DEF RegisterSlot
    <3> HIDE DEF Spoken, LoopAt, HostAt, SenderAt, table, radio, scan
    <3> QED BY <1>0, <2>1, <3>1 DEF NodeRecord
  <2>3. \A c \in talks : \E s \in Slot : nodes'[s].used /\ nodes'[s].client = c
    BY <2>2 DEF Talking
  <2>4. loop.client \notin closing
    BY <2>1 DEF Talking
  <2> QED BY <2>1, <2>2, <2>3, <2>4 DEF Talking
<1>13. CASE CheckReady
  <2>1. /\ UNCHANGED <<nodes, link, closing, talks, sender, host>> /\ loop.pc = "ready"
        /\ loop'.pc \in {"write", "restart"} /\ (loop'.pc = "write" => loop'.slot = loop.slot)
    BY <1>0, <1>13 DEF CheckReady, Finish, IdleLoop, LoopRecord
  <2> QED BY <2>1 DEF Talking
<1>14. CASE WriteReady
  <2>1. /\ UNCHANGED <<nodes, link, closing, sender, host>> /\ loop.pc = "write"
        /\ loop'.pc = "restart" /\ talks' = Written(loop.slot) /\ loop.client = None
    BY <1>0, <1>14 DEF WriteReady, Finish, WithClient
  <2>2. \A c \in talks' : \E s \in Slot : nodes[s].used /\ nodes[s].client = c
    <3> SUFFICES ASSUME NEW c \in talks', c \notin talks
                 PROVE  \E s \in Slot : nodes[s].used /\ nodes[s].client = c
      BY DEF Talking
    <3>1. c \in Client /\ nodes[loop.slot].client = c /\ link[c] # None
      BY <2>1 DEF Written
    <3>2. c \notin closing /\ c # loop.client
      BY <1>0, <2>1, <3>1 DEF Talking
    <3> QED BY <3>1, <3>2 DEF Links, NoOrphanLink
  <2> QED BY <2>1, <2>2 DEF Talking
<1>15. CASE Reboot
  <2>1. \A s \in Slot : nodes'[s] = EmptySlotRecord
    BY <1>15 DEF Reboot
  <2> QED BY <1>15, <2>1 DEF Reboot, Talking, IdleLoop, IdleHost, IdleSender, EmptySlotRecord
<1>16. (\E a \in Node : Wake(a) \/ Sleep(a) \/ ScanResult(a)) \/ OnNotifyEnds \/ PushResult
       \/ UNCHANGED vars
       => /\ UNCHANGED <<nodes, loop, link, closing, talks, sender>>
          /\ UNCHANGED host \/ host'.pc # "notify"
  BY <1>0, Quiet DEF PushResult, IdleHost, vars
<1>17. ~SendWrite /\ ~(\E a \in Target : SendCheck(a))
  BY DEF SendWrite, Talking
<1> QED
  BY <1>1, <1>2, <1>3, <1>4, <1>5, <1>6, <1>7, <1>8, <1>9, <1>10, <1>11, <1>12, <1>13, <1>14, <1>15,
     <1>16, <1>17 DEF Next, HostTask, LoopTask

-----------------------------------------------------------------------------
(* What the theorems below rest on, in every reachable state. *)
LinkInv == IInv /\ SlotHeld /\ Links /\ Late /\ NotQueued /\ AllRemembered /\ Spoken

THEOREM LinkInvariance == Spec => []LinkInv
<1>1. ASSUME Init PROVE SlotHeld /\ Links /\ Late /\ NotQueued /\ AllRemembered /\ Spoken
  BY <1>1, CentralAssumption
  DEF Init, HubInit, IdleLoop, IdleHost, SlotHeld, Holding, Links, NoOrphanLink, Late, NotQueued,
      PendingDistinct, AllRemembered, Spoken
<1>2. LinkInv /\ IInv' /\ [Next]_vars => LinkInv'
  BY SlotHeldStep, LinksStep, LateStep, NotQueuedStep, RememberedStep, SpokenStep DEF LinkInv
<1>3. IInv /\ Init => LinkInv
  BY <1>1 DEF LinkInv
<1> QED BY <1>2, <1>3, Invariance, PTL DEF Spec

(* However the end of a link falls between the steps of connecting,        *)
(* registering and stashing, every link is registered, being set up or     *)
(* being closed (ble_connection.cpp:75-139).                               *)
THEOREM LinksAccountedFor == Spec => []NoOrphanLink
<1>1. LinkInv => NoOrphanLink
  BY DEF LinkInv, Links
<1> QED BY <1>1, LinkInvariance, PTL

(* The second assignment of onDisconnect, made without a lock, never hits  *)
(* a slot of a new connection (ble_connection.cpp:45-56, 99-104).          *)
THEOREM ClearedInTime == Spec => []NoLateClear
<1>1. LinkInv => NoLateClear
  BY DEF LinkInv, Late, NoLateClear, Registering
<1> QED BY <1>1, LinkInvariance, PTL

(* A failed connection never leaks its client object: there is always a    *)
(* slot to leave it in (ble_connection.cpp:65-78).                         *)
THEOREM ClientsNeverLeaked == Spec => []StashFindsPlace
<1>1. IInv => StashFindsPlace
  BY StashByCounting
<1> QED BY <1>1, Invariance, PTL

(* The check and the push of onResult, two steps with pops between them,   *)
(* never queue an address twice (ble_connection.cpp:15-36).                *)
THEOREM QueuedOnce == Spec => []PendingDistinct
<1>1. LinkInv => PendingDistinct
  BY DEF LinkInv, NotQueued
<1> QED BY <1>1, LinkInvariance, PTL

(* A node the scan has reported, and reports only once, is followed by a   *)
(* new scan unless the table is full or has it, however full pendingQueue  *)
(* was and wherever the attempt to connect failed (ble_connection.cpp:     *)
(* 25-56, 151-158, ble_central.cpp:105-114).                               *)
THEOREM NeverForgotten == Spec => []NoneForgotten
<1>1. LinkInv => NoneForgotten
  BY DEF LinkInv, AllRemembered, Remembered, NoneForgotten, ScanWillRestart
<1> QED BY <1>1, LinkInvariance, PTL

(* A slot that was found belongs to the sender.                            *)
Labelled ==
    (host.pc = "notify" /\ host.slot # 0) =>
        /\ nodes[host.slot].used
        /\ nodes[host.slot].client = host.client
        /\ nodes[host.slot].addr = link[host.client]

LEMMA LabelledByLinks == LinkInv => Labelled
<1> SUFFICES ASSUME LinkInv, host.pc = "notify", host.slot # 0
             PROVE  /\ nodes[host.slot].used /\ nodes[host.slot].client = host.client
                    /\ nodes[host.slot].addr = link[host.client]
  BY DEF Labelled
<1>1. host.slot \in Slot /\ ClientsNotShared
  BY DEF LinkInv, IInv, TypeOK, Ownership, HostRecord
<1>2. host.client \in Client /\ host.client # None
  <2>1. host.client \in talks /\ talks \subseteq Client
    BY DEF LinkInv, IInv, TypeOK, Spoken
  <2>2. None \notin Client
    BY CentralAssumption DEF Client
  <2> QED BY <2>1, <2>2
<1>3. /\ nodes[host.slot].used /\ nodes[host.slot].client = host.client
      /\ link[host.client] # None /\ host.client \notin closing
  BY <1>1 DEF LinkInv, Spoken
<1>4. host.client # loop.client
  BY <1>1, <1>2, <1>3 DEF ClientsNotShared, Registering, LinkInv, SlotHeld, Holding
<1>5. PICK s \in Slot : nodes[s].client = host.client /\ nodes[s].addr = link[host.client]
  BY <1>1, <1>2, <1>3, <1>4 DEF LinkInv, Links, NoOrphanLink
<1> QED BY <1>1, <1>2, <1>3, <1>5 DEF ClientsNotShared

(* The client that a report's signal strength is asked from is not null,   *)
(* although the callback takes no lock (ble_data.cpp:40).                  *)
THEOREM NotifyNeverCrashes == Spec => [][OnNotifyEnds => up']_vars
<1>1. LinkInv /\ OnNotifyEnds => up'
  <2> SUFFICES ASSUME LinkInv, OnNotifyEnds, host.slot # 0
               PROVE  nodes[host.slot].client # None
    BY DEF OnNotifyEnds
  <2>1. nodes[host.slot].client = host.client
    BY LabelledByLinks DEF OnNotifyEnds, HostAt, Labelled
  <2>2. host.client \in Client
    BY DEF OnNotifyEnds, HostAt, LinkInv, Spoken, IInv, TypeOK
  <2> QED BY <2>1, <2>2, CentralAssumption DEF Client
<1>2. LinkInv => [OnNotifyEnds => up']_vars
  BY <1>1
<1> QED BY <1>2, LinkInvariance, PTL

(* A node that nobody writes to before it is registered speaks only after  *)
(* it is.                                                                  *)
LEMMA RegisteredSpeak ==
    ASSUME Target = {}
    PROVE  Spec => []Talking
<1>1. Init => Talking
  BY CentralAssumption DEF Init, HubInit, Talking, IdleLoop, IdleHost, IdleSender
<1>2. LinkInv /\ Talking /\ [Next]_vars => Talking'
  BY TalkingStep DEF LinkInv
<1> QED BY <1>1, <1>2, LinkInvariance, PTL DEF Spec

(* A notification that is labelled carries the address of the node that    *)
(* sent it, whichever commands are sent while slots are freed, filled and  *)
(* reused; and if none is sent, every notification is labelled             *)
(* (ble_data.cpp:12-15, 29-42, 73-95).                                     *)
THEOREM LabelsCorrect == Spec => []NotificationAttributed
<1>1. CASE Target = {}
  <2>1. LinkInv /\ Talking => NotificationAttributed
    BY LabelledByLinks, CentralAssumption
    DEF Talking, Labelled, NotificationAttributed, Slot
  <2> QED BY <1>1, <2>1, RegisteredSpeak, LinkInvariance, PTL
<1>2. CASE Target # {}
  <2>1. LinkInv => NotificationAttributed
    BY <1>2, LabelledByLinks DEF Labelled, NotificationAttributed
  <2> QED BY <2>1, LinkInvariance, PTL
<1> QED BY <1>1, <1>2

=============================================================================
