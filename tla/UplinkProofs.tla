---------------------------- MODULE UplinkProofs ----------------------------
(***************************************************************************)
(* Every notification is accounted for, the broker gets each kind in       *)
(* order, and the flag connected agrees with the client: for every         *)
(* capacity of the two queues and any number of notifications.             *)
(***************************************************************************)
EXTENDS Uplink, SequenceTheorems, TLAPS

(* The loop task holds a notification exactly between taking it out and    *)
(* the end of its publication.                                             *)
Holding == loop.pc \in {"test", "publish"} <=> loop.note # None

Types == TypeOK /\ Holding

LEMMA TypesInit == Init => Types
<1> SUFFICES ASSUME Init PROVE Types
  OBVIOUS
<1>1. /\ queue \in [Kind -> Seq(Id)]
      /\ \A k \in Kind : Len(queue[k]) <= Capacity(k)
  BY UplinkAssumption DEF Init, Empty, Capacity
<1>2. loop \in LoopRecord /\ Holding
  BY UplinkAssumption DEF Init, Setup, LoopRecord, Holding, Kind
<1>3. notes \in Seq(Kind) /\ Len(notes) <= MaxNotes /\ broker \in Seq(Id)
  BY UplinkAssumption DEF Init
<1> QED BY <1>1, <1>2, <1>3 DEF Init, Types, TypeOK, MqttState, Fates

(* Every step keeps the types, the capacities, and Holding.                *)
LEMMA TypesStep ==
    ASSUME Types, [Next]_vars
    PROVE  Types'
<1> USE UplinkAssumption DEF Types, TypeOK, Holding
<1>1. ASSUME NEW k \in Kind, Notify(k) PROVE Types'
  <2>1. Len(notes) + 1 \in Id
    BY <1>1 DEF Notify, Id
  <2>2. notes' \in Seq(Kind) /\ Len(notes') = Len(notes) + 1
    BY <1>1 DEF Notify
  <2>3. /\ queue' \in [Kind -> Seq(Id)]
        /\ \A q \in Kind : Len(queue'[q]) <= Capacity(q)
    <3>1. CASE Room(k)
      <4>1. queue' = [queue EXCEPT ![k] = Append(queue[k], Len(notes) + 1)]
        BY <1>1, <3>1 DEF Notify
      <4>2. /\ Append(queue[k], Len(notes) + 1) \in Seq(Id)
            /\ Len(Append(queue[k], Len(notes) + 1)) = Len(queue[k]) + 1
        BY <2>1
      <4>3. Len(queue[k]) + 1 <= Capacity(k)
        BY <3>1 DEF Room, Capacity
      <4> QED BY <4>1, <4>2, <4>3
    <3>2. CASE ~Room(k)
      BY <1>1, <3>2 DEF Notify
    <3> QED BY <3>1, <3>2
  <2>4. fate' \in [Id -> Fates]
    BY <1>1, <2>1 DEF Notify, Fates
  <2>5. /\ UNCHANGED <<loop, mqtt, running, link, connected, wifi, alive, broker>>
        /\ Len(notes') <= MaxNotes
    BY <1>1, <2>2 DEF Notify, client
  <2> QED BY <2>2, <2>3, <2>4, <2>5
<1>2. CASE MqttInit
  BY <1>2 DEF MqttInit, Start, client, hist, LoopRecord, MqttState
<1>3. CASE BleLoop
  BY <1>3 DEF BleLoop, client, hist, LoopRecord
<1>4. CASE MqttLoop
  <2>1. loop' \in LoopRecord /\ Holding'
    BY <1>4 DEF MqttLoop, LoopRecord
  <2>2. mqtt' \in MqttState /\ running' \in BOOLEAN /\ link' \in {"none", "open", "subscribed"}
    BY <1>4 DEF MqttLoop, Start, client, MqttState
  <2>3. UNCHANGED <<queue, connected, wifi, alive, notes, fate, broker>>
    BY <1>4 DEF MqttLoop, hist
  <2> QED BY <2>1, <2>2, <2>3
<1>5. CASE Stopped
  BY <1>5 DEF Stopped, client, hist, LoopRecord
<1>6. CASE Take
  <2> DEFINE k == loop.kind
  <2>1. k \in Kind /\ queue[k] \in Seq(Id) /\ queue[k] # <<>>
    BY <1>6 DEF Take, LoopRecord
  <2>2. /\ Head(queue[k]) \in Id
        /\ Tail(queue[k]) \in Seq(Id)
        /\ Len(Tail(queue[k])) = Len(queue[k]) - 1
    BY <2>1, HeadTailProperties
  <2>3. queue' = [queue EXCEPT ![k] = Tail(queue[k])]
    BY <1>6 DEF Take
  <2>4. /\ queue' \in [Kind -> Seq(Id)]
        /\ \A q \in Kind : Len(queue'[q]) <= Capacity(q)
    BY <2>1, <2>2, <2>3 DEF Capacity
  <2>5. loop' = [loop EXCEPT !.pc = "test", !.note = Head(queue[k])]
    BY <1>6 DEF Take
  <2>6. loop' \in LoopRecord /\ Holding'
    <3>1. Head(queue[k]) \in Id /\ Head(queue[k]) # None
      BY <2>2 DEF Id
    <3>2. loop \in LoopRecord
      OBVIOUS
    <3> HIDE DEF k, Types, TypeOK
    <3> QED BY <2>5, <3>1, <3>2 DEF LoopRecord
  <2> QED BY <1>6, <2>4, <2>6 DEF Take, client, hist
<1>7. CASE Drained
  BY <1>7 DEF Drained, client, hist, LoopRecord, Kind
<1>8. CASE TestConnected
  <2>1. loop.note \in Id
    BY <1>8 DEF TestConnected, LoopRecord
  <2>2. loop' \in LoopRecord /\ Holding'
    BY <1>8 DEF TestConnected, LoopRecord
  <2>3. fate' \in [Id -> Fates]
    BY <1>8, <2>1 DEF TestConnected, Fates
  <2> QED BY <1>8, <2>2, <2>3 DEF TestConnected, client
<1>9. CASE Publish
  <2>1. loop.note \in Id
    BY <1>9 DEF Publish, LoopRecord
  <2>2. loop' \in LoopRecord /\ Holding'
    BY <1>9 DEF Publish, LoopRecord
  <2>3. fate' \in [Id -> Fates] /\ broker' \in Seq(Id)
    <3>1. CASE alive
      <4>1. fate' \in [Id -> Fates]
        BY <1>9, <2>1, <3>1 DEF Publish, Fates
      <4>2. broker' \in Seq(Id)
        BY <1>9, <2>1, <3>1 DEF Publish
      <4> QED BY <4>1, <4>2
    <3>2. CASE ~alive
      BY <1>9, <2>1, <3>2 DEF Publish, Fates
    <3> QED BY <3>1, <3>2
  <2> QED BY <1>9, <2>2, <2>3 DEF Publish, client
<1>10. CASE MqttTask \/ StatusRequest
  BY <1>10
  DEF MqttTask, Connect, OnConnected, Subscribe, NoticeLoss, OnDisconnected, StatusAnswer,
      TaskEnds, StatusRequest, hist, MqttState
<1>11. CASE WifiDown \/ WifiUp \/ SessionDies
  BY <1>11 DEF WifiDown, WifiUp, SessionDies, client, hist
<1>12. CASE Restart
  <2>1. queue' \in [Kind -> Seq(Id)] /\ \A q \in Kind : Len(queue'[q]) <= Capacity(q)
    BY <1>12 DEF Restart, Empty, Capacity
  <2>2. fate' \in [Id -> Fates]
    BY <1>12 DEF Restart, Fates
  <2> QED BY <1>12, <2>1, <2>2 DEF Restart, Setup, LoopRecord, MqttState, Kind
<1>13. CASE UNCHANGED vars
  BY <1>13 DEF vars
<1> QED
  BY <1>1, <1>2, <1>3, <1>4, <1>5, <1>6, <1>7, <1>8, <1>9, <1>10, <1>11, <1>12, <1>13
  DEF Next, LoopTask

(* Types is an invariant, and TypeOK with it: the capacities are kept      *)
(* whatever the nodes send (ble_data.cpp:8-9, 44-60).                      *)
THEOREM TypeCorrect == Spec => []TypeOK
<1>1. Init => Types
  BY TypesInit
<1>2. Types /\ [Next]_vars => Types'
  BY TypesStep
<1>3. Types => TypeOK
  BY DEF Types
<1> QED BY <1>1, <1>2, <1>3, PTL DEF Spec

LEMMA TypesAlways == Spec => []Types
<1>1. Types /\ [Next]_vars => Types'
  BY TypesStep
<1> QED BY <1>1, TypesInit, PTL DEF Spec

-----------------------------------------------------------------------------
(* The client's task, the flag and the loop task.  A client that runs no   *)
(* longer is being waited for; without a session, or before the CONNECTED  *)
(* event, there is no subscription.                                        *)
Session ==
    /\ mqtt = "off" => link = "none"
    /\ mqtt = "connected" => link = "open"
    /\ mqtt = "subscribe" => connected
    /\ mqtt = "disconnected" => link = "none"
    /\ (mqtt # "off" /\ ~running) => loop.pc = "stop"

SessionInv == Session /\ ConnectedAgrees

LEMMA SessionStep ==
    ASSUME Types, SessionInv, [Next]_vars
    PROVE  SessionInv'
<1> USE DEF SessionInv, Session, ConnectedAgrees
<1>0. loop \in LoopRecord /\ mqtt \in MqttState /\ link \in {"none", "open", "subscribed"}
  BY DEF Types, TypeOK
<1>1. ASSUME NEW k \in Kind, Notify(k) PROVE SessionInv'
  BY <1>1 DEF Notify, client
<1>2. CASE MqttInit
  BY <1>0, <1>2 DEF MqttInit, Start, client, LoopRecord
<1>3. CASE BleLoop
  BY <1>0, <1>3 DEF BleLoop, client, LoopRecord
<1>4. CASE MqttLoop
  BY <1>0, <1>4 DEF MqttLoop, Start, client, LoopRecord
<1>5. CASE Stopped
  BY <1>0, <1>5 DEF Stopped, client, LoopRecord
<1>6. CASE Take
  BY <1>0, <1>6 DEF Take, client, LoopRecord
<1>7. CASE Drained
  BY <1>0, <1>7 DEF Drained, client, LoopRecord
<1>8. CASE TestConnected
  BY <1>0, <1>8 DEF TestConnected, client, LoopRecord
<1>9. CASE Publish
  BY <1>0, <1>9 DEF Publish, client, LoopRecord
<1>10. CASE MqttTask \/ StatusRequest
  BY <1>10
  DEF MqttTask, Connect, OnConnected, Subscribe, NoticeLoss, OnDisconnected, StatusAnswer,
      TaskEnds, StatusRequest
<1>11. CASE WifiDown \/ WifiUp \/ SessionDies
  BY <1>11 DEF WifiDown, WifiUp, SessionDies, client
<1>12. CASE Restart
  BY <1>12 DEF Restart, Setup
<1>13. CASE UNCHANGED vars
  BY <1>13 DEF vars
<1> QED
  BY <1>1, <1>2, <1>3, <1>4, <1>5, <1>6, <1>7, <1>8, <1>9, <1>10, <1>11, <1>12, <1>13
  DEF Next, LoopTask

(* The flag that two tasks write without a lock agrees with the client, in *)
(* every interleaving of events, WiFi losses and restarts                  *)
(* (mqtt_handler.cpp:31-40, 99-119).                                       *)
THEOREM FlagCorrect == Spec => []ConnectedAgrees
<1>1. Init => SessionInv
  BY DEF Init, SessionInv, Session, ConnectedAgrees
<1>2. Types /\ SessionInv /\ [Next]_vars => SessionInv'
  BY SessionStep
<1>3. SessionInv => ConnectedAgrees
  BY DEF SessionInv
<1> QED BY <1>1, <1>2, <1>3, TypesAlways, PTL DEF Spec

-----------------------------------------------------------------------------
(* What the queues, the hand of the loop task and the broker hold.  Every  *)
(* queue is sorted by arrival; the hand is older than its queue, and what  *)
(* the broker got is older than both.                                      *)
RightKind ==
    /\ \A k \in Kind : \A i \in 1 .. Len(queue[k]) :
          queue[k][i] <= Len(notes) /\ notes[queue[k][i]] = k
    /\ loop.note # None => loop.note <= Len(notes) /\ notes[loop.note] = loop.kind
    /\ \A i \in 1 .. Len(broker) : broker[i] <= Len(notes)

Untouched == \A c \in Id : c > Len(notes) => fate[c] = "open"

Sorted ==
    /\ \A k \in Kind : \A i, j \in 1 .. Len(queue[k]) : i < j => queue[k][i] < queue[k][j]
    /\ loop.note # None =>
          \A i \in 1 .. Len(queue[loop.kind]) : loop.note < queue[loop.kind][i]

BrokerFirst ==
    /\ \A k \in Kind : \A i \in 1 .. Len(broker) : \A j \in 1 .. Len(queue[k]) :
          notes[broker[i]] = k => broker[i] < queue[k][j]
    /\ loop.note # None =>
          \A i \in 1 .. Len(broker) : notes[broker[i]] = loop.kind => broker[i] < loop.note

QueueInv ==
    /\ RightKind
    /\ Untouched
    /\ Sorted
    /\ BrokerFirst
    /\ Accounted
    /\ BrokerOrder

(* A step that moves no notification keeps all of it.                      *)
LEMMA QueueQuiet ==
    ASSUME QueueInv, UNCHANGED <<queue, notes, fate, broker>>,
           loop'.note = loop.note, loop'.note # None => loop'.kind = loop.kind
    PROVE  QueueInv'
  BY DEF QueueInv, RightKind, Untouched, Sorted, BrokerFirst, Accounted, Queued, BrokerOrder

LEMMA QueueNotify ==
    ASSUME Types, QueueInv, NEW k \in Kind, Notify(k)
    PROVE  QueueInv'
<1> DEFINE c == Len(notes) + 1
<1>0. /\ queue \in [Kind -> Seq(Id)] /\ notes \in Seq(Kind) /\ broker \in Seq(Id)
      /\ Len(notes) < MaxNotes /\ fate \in [Id -> Fates]
      /\ loop.note \in Id \cup {None} /\ loop.kind \in Kind
      /\ MaxNotes \in Nat /\ Len(notes) \in Nat /\ None \notin Nat
  BY UplinkAssumption DEF Types, TypeOK, LoopRecord, Notify
<1>1. c \in Id /\ fate[c] = "open"
  BY <1>0 DEF QueueInv, Untouched, Id
<1>2. /\ Len(notes') = c /\ notes'[c] = k
      /\ \A d \in 1 .. Len(notes) : notes'[d] = notes[d]
  BY <1>0 DEF Notify
<1>3. loop' = loop /\ broker' = broker
  BY DEF Notify
<1>4. /\ \A q \in Kind : \A i \in 1 .. Len(queue[q]) :
            queue[q][i] \in 1 .. Len(notes) /\ notes'[queue[q][i]] = q
      /\ loop.note # None => loop.note \in 1 .. Len(notes) /\ notes'[loop.note] = loop.kind
      /\ \A i \in 1 .. Len(broker) :
            broker[i] \in 1 .. Len(notes) /\ notes'[broker[i]] = notes[broker[i]]
  <2>1. /\ \A q \in Kind : \A i \in 1 .. Len(queue[q]) : queue[q][i] \in Id
        /\ \A i \in 1 .. Len(broker) : broker[i] \in Id
    BY <1>0
  <2>2. \A d \in Id : d <= Len(notes) => d \in 1 .. Len(notes)
    BY <1>0 DEF Id
  <2> QED BY <1>0, <1>2, <2>1, <2>2 DEF QueueInv, RightKind
<1>7. \A d \in 1 .. Len(notes) : d \in Nat /\ d < c /\ d # c /\ d # None /\ d <= c
  BY <1>0
<1>8. c \in Nat /\ c # None /\ c <= c
  BY <1>0
<1>9. ~Queued(c) /\ loop.note # c
  <2>1. ~Queued(c)
    BY <1>4, <1>7 DEF Queued
  <2>2. loop.note # c
    BY <1>4, <1>7, <1>8
  <2> QED BY <2>1, <2>2
<1> HIDE DEF c
<1>5. CASE Room(k)
  <2>1. /\ queue' = [queue EXCEPT ![k] = Append(queue[k], c)]
        /\ fate' = fate
    BY <1>5 DEF Notify, c
  <2>2. /\ queue'[k] = Append(queue[k], c)
        /\ \A q \in Kind : q # k => queue'[q] = queue[q]
    BY <1>0, <2>1
  <2>3. /\ Len(queue'[k]) = Len(queue[k]) + 1
        /\ queue'[k][Len(queue[k]) + 1] = c
        /\ \A i \in 1 .. Len(queue[k]) : queue'[k][i] = queue[k][i]
        /\ Len(queue[k]) \in Nat
    BY <1>0, <1>1, <2>2
  <2>4. \A q \in Kind : \A i \in 1 .. Len(queue'[q]) :
           \/ i \in 1 .. Len(queue[q]) /\ queue'[q][i] = queue[q][i]
           \/ q = k /\ i = Len(queue[k]) + 1 /\ queue'[q][i] = c
    BY <2>2, <2>3
  <2>5. RightKind'
    <3>1. \A q \in Kind : \A i \in 1 .. Len(queue'[q]) :
            queue'[q][i] <= c /\ notes'[queue'[q][i]] = q
      BY <1>2, <1>4, <1>7, <1>8, <2>4
    <3>2. /\ loop.note # None => loop.note <= c /\ notes'[loop.note] = loop.kind
          /\ \A i \in 1 .. Len(broker) : broker[i] <= c
      BY <1>4, <1>7
    <3> QED BY <1>2, <1>3, <3>1, <3>2 DEF RightKind
  <2>6. Untouched'
    BY <1>0, <1>2, <2>1 DEF QueueInv, Untouched, Id, c
  <2>7. Sorted'
    <3>1. ASSUME NEW q \in Kind, NEW i \in 1 .. Len(queue'[q]),
                 NEW j \in 1 .. Len(queue'[q]), i < j
          PROVE  queue'[q][i] < queue'[q][j]
      <4>1. CASE j \in 1 .. Len(queue[q])
        <5>1. i \in 1 .. Len(queue[q])
          BY <1>0, <3>1, <4>1
        <5>2. queue'[q][i] = queue[q][i] /\ queue'[q][j] = queue[q][j]
          BY <2>2, <2>3, <4>1, <5>1
        <5> QED BY <3>1, <4>1, <5>1, <5>2 DEF QueueInv, Sorted
      <4>2. CASE q = k /\ j = Len(queue[k]) + 1
        <5>1. i \in 1 .. Len(queue[q])
          BY <1>0, <3>1, <4>2
        <5> QED BY <1>4, <1>7, <2>3, <4>2, <5>1
      <4> QED BY <2>4, <4>1, <4>2
    <3>2. ASSUME loop.note # None, NEW i \in 1 .. Len(queue'[loop.kind])
          PROVE  loop.note < queue'[loop.kind][i]
      <4>1. CASE i \in 1 .. Len(queue[loop.kind]) /\ queue'[loop.kind][i] = queue[loop.kind][i]
        BY <3>2, <4>1 DEF QueueInv, Sorted
      <4>2. CASE queue'[loop.kind][i] = c
        BY <1>4, <1>7, <3>2, <4>2
      <4> QED BY <1>0, <2>4, <4>1, <4>2
    <3> QED BY <1>3, <3>1, <3>2 DEF Sorted
  <2>8. BrokerFirst'
    <3>1. ASSUME NEW q \in Kind, NEW i \in 1 .. Len(broker),
                 NEW j \in 1 .. Len(queue'[q]), notes[broker[i]] = q
          PROVE  broker[i] < queue'[q][j]
      <4>1. CASE j \in 1 .. Len(queue[q]) /\ queue'[q][j] = queue[q][j]
        BY <3>1, <4>1 DEF QueueInv, BrokerFirst
      <4>2. CASE queue'[q][j] = c
        BY <1>4, <1>7, <4>2
      <4> QED BY <2>4, <4>1, <4>2
    <3> QED BY <1>3, <1>4, <3>1 DEF QueueInv, BrokerFirst
  <2>9. Accounted'
    <3>1. \A d \in Id : Queued(d)' <=> (Queued(d) \/ d = c)
      <4> TAKE d \in Id
      <4>1. Queued(d) => Queued(d)'
        BY <2>2, <2>3 DEF Queued
      <4>2. d = c => Queued(d)'
        BY <2>3 DEF Queued
      <4>3. Queued(d)' => Queued(d) \/ d = c
        BY <2>4 DEF Queued
      <4> QED BY <4>1, <4>2, <4>3
    <3>2. \A d \in Id : d <= c <=> (d <= Len(notes) \/ d = c)
      BY <1>0 DEF Id, c
    <3> QED
      BY <1>1, <1>2, <1>3, <1>9, <2>1, <3>1, <3>2 DEF QueueInv, Accounted
  <2>10. BrokerOrder'
    BY <1>3, <1>4 DEF QueueInv, BrokerOrder
  <2> QED BY <2>5, <2>6, <2>7, <2>8, <2>9, <2>10 DEF QueueInv
<1>6. CASE ~Room(k)
  <2>1. queue' = queue /\ fate' = [fate EXCEPT ![c] = "full"]
    BY <1>6 DEF Notify, c
  <2>3. Accounted'
    <3>1. \A d \in Id : Queued(d)' <=> Queued(d)
      BY <2>1 DEF Queued
    <3>2. \A d \in Id : d <= c <=> (d <= Len(notes) \/ d = c)
      BY <1>0 DEF Id, c
    <3>3. fate' \in [Id -> Fates] /\ fate'[c] = "full" /\ \A d \in Id \ {c} : fate'[d] = fate[d]
      BY <1>0, <1>1, <2>1 DEF Fates
    <3> QED
      BY <1>1, <1>2, <1>3, <1>9, <3>1, <3>2, <3>3 DEF QueueInv, Accounted
  <2>4. RightKind'
    BY <1>2, <1>3, <1>4, <1>7, <2>1 DEF RightKind
  <2>5. Untouched'
    BY <1>0, <1>1, <1>2, <2>1 DEF QueueInv, Untouched, Id, c
  <2>6. Sorted' /\ BrokerOrder'
    BY <1>3, <1>4, <2>1 DEF QueueInv, Sorted, BrokerOrder
  <2>7. BrokerFirst'
    BY <1>3, <1>4, <2>1 DEF QueueInv, BrokerFirst
  <2> QED BY <2>3, <2>4, <2>5, <2>6, <2>7 DEF QueueInv
<1> QED BY <1>5, <1>6

LEMMA QueueTake ==
    ASSUME Types, QueueInv, Take
    PROVE  QueueInv'
<1> DEFINE k == loop.kind
           h == Head(queue[k])
<1>0. /\ queue \in [Kind -> Seq(Id)] /\ loop \in LoopRecord
      /\ k \in Kind /\ queue[k] \in Seq(Id) /\ queue[k] # <<>>
      /\ loop.note = None /\ None \notin Nat
      /\ \A q \in Kind : Len(queue[q]) \in Nat
  BY UplinkAssumption DEF Types, TypeOK, Holding, LoopRecord, Take
<1>1. /\ h = queue[k][1] /\ h \in Id /\ h # None
      /\ Len(Tail(queue[k])) = Len(queue[k]) - 1
      /\ Len(queue[k]) \in Nat \ {0}
      /\ \A i \in 1 .. Len(queue[k]) - 1 : Tail(queue[k])[i] = queue[k][i + 1]
  <2>1. Len(queue[k]) \in Nat \ {0}
    BY <1>0, EmptySeq
  <2>2. /\ h = queue[k][1] /\ h \in Id
        /\ Len(Tail(queue[k])) = Len(queue[k]) - 1
        /\ \A i \in 1 .. Len(Tail(queue[k])) : Tail(queue[k])[i] = queue[k][i + 1]
    BY <1>0, HeadTailProperties
  <2>3. h # None
    BY <1>0, <2>2 DEF Id
  <2> QED BY <2>1, <2>2, <2>3
<1>2. /\ queue' = [queue EXCEPT ![k] = Tail(queue[k])]
      /\ loop' = [loop EXCEPT !.pc = "test", !.note = h]
      /\ UNCHANGED <<notes, fate, broker>>
  BY DEF Take, hist
<1>3. /\ queue'[k] = Tail(queue[k])
      /\ \A q \in Kind : q # k => queue'[q] = queue[q]
      /\ loop'.note = h /\ loop'.kind = k
  BY <1>0, <1>2 DEF LoopRecord
<1> HIDE DEF k, h
<1>4. \A q \in Kind : \A i \in 1 .. Len(queue'[q]) :
         /\ q = k => i + 1 \in 1 .. Len(queue[q]) /\ queue'[q][i] = queue[q][i + 1]
         /\ q # k => i \in 1 .. Len(queue[q]) /\ queue'[q][i] = queue[q][i]
  BY <1>0, <1>1, <1>3
<1>5. RightKind'
  <2>1. h <= Len(notes) /\ notes[h] = k
    BY <1>0, <1>1 DEF QueueInv, RightKind
  <2>2. ASSUME NEW q \in Kind, NEW i \in 1 .. Len(queue'[q])
        PROVE  queue'[q][i] <= Len(notes) /\ notes[queue'[q][i]] = q
    <3>1. PICK j \in 1 .. Len(queue[q]) : queue'[q][i] = queue[q][j]
      BY <1>4
    <3> QED BY <3>1 DEF QueueInv, RightKind
  <2> QED BY <1>2, <1>3, <2>1, <2>2 DEF QueueInv, RightKind
<1>6. Untouched'
  BY <1>2 DEF QueueInv, Untouched
<1>7. Sorted'
  <2>1. ASSUME NEW q \in Kind, NEW i \in 1 .. Len(queue'[q]), NEW j \in 1 .. Len(queue'[q]), i < j
        PROVE  queue'[q][i] < queue'[q][j]
    <3>1. CASE q = k
      <4>1. i + 1 < j + 1
        BY <2>1
      <4> QED BY <1>4, <3>1, <4>1 DEF QueueInv, Sorted
    <3>2. CASE q # k
      BY <1>4, <2>1, <3>2 DEF QueueInv, Sorted
    <3> QED BY <3>1, <3>2
  <2>2. ASSUME NEW i \in 1 .. Len(queue'[k]) PROVE h < queue'[k][i]
    <3>1. 1 \in 1 .. Len(queue[k]) /\ 1 < i + 1
      BY <1>1
    <3> QED BY <1>0, <1>1, <1>4, <3>1 DEF QueueInv, Sorted
  <2> QED BY <1>3, <2>1, <2>2 DEF Sorted
<1>8. BrokerFirst'
  <2>1. ASSUME NEW q \in Kind, NEW i \in 1 .. Len(broker), NEW j \in 1 .. Len(queue'[q]),
               notes[broker[i]] = q
        PROVE  broker[i] < queue'[q][j]
    BY <1>4, <2>1 DEF QueueInv, BrokerFirst
  <2>2. ASSUME NEW i \in 1 .. Len(broker), notes[broker[i]] = k PROVE broker[i] < h
    <3>1. 1 \in 1 .. Len(queue[k])
      BY <1>1
    <3> QED BY <1>0, <1>1, <2>2, <3>1 DEF QueueInv, BrokerFirst
  <2> QED BY <1>2, <1>3, <2>1, <2>2 DEF BrokerFirst
<1>9. Accounted'
  <2>1. ASSUME NEW c \in Id PROVE Queued(c) <=> (Queued(c)' \/ c = h)
    <3>1. ASSUME Queued(c) PROVE Queued(c)' \/ c = h
      <4>1. PICK q \in Kind : \E i \in 1 .. Len(queue[q]) : queue[q][i] = c
        BY <3>1 DEF Queued
      <4>2. PICK i \in 1 .. Len(queue[q]) : queue[q][i] = c
        BY <4>1
      <4>3. CASE q # k
        BY <1>3, <4>2, <4>3 DEF Queued
      <4>4. CASE q = k /\ i = 1
        BY <1>1, <4>2, <4>4
      <4>5. CASE q = k /\ i # 1
        <5>1. i - 1 \in 1 .. Len(queue[k]) - 1 /\ (i - 1) + 1 = i
          BY <1>1, <4>2, <4>5
        <5>2. queue'[k][i - 1] = c /\ i - 1 \in 1 .. Len(queue'[k])
          BY <1>1, <1>3, <4>2, <4>5, <5>1
        <5> QED BY <1>0, <5>2 DEF Queued
      <4> QED BY <4>3, <4>4, <4>5
    <3>2. Queued(c)' => Queued(c)
      BY <1>4 DEF Queued
    <3>3. c = h => Queued(c)
      <4>1. 1 \in 1 .. Len(queue[k])
        BY <1>1
      <4> QED BY <1>0, <1>1, <4>1 DEF Queued
    <3> QED BY <3>1, <3>2, <3>3
  <2>2. ASSUME NEW c \in Id, c = h, Queued(c)' PROVE FALSE
    <3>1. PICK q \in Kind : \E i \in 1 .. Len(queue'[q]) : queue'[q][i] = c
      BY <2>2 DEF Queued
    <3>2. PICK i \in 1 .. Len(queue'[q]) : queue'[q][i] = c
      BY <3>1
    <3>3. q = k
      BY <1>1, <1>3, <1>5, <2>2, <3>2 DEF RightKind
    <3>4. c < c
      BY <1>1, <1>3, <1>7, <2>2, <3>2, <3>3 DEF Sorted
    <3> QED BY <3>4 DEF Id
  <2>3. \A c \in Id : loop.note # c
    BY <1>0 DEF Id
  <2>4. SUFFICES ASSUME NEW c \in Id
                 PROVE  /\ (c <= Len(notes) /\ fate[c] = "open") <=> (Queued(c)' \/ h = c)
                        /\ h = c => ~Queued(c)'
    BY <1>2, <1>3 DEF Accounted
  <2>5. (c <= Len(notes) /\ fate[c] = "open") <=> Queued(c)
    BY <2>3 DEF QueueInv, Accounted
  <2> QED BY <2>1, <2>2, <2>5
<1>10. BrokerOrder'
  BY <1>2 DEF QueueInv, BrokerOrder
<1> QED BY <1>5, <1>6, <1>7, <1>8, <1>9, <1>10 DEF QueueInv

(* The notification in hand leaves the hub; published, it is the broker's  *)
(* newest of its kind.                                                     *)
LEMMA QueueLeave ==
    ASSUME Types, QueueInv, (TestConnected /\ ~connected) \/ Publish
    PROVE  QueueInv'
<1> DEFINE h == loop.note
<1>0. /\ loop \in LoopRecord /\ fate \in [Id -> Fates] /\ broker \in Seq(Id)
      /\ h \in Id /\ h # None /\ h \in Nat
      /\ \A c \in Id : c \in Nat /\ c # None
      /\ Len(broker) \in Nat /\ Len(notes) \in Nat
  BY UplinkAssumption DEF Types, TypeOK, Holding, LoopRecord, TestConnected, Publish, Id
<1>1. UNCHANGED <<queue, notes>> /\ loop'.note = None
  BY <1>0 DEF TestConnected, Publish, LoopRecord
<1>2. /\ fate'[h] # "open"
      /\ \A c \in Id : c # h => fate'[c] = fate[c]
  BY <1>0 DEF TestConnected, Publish
<1>3. \/ broker' = broker
      \/ broker' = Append(broker, h)
  BY DEF TestConnected, Publish
<1>4. h <= Len(notes) /\ notes[h] = loop.kind
  BY <1>0 DEF QueueInv, RightKind
<1>5. \A i \in 1 .. Len(broker') :
         \/ i \in 1 .. Len(broker) /\ broker'[i] = broker[i]
         \/ i = Len(broker) + 1 /\ broker'[i] = h
  BY <1>0, <1>3
<1> HIDE DEF h
<1>6. RightKind'
  <2>1. \A i \in 1 .. Len(broker') : broker'[i] <= Len(notes)
    BY <1>4, <1>5 DEF QueueInv, RightKind
  <2> QED BY <1>1, <2>1 DEF QueueInv, RightKind
<1>7. Untouched'
  <2>1. \A c \in Id : c > Len(notes) => c # h
    BY <1>0, <1>4
  <2> QED BY <1>1, <1>2, <2>1 DEF QueueInv, Untouched
<1>8. Sorted'
  BY <1>1 DEF QueueInv, Sorted
<1>9. BrokerFirst'
  <2>1. ASSUME NEW k \in Kind, NEW i \in 1 .. Len(broker'), NEW j \in 1 .. Len(queue[k]),
               notes[broker'[i]] = k
        PROVE  broker'[i] < queue[k][j]
    <3>1. CASE i \in 1 .. Len(broker) /\ broker'[i] = broker[i]
      BY <2>1, <3>1 DEF QueueInv, BrokerFirst
    <3>2. CASE broker'[i] = h
      BY <1>0, <1>4, <2>1, <3>2 DEF QueueInv, Sorted, h
    <3> QED BY <1>5, <3>1, <3>2
  <2> QED BY <1>1, <2>1 DEF BrokerFirst
<1>10. Accounted'
  <2>1. \A c \in Id : Queued(c)' <=> Queued(c)
    BY <1>1 DEF Queued
  <2> QED BY <1>0, <1>1, <1>2, <2>1 DEF QueueInv, Accounted, h
<1>11. BrokerOrder'
  <2>1. ASSUME NEW i \in 1 .. Len(broker'), NEW j \in 1 .. Len(broker'),
               i < j, notes[broker'[i]] = notes[broker'[j]]
        PROVE  broker'[i] < broker'[j]
    <3>1. i \in 1 .. Len(broker) /\ broker'[i] = broker[i]
      BY <1>0, <1>5, <2>1
    <3>2. CASE j \in 1 .. Len(broker) /\ broker'[j] = broker[j]
      BY <2>1, <3>1, <3>2 DEF QueueInv, BrokerOrder
    <3>3. CASE broker'[j] = h
      BY <1>0, <1>4, <2>1, <3>1, <3>3 DEF QueueInv, BrokerFirst, h
    <3> QED BY <1>5, <3>2, <3>3
  <2> QED BY <1>1, <2>1 DEF BrokerOrder
<1> QED BY <1>6, <1>7, <1>8, <1>9, <1>10, <1>11 DEF QueueInv

(* A restart empties the queues and the hand, and keeps the histories.     *)
LEMMA QueueRestart ==
    ASSUME Types, QueueInv, Restart
    PROVE  QueueInv'
<1>0. /\ queue' = Empty /\ loop'.note = None /\ UNCHANGED <<notes, broker>>
      /\ \A k \in Kind : queue'[k] = <<>> /\ Len(queue'[k]) = 0
      /\ \A c \in Id : c # None
  BY UplinkAssumption DEF Restart, Setup, Empty, Id
<1>1. \A c \in Id : fate'[c] = IF c <= Len(notes) /\ fate[c] = "open" THEN "reset" ELSE fate[c]
  BY DEF Restart
<1>2. RightKind' /\ Sorted' /\ BrokerFirst' /\ BrokerOrder'
  BY <1>0 DEF QueueInv, RightKind, Sorted, BrokerFirst, BrokerOrder
<1>3. Untouched'
  BY <1>0, <1>1, UplinkAssumption DEF Types, TypeOK, QueueInv, Untouched, Id
<1>4. Accounted'
  <2>1. \A c \in Id : ~Queued(c)'
    BY <1>0 DEF Queued
  <2> QED BY <1>0, <1>1, <2>1 DEF Accounted
<1> QED BY <1>2, <1>3, <1>4 DEF QueueInv

LEMMA QueueStep ==
    ASSUME Types, QueueInv, [Next]_vars
    PROVE  QueueInv'
<1>0. loop \in LoopRecord /\ (loop.pc \in {"test", "publish"} <=> loop.note # None)
  BY DEF Types, TypeOK, Holding
<1>1. CASE \E k \in Kind : Notify(k)
  BY <1>1, QueueNotify
<1>2. CASE MqttInit \/ BleLoop \/ MqttLoop \/ Stopped \/ Drained
  <2>1. UNCHANGED <<queue, notes, fate, broker>> /\ loop'.note = loop.note
    BY <1>0, <1>2 DEF MqttInit, BleLoop, MqttLoop, Stopped, Drained, hist, LoopRecord
  <2>2. loop'.note # None => loop'.kind = loop.kind
    BY <1>0, <1>2, <2>1 DEF MqttInit, BleLoop, MqttLoop, Stopped, Drained, LoopRecord
  <2> QED BY <2>1, <2>2, QueueQuiet
<1>3. CASE Take
  BY <1>3, QueueTake
<1>4. CASE TestConnected /\ connected
  <2>1. /\ UNCHANGED <<queue, notes, fate, broker>>
        /\ loop'.note = loop.note /\ loop'.kind = loop.kind
    BY <1>0, <1>4 DEF TestConnected, LoopRecord
  <2> QED BY <2>1, QueueQuiet
<1>5. CASE (TestConnected /\ ~connected) \/ Publish
  BY <1>5, QueueLeave
<1>6. CASE MqttTask \/ StatusRequest
  <2>1. UNCHANGED <<queue, loop, notes, fate, broker>>
    BY <1>6
    DEF MqttTask, Connect, OnConnected, Subscribe, NoticeLoss, OnDisconnected, StatusAnswer,
        TaskEnds, StatusRequest, hist
  <2> QED BY <2>1, QueueQuiet
<1>7. CASE WifiDown \/ WifiUp \/ SessionDies \/ UNCHANGED vars
  <2>1. UNCHANGED <<queue, loop, notes, fate, broker>>
    BY <1>7 DEF WifiDown, WifiUp, SessionDies, hist, vars
  <2> QED BY <2>1, QueueQuiet
<1>8. CASE Restart
  BY <1>8, QueueRestart
<1> QED
  BY <1>1, <1>2, <1>3, <1>4, <1>5, <1>6, <1>7, <1>8 DEF Next, LoopTask

LEMMA QueueInit == Init => QueueInv
<1> SUFFICES ASSUME Init PROVE QueueInv
  OBVIOUS
<1>1. /\ \A k \in Kind : queue[k] = <<>> /\ Len(queue[k]) = 0
      /\ loop.note = None /\ broker = <<>> /\ Len(broker) = 0 /\ Len(notes) = 0
      /\ \A c \in Id : c # None /\ c > 0 /\ fate[c] = "open"
  BY UplinkAssumption DEF Init, Empty, Setup, Id
<1>2. RightKind /\ Sorted /\ BrokerFirst /\ BrokerOrder /\ Untouched
  BY <1>1 DEF RightKind, Sorted, BrokerFirst, BrokerOrder, Untouched
<1>3. Accounted
  BY <1>1 DEF Accounted, Queued, Id
<1> QED BY <1>2, <1>3 DEF QueueInv

LEMMA QueueAlways == Spec => []QueueInv
<1>1. Types /\ QueueInv /\ [Next]_vars => QueueInv'
  BY QueueStep
<1> QED BY <1>1, QueueInit, TypesAlways, PTL DEF Spec

(* No notification is mislaid or kept after it left, whatever sessions and *)
(* restarts do, for any capacities (main.cpp:30-49, ble_data.cpp:44-60).   *)
THEOREM AccountedCorrect == Spec => []Accounted
<1>1. QueueInv => Accounted
  BY DEF QueueInv
<1> QED BY <1>1, QueueAlways, PTL

(* The broker gets each kind in the order of notification and none twice   *)
(* (main.cpp:30-49).                                                       *)
THEOREM BrokerOrderCorrect == Spec => []BrokerOrder
<1>1. QueueInv => BrokerOrder
  BY DEF QueueInv
<1> QED BY <1>1, QueueAlways, PTL

-----------------------------------------------------------------------------
(* The hub as a relay.  Where the promise sees a notification held, it is  *)
(* in a queue or in the hand of the loop task; the hand is the oldest of   *)
(* its kind.                                                               *)
Bar == [c \in Id |-> Outcome(fate[c])]

LEMMA RelayUnfolds ==
    ASSUME Types
    PROVE  /\ \A c \in Id : Promise!Held(c) <=> c <= Len(notes) /\ fate[c] = "open"
           /\ Promise!Id = Id
           /\ Promise!vars = <<notes, Bar, broker>>
BY DEF Promise!Held, Promise!Id, Promise!vars, Bar, Id, Outcome, Fates, Types, TypeOK

LEMMA HandIsOldest ==
    ASSUME Types, QueueInv, loop.note # None
    PROVE  loop.note \in Id /\ Promise!Oldest(loop.note)
<1>1. /\ loop.note \in Id /\ loop.note \in Nat
      /\ notes[loop.note] = loop.kind /\ loop.kind \in Kind
      /\ queue \in [Kind -> Seq(Id)]
  BY UplinkAssumption DEF Types, TypeOK, LoopRecord, QueueInv, RightKind, Id
<1>2. Promise!Held(loop.note)
  BY <1>1, RelayUnfolds DEF QueueInv, Accounted
<1>3. ASSUME NEW d \in Id, Promise!Held(d), notes[d] = loop.kind
      PROVE  loop.note <= d
  <2>1. Queued(d) \/ loop.note = d
    BY <1>3, RelayUnfolds DEF QueueInv, Accounted
  <2>2. CASE Queued(d)
    <3>1. PICK k \in Kind : \E i \in 1 .. Len(queue[k]) : queue[k][i] = d
      BY <2>2 DEF Queued
    <3>2. PICK i \in 1 .. Len(queue[k]) : queue[k][i] = d
      BY <3>1
    <3>3. k = loop.kind
      BY <1>3, <3>2 DEF QueueInv, RightKind
    <3>4. loop.note < d
      BY <3>2, <3>3 DEF QueueInv, Sorted
    <3> QED BY <1>1, <3>4 DEF Id
  <2>3. CASE loop.note = d
    BY <1>1, <2>3
  <2> QED BY <2>1, <2>2, <2>3
<1> QED BY <1>1, <1>2, <1>3, RelayUnfolds DEF Promise!Oldest

(* The notification in hand leaves, with the outcome of its fate.          *)
LEMMA HandLeaves ==
    ASSUME Types, NEW f \in Fates, fate' = [fate EXCEPT ![loop.note] = f],
           loop.note \in Id
    PROVE  Bar' = [Bar EXCEPT ![loop.note] = Outcome(f)]
BY DEF Bar, Outcome, Types, TypeOK

LEMMA RelayStutters ==
    ASSUME UNCHANGED <<notes, fate, broker>>
    PROVE  UNCHANGED Promise!vars
BY DEF Promise!vars

LEMMA RelayArrives ==
    ASSUME Types, NEW k \in Kind, Notify(k)
    PROVE  Promise!Arrive(k)
<1> DEFINE c == Len(notes) + 1
<1>1. c \in Id /\ fate \in [Id -> Fates]
  BY UplinkAssumption DEF Types, TypeOK, Notify, Id
<1>2. /\ Len(notes) < MaxNotes /\ notes' = Append(notes, k) /\ broker' = broker
      /\ fate' = fate \/ fate' = [fate EXCEPT ![c] = "full"]
  BY DEF Notify
<1>3. CASE fate' = fate
  BY <1>2, <1>3 DEF Promise!Arrive
<1>4. CASE fate' = [fate EXCEPT ![c] = "full"]
  <2>1. Bar' = [Bar EXCEPT ![c] = "dropped"]
    BY <1>1, <1>4 DEF Bar, Outcome
  <2> QED BY <1>2, <2>1 DEF Promise!Arrive, Bar
<1> QED BY <1>2, <1>3, <1>4

LEMMA RelayLeaves ==
    ASSUME Types, QueueInv, (TestConnected /\ ~connected) \/ Publish
    PROVE  Promise!Next
<1> DEFINE c == loop.note
<1>1. c \in Id /\ Promise!Oldest(c)
  BY HandIsOldest DEF Types, Holding, TestConnected, Publish
<1>2. UNCHANGED notes
  BY DEF TestConnected, Publish
<1>3. CASE fate' = [fate EXCEPT ![c] = "delivered"] /\ broker' = Append(broker, c)
  <2>1. Bar' = [Bar EXCEPT ![c] = "delivered"]
    BY <1>1, <1>3, HandLeaves DEF Fates, Outcome
  <2>2. Promise!Deliver(c)
    BY <1>1, <1>2, <1>3, <2>1 DEF Promise!Deliver, Bar
  <2> QED BY <1>1, <2>2, RelayUnfolds DEF Promise!Next
<1>4. CASE /\ fate' = [fate EXCEPT ![c] = "offline"] \/ fate' = [fate EXCEPT ![c] = "failed"]
           /\ UNCHANGED broker
  <2>1. Bar' = [Bar EXCEPT ![c] = "dropped"]
    BY <1>1, <1>4, HandLeaves DEF Fates, Outcome
  <2>2. Promise!GiveUp(c)
    BY <1>1, <1>2, <1>4, <2>1 DEF Promise!GiveUp, Bar
  <2> QED BY <1>1, <2>2, RelayUnfolds DEF Promise!Next
<1> QED BY <1>3, <1>4 DEF TestConnected, Publish

LEMMA RelayRestarts ==
    ASSUME Types, Restart
    PROVE  Promise!LoseAll
<1>1. UNCHANGED <<notes, broker>>
  BY DEF Restart
<1>2. \A c \in Id : fate'[c] = IF c <= Len(notes) /\ fate[c] = "open" THEN "reset" ELSE fate[c]
  BY DEF Restart
<1>3. Bar' = [c \in Id |-> IF Promise!Held(c) THEN "dropped" ELSE Bar[c]]
  BY <1>2, RelayUnfolds DEF Bar, Outcome
<1> QED BY <1>1, <1>3, RelayUnfolds DEF Promise!LoseAll, Bar

LEMMA RelayStep ==
    ASSUME Types, QueueInv, [Next]_vars
    PROVE  Promise!Next \/ UNCHANGED Promise!vars
<1>1. CASE \E k \in Kind : Notify(k)
  BY <1>1, RelayArrives DEF Promise!Next
<1>2. CASE (TestConnected /\ ~connected) \/ Publish
  BY <1>2, RelayLeaves
<1>3. CASE Restart
  BY <1>3, RelayRestarts DEF Promise!Next
<1>4. CASE TestConnected /\ connected
  BY <1>4, RelayStutters DEF TestConnected
<1>5. CASE MqttInit \/ BleLoop \/ MqttLoop \/ Stopped \/ Take \/ Drained
  BY <1>5, RelayStutters DEF MqttInit, BleLoop, MqttLoop, Stopped, Take, Drained, hist
<1>6. CASE MqttTask \/ StatusRequest
  <2>1. UNCHANGED <<notes, fate, broker>>
    BY <1>6
    DEF MqttTask, Connect, OnConnected, Subscribe, NoticeLoss, OnDisconnected, StatusAnswer,
        TaskEnds, StatusRequest, hist
  <2> QED BY <2>1, RelayStutters
<1>7. CASE WifiDown \/ WifiUp \/ SessionDies \/ UNCHANGED vars
  <2>1. UNCHANGED <<notes, fate, broker>>
    BY <1>7 DEF WifiDown, WifiUp, SessionDies, hist, vars
  <2> QED BY <2>1, RelayStutters
<1> QED BY <1>1, <1>2, <1>3, <1>4, <1>5, <1>6, <1>7 DEF Next, LoopTask

LEMMA RelayInit == Init => Promise!Init
BY DEF Init, Promise!Init, Promise!Id, Id, Outcome

(* The hub implements Relay: within a kind nothing overtakes, and what was *)
(* published or given up never comes again, for any capacities and         *)
(* whatever sessions, WiFi and restarts do (ble_data.cpp:44-60,            *)
(* main.cpp:30-49).                                                        *)
THEOREM UplinkImplementsRelay == Spec => ImplementsRelay
<1>1. Types /\ QueueInv /\ [Next]_vars => [Promise!Next]_(Promise!vars)
  BY RelayStep
<1> QED BY <1>1, TypesAlways, QueueAlways, RelayInit, PTL DEF Spec, ImplementsRelay, Promise!Spec

=============================================================================
