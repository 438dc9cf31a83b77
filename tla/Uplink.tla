------------------------------- MODULE Uplink -------------------------------
(***************************************************************************)
(* The way from a node's notification to the MQTT broker:                  *)
(* firmware/src/hub/ble/ble_data.cpp, the drains of loop() in              *)
(* hub/main.cpp, and hub/net/mqtt_handler.cpp.                             *)
(*                                                                         *)
(* Three tasks take part.  The NimBLE host task puts each notification     *)
(* into the report queue or the acknowledgement queue.  The Arduino loop   *)
(* task starts and stops the MQTT client as WiFi comes and goes, drains    *)
(* both queues and publishes what it takes out.  The task of the client    *)
(* connects, subscribes, notices that a connection is lost and answers     *)
(* HUB_STATUS.  The flag connected is written by two of them without a     *)
(* lock.  A queue is the sequence that ThreadSafeQueue is shown to         *)
(* implement; a notification is its position in the order of arrival.      *)
(***************************************************************************)
EXTENDS Naturals, Sequences

CONSTANTS
    REPORT_QUEUE_MAX,     \* capacity of reportQueue
    CMD_PENDING_PER_NODE, \* capacity of ackQueue
    MaxNotes,             \* bound: notifications received
    None                  \* no notification

ASSUME UplinkAssumption ==
    /\ REPORT_QUEUE_MAX \in Nat \ {0}
    /\ CMD_PENDING_PER_NODE \in Nat \ {0}
    /\ MaxNotes \in Nat
    /\ None \notin Nat

VARIABLES
    queue,     \* reportQueue and ackQueue
    loop,      \* Arduino loop task: [pc, kind, note, was]; was is wasConnected
    mqtt,      \* the client's task: what it is doing, "off" when there is none
    running,   \* the client is to run: its task ends when this is FALSE
    connected, \* the flag of that name
    wifi,      \* WiFi.isConnected()
    link,      \* the client's session: "none", "open" or "subscribed"
    alive,     \* what is sent on the session still reaches the broker
    notes,     \* history: the kind of each notification received
    fate,      \* history: how each notification left the hub
    broker     \* history: the notifications the broker received, in order

client == <<mqtt, running, link>>
hist   == <<notes, fate, broker>>
vars   == <<queue, loop, mqtt, running, connected, wifi, link, alive, notes, fate, broker>>

Kind == {"report", "ack"}

Id == 1 .. MaxNotes

Fates == {"open", "full", "offline", "failed", "delivered", "reset"}

Capacity(k) == IF k = "report" THEN REPORT_QUEUE_MAX ELSE CMD_PENDING_PER_NODE

Empty == [k \in Kind |-> <<>>]

Setup == [pc |-> "setup", kind |-> "report", note |-> None, was |-> FALSE]

Init ==
    /\ queue = Empty
    /\ loop = Setup
    /\ mqtt = "off"
    /\ running = FALSE
    /\ connected = FALSE
    /\ wifi \in BOOLEAN
    /\ link = "none"
    /\ alive = FALSE
    /\ notes = <<>>
    /\ fate = [c \in Id |-> "open"]
    /\ broker = <<>>

-----------------------------------------------------------------------------
(* The NimBLE host task *)

Mut_Room(k) == Len(queue[k]) <= Capacity(k)

Room(k) == Len(queue[k]) < Capacity(k)

(* onDataNotify with SENSOR_DATA or CMD_ACK.  The result of push is        *)
(* ignored: a notification for a full queue is gone.                       *)
Notify(k) ==
    /\ loop.pc # "setup"
    /\ Len(notes) < MaxNotes
    /\ notes' = Append(notes, k)
    /\ IF Room(k)
       THEN queue' = [queue EXCEPT ![k] = Append(@, Len(notes) + 1)] /\ UNCHANGED fate
       ELSE fate' = [fate EXCEPT ![Len(notes) + 1] = "full"] /\ UNCHANGED queue
    /\ UNCHANGED <<loop, client, connected, wifi, alive, broker>>

-----------------------------------------------------------------------------
(* The Arduino loop task *)

(* esp_mqtt_client_start has no effect on a client that is started, so     *)
(* that the second start, by the first mqttLoop after mqttInit, is         *)
(* harmless.                                                               *)
Start ==
    /\ running' = TRUE
    /\ mqtt' = IF mqtt = "off" THEN "idle" ELSE mqtt
    /\ UNCHANGED link

(* setup() calls mqttInit. *)
MqttInit ==
    /\ loop.pc = "setup"
    /\ IF wifi THEN Start ELSE UNCHANGED client
    /\ loop' = [loop EXCEPT !.pc = "ble"]
    /\ UNCHANGED <<queue, connected, wifi, alive, hist>>

(* wifiProcessSerial and bleCentralLoop, which can take many seconds. *)
BleLoop ==
    /\ loop.pc = "ble"
    /\ loop' = [loop EXCEPT !.pc = "mqtt"]
    /\ UNCHANGED <<queue, client, connected, wifi, alive, hist>>

(* mqttLoop, up to the wait inside esp_mqtt_client_stop. *)
MqttLoop ==
    /\ loop.pc = "mqtt"
    /\ \/ /\ wifi /\ ~loop.was
          /\ Start
          /\ loop' = [loop EXCEPT !.pc = "drain", !.was = TRUE]
       \/ /\ ~wifi /\ loop.was
          /\ running' = FALSE
          /\ loop' = [loop EXCEPT !.pc = "stop"]
          /\ UNCHANGED <<mqtt, link>>
       \/ /\ wifi = loop.was
          /\ loop' = [loop EXCEPT !.pc = "drain"]
          /\ UNCHANGED client
    /\ UNCHANGED <<queue, connected, wifi, alive, hist>>

Mut_StopKeepsFlag ==
    /\ loop.pc = "stop"
    /\ mqtt = "off"
    /\ loop' = [loop EXCEPT !.pc = "drain", !.was = FALSE]
    /\ UNCHANGED <<queue, client, connected, wifi, alive, hist>>

Mut_StopKeepsWas ==
    /\ loop.pc = "stop"
    /\ mqtt = "off"
    /\ connected' = FALSE
    /\ loop' = [loop EXCEPT !.pc = "drain"]
    /\ UNCHANGED <<queue, client, wifi, alive, hist>>

(* esp_mqtt_client_stop returns when the client's task has ended; mqttLoop *)
(* clears the flag itself, because a stopped client reports no event.      *)
Stopped ==
    /\ loop.pc = "stop"
    /\ mqtt = "off"
    /\ connected' = FALSE
    /\ loop' = [loop EXCEPT !.pc = "drain", !.was = FALSE]
    /\ UNCHANGED <<queue, client, wifi, alive, hist>>

Mut_Take ==
    /\ loop.pc = "drain"
    /\ queue[loop.kind] # <<>>
    /\ loop' = [loop EXCEPT !.pc = "test", !.note = Head(queue[loop.kind])]
    /\ UNCHANGED <<queue, client, connected, wifi, alive, hist>>

(* bleGetPendingReport or bleGetPendingAck takes the oldest entry. *)
Take ==
    /\ loop.pc = "drain"
    /\ queue[loop.kind] # <<>>
    /\ queue' = [queue EXCEPT ![loop.kind] = Tail(@)]
    /\ loop' = [loop EXCEPT !.pc = "test", !.note = Head(queue[loop.kind])]
    /\ UNCHANGED <<client, connected, wifi, alive, hist>>

Mut_Drained ==
    /\ loop.pc = "drain"
    /\ queue[loop.kind] = <<>>
    /\ loop' = [loop EXCEPT !.pc = "ble"]
    /\ UNCHANGED <<queue, client, connected, wifi, alive, hist>>

(* The queue is empty: first the reports are drained, then the             *)
(* acknowledgements.                                                       *)
Drained ==
    /\ loop.pc = "drain"
    /\ queue[loop.kind] = <<>>
    /\ loop' = IF loop.kind = "report" THEN [loop EXCEPT !.kind = "ack"]
               ELSE [loop EXCEPT !.kind = "report", !.pc = "ble"]
    /\ UNCHANGED <<queue, client, connected, wifi, alive, hist>>

Mut_TestConnected ==
    /\ loop.pc = "test"
    /\ IF connected
       THEN loop' = [loop EXCEPT !.pc = "publish"] /\ UNCHANGED <<queue, fate>>
       ELSE /\ loop' = [loop EXCEPT !.pc = "drain", !.note = None]
            /\ queue' = [queue EXCEPT ![loop.kind] = Append(@, loop.note)]
            /\ UNCHANGED fate
    /\ UNCHANGED <<client, connected, wifi, alive, notes, broker>>

(* mqttPublishReport returns false when the flag is not set; loop()        *)
(* ignores that, and the entry is gone.                                    *)
TestConnected ==
    /\ loop.pc = "test"
    /\ IF connected
       THEN loop' = [loop EXCEPT !.pc = "publish"] /\ UNCHANGED fate
       ELSE /\ loop' = [loop EXCEPT !.pc = "drain", !.note = None]
            /\ fate' = [fate EXCEPT ![loop.note] = "offline"]
    /\ UNCHANGED <<queue, client, connected, wifi, alive, notes, broker>>

(* esp_mqtt_client_publish with QoS 0: it fails without a session, and     *)
(* what is sent on a session that is dead gets lost.                       *)
Publish ==
    /\ loop.pc = "publish"
    /\ loop' = [loop EXCEPT !.pc = "drain", !.note = None]
    /\ IF alive
       THEN /\ fate' = [fate EXCEPT ![loop.note] = "delivered"]
            /\ broker' = Append(broker, loop.note)
       ELSE /\ fate' = [fate EXCEPT ![loop.note] = "failed"]
            /\ UNCHANGED broker
    /\ UNCHANGED <<queue, client, connected, wifi, alive, notes>>

LoopTask ==
    \/ MqttInit
    \/ BleLoop
    \/ MqttLoop
    \/ Stopped
    \/ Take
    \/ Drained
    \/ TestConnected
    \/ Publish

-----------------------------------------------------------------------------
(* The task of the MQTT client *)

(* A session is opened, and the CONNECTED event is dispatched. *)
Connect ==
    /\ mqtt = "idle"
    /\ running
    /\ wifi
    /\ link = "none"
    /\ link' = "open"
    /\ alive' = TRUE
    /\ mqtt' = "connected"
    /\ UNCHANGED <<queue, loop, running, connected, wifi, hist>>

OnConnected ==
    /\ mqtt = "connected"
    /\ connected' = TRUE
    /\ mqtt' = "subscribe"
    /\ UNCHANGED <<queue, loop, running, wifi, link, alive, hist>>

Subscribe ==
    /\ mqtt = "subscribe"
    /\ link' = IF alive THEN "subscribed" ELSE link
    /\ mqtt' = "idle"
    /\ UNCHANGED <<queue, loop, running, connected, wifi, alive, hist>>

(* The client notices that its session is dead; the DISCONNECTED event is  *)
(* dispatched.                                                             *)
NoticeLoss ==
    /\ mqtt = "idle"
    /\ running
    /\ link # "none"
    /\ ~alive
    /\ link' = "none"
    /\ mqtt' = "disconnected"
    /\ UNCHANGED <<queue, loop, running, connected, wifi, alive, hist>>

OnDisconnected ==
    /\ mqtt = "disconnected"
    /\ connected' = FALSE
    /\ mqtt' = "idle"
    /\ UNCHANGED <<queue, loop, running, wifi, link, alive, hist>>

(* A HUB_STATUS command arrives, as the DATA event. *)
StatusRequest ==
    /\ mqtt = "idle"
    /\ running
    /\ link = "subscribed"
    /\ alive
    /\ mqtt' = "status"
    /\ UNCHANGED <<queue, loop, running, connected, wifi, link, alive, hist>>

(* handleHubStatus publishes its answer itself, without a queue. *)
StatusAnswer ==
    /\ mqtt = "status"
    /\ mqtt' = "idle"
    /\ UNCHANGED <<queue, loop, running, connected, wifi, link, alive, hist>>

(* The task ends between two events, once the client is stopped. *)
TaskEnds ==
    /\ mqtt = "idle"
    /\ ~running
    /\ mqtt' = "off"
    /\ link' = "none"
    /\ alive' = FALSE
    /\ UNCHANGED <<queue, loop, running, connected, wifi, hist>>

MqttTask ==
    \/ Connect
    \/ OnConnected
    \/ Subscribe
    \/ NoticeLoss
    \/ OnDisconnected
    \/ StatusAnswer
    \/ TaskEnds

-----------------------------------------------------------------------------
(* WiFi, the broker, and restarts of the hub *)

WifiDown ==
    /\ wifi
    /\ wifi' = FALSE
    /\ alive' = FALSE
    /\ UNCHANGED <<queue, loop, client, connected, hist>>

WifiUp ==
    /\ ~wifi
    /\ wifi' = TRUE
    /\ UNCHANGED <<queue, loop, client, connected, alive, hist>>

SessionDies ==
    /\ alive
    /\ alive' = FALSE
    /\ UNCHANGED <<queue, loop, client, connected, wifi, hist>>

(* A crash or a power cut: everything in RAM starts again. *)
Restart ==
    /\ loop.pc # "setup"
    /\ queue' = Empty
    /\ loop' = Setup
    /\ mqtt' = "off"
    /\ running' = FALSE
    /\ connected' = FALSE
    /\ link' = "none"
    /\ alive' = FALSE
    /\ fate' = [c \in Id |-> IF c <= Len(notes) /\ fate[c] = "open" THEN "reset" ELSE fate[c]]
    /\ UNCHANGED <<wifi, notes, broker>>

Next ==
    \/ \E k \in Kind : Notify(k)
    \/ LoopTask
    \/ MqttTask
    \/ StatusRequest
    \/ WifiDown
    \/ WifiUp
    \/ SessionDies
    \/ Restart

Spec == Init /\ [][Next]_vars

(* The loop task and the client's task are FreeRTOS tasks that are always  *)
(* scheduled again; the client reconnects by itself and the broker answers.*)
Fairness == WF_vars(LoopTask) /\ WF_vars(MqttTask)

FairSpec == Spec /\ Fairness

-----------------------------------------------------------------------------
(* Properties *)

LoopRecord ==
    [pc : {"setup", "ble", "mqtt", "stop", "drain", "test", "publish"},
     kind : Kind, note : Id \cup {None}, was : BOOLEAN]

MqttState ==
    {"off", "idle", "connected", "subscribe", "disconnected", "status"}

(* Type invariant; a queue never exceeds its capacity (ble_data.cpp:8-9).  *)
TypeOK ==
    /\ queue \in [Kind -> Seq(Id)]
    /\ \A k \in Kind : Len(queue[k]) <= Capacity(k)
    /\ loop \in LoopRecord
    /\ mqtt \in MqttState
    /\ running \in BOOLEAN
    /\ connected \in BOOLEAN
    /\ wifi \in BOOLEAN
    /\ link \in {"none", "open", "subscribed"}
    /\ alive \in BOOLEAN
    /\ notes \in Seq(Kind)
    /\ Len(notes) <= MaxNotes
    /\ fate \in [Id -> Fates]
    /\ broker \in Seq(Id)

Queued(c) == \E k \in Kind : \E i \in 1 .. Len(queue[k]) : queue[k][i] = c

(* Each notification received is in its queue, in the hand of the loop     *)
(* task, or has left the hub in one known way: it is neither mislaid nor   *)
(* kept after it was published, whatever the sessions and restarts do      *)
(* (main.cpp:30-49, ble_data.cpp:44-60).                                   *)
Accounted ==
    \A c \in Id :
        /\ (c <= Len(notes) /\ fate[c] = "open") <=> (Queued(c) \/ loop.note = c)
        /\ loop.note = c => ~Queued(c)

(* The broker gets the reports, and the acknowledgements, in the order in  *)
(* which they were notified and none twice; the two kinds may overtake     *)
(* each other (main.cpp:30-49).                                            *)
BrokerOrder ==
    \A i, j \in 1 .. Len(broker) :
        (i < j /\ notes[broker[i]] = notes[broker[j]]) => broker[i] < broker[j]

(* What the hub does with notifications, whatever its queues, sessions and *)
(* tasks look like: the specification Relay is implemented                 *)
(* (ble_data.cpp:44-60, main.cpp:30-49, mqtt_handler.cpp:116-120).         *)
Outcome(f) == IF f \in {"full", "offline", "failed", "reset"} THEN "dropped" ELSE f

Promise == INSTANCE Relay WITH fate <- [c \in Id |-> Outcome(fate[c])]

ImplementsRelay == Promise!Spec

(* The flag that two tasks write agrees with the client: a session on      *)
(* which the hub gets commands counts as connected, so that no report or   *)
(* status answer is withheld from it, and a stopped client does not        *)
(* (mqtt_handler.cpp:31-40, 99-119).                                       *)
ConnectedAgrees ==
    /\ link = "subscribed" => connected
    /\ (mqtt = "off" /\ loop.pc # "stop") => ~connected

(* When WiFi stays, and neither the broker ends sessions nor the hub       *)
(* restarts any more, the hub gets commands and publishes again for good,  *)
(* whatever happened to WiFi between or during two turns of loop()         *)
(* (mqtt_handler.cpp:31-40, 99-110).                                       *)
ComesBack ==
    (<>[]wifi /\ <>[][~SessionDies /\ ~Restart]_vars)
        => <>[](connected /\ link = "subscribed")

(* No notification stays in the hub for ever: mqttLoop does not block for  *)
(* good and both drains are reached (main.cpp:23-54).                      *)
EventuallyLeaves ==
    \A c \in Id : (c <= Len(notes) /\ fate[c] = "open") ~> (fate[c] # "open")

=============================================================================
