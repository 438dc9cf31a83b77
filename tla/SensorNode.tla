----------------------------- MODULE SensorNode -----------------------------
(***************************************************************************)
(* One waking time of a sensor node after another:                         *)
(* firmware/src/sensor/main.cpp, ble_peripheral.cpp, lib/storage/          *)
(* node_state.cpp.                                                         *)
(*                                                                         *)
(* Two tasks share the node's state without a lock.  The Arduino task runs *)
(* setup() once per waking time: wait for the hub, send two notifications, *)
(* disconnect, close the flash storage, stop the BLE stack, sleep.  The    *)
(* NimBLE host task runs the callbacks, one at a time: the link comes and  *)
(* goes, the hub writes the CONFIG characteristic.  A delay or a time-out  *)
(* may pass at any time.                                                   *)
(*                                                                         *)
(* The NimBLE stack is external: advertising ends with the first link, a   *)
(* notification carries the value the characteristic has when notify() is  *)
(* called, and deinit() returns once no callback runs.                     *)
(***************************************************************************)
EXTENDS Integers, Sequences

CONSTANTS
    MIN_INTERVAL, MAX_INTERVAL, DEFAULT_INTERVAL, \* seconds
    Requested,  \* intervals the server asks for
    MaxWrites,  \* bound: commands the hub writes, all waking times together
    None        \* nothing stored, nothing set

(* The range of interval_sec, a uint16_t; the other arguments are smaller. *)
Argument == 0 .. 65535

ASSUME SensorAssumption ==
    /\ MIN_INTERVAL \in Nat
    /\ MAX_INTERVAL \in Nat
    /\ DEFAULT_INTERVAL \in MIN_INTERVAL .. MAX_INTERVAL
    /\ Requested \subseteq Argument
    /\ MaxWrites \in Nat
    /\ None \notin Nat
    /\ None \notin [kind : {"info", "data", "ack"}, cmd_id : Nat]

VARIABLES
    main,       \* Arduino task: where setup() is; "asleep" in deep sleep
    host,       \* host task: [pc, cmd] of the callback that runs
    opened,     \* _opened: the flash storage is open
    sleepInterval, \* _sleepInterval
    stored,     \* flash: key "interval"
    deviceConnected,
    hubReady,
    advertising,
    value,      \* value of the DATA characteristic
    writes,     \* history: commands written so far; names the next one
    executed,   \* history: commands carried out
    heard,      \* history: notifications of this waking time
    wanted,     \* history: the interval last set while the storage was open
    slept       \* history: length of the last deep sleep

vars == <<main, host, opened, sleepInterval, stored, deviceConnected, hubReady,
          advertising, value, writes, executed, heard, wanted, slept>>

storage == <<opened, sleepInterval, stored>>
ble     == <<deviceConnected, hubReady, advertising>>
hist    == <<writes, executed, wanted, slept>>

Idle == [pc |-> "idle", cmd |-> None]

Command == {[kind |-> "interval", arg |-> s] : s \in Requested}
             \cup {[kind |-> "reset", arg |-> l] : l \in {0, 1}}
             \cup {[kind |-> "test", arg |-> 0]}

-----------------------------------------------------------------------------
(* node_state.cpp *)

Clamped(sec) ==
    IF sec < MIN_INTERVAL THEN MIN_INTERVAL
    ELSE IF sec > MAX_INTERVAL THEN MAX_INTERVAL ELSE sec

Mut_setSleepInterval(sec) ==
    /\ sleepInterval' = Clamped(sec)
    /\ stored' = IF opened THEN sec ELSE stored
    /\ UNCHANGED opened

(* The flash keeps the value only while the storage is open. *)
setSleepInterval(sec) ==
    /\ sleepInterval' = Clamped(sec)
    /\ stored' = IF opened THEN Clamped(sec) ELSE stored
    /\ UNCHANGED opened

Mut_Restored ==
    IF stored = None \/ stored \notin MIN_INTERVAL .. MAX_INTERVAL - 1
    THEN DEFAULT_INTERVAL ELSE stored

(* What begin() reads back from the flash. *)
Restored ==
    IF stored = None \/ stored \notin MIN_INTERVAL .. MAX_INTERVAL
    THEN DEFAULT_INTERVAL ELSE stored

-----------------------------------------------------------------------------

Init ==
    /\ main = "asleep"
    /\ host = Idle
    /\ opened = FALSE
    /\ sleepInterval = DEFAULT_INTERVAL
    /\ stored = None
    /\ deviceConnected = FALSE
    /\ hubReady = FALSE
    /\ advertising = FALSE
    /\ value = None
    /\ writes = 0
    /\ executed = {}
    /\ heard = <<>>
    /\ wanted = DEFAULT_INTERVAL
    /\ slept = DEFAULT_INTERVAL

(* The messages the node sends: NODE_INFO, SENSOR_DATA and CMD_ACK. *)
Report(kind) == [kind |-> kind, cmd_id |-> 0]
Ack(c)       == [kind |-> "ack", cmd_id |-> c]

(* pDataChar->setValue(v); then notify() in a step of its own. *)
setValue(v) == value' = v

notify == heard' = IF deviceConnected THEN Append(heard, value) ELSE heard

(* RAM is lost in deep sleep and in a restart. *)
PowerDown ==
    /\ main' = "asleep"
    /\ host' = Idle
    /\ opened' = FALSE
    /\ deviceConnected' = FALSE
    /\ hubReady' = FALSE
    /\ advertising' = FALSE
    /\ value' = None

-----------------------------------------------------------------------------
(* The Arduino task: setup() *)

Goto(pc) == main' = pc /\ UNCHANGED host

(* ble_peripheral_init: state.begin(), then the stack starts advertising. *)
Boot ==
    /\ main = "asleep"
    /\ Goto("connect")
    /\ opened' = TRUE
    /\ sleepInterval' = Restored
    /\ advertising' = TRUE
    /\ heard' = <<>>
    /\ UNCHANGED <<stored, deviceConnected, hubReady, value, hist>>

(* ble_wait_connect returns: connected, or 5 s have passed. *)
WaitConnect ==
    /\ main = "connect"
    /\ Goto(IF deviceConnected THEN "ready" ELSE "leave")
    /\ UNCHANGED <<storage, ble, value, heard, hist>>

(* ble_wait_hub_ready returns: HUB_READY came, the link is lost, or 3 s    *)
(* have passed.                                                            *)
WaitHubReady ==
    /\ main = "ready"
    /\ Goto(IF hubReady THEN "info" ELSE "leave")
    /\ UNCHANGED <<storage, ble, value, heard, hist>>

(* ble_send_node_info and ble_send_sensor_data up to notify(). *)
SetReport(pc, v, next, skip) ==
    /\ main = pc
    /\ IF deviceConnected
       THEN Goto(next) /\ setValue(Report(v))
       ELSE Goto(skip) /\ UNCHANGED value
    /\ UNCHANGED <<storage, ble, heard, hist>>

NotifyReport(pc, next) ==
    /\ main = pc
    /\ notify
    /\ Goto(next)
    /\ UNCHANGED <<storage, ble, value, hist>>

Mut_NotifySensorData == NotifyReport("data_notify", "info")

SendNodeInfo   == SetReport("info", "info", "info_notify", "data")
NotifyNodeInfo == NotifyReport("info_notify", "data")
SendSensorData   == SetReport("data", "data", "data_notify", "leave")
NotifySensorData == NotifyReport("data_notify", "leave")

(* ble_disconnect: asks for the end of the link, if there is one. *)
Leave ==
    /\ main = "leave"
    /\ Goto(IF deviceConnected THEN "gone" ELSE "end")
    /\ UNCHANGED <<storage, ble, value, heard, hist>>

Mut_WaitGone ==
    /\ main = "gone"
    /\ ~deviceConnected
    /\ Goto("end")
    /\ UNCHANGED <<storage, ble, value, heard, hist>>

(* ble_disconnect: the link has ended, or 500 ms have passed. *)
WaitGone ==
    /\ main = "gone"
    /\ Goto("end")
    /\ UNCHANGED <<storage, ble, value, heard, hist>>

(* state.end() *)
EndState ==
    /\ main = "end"
    /\ opened' = FALSE
    /\ Goto("deinit")
    /\ UNCHANGED <<sleepInterval, stored, ble, value, heard, hist>>

Mut_DeepSleep ==
    /\ main = "deinit"
    /\ slept' = sleepInterval
    /\ PowerDown
    /\ UNCHANGED <<sleepInterval, stored, heard, writes, executed, wanted>>

(* NimBLEDevice::deinit, then deep sleep for sleepInterval seconds. *)
DeepSleep ==
    /\ main = "deinit"
    /\ host = Idle
    /\ slept' = sleepInterval
    /\ PowerDown
    /\ UNCHANGED <<sleepInterval, stored, heard, writes, executed, wanted>>

MainTask ==
    \/ WaitConnect
    \/ WaitHubReady
    \/ SendNodeInfo
    \/ NotifyNodeInfo
    \/ SendSensorData
    \/ NotifySensorData
    \/ Leave
    \/ WaitGone
    \/ EndState
    \/ DeepSleep

-----------------------------------------------------------------------------
(* The NimBLE host task *)

onConnect ==
    /\ host = Idle
    /\ advertising
    /\ advertising' = FALSE
    /\ deviceConnected' = TRUE
    /\ UNCHANGED <<main, host, storage, hubReady, value, heard, hist>>

onDisconnect ==
    /\ host = Idle
    /\ deviceConnected
    /\ deviceConnected' = FALSE
    /\ UNCHANGED <<main, host, storage, hubReady, advertising, value, heard, hist>>

(* ConfigCB::onWrite with HUB_READY. *)
WriteHubReady ==
    /\ host = Idle
    /\ deviceConnected
    /\ ~hubReady
    /\ hubReady' = TRUE
    /\ UNCHANGED <<main, host, storage, deviceConnected, advertising, value, heard, hist>>

Mut_onWrite(cmd) ==
    /\ host = Idle
    /\ deviceConnected
    /\ writes < MaxWrites
    /\ writes' = writes + 1
    /\ host' = [pc |-> "ack", cmd |-> cmd.arg]
    /\ UNCHANGED <<main, storage, ble, value, heard, executed, wanted, slept>>

(* ConfigCB::onWrite with a command of the server, which numbers its       *)
(* commands from 1, so that each asks for an acknowledgement.              *)
onWrite(cmd) ==
    /\ host = Idle
    /\ deviceConnected
    /\ writes < MaxWrites
    /\ writes' = writes + 1
    /\ host' = [pc |-> cmd.kind, cmd |-> cmd.arg]
    /\ UNCHANGED <<main, storage, ble, value, heard, executed, wanted, slept>>

SetInterval ==
    /\ host.pc = "interval"
    /\ setSleepInterval(host.cmd)
    /\ wanted' = IF opened THEN Clamped(host.cmd) ELSE wanted
    /\ executed' = executed \cup {writes}
    /\ host' = [host EXCEPT !.pc = "ack"]
    /\ UNCHANGED <<main, ble, value, heard, writes, slept>>

(* The LED blinks, with a delay in the callback. *)
TestCmd ==
    /\ host.pc = "test"
    /\ executed' = executed \cup {writes}
    /\ host' = [host EXCEPT !.pc = "ack"]
    /\ UNCHANGED <<main, storage, ble, value, heard, writes, wanted, slept>>

(* Only a callback clears deviceConnected, so its test holds here. *)
SetAck ==
    /\ host.pc = "ack"
    /\ setValue(Ack(writes))
    /\ host' = [host EXCEPT !.pc = "notify"]
    /\ UNCHANGED <<main, storage, ble, heard, hist>>

NotifyAck ==
    /\ host.pc = "notify"
    /\ notify
    /\ host' = Idle
    /\ UNCHANGED <<main, storage, ble, value, hist>>

(* state.clear() from level 1 on, state.end(), ESP.restart().  No answer   *)
(* to the write, no CMD_ACK.                                               *)
ResetNode ==
    /\ host.pc = "reset"
    /\ IF host.cmd >= 1
       THEN /\ stored' = IF opened THEN None ELSE stored
            /\ sleepInterval' = DEFAULT_INTERVAL
            /\ wanted' = IF opened THEN DEFAULT_INTERVAL ELSE wanted
       ELSE UNCHANGED <<stored, sleepInterval, wanted>>
    /\ executed' = executed \cup {writes}
    /\ PowerDown
    /\ UNCHANGED <<heard, writes, slept>>

HostTask ==
    \/ SetInterval
    \/ TestCmd
    \/ SetAck
    \/ NotifyAck
    \/ ResetNode

-----------------------------------------------------------------------------

Next ==
    \/ Boot
    \/ MainTask
    \/ onConnect
    \/ onDisconnect
    \/ WriteHubReady
    \/ \E cmd \in Command : onWrite(cmd)
    \/ HostTask

Spec == Init /\ [][Next]_vars

(* Time passes, so each wait of setup() ends; a callback returns.  Nothing *)
(* is assumed of the hub: it may connect or not, and never disconnect.     *)
Fairness == WF_vars(MainTask) /\ WF_vars(HostTask)

FairSpec == Spec /\ Fairness

-----------------------------------------------------------------------------
(* Properties *)

Message == [kind : {"info", "data", "ack"}, cmd_id : 0 .. MaxWrites]

(* Type invariant. *)
TypeOK ==
    /\ main \in {"asleep", "connect", "ready", "info", "info_notify", "data",
                 "data_notify", "leave", "gone", "end", "deinit"}
    /\ host \in [pc : {"idle", "interval", "reset", "test", "ack", "notify"},
                 cmd : Argument \cup {None}]
    /\ opened \in BOOLEAN
    /\ sleepInterval \in MIN_INTERVAL .. MAX_INTERVAL
    /\ stored \in MIN_INTERVAL .. MAX_INTERVAL \cup {None}
    /\ deviceConnected \in BOOLEAN
    /\ hubReady \in BOOLEAN
    /\ advertising \in BOOLEAN
    /\ value \in Message \cup {None}
    /\ writes \in 0 .. MaxWrites
    /\ executed \subseteq 1 .. MaxWrites
    /\ heard \in Seq(Message)
    /\ wanted \in MIN_INTERVAL .. MAX_INTERVAL
    /\ slept \in MIN_INTERVAL .. MAX_INTERVAL

(* Every acknowledgement the hub hears, whichever task's notify() sent it, *)
(* is of a command the node has carried out (ble_peripheral.cpp:55-105).   *)
AckTruthful ==
    \A k \in 1 .. Len(heard) : heard[k].kind = "ack" => heard[k].cmd_id \in executed

(* Whatever setup() does meanwhile, and whether the node sleeps or restarts*)
(* next, each command written to it is carried out before its callback     *)
(* ends: the hub drops a command for good when the write is answered       *)
(* (ble_peripheral.cpp:55-105, 201-212).                                   *)
WriteIsCarriedOut == host = Idle => executed = 1 .. writes

(* Sharing the characteristic between the tasks may repeat or replace a    *)
(* notification, but never lets the node's introduction arrive after its   *)
(* measurement (ble_peripheral.cpp:172-199, main.cpp:17-21).               *)
ReportOrder ==
    \A j, k \in 1 .. Len(heard) : j < k => ~(heard[j].kind = "data" /\ heard[k].kind = "info")

(* A node wakes, after deep sleep and after a restart at any moment, with  *)
(* the interval of the last command it handled, clamped, or the default    *)
(* after a clear, provided the storage was open at the time                *)
(* (node_state.cpp:10-36, ble_peripheral.cpp:55-82, 201-212).  A write     *)
(* handled after state.end() is acknowledged as well, but lasts for one    *)
(* sleep only.                                                             *)
KeptAcrossSleep == [][Boot => sleepInterval' = wanted]_vars

(* A node that is awake sleeps again (or restarts), whatever the hub does: *)
(* it never spends its battery waiting (main.cpp:10-33,                    *)
(* ble_peripheral.cpp:153-212).                                            *)
EventuallySleeps == main # "asleep" ~> main = "asleep"

-----------------------------------------------------------------------------
(* Statements of the documentation that the code does not keep. *)

(* lib/protocol/protocol.h: after carrying out a command of the server the *)
(* node reports the result, so the hub hears it while the link lasts.      *)
ResultReported ==
    [][NotifyAck /\ deviceConnected => \E k \in 1 .. Len(heard') : heard'[k] = Ack(writes)]_vars

=============================================================================
