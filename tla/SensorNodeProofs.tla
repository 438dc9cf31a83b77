-------------------------- MODULE SensorNodeProofs --------------------------
(***************************************************************************)
(* Type correctness of a sensor node, and its safety properties, for any   *)
(* range of intervals, any commands and any number of waking times.        *)
(***************************************************************************)
EXTENDS SensorNode, TLAPS

(* What the tasks' program counters say of the fields they use; in deep    *)
(* sleep the stack is down and RAM is lost.                                *)
Control ==
    /\ host.pc # "idle" => host.cmd \in Argument /\ writes \in 1 .. MaxWrites
    /\ host.pc = "notify" => value # None
    /\ main \in {"info_notify", "data_notify"} => value # None
    /\ main = "asleep" => /\ host.pc = "idle"
                          /\ value = None
                          /\ ~deviceConnected
                          /\ ~advertising

Types == TypeOK /\ Control

(* What the flash holds is what begin() will read back. *)
Kept == Restored = wanted

Acked(v) == v # None => (v.kind = "ack" => v.cmd_id \in executed)

(* A callback acknowledges after it has carried out its command. *)
Truth ==
    /\ AckTruthful
    /\ Acked(value)
    /\ host.pc \in {"ack", "notify"} => writes \in executed

(* The command of the callback that runs is carried out in its first step. *)
Carried ==
    executed = IF host.pc \in {"interval", "test", "reset"} THEN 1 .. writes - 1
               ELSE 1 .. writes

(* setup() after the measurement was set; a restart ends the waking time. *)
Measured == {"data_notify", "leave", "gone", "end", "deinit", "asleep"}

(* Once a measurement has been heard, setup() does not set the             *)
(* introduction any more in this waking time.                              *)
Order ==
    /\ ReportOrder
    /\ value # None => (value.kind = "data" => main \in Measured)
    /\ (\E k \in 1 .. Len(heard) : heard[k].kind = "data") =>
          /\ main \in Measured
          /\ value # None => value.kind # "info"

LEMMA Constants ==
    /\ MIN_INTERVAL \in Nat /\ MAX_INTERVAL \in Nat /\ MIN_INTERVAL <= MAX_INTERVAL
    /\ DEFAULT_INTERVAL \in MIN_INTERVAL .. MAX_INTERVAL
    /\ MaxWrites \in Nat
    /\ None \notin Nat
    /\ None \notin Message
<1>1. MIN_INTERVAL \in Nat /\ MAX_INTERVAL \in Nat /\ MaxWrites \in Nat /\ None \notin Nat
  BY SensorAssumption
<1>2. DEFAULT_INTERVAL \in MIN_INTERVAL .. MAX_INTERVAL
  BY SensorAssumption
<1>3. MIN_INTERVAL <= MAX_INTERVAL
  BY <1>1, <1>2
<1>4. Message \subseteq [kind : {"info", "data", "ack"}, cmd_id : Nat]
  BY <1>1 DEF Message
<1>5. None \notin Message
  BY <1>4, SensorAssumption
<1> QED BY <1>1, <1>2, <1>3, <1>5

(* setSleepInterval clamps, so what it stores is read back unchanged.      *)
LEMMA ClampedFits ==
    ASSUME NEW sec \in Nat
    PROVE  Clamped(sec) \in MIN_INTERVAL .. MAX_INTERVAL
BY Constants DEF Clamped

LEMMA Arguments ==
    /\ Argument \subseteq Nat
    /\ 0 \in Argument /\ 1 \in Argument
    /\ Requested \subseteq Argument
<1>1. Requested \subseteq Argument
  BY SensorAssumption
<1>2. Argument \subseteq Nat /\ 0 \in Argument /\ 1 \in Argument
  BY DEF Argument
<1> QED BY <1>1, <1>2

(* A command of the server, as the callback takes it.                      *)
LEMMA CommandArgs ==
    ASSUME NEW cmd \in Command
    PROVE  cmd.kind \in {"interval", "reset", "test"} /\ cmd.arg \in Argument
BY Arguments DEF Command

(* What the tasks put into the characteristic. *)
LEMMA MessageTypes ==
    /\ Report("info") \in Message /\ Report("data") \in Message
    /\ \A c \in 0 .. MaxWrites : Ack(c) \in Message
<1>1. 0 \in 0 .. MaxWrites
  BY Constants
<1> QED BY <1>1 DEF Report, Ack, Message

-----------------------------------------------------------------------------
(* notify() sends the value of the characteristic, or nothing.             *)
LEMMA HeardType ==
    ASSUME heard \in Seq(Message), value \in Message, notify
    PROVE  heard' \in Seq(Message)
BY DEF notify

(* Every step keeps the types; only the callbacks set the interval.        *)
LEMMA TypeStep ==
    ASSUME Types, [Next]_vars
    PROVE  Types'
<1> USE Constants DEF Types, Control, TypeOK, storage, ble, hist, Goto
<1>0. /\ host \in [pc : {"idle", "interval", "reset", "test", "ack", "notify"},
                   cmd : Argument \cup {None}]
      /\ None \notin Message /\ Idle.pc = "idle"
      /\ Idle \in [pc : {"idle", "interval", "reset", "test", "ack", "notify"},
                   cmd : Argument \cup {None}]
  BY DEF Idle
<1>1. CASE Boot
  <2>1. Restored \in MIN_INTERVAL .. MAX_INTERVAL
    BY DEF Restored
  <2> QED BY <1>1, <2>1 DEF Boot
<1>2. CASE WaitConnect \/ WaitHubReady \/ Leave \/ WaitGone
  BY <1>2 DEF WaitConnect, WaitHubReady, Leave, WaitGone
<1>3. CASE SendNodeInfo \/ SendSensorData
  BY <1>3, MessageTypes DEF SendNodeInfo, SendSensorData, SetReport, setValue
<1>4. CASE NotifyNodeInfo \/ NotifySensorData
  <2>1. heard' \in Seq(Message)
    BY <1>0, <1>4, HeardType DEF NotifyNodeInfo, NotifySensorData, NotifyReport
  <2> QED BY <1>4, <2>1 DEF NotifyNodeInfo, NotifySensorData, NotifyReport
<1>5. CASE EndState
  BY <1>5 DEF EndState
<1>6. CASE DeepSleep
  BY <1>0, <1>6 DEF DeepSleep, PowerDown
<1>7. CASE onConnect \/ onDisconnect \/ WriteHubReady
  BY <1>0, <1>7 DEF onConnect, onDisconnect, WriteHubReady
<1>8. ASSUME NEW cmd \in Command, onWrite(cmd) PROVE Types'
  <2>1. /\ host' = [pc |-> cmd.kind, cmd |-> cmd.arg] /\ writes' = writes + 1
        /\ writes < MaxWrites /\ deviceConnected
        /\ UNCHANGED <<main, storage, ble, value, heard, executed, wanted, slept>>
    BY <1>8 DEF onWrite
  <2>2. cmd.kind \in {"interval", "reset", "test"} /\ cmd.arg \in Argument
    BY CommandArgs
  <2> QED BY <1>0, <2>1, <2>2
<1>9. CASE SetInterval
  <2>1. /\ host.pc = "interval" /\ host.cmd \in Argument /\ writes \in 1 .. MaxWrites
        /\ host' = [host EXCEPT !.pc = "ack"] /\ executed' = executed \cup {writes}
        /\ UNCHANGED <<main, ble, value, heard, writes, slept, opened>>
    BY <1>9 DEF SetInterval, setSleepInterval
  <2>2. Clamped(host.cmd) \in MIN_INTERVAL .. MAX_INTERVAL
    BY <2>1, Arguments, ClampedFits
  <2>3. /\ sleepInterval' \in MIN_INTERVAL .. MAX_INTERVAL
        /\ stored' \in MIN_INTERVAL .. MAX_INTERVAL \cup {None}
        /\ wanted' \in MIN_INTERVAL .. MAX_INTERVAL
    BY <1>9, <2>2 DEF SetInterval, setSleepInterval
  <2> QED BY <1>0, <2>1, <2>3
<1>10. CASE TestCmd
  BY <1>0, <1>10 DEF TestCmd
<1>11. CASE SetAck
  <2>1. Ack(writes) \in Message
    BY MessageTypes
  <2> QED BY <1>0, <1>11, <2>1 DEF SetAck, setValue
<1>12. CASE NotifyAck
  <2>1. heard' \in Seq(Message)
    BY <1>0, <1>12, HeardType DEF NotifyAck
  <2> QED BY <1>0, <1>12, <2>1 DEF NotifyAck
<1>13. CASE ResetNode
  <2>1. executed' \subseteq 1 .. MaxWrites
    BY <1>13 DEF ResetNode
  <2>2. /\ sleepInterval' \in MIN_INTERVAL .. MAX_INTERVAL
        /\ stored' \in MIN_INTERVAL .. MAX_INTERVAL \cup {None}
        /\ wanted' \in MIN_INTERVAL .. MAX_INTERVAL
    BY <1>13 DEF ResetNode
  <2> QED BY <1>0, <1>13, <2>1, <2>2 DEF ResetNode, PowerDown
<1>14. CASE UNCHANGED vars
  BY <1>14 DEF vars
<1> QED
  BY <1>1, <1>2, <1>3, <1>4, <1>5, <1>6, <1>7, <1>8, <1>9, <1>10, <1>11, <1>12, <1>13, <1>14
  DEF Next, MainTask, HostTask

-----------------------------------------------------------------------------
(* A node keeps in flash the interval of the last command it handled while *)
(* the storage was open.                                                   *)
LEMMA KeptStep ==
    ASSUME Types, Kept, [Next]_vars
    PROVE  Kept'
<1> USE Constants DEF Kept, Restored, storage, ble, hist
<1>1. CASE UNCHANGED <<stored, wanted>>
  BY <1>1
<1>2. CASE SetInterval
  <2>1. Clamped(host.cmd) \in MIN_INTERVAL .. MAX_INTERVAL /\ Clamped(host.cmd) # None
    <3>1. host.cmd \in Nat
      BY <1>2, Arguments DEF SetInterval, Types, Control
    <3> QED BY <3>1, ClampedFits
  <2> QED BY <1>2, <2>1 DEF SetInterval, setSleepInterval
<1>3. CASE ResetNode
  BY <1>3 DEF ResetNode
<1>4. Boot \/ MainTask \/ onConnect \/ onDisconnect \/ WriteHubReady \/ TestCmd \/ SetAck \/ NotifyAck
      \/ UNCHANGED vars \/ (\E cmd \in Command : onWrite(cmd))
      => UNCHANGED <<stored, wanted>>
  BY DEF Boot, MainTask, WaitConnect, WaitHubReady, SendNodeInfo, SendSensorData, SetReport,
         NotifyNodeInfo, NotifySensorData, NotifyReport, Leave, WaitGone, EndState, DeepSleep,
         onConnect, onDisconnect, WriteHubReady, TestCmd, SetAck, NotifyAck, onWrite, vars
<1> QED BY <1>1, <1>2, <1>3, <1>4 DEF Next, HostTask

(* What one notify() adds to what was heard.                               *)
LEMMA Heard ==
    ASSUME heard \in Seq(Message), value \in Message, notify
    PROVE  \/ heard' = heard
           \/ /\ Len(heard') = Len(heard) + 1 /\ Len(heard) \in Nat
              /\ heard'[Len(heard) + 1] = value
              /\ \A k \in 1 .. Len(heard) : heard'[k] = heard[k]
BY DEF notify

(* Both tasks set the characteristic; whoever notifies, what is heard was  *)
(* set by one of them.                                                     *)
LEMMA TruthStep ==
    ASSUME Types, Truth, [Next]_vars
    PROVE  Truth'
<1> USE Constants DEF Truth, AckTruthful, Acked, storage, ble, hist, Goto
<1>0. /\ heard \in Seq(Message) /\ Len(heard) \in Nat
      /\ host \in [pc : {"idle", "interval", "reset", "test", "ack", "notify"},
                   cmd : Argument \cup {None}]
  BY DEF Types, TypeOK
<1>1. CASE UNCHANGED <<heard, value, host, writes, executed>>
  BY <1>1
<1>2. CASE Boot
  BY <1>2 DEF Boot
<1>3. CASE SendNodeInfo \/ SendSensorData
  BY <1>3 DEF SendNodeInfo, SendSensorData, SetReport, setValue, Report
<1>4. CASE NotifyNodeInfo \/ NotifySensorData \/ NotifyAck
  <2>1. notify /\ value \in Message /\ value # None /\ UNCHANGED <<value, writes, executed>>
        /\ (host' = host \/ host'.pc = "idle")
    BY <1>4 DEF NotifyNodeInfo, NotifySensorData, NotifyReport, NotifyAck, Types, TypeOK, Control, Idle
  <2>2. AckTruthful'
    BY <1>0, <2>1, Heard
  <2> QED BY <2>1, <2>2
<1>5. CASE DeepSleep
  BY <1>5 DEF DeepSleep, PowerDown, Idle
<1>6. ASSUME NEW cmd \in Command, onWrite(cmd) PROVE Truth'
  <2>1. host'.pc \notin {"ack", "notify"} /\ UNCHANGED <<heard, value, executed>>
    BY <1>6, CommandArgs DEF onWrite
  <2> QED BY <2>1
<1>7. CASE SetInterval \/ TestCmd
  <2>1. UNCHANGED <<heard, value, writes>> /\ executed' = executed \cup {writes}
    BY <1>7 DEF SetInterval, TestCmd
  <2> QED BY <2>1
<1>8. CASE SetAck
  <2>1. UNCHANGED <<heard, writes, executed>> /\ host.pc = "ack" /\ value' = Ack(writes)
    BY <1>8 DEF SetAck, setValue
  <2> QED BY <2>1 DEF Ack
<1>9. CASE ResetNode
  <2>1. UNCHANGED heard /\ value' = None /\ executed' = executed \cup {writes} /\ host'.pc = "idle"
    BY <1>9 DEF ResetNode, PowerDown, Idle
  <2> QED BY <2>1
<1>10. WaitConnect \/ WaitHubReady \/ Leave \/ WaitGone \/ EndState
       \/ onConnect \/ onDisconnect \/ WriteHubReady \/ UNCHANGED vars
       => UNCHANGED <<heard, value, host, writes, executed>>
  BY DEF WaitConnect, WaitHubReady, Leave, WaitGone, EndState, onConnect, onDisconnect,
         WriteHubReady, vars
<1> QED
  BY <1>1, <1>2, <1>3, <1>4, <1>5, <1>6, <1>7, <1>8, <1>9, <1>10 DEF Next, MainTask, HostTask

(* setup() never ends a callback, and a restart comes after the command.   *)
LEMMA CarriedStep ==
    ASSUME Types, Carried, [Next]_vars
    PROVE  Carried'
<1> USE DEF Carried, storage, ble, hist, Goto
<1>0. /\ host \in [pc : {"idle", "interval", "reset", "test", "ack", "notify"},
                   cmd : Argument \cup {None}]
      /\ writes \in Nat
      /\ host.pc # "idle" => writes >= 1
      /\ Idle.pc = "idle"
  BY Constants DEF Types, TypeOK, Control, Idle
<1>1. CASE UNCHANGED <<host, writes, executed>>
  BY <1>1
<1>2. CASE DeepSleep
  BY <1>0, <1>2 DEF DeepSleep, PowerDown
<1>3. ASSUME NEW cmd \in Command, onWrite(cmd) PROVE Carried'
  <2>1. /\ executed' = executed /\ executed = 1 .. writes /\ writes' = writes + 1
        /\ host'.pc \in {"interval", "test", "reset"}
    BY <1>0, <1>3, CommandArgs DEF onWrite
  <2> QED BY <1>0, <2>1
<1>4. CASE SetInterval \/ TestCmd \/ ResetNode
  <2>1. /\ executed' = executed \cup {writes} /\ executed = 1 .. writes - 1
        /\ writes' = writes /\ writes >= 1
        /\ host'.pc \in {"ack", "idle"}
    BY <1>0, <1>4 DEF SetInterval, TestCmd, ResetNode, PowerDown
  <2>2. (1 .. writes - 1) \cup {writes} = 1 .. writes
    BY <1>0, <2>1
  <2> QED BY <2>1, <2>2
<1>5. CASE SetAck \/ NotifyAck
  <2>1. /\ UNCHANGED <<writes, executed>> /\ executed = 1 .. writes
        /\ host'.pc \in {"notify", "idle"}
    BY <1>0, <1>5 DEF SetAck, NotifyAck
  <2> QED BY <2>1
<1>6. Boot \/ WaitConnect \/ WaitHubReady \/ SendNodeInfo \/ SendSensorData
      \/ NotifyNodeInfo \/ NotifySensorData \/ Leave \/ WaitGone \/ EndState
      \/ onConnect \/ onDisconnect \/ WriteHubReady \/ UNCHANGED vars
      => UNCHANGED <<host, writes, executed>>
  BY DEF Boot, WaitConnect, WaitHubReady, SendNodeInfo, SendSensorData, SetReport,
         NotifyNodeInfo, NotifySensorData, NotifyReport, Leave, WaitGone, EndState,
         onConnect, onDisconnect, WriteHubReady, vars
<1> QED BY <1>1, <1>2, <1>3, <1>4, <1>5, <1>6 DEF Next, MainTask, HostTask

(* Setting or notifying an acknowledgement in between moves nothing but    *)
(* acknowledgements behind the measurement.                                *)
LEMMA OrderStep ==
    ASSUME Types, Order, [Next]_vars
    PROVE  Order'
<1> USE Constants DEF Order, ReportOrder, Measured, storage, ble, hist, Goto
<1>0. /\ heard \in Seq(Message) /\ Len(heard) \in Nat
      /\ main = "asleep" => host.pc = "idle" /\ value = None
  BY DEF Types, TypeOK, Control
<1>1. CASE UNCHANGED <<heard, value>> /\ (UNCHANGED main \/ main' \in Measured)
  BY <1>1
<1>2. CASE Boot
  BY <1>0, <1>2 DEF Boot
<1>3. CASE WaitConnect \/ WaitHubReady
  BY <1>3 DEF WaitConnect, WaitHubReady
<1>4. CASE SendNodeInfo \/ SendSensorData
  <2>1. UNCHANGED heard /\ main \in {"info", "data"}
    BY <1>4 DEF SendNodeInfo, SendSensorData, SetReport
  <2>2. \/ value' = value
        \/ value' = Report("info")
        \/ value' = Report("data") /\ main' = "data_notify"
    BY <1>4 DEF SendNodeInfo, SendSensorData, SetReport, setValue
  <2> QED BY <2>1, <2>2 DEF Report
<1>5. CASE NotifyNodeInfo \/ NotifySensorData \/ NotifyAck
  <2>1. /\ notify /\ value \in Message /\ value # None /\ UNCHANGED value
        /\ main' = main \/ (main = "info_notify" /\ main' = "data") \/ main' = "leave"
    BY <1>5 DEF NotifyNodeInfo, NotifySensorData, NotifyReport, NotifyAck, Types, TypeOK, Control
  <2>2. ReportOrder'
    BY <1>0, <2>1, Heard
  <2>3. (\E k \in 1 .. Len(heard') : heard'[k].kind = "data")
          => (value.kind = "data" \/ \E k \in 1 .. Len(heard) : heard[k].kind = "data")
    BY <1>0, <2>1, Heard
  <2> QED BY <2>1, <2>2, <2>3
<1>6. CASE SetAck
  <2>1. UNCHANGED <<main, heard>> /\ value' = Ack(writes)
    BY <1>6 DEF SetAck, setValue
  <2> QED BY <2>1 DEF Ack
<1>7. CASE DeepSleep \/ ResetNode
  <2>1. UNCHANGED heard /\ value' = None /\ main' = "asleep"
    BY <1>7 DEF DeepSleep, ResetNode, PowerDown
  <2> QED BY <2>1
<1>8. Leave \/ WaitGone \/ EndState
      \/ onConnect \/ onDisconnect \/ WriteHubReady \/ (\E cmd \in Command : onWrite(cmd))
      \/ SetInterval \/ TestCmd \/ UNCHANGED vars
      => UNCHANGED <<heard, value>> /\ (UNCHANGED main \/ main' \in Measured)
  BY DEF Leave, WaitGone, EndState, onConnect, onDisconnect, WriteHubReady, onWrite,
         SetInterval, TestCmd, vars
<1> QED
  BY <1>1, <1>2, <1>3, <1>4, <1>5, <1>6, <1>7, <1>8 DEF Next, MainTask, HostTask

-----------------------------------------------------------------------------
NodeInv == Types /\ Kept /\ Truth /\ Carried /\ Order

(* The invariant holds through any number of waking times and restarts.    *)
THEOREM Invariance == Spec => []NodeInv
<1>1. Init => NodeInv
  <2> SUFFICES ASSUME Init PROVE NodeInv
    OBVIOUS
  <2> USE Constants DEF Init, Idle
  <2>1. Types
    <3>1. heard \in Seq(Message) /\ executed \subseteq 1 .. MaxWrites /\ writes \in 0 .. MaxWrites
      OBVIOUS
    <3>2. host \in [pc : {"idle", "interval", "reset", "test", "ack", "notify"},
                    cmd : Argument \cup {None}]
      OBVIOUS
    <3> QED BY <3>1, <3>2 DEF Types, TypeOK, Control
  <2>2. Kept
    BY DEF Kept, Restored
  <2>3. Truth
    BY DEF Truth, AckTruthful, Acked
  <2>4. Carried
    BY DEF Carried
  <2>5. Order
    BY DEF Order, ReportOrder
  <2> QED BY <2>1, <2>2, <2>3, <2>4, <2>5 DEF NodeInv
<1>2. NodeInv /\ [Next]_vars => NodeInv'
  BY TypeStep, KeptStep, TruthStep, CarriedStep, OrderStep DEF NodeInv
<1> QED BY <1>1, <1>2, PTL DEF Spec

(* The type invariant of the node: in particular every interval it sleeps  *)
(* or stores is in range (node_state.cpp:10-36).                           *)
THEOREM TypeCorrect == Spec => []TypeOK
<1>1. NodeInv => TypeOK
  BY DEF NodeInv, Types
<1> QED BY <1>1, Invariance, PTL

(* Every acknowledgement heard is of a command that was carried out, also  *)
(* when setup() notifies the value a callback has just set                 *)
(* (ble_peripheral.cpp:55-105).                                            *)
THEOREM AcksTrue == Spec => []AckTruthful
<1>1. NodeInv => AckTruthful
  BY DEF NodeInv, Truth
<1> QED BY <1>1, Invariance, PTL

(* A command that was written to the node is carried out, whatever setup() *)
(* does meanwhile and however often the node restarts                      *)
(* (ble_peripheral.cpp:55-105, 201-212).                                   *)
THEOREM WritesCarriedOut == Spec => []WriteIsCarriedOut
<1>1. NodeInv => WriteIsCarriedOut
  BY DEF NodeInv, Carried, WriteIsCarriedOut, Idle
<1> QED BY <1>1, Invariance, PTL

(* The introduction is never heard after the measurement, whichever values *)
(* the callbacks put between setValue and notify (ble_peripheral.cpp:      *)
(* 172-199, main.cpp:17-21).                                               *)
THEOREM OrderCorrect == Spec => []ReportOrder
<1>1. NodeInv => ReportOrder
  BY DEF NodeInv, Order
<1> QED BY <1>1, Invariance, PTL

(* A node wakes with the interval of the last command it handled while its *)
(* storage was open, after deep sleep and after a restart                  *)
(* (node_state.cpp:10-36).                                                 *)
THEOREM IntervalKept == Spec => KeptAcrossSleep
<1>1. NodeInv /\ [Next]_vars => [Boot => sleepInterval' = wanted]_vars
  BY DEF NodeInv, Kept, Boot
<1> QED BY <1>1, Invariance, PTL DEF Spec, KeptAcrossSleep

=============================================================================
