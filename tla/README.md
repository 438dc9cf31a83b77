# tempio: TLA+ models of the hub, the sensor node and the server

tempio measures a shop with battery-powered BLE nodes. A hub (ESP32) connects the nodes
over BLE and a server over MQTT; the server logs reports and sends commands back. This
directory holds TLA+ modules translated from the firmware and the server, TLC runs over
small instances, and theorems checked by TLAPS. File names below are relative to `src/`.

## 1. The system

### Parts, state, operations

| Part | Source | State | Operations |
|---|---|---|---|
| Ring buffer queue | `firmware/src/hub/util/thread_safe_queue.h` | `buf_`, `head_`, `tail_`, `count_` | push, pushFront, pop, contains, full; each under a spinlock |
| Pending pool | `firmware/src/hub/util/pending_pool.h` | `slots_[MAX_NODES]`: used, node, a queue of stamped commands | push, pushFront, pop (drops expired commands, frees an empty slot), nextNode; each under one spinlock |
| Command dispatcher | `firmware/src/hub/cmd/` | none of its own | dispatchCommand (try at once, else pool), flushNodePending, flushAllPending, handleHubCommand |
| BLE connection table | `firmware/src/hub/ble/ble_central.cpp`, `ble_connection.cpp` | `nodes[MAX_NODES]`, `pendingQueue`, `doScan`, the stack's client objects | scan callback, disconnect callback, connect and register, stash and reuse of clients, send |
| Notification path | `firmware/src/hub/ble/ble_data.cpp`, `main.cpp` | `reportQueue`, `ackQueue` | notification callback, two drains in `loop()` |
| MQTT client | `firmware/src/hub/net/mqtt_handler.cpp` | `connected`, `wasConnected` | event handlers, start and stop with WiFi, publish |
| WiFi manager, hub identity | `firmware/src/hub/net/wifi_manager.cpp`, `util/hub_id.cpp` | credentials in flash, the id | set, connect with a bounded wait |
| Sensor node | `firmware/src/sensor/`, `firmware/lib/storage/` | `deviceConnected`, `hubReady`, the DATA characteristic, the interval in RAM and flash | `setup()` once per waking time; callbacks onConnect, onDisconnect, onWrite |
| IR node | `firmware/src/ir/main.cpp` | none | a stub |
| Server | `server/` | command log, reports, identifier counter, MQTT connections | send_command, process_ack, process_report, reconnection |

### Who runs concurrently

On the hub three tasks share memory:

- the **Arduino loop task** runs `loop()`: connect one node, drain two queues, flush the pool;
- the **NimBLE host task** runs the BLE callbacks, one at a time;
- the **esp_mqtt task** runs `onData`, hence `dispatchCommand` and `bleSendToNode`.

The queues and the pool are protected by spinlocks; `nodes[]` and `doScan` are not
protected at all. On a node the Arduino task runs `setup()` while the NimBLE host task runs
the callbacks; the characteristic, the flags and the interval are not protected either.
On the server the requests are coroutines of one event loop; acknowledgements are applied by a
worker thread that runs beside it; both write one SQLite file.

### What is hard

Two tasks on one queue with a command in the hand of neither queue; a connection that ends at
any instruction of its own registration; a retry whose first attempt was executed; a
32-bit clock; the last milliseconds of a node before deep sleep; queues of four and eight
entries; on the server, an acknowledgement
that overtakes its own log row and identifiers that come round again. `PROJECT.json` lists each hazard at its line
with the property that would catch it, or the reason why none does.

### What makes each part correct

- queue: it behaves as a bounded double-ended sequence;
- pool and dispatcher: no command is duplicated or mislaid, order within a queue is kept,
  expired commands are not handed out, commands of a connected node leave the hub;
- connection table: a client object has one owner, no link is left without one, the table
  is not damaged by a late callback, no node is forgotten by the scan;
- node: acknowledgements are true, the interval survives, every waking time ends;
- notification path: what was received is published once or knowingly dropped;
- server: a verdict in the log is that of its command, is final, and every "ok" has its rows.

## 2. Modules

| Module | What it is |
|---|---|
| `BoundedQueue` | abstract: a bounded double-ended sequence and what each operation returns |
| `ThreadSafeQueue` | the ring; `ImplementsFifo` is the refinement of `BoundedQueue` with `items` read from the ring |
| `SlotSearch` | the linear search both fixed tables of the hub use |
| `PendingPool` | the pool: its operators change `slots`, each one critical section |
| `Delivery` | abstract: what the hub may do with a command, without pool, tasks or links |
| `Relay` | abstract: what the hub may do with a notification, without queues, tasks or sessions |
| `CmdDispatcher` | extends the pool with the two tasks that use it; `ImplementsDelivery` is the refinement of `Delivery` |
| `BleCentral` | the connection table with the three tasks, and the notification callback |
| `SensorNode` | a node: setup() and the callbacks |
| `Uplink` | from a notification to the broker: the two queues, `loop()`, the MQTT client; `ImplementsRelay` is the refinement of `Relay` |
| `CommandLog` | the server's log of commands: requests, rows, acknowledgements, restarts |
| `...Proofs` | the theorems about a module: `ThreadSafeQueue`, `SlotSearch`, `CmdDispatcher`, `BleCentral` (also `BleLinkProofs`), `SensorNode`, `Uplink`, `CommandLog` |
| `MC...` | instances for TLC (and the symmetry of the nodes) |

The modules meet at these seams. The queue that `ThreadSafeQueue` is shown to implement is the
sequence that `PendingPool`, `BleCentral` and `Uplink` use. `CmdDispatcher` extends `PendingPool` and sees the
connection table of `BleCentral` as the set `conn`. What `CmdDispatcher` implements, `Delivery`, is what
`CommandLog` assumes of hubs and nodes: a command that was sent is executed any number of times, or
dropped. What `Uplink` implements, `Relay`, is what a server behind the broker may rely on: each notification at most
once, in order within its kind. `SensorNode` sees the hub as writes at any time; `Uplink` and `BleCentral` see a node as notifications at any time.

**How state and actions correspond to code.** A variable has the name of the source's variable
where there is one. A task is a record `[pc, ...]` whose fields are the locals that live across its
steps. A step is what a task does between two points where another task can change what
it has read or see what it has written: one critical section where there is a
lock, one access to a shared field (or several that no other task tells apart) where there
is none, the code between two `await`s on the server. `PROJECT.json` maps every definition to its lines.

*ThreadSafeQueue.* The uninitialised array is any contents of the cells. Each action
leaves in `result` what the C++ operation returns, so that the refinement compares results
and not only contents.

*PendingPool, CmdDispatcher.* A command is its arrival number; `cmds` holds its target
and its kind: "plain"; "bad", which does not convert to a packet; "reset", which its node executes by
restarting inside the write callback, so that the write is never answered. `trySend` is two steps: what it
reads of the connection table (`MqttSend`, `LoopSend`), and the write. The write has a
response: true means the node executed the command; false means it did not, or that it
did and the answer was lost (at most `MaxUnanswered` commands besides the resets). The results of `push`
and `pushFront` that the code ignores become the fates "refused" and "lost". `exec`, `fate`, `unanswered`,
`first` and `last` are history. The conversion of JSON and the hub's own status command carry no state.

*BleCentral.* The loop task is a chain of steps from `LoopStart` to `StartScan`.
`registerNode` is four: the fields, `used = true`, the test of `configChar`, the write.
`onDisconnect` is two: `used = false`, then `configChar = nullptr` and `doScan = true`.
The stack is external and is modelled by what the code relies on: a connection or discovery
completes in the host task, so not during a callback; a client object and an address have at most one
link; a scan reports an advertiser once. `Ghost`, `Reported`, `Registering` are state predicates for properties.
The notification callback is two steps, the lookup of the slot and the use of it; `talks` holds the clients
whose node the hub has written to, which is when a node begins to speak (`sensor/ble_peripheral.cpp`). What it
puts into the queues is in `Uplink`. Following a null pointer sets `up` to FALSE, and `Reboot` starts again with an empty table.

*SensorNode.* `main` is the point of `setup()`, `host` the callback that runs.
Each wait may end at any time by its time-out; `setValue` and `notify` are two steps because the
other task can come in between. Flash survives `DeepSleep` and `ResetNode`, RAM does not.
The server numbers its commands from 1, so `cmd_id` 0, which asks for no acknowledgement,
does not occur.

*Uplink.* Three tasks: the host task (`Notify`), the loop task (`loop.pc` walks through `loop()`: the BLE
part, `mqttLoop`, the two drains; each drain takes one note, tests `connected` and publishes), and the
client's own task, which runs the event handlers. `connected` is the flag both tasks write; `link` is the
session the broker sees; `alive` says whether what is sent still arrives. A notification is its arrival
number, a queue the sequence of the waiting ones. `esp_mqtt_client_stop` waits for the client's task,
and the client reconnects by itself: that is the library's contract, external.

*CommandLog.* `SendCommand` is the code up to `await publish`; `Published` or `PublishRaises` is its return;
`SaveRow` writes one row in a transaction of its own, and nothing else of the event loop runs before the
last one (`LoopFree`), while the worker thread does (`Update`). `thread` is the acknowledgement in its hand.
`nr`, `life` and `by` are history: the number of a command within a start of the server, the start, and
whose acknowledgement settled the row.

## 3. Runs

| Run | Instance | Shows |
|---|---|---|
| `ThreadSafeQueue` | 3 cells, 2 items | `RingInv`, `ImplementsFifo` |
| `CmdDispatcher` | 3 nodes, 2 slots of 2, 3 commands of every kind, one lost answer, clock 3 wrapping at 4, TTL 2, no ticks | `Conservation`, `QueueOrder`, `SlotsSound`, `NoNeedlessRepeat`, `LostToNewer`, `OnlyDirectOvertakes`, `OthersUntouched`, `ImplementsDelivery`, types |
| `CmdDispatcherLive` | 2 nodes, 2 slots, 2 plain commands, time 1 to 4 on a clock of 4 ticks with a TTL of 2 | `HandedOutFresh` across the wrap, `EventuallyLeaves` |
| `BleCentral` | 3 nodes, 2 slots, pending queue of 1 | client ownership, links, late callbacks, forgotten nodes, notifications under the right address |
| `BleCentralLive` | 2 nodes, 1 slot, pending queue of 2, sends, crashes | `PendingDistinct`, `EventuallyTried` |
| `SensorNode` | 3 commands over any number of waking times, intervals below, inside and above the range | `AckTruthful`, `WriteIsCarriedOut`, `ReportOrder`, `KeptAcrossSleep`, `EventuallySleeps` |
| `Uplink` | queues of 2 and 1, 3 notifications, WiFi, sessions and restarts at any time | `Accounted`, `ConnectedAgrees`, `ImplementsRelay`, `ComesBack`, `EventuallyLeaves` |
| `CommandLog` | 2 hubs, identifiers 1 and 2, 3 commands in requests of up to 2, 2 starts of the server | `VerdictGiven`, `SettlesByRule`, `RowMeansSent`, `OkMeansLogged`, `ReadyAgain` |

**Why the bounds are enough.** Three cells are the smallest ring in which the
cursors differ, wrap in both directions and meet. Three nodes on two slots make the table and the pool
full; queues of one or two make every "full" branch happen; three commands give one in a queue, one in each task's hand, and
a put-back behind which another waits. Time steps over the wrap and to an age above the
TTL. Three notifications fill a queue of two and one of one and leave one to be dropped or to overtake. With two
identifiers the third command of a life shares one with the first, and a second life gives every number again;
one acknowledgement on its way and one in the worker's hand give an early, a late and a repeated one. Between the runs of a module
every action fires. The `Max...` constants bound what the environment does; nothing bounds the number of
connections, WiFi changes, crashes of a hub or waking times. `CommandLog` is run without identifiers chosen by
clients; its theorems include them.

**Fairness.** The tasks are FreeRTOS tasks that are always scheduled again, hence weak
fairness of each. `EventuallyLeaves` of the dispatcher also assumes that a write retried for ever succeeds once
(strong fairness of `LoopWriteOk`): a node that never answers keeps its command. It speaks of commands that convert only
(the run sends no others): one that does not is put back at the head of its queue for ever and
blocks those behind it, although rule 1 of `docs/spec/command-protocol.md` says unknown
commands are ignored. `EventuallyTried` assumes that the stack reports the end of a link the hub closed or whose
node advertises again (the supervision time-out), and that a node that keeps advertising is
reported again and again (strong fairness of `ScanResult`). With a pending queue smaller than the number of
other nodes a node can be turned down each time it is reported, so the run gives the queue
room for all, as `PENDING_MAX = 8` does for `MAX_NODES = 5`. `EventuallySleeps` assumes nothing of the hub.
In `Uplink` the loop task and the client's task are weakly fair; the latter includes that the client reconnects
while WiFi lasts, and `ComesBack` speaks only of behaviours in which WiFi, the sessions and the hub stay up from some moment on.
In `CommandLog` the event loop and the worker thread run on and the broker accepts the subscriber in the
end; nothing is assumed of hubs, messages or the publisher.

### Where code and documentation disagree

Four runs check a statement of the documentation and find a counterexample; `PROJECT.json`
quotes the line.

| Run | Statement | What the code does |
|---|---|---|
| `CmdStale` (1 node, one reset) | a command older than 5 minutes is discarded | a put-back stamps it anew: a reset is executed, never answered, and sent again however old it is |
| `BleGhost` (1 node) | a waking node is reconnected | a link lost during registration occupies its slot and address for ever |
| `BleSendCrash` (1 node, sends) | a send to a lost node returns false | the tested pointer is read again after it was cleared |
| `SensorReported` (2 commands) | a command's result is reported | a report set between setValue and notify of the acknowledgement replaces it |

Also seen, without a run of their own. In the dispatcher: a direct send overtakes the commands that wait
for the same node (rule 3 of `docs/spec/command-protocol.md` promises order; what holds is `QueueOrder`, and that nothing else overtakes, `OnlyDirectOvertakes`);
while one command is being tried a newer one can take its place in a full queue, and the older is lost
(rule 4 says the new one is dropped; `LostToNewer` is what holds); commands of a node that never connects
never expire and keep its slot (rule 5; `OthersUntouched` says that they stay, whatever the other nodes do); a command that waits for a whole turn of the millisecond
counter (49.7 days) counts as fresh. In the connection table: a client object is lost when a slot is freed between
`findEmptySlot` and `findReusableClient`, because registration then overwrites the client the chosen slot
keeps; a send that looked up its slot before the slot was freed and registered again for another
node writes to that node, which then may speak before it is registered: its notifications find no slot
(`NotificationAttributed` says that only then, and that what is labelled at all is labelled right). On the node: an interval handled after `state.end()` is acknowledged
but lasts for one sleep only (the condition in `KeptAcrossSleep`). In the uplink: `docs/spec/mqtt-protocol.md:145` says
the newest report is kept while WiFi is off; the drains take reports out and drop them ("offline").
On the server: an acknowledgement that arrives before its row is written leaves the row pending; identifiers start
again at 1 with every start, so that a late acknowledgement can settle another command's row (`Confusable` says
exactly when), and can settle several rows at once, but only of such commands (`SettlesByRule`); no code sets the status "timeout" of `models.py:64`; rows of commands that are never acknowledged (the hub's own
status, resets) stay pending; the publisher does not reconnect before the server is restarted; a publish can raise
although the message was sent.

## 4. Proofs

All theorems hold for every value of the constants that meets the modules' assumptions
(positive capacities, `None` apart from the other values); `FreshCorrect` assumes one thing more, said below. No theorem needs a bound on the numbers of
nodes, slots, commands or identifiers. Each follows from one inductive invariant, which TLC's runs and the
proofs share part by part.

- `ThreadSafeQueueProofs`. `RingCorrect`: `Spec => []RingInv`. `RingInv` is inductive: the arithmetic of
  `(i + 1) % N` and `(i - 1 + N) % N` is isolated in lemmas about the two cursors.
  `RingImplementsFifo`: `Spec => Fifo!Spec`. Initial states map to the empty sequence;
  for each action one lemma says what the stored sequence becomes (append, tail, cons, or
  the same), given `RingInv`.
- `CmdDispatcherProofs`. Lemmas say what push, pushFront and pop do to the slots (`PushFacts`,
  `PushFrontFacts`, `PopNothing`, `PopSome`) and which commands are in the queues before and after
  (`PushCells`, `PopCells`). The invariant is `Types /\ Places`. `Types` adds to `TypeOK` what each task's record
  holds at each point (`Control`), that a node has one slot and a free slot no queue (`SlotNodes`) and that a queue
  holds received commands of its node (`Contents`). `Places` says that queues are in order, that the command
  in the loop task's hand is older than those of its slot and that this slot stays in use (`Taken`), that what waits or is in a
  hand has not left and is in one place only (`Placed`), and that what has not left is somewhere
  (`NoneMislaid`). None of the properties is inductive alone: that a put-back keeps the order needs `Taken`; that a push does
  needs that the esp_mqtt task holds the newest command; that a pop drops a command from the only place it has needs
  the strict order and the single slot. From it follow `ConservationCorrect`, `OrderCorrect`, `SlotsCorrect`, `LossCorrect`
  and the refinement `DispatcherImplementsDelivery`; `RepeatCorrect` adds that what a node executed was
  confirmed or is one of the unanswered. `FreshCorrect` (`Spec => HandedOutFresh`) assumes `MaxTime - StartTime < ClockMod`,
  less than one whole turn of the millisecond counter, wherever in the turn it starts; beyond it the statement fails
  (section 3). `Stamps` says that every entry carries the counter's value at the command's last put, and `Elapsed` that the
  unsigned subtraction then gives the time since. Two action properties use the same invariant: `OvertakingCorrect`
  (what the loop task hands out is the oldest command the hub has for that node, by `Taken` and the order of the queue)
  and `WaitingStays` (push only appends, and the other node's put-back and pop work on another slot, by `SlotNodes`).
- `BleCentralProofs`. `TypeCorrect`, `ClientsNeverShared`: from `Invariance`, `Spec => []IInv` with
  `IInv == TypeOK /\ Control /\ Ownership`. `ClientsNotShared` is not inductive: that a slot
  can take the loop task's client needs that this client is in no slot, that the chosen slot is
  not in use until the registration sets it (only the loop task sets `used`), and that a client object not yet created
  is nowhere. `Control` says what each program point guarantees about the locals, `Ownership`
  who may refer to a client object. The search is used through the lemmas of `SlotSearchProofs`.
- `BleLinkProofs`, on top of `IInv`: one lemma per further invariant, combined in `LinkInvariance`. `LinksAccountedFor` needs that
  the slot the loop task has chosen stays unused (`SlotHeld`), that the link it sets up leads to the node it is connecting, and that
  the host task frees a slot only after the link is gone (`Links`). `ClearedInTime` needs that no registration begins while a callback
  runs (`Late`). `NeverForgotten` is inductive once it speaks of all nodes reported, also those that sleep again (`AllRemembered`).
  `QueuedOnce` adds that the address in the host task's hand is not queued. `ClientsNeverLeaked` follows from `IInv` by the pigeonhole
  principle. `LabelsCorrect` holds with sends at any moment: `Spoken` says that a client to be closed still has its link and is in no
  slot in use, that whoever speaks has a link, and that the slot found by the callback keeps its client until the callback ends, because only the
  same task frees slots and the loop task fills only unused ones. That a slot is always found when `Target = {}` needs that then every
  client that speaks is registered (`Talking`). From `Spoken` also follows `NotifyNeverCrashes`: the client whose signal strength is
  asked for (`ble_data.cpp:40`) is never null.
- `SensorNodeProofs`. `TypeCorrect`, `AcksTrue`, `WritesCarriedOut`, `OrderCorrect`, `IntervalKept`. `AcksTrue` needs that what the
  characteristic holds is true as well, `WritesCarriedOut` that no more than the command of the running callback is outstanding
  (`Carried`) and that deep sleep waits for that callback, `OrderCorrect` that once a measurement was heard the characteristic holds no introduction
  and `setup()` is past setting one, `IntervalKept` that the flash holds what `begin()` will read back as the wanted interval.
- `UplinkProofs`. `TypeCorrect`, `AccountedCorrect`, `BrokerOrderCorrect`, `FlagCorrect`. `Accounted` needs that the waiting
  notifications are in order and that each is in the queue of its kind; `BrokerOrder` needs that the loop task's
  note is newer than all the broker has of its kind and older than all that wait; `ConnectedAgrees` needs what the
  client's task is doing in each state of the session and that the loop task clears the flag only after the client's task has ended.
  `UplinkImplementsRelay` (`Spec => Promise!Spec`): one lemma for each action of `Relay`, one for the steps it does not see, and
  `HandIsOldest`, that the loop task's note is the oldest held one of its kind. What `BrokerOrder` says is part of the promise of `Relay`,
  so no run checks it again; its proof carries the invariant that `HandIsOldest` uses.
- `CommandLogProofs`. `TypeCorrect`, `RowsCorrect`, `OkCorrect`, `SettlesCorrect`, `GivenCorrect`. `Written` relates requests, the one
  being saved and the rows, so that no command gets two. `Numbering` says that the identifier of the n-th command of a
  life is `((n - 1) % MaxId) + 1`; two commands of a life with one identifier are then at least `MaxId` numbers apart, by
  lemmas about remainders, and every verdict is attributed to a command of the same hub and identifier (`Attributed`). `SettlesCorrect` needs the
  step from identifiers to `Confusable` (`SharedIsConfusable`) and that no two rows have one command (`Separate`).

Model-checked only: every liveness property, which the prover does not handle. Every invariant, action property
and refinement the passing runs check is a theorem. The four documentation statements of section 3 are refuted by TLC. `NotificationAttributed` is
model-checked without sends of the esp_mqtt task and proved with them; `Conservation` is model-checked without expiry and proved with it. Induction over data is out of the prover's reach too; the modules use sets, functions and library folds instead
of recursion.

## 5. Not modelled

- The values measured, JSON and packet layouts, LEDs, logging: nothing the properties tell apart.
- The NimBLE stack, esp_mqtt, WiFi, aiomqtt and SQLite beyond what the code relies on.
- Memory effects below one field access: fields of `nodes[]` are read and written whole.
- `nodeType`: a label that NODE_INFO sets and the JSON shows.
- The WiFi manager: one task, credentials in flash and a bounded wait; `Uplink` has WiFi come and go at any time.
- The hub's identity: computed once from the MAC address.
- Sensor reports on the server: one insert each, without a state the next one depends on; the HTTP API's other
  routes and the dashboard are queries.
- The IR node (a stub) and the deployment files (configuration).

## 6. What is left

A composition of one node's queue, `SensorNode` and the log row, which would state how often a command behind one row
is executed. Today `Delivery` is the seam between the two halves, and each half is checked against it.
