----------------------------- MODULE CommandLog -----------------------------
(***************************************************************************)
(* The server's log of commands: server/domain/services.py over            *)
(* adapters/outbound/mqtt_publisher.py, adapters/outbound/sqlite_repo.py   *)
(* and adapters/inbound/mqtt_subscriber.py.                                *)
(*                                                                         *)
(* Requests are coroutines of one event loop: send_command numbers its     *)
(* commands, publishes them in one message, waits, and then writes a row   *)
(* for each without waiting in between.  Acknowledgements are applied to   *)
(* the rows one after another by a worker thread, which runs beside the    *)
(* event loop.  A restart loses everything but the rows, and numbering     *)
(* starts again.  What the hubs and nodes do with a command is what the    *)
(* specification Delivery allows: execute it any number of times, with an  *)
(* acknowledgement each, or drop it.  MQTT messages can be lost (QoS 0).   *)
(*                                                                         *)
(* A command is its position in the order of requests.                     *)
(***************************************************************************)
EXTENDS Naturals, Sequences, FiniteSets

CONSTANTS
    Hub,        \* hubs a request can name
    MaxId,      \* the largest identifier (65535)
    ClientIds,  \* identifiers that clients choose themselves
    Verdict,    \* results that nodes report
    MaxBatch,   \* bound: commands in one request
    MaxCmds,    \* bound: commands in all requests
    MaxLives,   \* bound: starts of the server
    MaxAcks,    \* bound: acknowledgements on their way at a time
    None        \* no command

ASSUME LogAssumption ==
    /\ MaxId \in Nat \ {0}
    /\ ClientIds \subseteq 1 .. MaxId
    /\ Verdict \subseteq {"success", "fail"}
    /\ MaxBatch \in Nat
    /\ MaxCmds \in Nat
    /\ MaxLives \in Nat \ {0}
    /\ MaxAcks \in Nat
    /\ None \notin Nat

VARIABLES
    counter,  \* _cmd_id_counter
    waiting,  \* requests whose publish has not returned
    saving,   \* the request whose rows are being written: [batch, done]
    thread,   \* the acknowledgement that the worker thread handles, or None
    sub,      \* the subscriber's connection: "down", "up" (or "ended")
    pub,      \* the publisher's connection works
    rows,     \* command_logs: [cmd, status, by]; by, a history, is the
              \* command whose acknowledgement settled the row (acked_at)
    acks,     \* acknowledgements on their way to the server: [cmd, status]
    cmds,     \* history: [hub, id, life, nr], nr = 0 for a client's own id
    life,     \* history: how often the server was started
    given,    \* history: commands numbered in this life
    sent,     \* history: commands handed to the broker
    answered  \* history: requests that were answered "ok"

server == <<counter, waiting, saving, thread, sub, pub, rows>>
vars   == <<counter, waiting, saving, thread, sub, pub, rows, acks,
            cmds, life, given, sent, answered>>

Id == 1 .. MaxCmds

Idle == [batch |-> <<>>, done |-> 0]

Ack == [cmd : Id, status : Verdict]

Elements(b) == {b[i] : i \in 1 .. Len(b)}

Init ==
    /\ counter = 0
    /\ waiting = {}
    /\ saving = Idle
    /\ thread = None
    /\ sub = "down"
    /\ pub = TRUE
    /\ rows = <<>>
    /\ acks = {}
    /\ cmds = <<>>
    /\ life = 1
    /\ given = 0
    /\ sent = {}
    /\ answered = {}

-----------------------------------------------------------------------------
(* Requests, on the event loop *)

(* The event loop does not wait between the rows of one request. *)
LoopFree == saving = Idle

Mut_IdFromZero(n) == (counter + n) % MaxId

(* The counter after n calls of _next_cmd_id, which is also what the n-th  *)
(* of them returns.                                                        *)
next_cmd_id(n) ==
    IF n = 0 THEN counter ELSE ((counter + n - 1) % MaxId) + 1

(* How many of the first k commands of a request come without an           *)
(* identifier.                                                             *)
Unnumbered(ids, k) == Cardinality({i \in 1 .. k : ids[i] = 0})

Numbered(h, ids) ==
    [k \in 1 .. Len(ids) |->
        IF ids[k] # 0 THEN [hub |-> h, id |-> ids[k], life |-> life, nr |-> 0]
        ELSE [hub |-> h, id |-> next_cmd_id(Unnumbered(ids, k)), life |-> life,
              nr |-> given + Unnumbered(ids, k)]]

Mut_Handed(batch) ==
    /\ waiting' = waiting \cup {batch}
    /\ sent' = IF pub THEN sent \cup Elements(batch) ELSE sent

(* publish_commands hands the message to the broker, or raises at once     *)
(* when the connection is gone, which is never opened again.               *)
Handed(batch) ==
    IF pub THEN /\ waiting' = waiting \cup {batch}
                /\ sent' = sent \cup Elements(batch)
           ELSE UNCHANGED <<waiting, sent>>

(* send_command up to the await: every command gets an identifier, and the *)
(* message is published.                                                   *)
SendCommand(h, ids) ==
    LET batch == [k \in 1 .. Len(ids) |-> Len(cmds) + k]
    IN  /\ LoopFree
        /\ Len(cmds) + Len(ids) <= MaxCmds
        /\ cmds' = cmds \o Numbered(h, ids)
        /\ counter' = next_cmd_id(Unnumbered(ids, Len(ids)))
        /\ given' = given + Unnumbered(ids, Len(ids))
        /\ Handed(batch)
        /\ UNCHANGED <<saving, thread, sub, pub, rows, acks, life, answered>>

(* publish returns, and the rows are written from here on. *)
Published(b) ==
    /\ LoopFree
    /\ b \in waiting
    /\ waiting' = waiting \ {b}
    /\ saving' = [batch |-> b, done |-> 0]
    /\ UNCHANGED <<counter, thread, sub, pub, rows, acks, cmds, life, given, sent, answered>>

(* publish raises, on a time-out for instance, although the message may    *)
(* still reach the hub; the request ends with an error and without rows.   *)
PublishRaises(b) ==
    /\ LoopFree
    /\ b \in waiting
    /\ waiting' = waiting \ {b}
    /\ UNCHANGED <<counter, saving, thread, sub, pub, rows, acks, cmds, life, given, sent, answered>>

(* save_command_log, a transaction of its own. *)
SaveRow ==
    /\ ~LoopFree
    /\ rows' = Append(rows, [cmd |-> saving.batch[saving.done + 1],
                             status |-> "pending", by |-> None])
    /\ IF saving.done + 1 = Len(saving.batch)
       THEN saving' = Idle /\ answered' = answered \cup {saving.batch}
       ELSE saving' = [saving EXCEPT !.done = @ + 1] /\ UNCHANGED answered
    /\ UNCHANGED <<counter, waiting, thread, sub, pub, acks, cmds, life, given, sent>>

Mut_SaveFails ==
    /\ ~LoopFree
    /\ IF saving.done + 1 = Len(saving.batch)
       THEN saving' = Idle /\ answered' = answered \cup {saving.batch}
       ELSE saving' = [saving EXCEPT !.done = @ + 1] /\ UNCHANGED answered
    /\ UNCHANGED <<counter, waiting, thread, sub, pub, rows, acks, cmds, life, given, sent>>

(* The transaction fails (a locked or full database): the request ends     *)
(* with an error, without the rows that are left.                          *)
SaveFails ==
    /\ ~LoopFree
    /\ saving' = Idle
    /\ UNCHANGED <<counter, waiting, thread, sub, pub, rows, acks, cmds, life, given, sent, answered>>

EventLoop ==
    \/ \E b \in waiting : Published(b) \/ PublishRaises(b)
    \/ SaveRow
    \/ SaveFails

-----------------------------------------------------------------------------
(* The subscriber, and the worker thread it waits for *)

Subscribe ==
    /\ LoopFree
    /\ sub = "down"
    /\ sub' = "up"
    /\ UNCHANGED <<counter, waiting, saving, thread, pub, rows, acks, cmds, life, given, sent, answered>>

(* run() takes the next message and hands it to the worker thread. *)
Receive(a) ==
    /\ LoopFree
    /\ sub = "up"
    /\ thread = None
    /\ a \in acks
    /\ acks' = acks \ {a}
    /\ thread' = a
    /\ UNCHANGED <<counter, waiting, saving, sub, pub, rows, cmds, life, given, sent, answered>>

Mut_MatchesAnyHub(r, a) ==
    /\ cmds[r.cmd].id = cmds[a.cmd].id
    /\ r.status = "pending"

Mut_MatchesAnyId(r, a) ==
    /\ cmds[r.cmd].hub = cmds[a.cmd].hub
    /\ r.status = "pending"

(* WHERE hub_id = ? AND cmd_id = ? AND status = 'pending' *)
Matches(r, a) ==
    /\ cmds[r.cmd].hub = cmds[a.cmd].hub
    /\ cmds[r.cmd].id = cmds[a.cmd].id
    /\ r.status = "pending"

(* update_command_ack: every row that matches is settled. *)
Update ==
    /\ thread # None
    /\ rows' = [i \in 1 .. Len(rows) |->
                  IF Matches(rows[i], thread)
                  THEN [rows[i] EXCEPT !.status = thread.status, !.by = thread.cmd]
                  ELSE rows[i]]
    /\ thread' = None
    /\ UNCHANGED <<counter, waiting, saving, sub, pub, acks, cmds, life, given, sent, answered>>

Mut_UpdateFails ==
    /\ thread # None
    /\ thread' = None
    /\ sub' = "ended"
    /\ UNCHANGED <<counter, waiting, saving, pub, rows, acks, cmds, life, given, sent, answered>>

(* The update raises: run() logs the error and goes on. *)
UpdateFails ==
    /\ thread # None
    /\ thread' = None
    /\ UNCHANGED <<counter, waiting, saving, sub, pub, rows, acks, cmds, life, given, sent, answered>>

Worker == Update \/ UpdateFails

-----------------------------------------------------------------------------
(* Broker, hubs, nodes, and the server's process *)

(* The subscriber's connection ends; run() opens it again. *)
SubscriberLost ==
    /\ sub = "up"
    /\ thread = None
    /\ sub' = "down"
    /\ UNCHANGED <<counter, waiting, saving, thread, pub, rows, acks, cmds, life, given, sent, answered>>

PublisherLost ==
    /\ pub
    /\ pub' = FALSE
    /\ UNCHANGED <<counter, waiting, saving, thread, sub, rows, acks, cmds, life, given, sent, answered>>

(* A hub that got the message has the node execute the command, and again *)
(* when it did not see the node's answer; or it never does, because the    *)
(* message was lost or the hub dropped the command.                        *)
Execute(c, v) ==
    /\ c \in sent
    /\ Cardinality(acks) < MaxAcks
    /\ acks' = acks \cup {[cmd |-> c, status |-> v]}
    /\ UNCHANGED <<server, cmds, life, given, sent, answered>>

LoseAck(a) ==
    /\ a \in acks
    /\ acks' = acks \ {a}
    /\ UNCHANGED <<server, cmds, life, given, sent, answered>>

(* The process ends, by a crash or an update, and starts again: lifespan   *)
(* connects the publisher before the first request is taken.               *)
Restart ==
    /\ life < MaxLives
    /\ life' = life + 1
    /\ counter' = 0
    /\ given' = 0
    /\ waiting' = {}
    /\ saving' = Idle
    /\ thread' = None
    /\ sub' = "down"
    /\ pub' = TRUE
    /\ UNCHANGED <<rows, acks, cmds, sent, answered>>

Requests == UNION {[1 .. n -> {0} \cup ClientIds] : n \in 1 .. MaxBatch}

Next ==
    \/ \E h \in Hub, ids \in Requests : SendCommand(h, ids)
    \/ EventLoop
    \/ Subscribe
    \/ \E a \in acks : Receive(a) \/ LoseAck(a)
    \/ Worker
    \/ SubscriberLost
    \/ PublisherLost
    \/ \E c \in sent, v \in Verdict : Execute(c, v)
    \/ Restart

Spec == Init /\ [][Next]_vars

(* Coroutines and the worker thread run on, and the broker accepts the     *)
(* subscriber in the end.                                                  *)
Fairness ==
    /\ WF_vars(EventLoop)
    /\ WF_vars(Worker)
    /\ WF_vars(Subscribe)

FairSpec == Spec /\ Fairness

-----------------------------------------------------------------------------
(* Properties *)

CommandRecord ==
    [hub : Hub, id : 1 .. MaxId, life : 1 .. MaxLives, nr : 0 .. MaxCmds]

RowRecord ==
    [cmd : Id, status : {"pending"} \cup Verdict, by : Id \cup {None}]

(* Type invariant; an identifier is never 0, which would ask the node for  *)
(* no acknowledgement (services.py:17-20).                                 *)
TypeOK ==
    /\ counter \in 0 .. MaxId
    /\ waiting \subseteq Seq(Id)
    /\ saving \in [batch : Seq(Id), done : Nat]
    /\ thread \in Ack \cup {None}
    /\ sub \in {"down", "up"}
    /\ pub \in BOOLEAN
    /\ rows \in Seq(RowRecord)
    /\ acks \subseteq Ack
    /\ cmds \in Seq(CommandRecord)
    /\ Len(cmds) <= MaxCmds
    /\ life \in 1 .. MaxLives
    /\ given \in 0 .. MaxCmds
    /\ sent \subseteq Id
    /\ answered \subseteq Seq(Id)

(* Whether two commands can share an identifier: not when one life of the  *)
(* server gave both of them less than MaxId numbers apart.                 *)
Confusable(c, d) ==
    \/ cmds[c].life # cmds[d].life
    \/ cmds[c].nr = 0 \/ cmds[d].nr = 0
    \/ cmds[c].nr >= cmds[d].nr + MaxId
    \/ cmds[d].nr >= cmds[c].nr + MaxId

(* A row's verdict was given by a command of the same hub, its own command *)
(* or one with which it is confusable: across a restart, the wrap of the   *)
(* counter, or an identifier chosen by a client                            *)
(* (services.py:17-41, sqlite_repo.py:126-134).                            *)
VerdictGiven ==
    \A i \in 1 .. Len(rows) :
        rows[i].status # "pending" =>
            /\ cmds[rows[i].by].hub = cmds[rows[i].cmd].hub
            /\ rows[i].by # rows[i].cmd => Confusable(rows[i].by, rows[i].cmd)

(* What an acknowledgement settles was pending until then, so that neither *)
(* a repeated execution nor another command with its identifier changes a  *)
(* verdict; and it settles two rows at once only if their commands could   *)
(* share an identifier, although the update has no limit (services.py:     *)
(* 17-41, sqlite_repo.py:126-134).                                         *)
SettlesByRule ==
    [][\A i \in 1 .. Len(rows) : rows'[i] # rows[i] =>
          /\ rows[i].status = "pending"
          /\ \A j \in 1 .. Len(rows) :
                (i # j /\ rows'[j] # rows[j]) => Confusable(rows[i].cmd, rows[j].cmd)]_vars

(* A row is written only for a command that was handed to the broker, and  *)
(* once, however requests, errors and restarts interleave                  *)
(* (services.py:25-38, mqtt_publisher.py:28-35).                           *)
RowMeansSent ==
    /\ \A i \in 1 .. Len(rows) : rows[i].cmd \in sent
    /\ \A i, j \in 1 .. Len(rows) : rows[i].cmd = rows[j].cmd => i = j

(* A request is answered "ok" only when each of its commands was handed to *)
(* the broker and has its row: no error on the way is swallowed            *)
(* (services.py:25-38, http_routes.py:42-49).                              *)
OkMeansLogged ==
    \A b \in answered : \A c \in Elements(b) :
        c \in sent /\ \E i \in 1 .. Len(rows) : rows[i].cmd = c

(* The server is ready for the next acknowledgement again and again:       *)
(* neither a failed update nor a lost connection stops the subscriber, and *)
(* no request blocks the event loop for good (mqtt_subscriber.py:30-73).   *)
ReadyAgain == []<>(sub = "up" /\ thread = None /\ LoopFree)

=============================================================================
