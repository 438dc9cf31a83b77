-------------------------- MODULE CommandLogProofs --------------------------
(***************************************************************************)
(* What the rows of command_logs say, for every number of hubs, commands,  *)
(* restarts and acknowledgements, and every largest identifier.            *)
(***************************************************************************)
EXTENDS CommandLog, Integers, SequenceTheorems, FiniteSetTheorems, TLAPS

(* A multiple of M that is less than M away from 0 is 0.                   *)
LEMMA NoSmallMultiple ==
    ASSUME NEW M \in Nat \ {0}, NEW d \in Int, 0 - M < M * d, M * d < M
    PROVE  d = 0
<1>1. CASE d >= 1
  <2>1. M * d = M * (d - 1) + M
    OBVIOUS
  <2>2. M * (d - 1) >= 0
    BY <1>1
  <2>3. M * d \in Int /\ M * (d - 1) \in Int
    OBVIOUS
  <2> QED BY <2>1, <2>2, <2>3
<1>2. CASE d <= 0 - 1
  <2>1. M * d = M * (d + 1) - M
    OBVIOUS
  <2>2. M * (d + 1) <= 0
    BY <1>2
  <2>3. M * d \in Int /\ M * (d + 1) \in Int
    OBVIOUS
  <2> QED BY <2>1, <2>2, <2>3
<1> QED BY <1>1, <1>2

LEMMA Remainder ==
    ASSUME NEW M \in Nat \ {0}, NEW a \in Nat
    PROVE  /\ a % M \in 0 .. M - 1
           /\ a \div M \in Int
           /\ a = M * (a \div M) + (a % M)
  OBVIOUS

(* Numbers with the same remainder are equal or at least M apart.          *)
LEMMA SameRemainder ==
    ASSUME NEW M \in Nat \ {0}, NEW a \in Nat, NEW b \in Nat,
           a % M = b % M, a # b
    PROVE  a >= b + M \/ b >= a + M
<1> DEFINE d == a \div M - b \div M
<1>1. d \in Int /\ M * d \in Int /\ a - b = M * d
  BY Remainder
<1>2. SUFFICES ASSUME a < b + M, b < a + M PROVE FALSE
  OBVIOUS
<1>3. 0 - M < M * d /\ M * d < M
  BY <1>1, <1>2
<1> HIDE DEF d
<1>4. d = 0
  BY <1>1, <1>3, NoSmallMultiple
<1> QED BY <1>1, <1>4

LEMMA SameId ==
    ASSUME NEW M \in Nat \ {0}, NEW p \in Nat \ {0}, NEW q \in Nat \ {0}, p # q,
           ((p - 1) % M) + 1 = ((q - 1) % M) + 1
    PROVE  p >= q + M \/ q >= p + M
<1>1. p - 1 \in Nat /\ q - 1 \in Nat /\ p - 1 # q - 1
  OBVIOUS
<1>2. (p - 1) % M \in Nat /\ (q - 1) % M \in Nat
  BY <1>1, Remainder
<1>3. (p - 1) % M = (q - 1) % M
  BY <1>2
<1>4. p - 1 >= q - 1 + M \/ q - 1 >= p - 1 + M
  BY <1>1, <1>3, SameRemainder
<1> QED BY <1>4

(* A remainder can be taken before an addition as well as after it.        *)
LEMMA RemainderSum ==
    ASSUME NEW M \in Nat \ {0}, NEW a \in Nat, NEW n \in Nat
    PROVE  ((a % M) + n) % M = (a + n) % M
<1> DEFINE x == (a % M) + n
           y == a + n
           d == (y \div M) - (x \div M) - (a \div M)
<1>1. x \in Nat /\ y \in Nat /\ y = x + M * (a \div M)
  BY Remainder
<1>2. /\ x = M * (x \div M) + (x % M)
      /\ y = M * (y \div M) + (y % M)
      /\ x % M \in 0 .. M - 1 /\ y % M \in 0 .. M - 1
      /\ x \div M \in Int /\ y \div M \in Int /\ a \div M \in Int
  BY <1>1, Remainder
<1>3. d \in Int /\ M * d = M * (y \div M) - M * (x \div M) - M * (a \div M)
  BY <1>2
<1>4. M * d = (x % M) - (y % M)
  BY <1>1, <1>2, <1>3
<1>5. d = 0
  BY <1>2, <1>3, <1>4, NoSmallMultiple
<1>6. M * d = 0
  BY <1>5
<1> QED BY <1>2, <1>4, <1>6

-----------------------------------------------------------------------------
(* The numbering of one request.                                           *)

LEMMA RequestShape ==
    ASSUME NEW ids \in Requests
    PROVE  /\ Len(ids) \in Nat \ {0}
           /\ ids \in [1 .. Len(ids) -> {0} \cup ClientIds]
<1>1. PICK n \in 1 .. MaxBatch : ids \in [1 .. n -> {0} \cup ClientIds]
  BY DEF Requests
<1>2. n \in Nat \ {0}
  BY LogAssumption
<1>3. Len(ids) = n
  BY <1>1, <1>2
<1> QED BY <1>1, <1>2, <1>3

LEMMA UnnumberedBound ==
    ASSUME NEW n \in Nat, NEW ids \in [1 .. n -> {0} \cup ClientIds], NEW k \in 0 .. n
    PROVE  Unnumbered(ids, k) \in 0 .. k
<1> DEFINE A == {i \in 1 .. k : ids[i] = 0}
<1>1. IsFiniteSet(1 .. k) /\ Cardinality(1 .. k) = k
  BY FS_Interval
<1>2. A \in SUBSET (1 .. k)
  OBVIOUS
<1>3. IsFiniteSet(A) /\ Cardinality(A) <= k
  BY <1>1, <1>2, FS_Subset
<1>4. Cardinality(A) \in Nat
  BY <1>3, FS_CardinalityType
<1> QED BY <1>3, <1>4 DEF Unnumbered

LEMMA UnnumberedGrows ==
    ASSUME NEW n \in Nat, NEW ids \in [1 .. n -> {0} \cup ClientIds],
           NEW k \in 1 .. n, NEW j \in 0 .. k - 1, ids[k] = 0
    PROVE  Unnumbered(ids, j) < Unnumbered(ids, k)
<1> DEFINE A == {i \in 1 .. j : ids[i] = 0}
           B == {i \in 1 .. k : ids[i] = 0}
<1>1. IsFiniteSet(1 .. j) /\ IsFiniteSet(1 .. k)
  BY FS_Interval
<1>2. A \in SUBSET (1 .. j) /\ B \in SUBSET (1 .. k)
  OBVIOUS
<1>3. IsFiniteSet(A) /\ IsFiniteSet(B)
  BY <1>1, <1>2, FS_Subset
<1>4. k \notin A /\ (A \cup {k}) \in SUBSET B
  OBVIOUS
<1>5. Cardinality(A \cup {k}) = Cardinality(A) + 1
  BY <1>3, <1>4, FS_AddElement
<1>6. Cardinality(A \cup {k}) <= Cardinality(B)
  BY <1>3, <1>4, FS_Subset
<1>7. Cardinality(A) \in Nat /\ Cardinality(B) \in Nat
  BY <1>3, FS_CardinalityType
<1> QED BY <1>5, <1>6, <1>7 DEF Unnumbered

(* A waiting request has commands; the request whose rows are written has  *)
(* one that lacks its row.                                                 *)
Shape ==
    /\ \A b \in waiting : b # <<>>
    /\ saving # Idle => saving.done < Len(saving.batch)
    /\ given <= Len(cmds)

Types == TypeOK /\ Shape

Batch(ids) == [k \in 1 .. Len(ids) |-> Len(cmds) + k]

LEMMA BatchShape ==
    ASSUME Types, NEW h \in Hub, NEW ids \in Requests, SendCommand(h, ids)
    PROVE  /\ Batch(ids) \in Seq(Id)
           /\ Len(Batch(ids)) = Len(ids)
           /\ \A k \in 1 .. Len(ids) : Batch(ids)[k] = Len(cmds) + k
           /\ Batch(ids) # <<>>
<1>1. /\ Len(ids) \in Nat \ {0} /\ Len(cmds) \in Nat
      /\ Len(cmds) + Len(ids) <= MaxCmds /\ MaxCmds \in Nat
  BY RequestShape, LogAssumption DEF Types, TypeOK, SendCommand
<1>2. \A k \in 1 .. Len(ids) : Len(cmds) + k \in Id
  BY <1>1 DEF Id
<1>3. Batch(ids) \in [1 .. Len(ids) -> Id]
  BY <1>2 DEF Batch
<1>4. Batch(ids) \in Seq(Id) /\ Len(Batch(ids)) = Len(ids)
  BY <1>1, <1>3
<1> QED BY <1>1, <1>4 DEF Batch

(* The identifiers and numbers of one request, and the history of commands *)
(* after it.                                                               *)
LEMMA SendFacts ==
    ASSUME Types, NEW h \in Hub, NEW ids \in Requests, SendCommand(h, ids)
    PROVE  /\ Numbered(h, ids) \in Seq(CommandRecord)
           /\ Len(Numbered(h, ids)) = Len(ids)
           /\ cmds' \in Seq(CommandRecord)
           /\ Len(cmds') = Len(cmds) + Len(ids)
           /\ \A c \in 1 .. Len(cmds) : cmds'[c] = cmds[c]
           /\ \A k \in 1 .. Len(ids) : cmds'[Len(cmds) + k] = Numbered(h, ids)[k]
           /\ counter' \in 0 .. MaxId
           /\ given' \in given .. Len(cmds')
<1>0. /\ Len(ids) \in Nat \ {0} /\ ids \in [1 .. Len(ids) -> {0} \cup ClientIds]
      /\ cmds \in Seq(CommandRecord) /\ Len(cmds) \in Nat /\ given \in Nat
      /\ given <= Len(cmds) /\ life \in 1 .. MaxLives /\ counter \in 0 .. MaxId
      /\ Len(cmds) + Len(ids) <= MaxCmds /\ MaxCmds \in Nat /\ MaxId \in Nat \ {0}
  BY RequestShape, LogAssumption DEF Types, TypeOK, Shape, SendCommand
<1>1. \A n \in Nat : /\ next_cmd_id(n) \in 0 .. MaxId
                     /\ n # 0 => next_cmd_id(n) \in 1 .. MaxId
  <2> TAKE n \in Nat
  <2>1. CASE n = 0
    BY <1>0, <2>1 DEF next_cmd_id
  <2>2. CASE n # 0
    <3>1. counter + n - 1 \in Nat
      BY <1>0, <2>2
    <3>2. (counter + n - 1) % MaxId \in 0 .. MaxId - 1
      BY <1>0, <3>1, Remainder
    <3> QED BY <1>0, <2>2, <3>2 DEF next_cmd_id
  <2> QED BY <2>1, <2>2
<1>2. \A k \in 0 .. Len(ids) : Unnumbered(ids, k) \in 0 .. k
  BY <1>0, UnnumberedBound
<1>3. \A k \in 1 .. Len(ids) : ids[k] = 0 => Unnumbered(ids, k) \in 1 .. k
  <2> TAKE k \in 1 .. Len(ids)
  <2>1. ids[k] = 0 => Unnumbered(ids, 0) < Unnumbered(ids, k)
    <3>1. 0 \in 0 .. k - 1
      OBVIOUS
    <3> QED BY <1>0, <3>1, UnnumberedGrows
  <2> QED BY <1>0, <1>2, <2>1
<1>4. \A k \in 1 .. Len(ids) : Numbered(h, ids)[k] \in CommandRecord
  <2> TAKE k \in 1 .. Len(ids)
  <2>1. CASE ids[k] # 0
    <3>1. ids[k] \in 1 .. MaxId
      BY <1>0, <2>1, LogAssumption
    <3>2. Numbered(h, ids)[k] = [hub |-> h, id |-> ids[k], life |-> life, nr |-> 0]
      BY <2>1 DEF Numbered
    <3> QED BY <1>0, <3>1, <3>2 DEF CommandRecord
  <2>2. CASE ids[k] = 0
    <3>1. next_cmd_id(Unnumbered(ids, k)) \in 1 .. MaxId
      <4>1. Unnumbered(ids, k) \in 1 .. k
        BY <1>3, <2>2
      <4>2. Unnumbered(ids, k) \in Nat /\ Unnumbered(ids, k) # 0
        BY <4>1
      <4> QED BY <1>1, <4>2
    <3>2. given + Unnumbered(ids, k) \in 0 .. MaxCmds
      BY <1>0, <1>3, <2>2
    <3>3. Numbered(h, ids)[k] = [hub |-> h, id |-> next_cmd_id(Unnumbered(ids, k)),
                                 life |-> life, nr |-> given + Unnumbered(ids, k)]
      BY <2>2 DEF Numbered
    <3> QED BY <1>0, <3>1, <3>2, <3>3 DEF CommandRecord
  <2> QED BY <2>1, <2>2
<1>5. Numbered(h, ids) \in [1 .. Len(ids) -> CommandRecord]
  <2>1. DOMAIN Numbered(h, ids) = 1 .. Len(ids)
    BY DEF Numbered
  <2>2. Numbered(h, ids) = [k \in 1 .. Len(ids) |-> Numbered(h, ids)[k]]
    BY DEF Numbered
  <2> QED BY <1>4, <2>1, <2>2
<1>6. Numbered(h, ids) \in Seq(CommandRecord) /\ Len(Numbered(h, ids)) = Len(ids)
  BY <1>0, <1>5
<1>7. cmds' = cmds \o Numbered(h, ids)
  BY DEF SendCommand
<1> HIDE DEF CommandRecord
<1>8. /\ cmds' \in Seq(CommandRecord) /\ Len(cmds') = Len(cmds) + Len(ids)
      /\ \A i \in 1 .. Len(cmds) + Len(ids) :
            cmds'[i] = IF i <= Len(cmds) THEN cmds[i] ELSE Numbered(h, ids)[i - Len(cmds)]
  BY <1>0, <1>6, <1>7, ConcatProperties
<1>9. \A c \in 1 .. Len(cmds) : cmds'[c] = cmds[c]
  BY <1>0, <1>8
<1>10. \A k \in 1 .. Len(ids) : cmds'[Len(cmds) + k] = Numbered(h, ids)[k]
  BY <1>0, <1>8
<1>11. counter' \in 0 .. MaxId /\ given' \in given .. Len(cmds')
  <2>1. Unnumbered(ids, Len(ids)) \in 0 .. Len(ids)
    BY <1>0, <1>2
  <2>2. /\ counter' = next_cmd_id(Unnumbered(ids, Len(ids)))
        /\ given' = given + Unnumbered(ids, Len(ids))
    BY DEF SendCommand
  <2>3. next_cmd_id(Unnumbered(ids, Len(ids))) \in 0 .. MaxId
    BY <1>0, <1>1, <2>1
  <2>4. given + Unnumbered(ids, Len(ids)) \in given .. Len(cmds')
    BY <1>0, <1>8, <2>1
  <2> QED BY <2>2, <2>3, <2>4
<1> QED BY <1>6, <1>8, <1>9, <1>10, <1>11

-----------------------------------------------------------------------------
(* Types.                                                                  *)

LEMMA TypesInit == Init => Types
  BY LogAssumption DEF Init, Types, TypeOK, Shape, Idle, CommandRecord, RowRecord

LEMMA SaveFacts ==
    ASSUME Types, SaveRow
    PROVE  /\ saving.done + 1 \in 1 .. Len(saving.batch)
           /\ saving.batch \in Seq(Id)
           /\ saving.done \in Nat
           /\ saving.batch[saving.done + 1] \in Id
           /\ rows' \in Seq(RowRecord)
           /\ Len(rows') = Len(rows) + 1
           /\ rows'[Len(rows) + 1] = [cmd |-> saving.batch[saving.done + 1],
                                      status |-> "pending", by |-> None]
           /\ \A i \in 1 .. Len(rows) : rows'[i] = rows[i]
<1>1. /\ saving \in [batch : Seq(Id), done : Nat]
      /\ saving.done < Len(saving.batch)
      /\ rows \in Seq(RowRecord)
  BY DEF Types, TypeOK, Shape, SaveRow, LoopFree
<1>2. /\ saving.batch \in Seq(Id) /\ saving.done \in Nat
      /\ saving.done + 1 \in 1 .. Len(saving.batch)
  BY <1>1
<1>3. saving.batch[saving.done + 1] \in Id
  BY <1>2, ElementOfSeq
<1> DEFINE r == [cmd |-> saving.batch[saving.done + 1], status |-> "pending", by |-> None]
<1>4. r \in RowRecord
  BY <1>3 DEF RowRecord
<1>5. rows' = Append(rows, r)
  BY DEF SaveRow
<1> HIDE DEF r
<1>6. /\ rows' \in Seq(RowRecord) /\ Len(rows') = Len(rows) + 1
      /\ rows'[Len(rows) + 1] = r
      /\ \A i \in 1 .. Len(rows) : rows'[i] = rows[i]
  BY <1>1, <1>4, <1>5
<1> QED BY <1>2, <1>3, <1>6 DEF r

LEMMA UpdateFacts ==
    ASSUME Types, Update
    PROVE  /\ thread \in Ack
           /\ rows' \in Seq(RowRecord)
           /\ Len(rows') = Len(rows)
           /\ \A i \in 1 .. Len(rows) :
                 rows'[i] = IF Matches(rows[i], thread)
                            THEN [rows[i] EXCEPT !.status = thread.status, !.by = thread.cmd]
                            ELSE rows[i]
<1>1. thread \in Ack /\ rows \in Seq(RowRecord) /\ Len(rows) \in Nat
  <2>1. thread \in Ack \cup {None} /\ thread # None /\ rows \in Seq(RowRecord)
    BY DEF Types, TypeOK, Update
  <2>2. Len(rows) \in Nat
    BY <2>1, LenProperties
  <2> QED BY <2>1, <2>2
<1>2. \A i \in 1 .. Len(rows) : rows[i] \in RowRecord
  BY <1>1, ElementOfSeq
<1>3. \A i \in 1 .. Len(rows) :
         [rows[i] EXCEPT !.status = thread.status, !.by = thread.cmd] \in RowRecord
  BY <1>1, <1>2 DEF RowRecord, Ack
<1>4. rows' = [i \in 1 .. Len(rows) |->
                 IF Matches(rows[i], thread)
                 THEN [rows[i] EXCEPT !.status = thread.status, !.by = thread.cmd]
                 ELSE rows[i]]
  BY DEF Update
<1> HIDE DEF RowRecord
<1>5. rows' \in [1 .. Len(rows) -> RowRecord]
  BY <1>2, <1>3, <1>4
<1>6. rows' \in Seq(RowRecord) /\ Len(rows') = Len(rows)
  BY <1>1, <1>5
<1> QED BY <1>1, <1>4, <1>6

LEMMA TypesStep ==
    ASSUME Types, [Next]_vars
    PROVE  Types'
<1> USE LogAssumption
<1>1. ASSUME NEW h \in Hub, NEW ids \in Requests, SendCommand(h, ids) PROVE Types'
  <2>1. /\ cmds' \in Seq(CommandRecord) /\ Len(cmds') <= MaxCmds
        /\ counter' \in 0 .. MaxId /\ given' \in 0 .. MaxCmds /\ given' <= Len(cmds')
    <3>1. Len(cmds') = Len(cmds) + Len(ids) /\ Len(cmds) + Len(ids) <= MaxCmds
      BY <1>1, SendFacts DEF SendCommand
    <3>2. given' \in given .. Len(cmds') /\ given \in Nat
      BY <1>1, SendFacts DEF Types, TypeOK
    <3>3. Len(cmds') \in Nat
      BY <1>1, SendFacts
    <3> QED BY <1>1, <3>1, <3>2, <3>3, SendFacts
  <2>2. waiting' \in {waiting, waiting \cup {Batch(ids)}} /\ sent' \in {sent, sent \cup Elements(Batch(ids))}
    BY <1>1 DEF SendCommand, Handed, Batch
  <2>3. Batch(ids) \in Seq(Id) /\ Batch(ids) # <<>> /\ Elements(Batch(ids)) \subseteq Id
    <3>1. Batch(ids) \in Seq(Id) /\ Batch(ids) # <<>>
      BY <1>1, BatchShape
    <3>2. \A i \in 1 .. Len(Batch(ids)) : Batch(ids)[i] \in Id
      BY <3>1, ElementOfSeq
    <3> QED BY <3>1, <3>2 DEF Elements
  <2>4. UNCHANGED <<saving, thread, sub, pub, rows, acks, life, answered>>
    BY <1>1 DEF SendCommand
  <2>5. TypeOK'
    BY <2>1, <2>2, <2>3, <2>4 DEF Types, TypeOK
  <2>6. Shape'
    BY <2>1, <2>2, <2>3, <2>4 DEF Types, Shape, Idle
  <2> QED BY <2>5, <2>6 DEF Types
<1>2. ASSUME NEW b \in waiting, Published(b) PROVE Types'
  <2>1. b \in Seq(Id) /\ b # <<>>
    BY DEF Types, TypeOK, Shape
  <2>2. saving' = [batch |-> b, done |-> 0] /\ waiting' = waiting \ {b}
        /\ UNCHANGED <<counter, thread, sub, pub, rows, acks, cmds, life, given, sent, answered>>
    BY <1>2 DEF Published
  <2>3. 0 < Len(b)
    BY <2>1, EmptySeq
  <2>4. saving'.done < Len(saving'.batch) /\ saving' \in [batch : Seq(Id), done : Nat]
    BY <2>1, <2>2, <2>3
  <2>5. TypeOK'
    BY <2>2, <2>4 DEF Types, TypeOK
  <2>6. Shape'
    BY <2>2, <2>4 DEF Types, Shape
  <2> QED BY <2>5, <2>6 DEF Types
<1>3. ASSUME NEW b \in waiting, PublishRaises(b) PROVE Types'
  BY <1>3 DEF PublishRaises, Types, TypeOK, Shape, Idle
<1>4. CASE SaveRow
  <2>1. saving' \in [batch : Seq(Id), done : Nat] /\ (saving' # Idle => saving'.done < Len(saving'.batch))
    <3>1. saving \in [batch : Seq(Id), done : Nat]
      BY DEF Types, TypeOK
    <3>2. CASE saving' = Idle
      BY <3>2 DEF Idle
    <3>3. CASE saving.done + 1 # Len(saving.batch)
      <4>1. saving' = [saving EXCEPT !.done = saving.done + 1]
        BY <1>4, <3>3 DEF SaveRow
      <4> QED BY <1>4, <3>1, <3>3, <4>1, SaveFacts
    <3> QED BY <1>4, <3>2, <3>3 DEF SaveRow
  <2>2. answered' \in {answered, answered \cup {saving.batch}}
    BY <1>4 DEF SaveRow
  <2>3. UNCHANGED <<counter, waiting, thread, sub, pub, acks, cmds, life, given, sent>>
    BY <1>4 DEF SaveRow
  <2>4. rows' \in Seq(RowRecord) /\ saving.batch \in Seq(Id)
    BY <1>4, SaveFacts
  <2>5. TypeOK'
    BY <2>1, <2>2, <2>3, <2>4 DEF Types, TypeOK
  <2>6. Shape'
    BY <2>1, <2>3 DEF Types, Shape, Idle
  <2> QED BY <2>5, <2>6 DEF Types
<1>5. CASE SaveFails
  <2>1. saving' = Idle /\ saving' \in [batch : Seq(Id), done : Nat]
    BY <1>5 DEF SaveFails, Idle
  <2> QED BY <1>5, <2>1 DEF SaveFails, Types, TypeOK, Shape, Idle
<1>6. CASE Subscribe \/ SubscriberLost \/ PublisherLost
  BY <1>6 DEF Subscribe, SubscriberLost, PublisherLost, Types, TypeOK, Shape, Idle
<1>7. ASSUME NEW a \in acks, Receive(a) \/ LoseAck(a) PROVE Types'
  BY <1>7 DEF Receive, LoseAck, server, Types, TypeOK, Shape, Idle
<1>8. CASE Update
  <2>1. rows' \in Seq(RowRecord)
    BY <1>8, UpdateFacts
  <2> QED BY <1>8, <2>1 DEF Update, Types, TypeOK, Shape, Idle
<1>9. CASE UpdateFails
  BY <1>9 DEF UpdateFails, Types, TypeOK, Shape, Idle
<1>10. ASSUME NEW c \in sent, NEW v \in Verdict, Execute(c, v) PROVE Types'
  <2>1. acks' \subseteq Ack
    BY <1>10 DEF Execute, Types, TypeOK, Ack
  <2> QED BY <1>10, <2>1 DEF Execute, server, Types, TypeOK, Shape, Idle
<1>11. CASE Restart
  <2>1. saving' = Idle /\ saving' \in [batch : Seq(Id), done : Nat]
    BY <1>11 DEF Restart, Idle
  <2>2. Len(cmds) \in Nat
    BY DEF Types, TypeOK
  <2> QED BY <1>11, <2>1, <2>2 DEF Restart, Types, TypeOK, Shape, Idle
<1>12. CASE UNCHANGED vars
  BY <1>12 DEF vars, Types, TypeOK, Shape, Idle
<1> QED
  BY <1>1, <1>2, <1>3, <1>4, <1>5, <1>6, <1>7, <1>8, <1>9, <1>10, <1>11, <1>12
  DEF Next, EventLoop, Worker

LEMMA TypesAlways == Spec => []Types
<1>1. Types /\ [Next]_vars => Types'
  BY TypesStep
<1> QED BY <1>1, TypesInit, PTL DEF Spec

(* Every identifier the server gives is between 1 and MaxId, through       *)
(* wraps of the counter and restarts (services.py:17-20).                  *)
THEOREM TypeCorrect == Spec => []TypeOK
<1>1. Types => TypeOK
  BY DEF Types
<1> QED BY <1>1, TypesAlways, PTL

(* A row changes only when an acknowledgement settles it, and only once.   *)
LEMMA OnlyPendingChanges ==
    ASSUME Types, [Next]_vars, NEW i \in 1 .. Len(rows), rows'[i] # rows[i]
    PROVE  rows[i].status = "pending" /\ Update
<1>1. CASE Update
  BY <1>1, UpdateFacts DEF Matches
<1>2. CASE SaveRow
  BY <1>2, SaveFacts
<1>3. CASE rows' = rows
  BY <1>3
<1> QED
  BY <1>1, <1>2, <1>3
  DEF Next, SendCommand, EventLoop, Published, PublishRaises, SaveFails, Subscribe, Receive,
      LoseAck, Worker, UpdateFails, SubscriberLost, PublisherLost, Execute, Restart, server, vars

-----------------------------------------------------------------------------
(* Rows and requests.                                                      *)

Unlogged(c) == \A i \in 1 .. Len(rows) : rows[i].cmd # c

(* Everything refers to commands that were handed to the broker.           *)
Known ==
    /\ sent \subseteq 1 .. Len(cmds)
    /\ \A a \in acks : a.cmd \in sent
    /\ thread # None => thread.cmd \in sent
    /\ \A i \in 1 .. Len(rows) : rows[i].cmd \in sent /\ (rows[i].by # None => rows[i].by \in sent)
    /\ \A b \in waiting : \A i \in 1 .. Len(b) : b[i] \in sent
    /\ \A i \in 1 .. Len(saving.batch) : saving.batch[i] \in sent

(* No two requests share a command, and the rows still to be written are   *)
(* not there.                                                              *)
Separate ==
    /\ \A b \in waiting : \A i, j \in 1 .. Len(b) : b[i] = b[j] => i = j
    /\ \A b, d \in waiting : \A i \in 1 .. Len(b) : \A j \in 1 .. Len(d) : b[i] = d[j] => b = d
    /\ \A b \in waiting : \A i \in 1 .. Len(b) : Unlogged(b[i])
    /\ \A b \in waiting : \A i \in 1 .. Len(b) : \A j \in 1 .. Len(saving.batch) :
          b[i] # saving.batch[j]
    /\ \A i, j \in 1 .. Len(saving.batch) : saving.batch[i] = saving.batch[j] => i = j
    /\ \A i \in 1 .. Len(saving.batch) : i > saving.done => Unlogged(saving.batch[i])
    /\ \A i, j \in 1 .. Len(rows) : rows[i].cmd = rows[j].cmd => i = j

(* The rows already written for the request are there.                     *)
Written ==
    /\ \A i \in 1 .. Len(saving.batch) : i <= saving.done => ~Unlogged(saving.batch[i])
    /\ \A b \in answered : \A i \in 1 .. Len(b) : b[i] \in sent /\ ~Unlogged(b[i])

LogInv == Known /\ Separate /\ Written

LEMMA LogSend ==
    ASSUME Types, LogInv, NEW h \in Hub, NEW ids \in Requests, SendCommand(h, ids)
    PROVE  LogInv'
<1> DEFINE b == Batch(ids)
           n == Len(cmds)
<1>0. /\ b \in Seq(Id) /\ Len(b) = Len(ids) /\ Len(ids) \in Nat \ {0} /\ n \in Nat
      /\ \A k \in 1 .. Len(b) : b[k] = n + k
      /\ Len(cmds') = n + Len(ids)
  <2>1. Len(ids) \in Nat \ {0} /\ n \in Nat
    BY RequestShape DEF Types, TypeOK
  <2>2. b \in Seq(Id) /\ Len(b) = Len(ids) /\ \A k \in 1 .. Len(ids) : b[k] = n + k
    BY BatchShape
  <2>3. Len(cmds') = n + Len(ids)
    BY SendFacts
  <2> HIDE DEF b, n
  <2> QED BY <2>1, <2>2, <2>3
<1>1. \/ waiting' = waiting \cup {b} /\ sent' = sent \cup Elements(b)
      \/ waiting' = waiting /\ sent' = sent
  BY DEF SendCommand, Handed, Batch
<1>2. /\ UNCHANGED <<saving, thread, rows, acks, answered>>
      /\ saving = Idle
  BY DEF SendCommand, LoopFree
<1> HIDE DEF b
<1>3. /\ \A k \in 1 .. Len(b) : b[k] \in Elements(b)
      /\ \A c \in Elements(b) : c \in n + 1 .. n + Len(ids)
  BY <1>0 DEF Elements
<1>4. /\ \A k \in 1 .. Len(b) : b[k] \notin 1 .. n
      /\ \A i, j \in 1 .. Len(b) : b[i] = b[j] => i = j
  BY <1>0
<1> HIDE DEF n
<1>5. sent \subseteq 1 .. n /\ sent \subseteq sent'
  BY <1>1 DEF LogInv, Known, n
<1>6. sent' \subseteq 1 .. Len(cmds')
  BY <1>0, <1>1, <1>3, <1>5
<1>7. Known'
  <2>1. \A d \in waiting' : \A i \in 1 .. Len(d) : d[i] \in sent'
    BY <1>1, <1>3, <1>5 DEF LogInv, Known
  <2> QED BY <1>2, <1>5, <1>6, <2>1 DEF LogInv, Known
<1>8. \A i \in 1 .. Len(b) : Unlogged(b[i])
  BY <1>4, <1>5 DEF LogInv, Known, Unlogged
<1>9. \A d \in waiting : \A i \in 1 .. Len(b) : \A j \in 1 .. Len(d) : b[i] # d[j]
  BY <1>4, <1>5 DEF LogInv, Known
<1>10. \A i \in 1 .. Len(b) : \A j \in 1 .. Len(saving.batch) : b[i] # saving.batch[j]
  BY <1>4, <1>5 DEF LogInv, Known
<1>11. \A c : Unlogged(c)' <=> Unlogged(c)
  BY <1>2 DEF Unlogged
<1>12. Separate'
  BY <1>1, <1>2, <1>4, <1>8, <1>9, <1>10, <1>11 DEF LogInv, Separate
<1>13. Written'
  BY <1>2, <1>5, <1>11 DEF LogInv, Written
<1> QED BY <1>7, <1>12, <1>13 DEF LogInv

LEMMA LogPublished ==
    ASSUME Types, LogInv, NEW b \in waiting, Published(b)
    PROVE  LogInv'
<1>1. /\ waiting' = waiting \ {b} /\ saving'.batch = b /\ saving'.done = 0
      /\ UNCHANGED <<thread, rows, acks, cmds, sent, answered>>
  BY DEF Published
<1>2. \A c : Unlogged(c)' <=> Unlogged(c)
  BY <1>1 DEF Unlogged
<1>3. Known'
  BY <1>1 DEF LogInv, Known
<1>4. Separate'
  BY <1>1, <1>2 DEF LogInv, Separate
<1>5. \A i \in 1 .. Len(b) : ~(i <= 0)
  OBVIOUS
<1>6. Written'
  BY <1>1, <1>2, <1>5 DEF LogInv, Written
<1> QED BY <1>3, <1>4, <1>6 DEF LogInv

LEMMA LogSave ==
    ASSUME Types, LogInv, SaveRow
    PROVE  LogInv'
<1> DEFINE k == saving.done + 1
           c == saving.batch[k]
           n == Len(rows)
<1>0. /\ k \in 1 .. Len(saving.batch) /\ saving.done \in Nat /\ n \in Nat
      /\ rows' \in Seq(RowRecord) /\ Len(rows') = n + 1
      /\ rows'[n + 1].cmd = c /\ rows'[n + 1].by = None
      /\ \A i \in 1 .. n : rows'[i] = rows[i]
      /\ saving \in [batch : Seq(Id), done : Nat]
      /\ Len(saving.batch) \in Nat
  BY SaveFacts DEF Types, TypeOK
<1>1. /\ UNCHANGED <<waiting, thread, acks, cmds, sent>>
      /\ \/ saving' = Idle /\ answered' = answered \cup {saving.batch}
            /\ k = Len(saving.batch)
         \/ saving'.batch = saving.batch /\ saving'.done = k /\ answered' = answered
  BY <1>0 DEF SaveRow
<1>2. c \in sent /\ Unlogged(c) /\ k > saving.done
  BY <1>0 DEF LogInv, Known, Separate
<1>3. \A j \in 1 .. Len(saving.batch) : j # k => saving.batch[j] # c
  BY <1>0 DEF LogInv, Separate
<1>4. \A b \in waiting : \A i \in 1 .. Len(b) : b[i] # c
  BY <1>0 DEF LogInv, Separate
<1> HIDE DEF k, c, n
<1>5. \A i \in 1 .. Len(rows') : (i \in 1 .. n /\ rows'[i] = rows[i]) \/ i = n + 1
  BY <1>0
<1>6. \A e : Unlogged(e)' <=> (Unlogged(e) /\ e # c)
  <2> SUFFICES ASSUME NEW e PROVE Unlogged(e)' <=> (Unlogged(e) /\ e # c)
    OBVIOUS
  <2>1. Unlogged(e)' => Unlogged(e) /\ e # c
    BY <1>0, <1>5 DEF Unlogged, n
  <2>2. Unlogged(e) /\ e # c => Unlogged(e)'
    BY <1>0, <1>5 DEF Unlogged, n
  <2> QED BY <2>1, <2>2
<1>7. Known'
  <2>1. \A i \in 1 .. Len(rows') :
           rows'[i].cmd \in sent /\ (rows'[i].by # None => rows'[i].by \in sent)
    BY <1>0, <1>2, <1>5 DEF LogInv, Known, n
  <2>2. \A i \in 1 .. Len(saving'.batch) : saving'.batch[i] \in sent
    BY <1>1 DEF LogInv, Known, Idle
  <2> QED BY <1>1, <2>1, <2>2 DEF LogInv, Known
<1>8. Separate'
  <2>1. \A i, j \in 1 .. Len(rows') : rows'[i].cmd = rows'[j].cmd => i = j
    BY <1>0, <1>2, <1>5 DEF LogInv, Separate, Unlogged, n
  <2>2. \A b \in waiting : \A i \in 1 .. Len(b) : Unlogged(b[i])'
    BY <1>4, <1>6 DEF LogInv, Separate
  <2>3. CASE saving' = Idle
    BY <1>1, <2>1, <2>2, <2>3 DEF LogInv, Separate, Idle
  <2>4. CASE saving'.batch = saving.batch /\ saving'.done = k
    <3>1. \A i \in 1 .. Len(saving.batch) :
             i > k => Unlogged(saving.batch[i]) /\ saving.batch[i] # c
      <4> TAKE i \in 1 .. Len(saving.batch)
      <4>1. i > k => i > saving.done /\ i # k
        BY <1>0 DEF k
      <4> QED BY <1>3, <4>1 DEF LogInv, Separate
    <3> QED BY <1>1, <1>6, <2>1, <2>2, <2>4, <3>1 DEF LogInv, Separate
  <2> QED BY <1>1, <2>3, <2>4
<1>9. \A i \in 1 .. Len(saving.batch) :
         i <= k => ~Unlogged(saving.batch[i]) \/ saving.batch[i] = c
  <2> TAKE i \in 1 .. Len(saving.batch)
  <2>1. i <= k => i <= saving.done \/ i = k
    BY <1>0 DEF k
  <2>2. i = k => saving.batch[i] = c
    BY DEF c
  <2> QED BY <2>1, <2>2 DEF LogInv, Written
<1>10. Written'
  <2>1. \A i \in 1 .. Len(saving'.batch) : i <= saving'.done =>
           ~Unlogged(saving'.batch[i]) \/ saving'.batch[i] = c
    BY <1>1, <1>9 DEF Idle
  <2>2. \A b \in answered' : \A i \in 1 .. Len(b) :
           b[i] \in sent /\ (~Unlogged(b[i]) \/ b[i] = c)
    <3>1. \A b \in answered : \A i \in 1 .. Len(b) : b[i] \in sent /\ ~Unlogged(b[i])
      BY DEF LogInv, Written
    <3>2. ASSUME k = Len(saving.batch), NEW i \in 1 .. Len(saving.batch)
          PROVE  saving.batch[i] \in sent /\ (~Unlogged(saving.batch[i]) \/ saving.batch[i] = c)
      <4>1. i <= k
        BY <1>0, <3>2
      <4> QED BY <1>9, <4>1 DEF LogInv, Known
    <3> QED BY <1>1, <3>1, <3>2
  <2> QED BY <1>1, <1>6, <2>1, <2>2 DEF Written
<1> QED BY <1>7, <1>8, <1>10 DEF LogInv

LEMMA LogUpdate ==
    ASSUME Types, LogInv, Update
    PROVE  LogInv'
<1>0. /\ thread \in Ack /\ thread # None /\ Len(rows') = Len(rows)
      /\ UNCHANGED <<waiting, saving, acks, cmds, sent, answered>> /\ thread' = None
      /\ \A i \in 1 .. Len(rows) : rows[i] \in RowRecord
      /\ \A i \in 1 .. Len(rows) :
            \/ rows'[i] = [rows[i] EXCEPT !.status = thread.status, !.by = thread.cmd]
            \/ rows'[i] = rows[i]
  BY UpdateFacts, ElementOfSeq DEF Update, Types, TypeOK
<1>1. \A i \in 1 .. Len(rows) :
         rows'[i].cmd = rows[i].cmd /\ rows'[i].by \in {rows[i].by, thread.cmd}
  BY <1>0 DEF RowRecord
<1>2. \A c : Unlogged(c)' <=> Unlogged(c)
  BY <1>0, <1>1 DEF Unlogged
<1>3. Known'
  BY <1>0, <1>1 DEF LogInv, Known
<1>4. Separate'
  BY <1>0, <1>1, <1>2 DEF LogInv, Separate
<1>5. Written'
  BY <1>0, <1>2 DEF LogInv, Written
<1> QED BY <1>3, <1>4, <1>5 DEF LogInv

(* Steps that write no row and begin no request.                           *)
LEMMA LogQuiet ==
    ASSUME LogInv, UNCHANGED <<rows, cmds, sent, answered>>,
           waiting' \subseteq waiting, saving' = saving \/ saving' = Idle,
           \A a \in acks' : a.cmd \in sent,
           thread' # None => thread'.cmd \in sent
    PROVE  LogInv'
<1>1. \A c : Unlogged(c)' <=> Unlogged(c)
  BY DEF Unlogged
<1>2. Known'
  BY DEF LogInv, Known, Idle
<1>3. CASE saving' = saving
  BY <1>1, <1>2, <1>3 DEF LogInv, Separate, Written
<1>4. CASE saving' = Idle
  BY <1>1, <1>2, <1>4 DEF LogInv, Separate, Written, Idle
<1> QED BY <1>3, <1>4

LEMMA LogStep ==
    ASSUME Types, LogInv, [Next]_vars
    PROVE  LogInv'
<1>0. /\ \A a \in acks : a.cmd \in sent
      /\ thread # None => thread.cmd \in sent
  BY DEF LogInv, Known
<1>1. CASE \E h \in Hub, ids \in Requests : SendCommand(h, ids)
  BY <1>1, LogSend
<1>2. CASE \E b \in waiting : Published(b)
  BY <1>2, LogPublished
<1>3. CASE SaveRow
  BY <1>3, LogSave
<1>4. CASE Update
  BY <1>4, LogUpdate
<1>5. CASE \/ \E b \in waiting : PublishRaises(b)
           \/ SaveFails \/ Subscribe \/ UpdateFails \/ SubscriberLost \/ PublisherLost \/ Restart
  <2>1. /\ UNCHANGED <<rows, cmds, sent, answered, acks>>
        /\ waiting' \subseteq waiting /\ (saving' = saving \/ saving' = Idle)
        /\ thread' \in {thread, None}
    BY <1>5
    DEF PublishRaises, SaveFails, Subscribe, UpdateFails, SubscriberLost, PublisherLost, Restart
  <2> QED BY <1>0, <2>1, LogQuiet
<1>6. CASE \E a \in acks : Receive(a) \/ LoseAck(a)
  <2>1. /\ UNCHANGED <<rows, cmds, sent, answered, waiting, saving>>
        /\ acks' \subseteq acks
        /\ thread' = thread \/ thread' \in acks
    BY <1>6 DEF Receive, LoseAck, server
  <2> QED BY <1>0, <2>1, LogQuiet
<1>7. CASE \E c \in sent, v \in Verdict : Execute(c, v)
  <2>1. /\ UNCHANGED <<rows, cmds, sent, answered, waiting, saving, thread>>
        /\ \A a \in acks' : a.cmd \in sent
    BY <1>0, <1>7 DEF Execute, server
  <2> QED BY <1>0, <2>1, LogQuiet
<1>8. CASE UNCHANGED vars
  BY <1>0, <1>8, LogQuiet DEF vars
<1> QED
  BY <1>1, <1>2, <1>3, <1>4, <1>5, <1>6, <1>7, <1>8 DEF Next, EventLoop, Worker

LEMMA LogInit == Init => LogInv
  BY DEF Init, LogInv, Known, Separate, Written, Idle, Unlogged

LEMMA LogAlways == Spec => []LogInv
<1>1. Types /\ LogInv /\ [Next]_vars => LogInv'
  BY LogStep
<1> QED BY <1>1, LogInit, TypesAlways, PTL DEF Spec

(* A row stands for a command that was handed to the broker, and no        *)
(* command has two (services.py:25-38, mqtt_publisher.py:28-35).           *)
THEOREM RowsCorrect == Spec => []RowMeansSent
<1>1. LogInv => RowMeansSent
  BY DEF LogInv, Known, Separate, RowMeansSent
<1> QED BY <1>1, LogAlways, PTL

(* A request answered "ok" has been sent and logged as a whole             *)
(* (services.py:25-38, http_routes.py:42-49).                              *)
THEOREM OkCorrect == Spec => []OkMeansLogged
<1>1. LogInv => OkMeansLogged
  BY DEF LogInv, Written, OkMeansLogged, Elements, Unlogged
<1> QED BY <1>1, LogAlways, PTL

-----------------------------------------------------------------------------
(* Which command a verdict belongs to.                                     *)

(* The identifier that goes with the n-th number of a life, n > 0.         *)
IdOf(n) == ((n - 1) % MaxId) + 1

(* Numbers of one life are distinct, and a number determines the           *)
(* identifier; the counter is the identifier of the last number.           *)
Numbering ==
    /\ counter = IF given = 0 THEN 0 ELSE IdOf(given)
    /\ \A c \in 1 .. Len(cmds) :
          /\ cmds[c].life <= life
          /\ cmds[c].life = life => cmds[c].nr <= given
          /\ cmds[c].nr # 0 => cmds[c].id = IdOf(cmds[c].nr)
    /\ \A c, d \in 1 .. Len(cmds) :
          (c # d /\ cmds[c].life = cmds[d].life /\ cmds[c].nr # 0) => cmds[c].nr # cmds[d].nr

(* A verdict carries the hub and the identifier of the row.                *)
Attributed ==
    \A i \in 1 .. Len(rows) : rows[i].status # "pending" =>
        /\ rows[i].by # None
        /\ cmds[rows[i].by].hub = cmds[rows[i].cmd].hub
        /\ cmds[rows[i].by].id = cmds[rows[i].cmd].id

LEMMA CommandFields ==
    ASSUME Types, NEW c \in 1 .. Len(cmds)
    PROVE  /\ cmds[c] \in CommandRecord
           /\ cmds[c].nr \in Nat
           /\ cmds[c].life \in Nat
<1>1. cmds \in Seq(CommandRecord)
  BY DEF Types, TypeOK
<1> HIDE DEF CommandRecord
<1>2. cmds[c] \in CommandRecord
  BY <1>1, ElementOfSeq
<1> QED BY <1>2, LogAssumption DEF CommandRecord

LEMMA NextIdOf ==
    ASSUME Types, Numbering, NEW n \in Nat \ {0}
    PROVE  next_cmd_id(n) = IdOf(given + n)
<1>0. MaxId \in Nat \ {0} /\ given \in Nat
  BY LogAssumption DEF Types, TypeOK
<1>1. next_cmd_id(n) = ((counter + n - 1) % MaxId) + 1
  BY DEF next_cmd_id
<1>2. CASE given = 0
  BY <1>0, <1>1, <1>2 DEF Numbering, IdOf
<1>3. CASE given # 0
  <2>1. given - 1 \in Nat /\ (given - 1) % MaxId \in Nat
    BY <1>0, <1>3, Remainder
  <2>2. counter + n - 1 = ((given - 1) % MaxId) + n
    BY <1>3, <2>1 DEF Numbering, IdOf
  <2>3. (((given - 1) % MaxId) + n) % MaxId = ((given - 1) + n) % MaxId
    BY <1>0, <2>1, RemainderSum
  <2>4. (given - 1) + n = (given + n) - 1
    BY <1>0
  <2>5. (counter + n - 1) % MaxId = ((given + n) - 1) % MaxId
    BY <2>2, <2>3, <2>4
  <2>6. IdOf(given + n) = (((given + n) - 1) % MaxId) + 1
    BY DEF IdOf
  <2> QED BY <1>1, <2>5, <2>6
<1> QED BY <1>2, <1>3

LEMMA NumberingSend ==
    ASSUME Types, Numbering, NEW h \in Hub, NEW ids \in Requests, SendCommand(h, ids)
    PROVE  Numbering'
<1> DEFINE n == Len(cmds)
           m == Len(ids)
           U(k) == Unnumbered(ids, k)
<1>0. /\ m \in Nat \ {0} /\ ids \in [1 .. m -> {0} \cup ClientIds]
      /\ n \in Nat /\ given \in Nat /\ Len(cmds') = n + m
      /\ life \in Nat /\ life' = life
      /\ \A c \in 1 .. n : cmds'[c] = cmds[c]
      /\ given' = given + U(m) /\ counter' = next_cmd_id(U(m))
  <2>1. m \in Nat \ {0} /\ ids \in [1 .. m -> {0} \cup ClientIds]
    BY RequestShape
  <2>2. n \in Nat /\ given \in Nat /\ life \in Nat
    BY LogAssumption DEF Types, TypeOK
  <2>3. Len(cmds') = n + m /\ \A c \in 1 .. n : cmds'[c] = cmds[c]
    BY SendFacts
  <2>4. life' = life /\ given' = given + U(m) /\ counter' = next_cmd_id(U(m))
    BY DEF SendCommand
  <2> QED BY <2>1, <2>2, <2>3, <2>4
<1>1. \A k \in 0 .. m : U(k) \in 0 .. k
  BY <1>0, UnnumberedBound
<1>2. \A k \in 1 .. m : ids[k] = 0 => \A j \in 0 .. k - 1 : U(j) < U(k)
  BY <1>0, UnnumberedGrows
<1>3. \A k \in 1 .. m : ids[k] = 0 => U(k) \in 1 .. k
  <2> TAKE k \in 1 .. m
  <2>1. ids[k] = 0 => U(0) < U(k)
    <3>1. 0 \in 0 .. k - 1
      OBVIOUS
    <3> QED BY <1>2, <3>1
  <2> QED BY <1>0, <1>1, <2>1
<1>4. \A k \in 1 .. m : U(k) <= U(m)
  <2>1. \A k \in 1 .. m : {i \in 1 .. k : ids[i] = 0} \in SUBSET {i \in 1 .. m : ids[i] = 0}
    OBVIOUS
  <2>2. IsFiniteSet({i \in 1 .. m : ids[i] = 0})
    <3>1. m \in Int
      BY <1>0
    <3> HIDE DEF m
    <3>2. IsFiniteSet(1 .. m)
      BY <3>1, FS_Interval
    <3>3. {i \in 1 .. m : ids[i] = 0} \in SUBSET (1 .. m)
      OBVIOUS
    <3> QED BY <3>2, <3>3, FS_Subset
  <2> QED BY <2>1, <2>2, FS_Subset DEF Unnumbered
<1> DEFINE fresh(k) == cmds'[n + k]
<1>5. \A k \in 1 .. m :
         /\ fresh(k).life = life
         /\ ids[k] # 0 => fresh(k).nr = 0
         /\ ids[k] = 0 => fresh(k).nr = given + U(k) /\ fresh(k).id = next_cmd_id(U(k))
  <2>1. \A k \in 1 .. m : fresh(k) = Numbered(h, ids)[k]
    BY SendFacts
  <2> TAKE k \in 1 .. m
  <2>2. CASE ids[k] # 0
    <3>1. fresh(k) = [hub |-> h, id |-> ids[k], life |-> life, nr |-> 0]
      BY <2>1, <2>2 DEF Numbered
    <3> HIDE DEF fresh, U
    <3> QED BY <2>2, <3>1
  <2>3. CASE ids[k] = 0
    <3>1. fresh(k) = [hub |-> h, id |-> next_cmd_id(U(k)), life |-> life, nr |-> given + U(k)]
      BY <2>1, <2>3 DEF Numbered
    <3> HIDE DEF fresh, U
    <3> QED BY <2>3, <3>1
  <2> QED BY <2>2, <2>3
<1> HIDE DEF U, fresh
<1>6. \A k \in 1 .. m : /\ fresh(k).nr \in Nat /\ fresh(k).nr <= given'
                        /\ fresh(k).nr # 0 => fresh(k).nr > given
                        /\ fresh(k).nr # 0 => fresh(k).id = IdOf(fresh(k).nr)
  <2> TAKE k \in 1 .. m
  <2>1. U(m) \in Nat /\ U(k) \in Nat
    BY <1>0, <1>1
  <2>2. CASE ids[k] # 0
    BY <1>0, <1>5, <2>1, <2>2
  <2>3. CASE ids[k] = 0
    <3>1. U(k) \in Nat \ {0} /\ U(k) <= U(m)
      BY <1>0, <1>3, <1>4, <2>3
    <3>2. next_cmd_id(U(k)) = IdOf(given + U(k))
      BY <3>1, NextIdOf
    <3> QED BY <1>0, <1>5, <2>1, <2>3, <3>1, <3>2
  <2> QED BY <2>2, <2>3
<1>7. \A j, k \in 1 .. m : j < k /\ fresh(k).nr # 0 => fresh(j).nr # fresh(k).nr
  <2> TAKE j, k \in 1 .. m
  <2>1. SUFFICES ASSUME j < k, fresh(k).nr # 0, fresh(j).nr = fresh(k).nr PROVE FALSE
    OBVIOUS
  <2>2. ids[k] = 0 /\ ids[j] = 0
    BY <1>5, <2>1
  <2>3. U(j) < U(k)
    BY <1>0, <1>2, <2>1, <2>2
  <2>4. U(j) \in Nat /\ U(k) \in Nat
    BY <1>0, <1>1
  <2> QED BY <1>0, <1>5, <2>1, <2>2, <2>3, <2>4
<1>8. counter' = IF given' = 0 THEN 0 ELSE IdOf(given')
  <2>1. U(m) \in Nat
    BY <1>0, <1>1
  <2>2. CASE U(m) = 0
    BY <1>0, <2>2 DEF Numbering, next_cmd_id
  <2>3. CASE U(m) # 0
    BY <1>0, <2>1, <2>3, NextIdOf
  <2> QED BY <2>2, <2>3
<1>9. \A c \in 1 .. Len(cmds') : (c \in 1 .. n /\ cmds'[c] = cmds[c])
                                 \/ \E k \in 1 .. m : c = n + k /\ cmds'[c] = fresh(k)
  <2> TAKE c \in 1 .. Len(cmds')
  <2>1. CASE c <= n
    BY <1>0, <2>1
  <2>2. CASE c > n
    <3>1. c - n \in 1 .. m /\ c = n + (c - n)
      BY <1>0, <2>2
    <3> QED BY <3>1 DEF fresh
  <2> QED BY <1>0, <2>1, <2>2
<1> HIDE DEF n, m
<1>10. \A c \in 1 .. n : /\ cmds[c].nr \in Nat /\ cmds[c].life \in Nat /\ cmds[c].life <= life
                         /\ cmds[c].life = life => cmds[c].nr <= given
                         /\ cmds[c].nr # 0 => cmds[c].id = IdOf(cmds[c].nr)
  BY CommandFields DEF Numbering, n
<1>11. given' \in Nat /\ given <= given'
  <2>1. U(m) \in Nat
    BY <1>0, <1>1
  <2> QED BY <1>0, <2>1
<1>12. \A c \in 1 .. Len(cmds') :
          /\ cmds'[c].life <= life
          /\ cmds'[c].life = life => cmds'[c].nr <= given'
          /\ cmds'[c].nr # 0 => cmds'[c].id = IdOf(cmds'[c].nr)
  <2> TAKE c \in 1 .. Len(cmds')
  <2>1. CASE c \in 1 .. n /\ cmds'[c] = cmds[c]
    BY <1>0, <1>10, <1>11, <2>1
  <2>2. CASE \E k \in 1 .. m : cmds'[c] = fresh(k)
    BY <1>0, <1>5, <1>6, <2>2
  <2> QED BY <1>9, <2>1, <2>2
<1>13. ASSUME NEW c \in 1 .. Len(cmds'), NEW d \in 1 .. Len(cmds'), c # d,
              cmds'[c].life = cmds'[d].life, cmds'[c].nr # 0
       PROVE  cmds'[c].nr # cmds'[d].nr
  <2>1. CASE c \in 1 .. n /\ cmds'[c] = cmds[c] /\ d \in 1 .. n /\ cmds'[d] = cmds[d]
    BY <1>13, <2>1 DEF Numbering, n
  <2>2. CASE c \in 1 .. n /\ cmds'[c] = cmds[c] /\ \E k \in 1 .. m : cmds'[d] = fresh(k)
    BY <1>0, <1>5, <1>6, <1>10, <1>13, <2>2
  <2>3. CASE d \in 1 .. n /\ cmds'[d] = cmds[d] /\ \E k \in 1 .. m : cmds'[c] = fresh(k)
    BY <1>0, <1>5, <1>6, <1>10, <1>13, <2>3
  <2>4. ASSUME NEW j \in 1 .. m, NEW k \in 1 .. m, c = n + j, cmds'[c] = fresh(j),
               d = n + k, cmds'[d] = fresh(k)
        PROVE  cmds'[c].nr # cmds'[d].nr
    <3>1. j < k \/ k < j
      BY <1>0, <1>13, <2>4
    <3> QED BY <1>7, <1>13, <2>4, <3>1
  <2> QED BY <1>9, <2>1, <2>2, <2>3, <2>4
<1> QED BY <1>0, <1>8, <1>12, <1>13 DEF Numbering, IdOf

LEMMA NumberingStep ==
    ASSUME Types, Numbering, [Next]_vars
    PROVE  Numbering'
<1>1. CASE \E h \in Hub, ids \in Requests : SendCommand(h, ids)
  BY <1>1, NumberingSend
<1>2. CASE Restart
  <2>1. /\ counter' = 0 /\ given' = 0 /\ life' = life + 1 /\ cmds' = cmds /\ life \in Nat
        /\ \A c \in 1 .. Len(cmds) : cmds[c].life \in Nat
    BY <1>2, CommandFields, LogAssumption DEF Restart, Types, TypeOK
  <2> QED BY <2>1 DEF Numbering, IdOf
<1>3. CASE UNCHANGED <<counter, cmds, life, given>>
  BY <1>3 DEF Numbering, IdOf
<1> QED
  BY <1>1, <1>2, <1>3
  DEF Next, EventLoop, Published, PublishRaises, SaveRow, SaveFails, Subscribe, Receive,
      LoseAck, Worker, Update, UpdateFails, SubscriberLost, PublisherLost, Execute, server, vars

LEMMA NumberingAlways == Spec => []Numbering
<1>1. Init => Numbering
  BY DEF Init, Numbering
<1>2. Types /\ Numbering /\ [Next]_vars => Numbering'
  BY NumberingStep
<1> QED BY <1>1, <1>2, TypesAlways, PTL DEF Spec

LEMMA AttributedStep ==
    ASSUME Types, LogInv, Attributed, [Next]_vars
    PROVE  Attributed'
<1>0. \A i \in 1 .. Len(rows) : /\ rows[i] \in RowRecord
                                /\ rows[i].cmd \in 1 .. Len(cmds)
                                /\ rows[i].by # None => rows[i].by \in 1 .. Len(cmds)
  BY ElementOfSeq DEF Types, TypeOK, LogInv, Known
<1>1. ASSUME NEW h \in Hub, NEW ids \in Requests, SendCommand(h, ids) PROVE Attributed'
  <2>1. rows' = rows /\ \A c \in 1 .. Len(cmds) : cmds'[c] = cmds[c]
    BY <1>1, SendFacts DEF SendCommand
  <2> QED BY <1>0, <2>1 DEF Attributed
<1>2. CASE SaveRow
  <2>1. /\ cmds' = cmds /\ Len(rows') = Len(rows) + 1 /\ Len(rows) \in Nat
        /\ rows'[Len(rows) + 1].status = "pending"
        /\ \A i \in 1 .. Len(rows) : rows'[i] = rows[i]
    BY <1>2, SaveFacts DEF SaveRow, Types, TypeOK
  <2>2. \A i \in 1 .. Len(rows') : i \in 1 .. Len(rows) \/ i = Len(rows) + 1
    BY <2>1
  <2> QED BY <2>1, <2>2 DEF Attributed
<1>3. CASE Update
  <2>1. /\ cmds' = cmds /\ thread.cmd \in Id /\ Len(rows') = Len(rows)
    BY <1>3, UpdateFacts DEF Update, Ack
  <2>2. thread.cmd # None
    BY <2>1, LogAssumption DEF Id
  <2>3. ASSUME NEW i \in 1 .. Len(rows), rows'[i].status # "pending"
        PROVE  /\ rows'[i].by # None
               /\ cmds[rows'[i].by].hub = cmds[rows'[i].cmd].hub
               /\ cmds[rows'[i].by].id = cmds[rows'[i].cmd].id
    <3>1. CASE Matches(rows[i], thread)
      <4>1. rows'[i] = [rows[i] EXCEPT !.status = thread.status, !.by = thread.cmd]
        BY <1>3, <3>1, UpdateFacts
      <4>2. rows'[i].by = thread.cmd /\ rows'[i].cmd = rows[i].cmd
        BY <1>0, <4>1 DEF RowRecord
      <4> QED BY <2>2, <3>1, <4>2 DEF Matches
    <3>2. CASE ~Matches(rows[i], thread)
      <4>1. rows'[i] = rows[i]
        BY <1>3, <3>2, UpdateFacts
      <4> QED BY <2>3, <4>1 DEF Attributed
    <3> QED BY <3>1, <3>2
  <2> QED BY <2>1, <2>3 DEF Attributed
<1>4. CASE UNCHANGED <<rows, cmds>>
  BY <1>4 DEF Attributed
<1> QED
  BY <1>1, <1>2, <1>3, <1>4
  DEF Next, EventLoop, Published, PublishRaises, SaveFails, Subscribe, Receive,
      LoseAck, Worker, UpdateFails, SubscriberLost, PublisherLost, Execute, Restart, server, vars

(* With distinct numbers, the same identifier twice in one life means that *)
(* the counter went all the way round in between.                          *)
LEMMA SharedIsConfusable ==
    ASSUME Types, Numbering, NEW c \in 1 .. Len(cmds), NEW d \in 1 .. Len(cmds),
           c # d, cmds[c].id = cmds[d].id
    PROVE  Confusable(c, d)
<1>1. cmds[c].nr \in Nat /\ cmds[d].nr \in Nat /\ MaxId \in Nat \ {0}
  BY CommandFields, LogAssumption
<1>2. SUFFICES ASSUME cmds[c].life = cmds[d].life, cmds[c].nr # 0, cmds[d].nr # 0
               PROVE  cmds[c].nr >= cmds[d].nr + MaxId \/ cmds[d].nr >= cmds[c].nr + MaxId
  BY DEF Confusable
<1>3. IdOf(cmds[c].nr) = IdOf(cmds[d].nr) /\ cmds[c].nr # cmds[d].nr
  BY <1>2 DEF Numbering
<1>4. cmds[c].nr \in Nat \ {0} /\ cmds[d].nr \in Nat \ {0}
  BY <1>1, <1>2
<1> QED BY <1>1, <1>3, <1>4, SameId DEF IdOf

LEMMA GivenByRule ==
    ASSUME Types, LogInv, Numbering, Attributed
    PROVE  VerdictGiven
<1> SUFFICES ASSUME NEW i \in 1 .. Len(rows), rows[i].status # "pending"
             PROVE  /\ cmds[rows[i].by].hub = cmds[rows[i].cmd].hub
                    /\ rows[i].by # rows[i].cmd => Confusable(rows[i].by, rows[i].cmd)
  BY DEF VerdictGiven
<1>1. /\ cmds[rows[i].by].hub = cmds[rows[i].cmd].hub
      /\ cmds[rows[i].by].id = cmds[rows[i].cmd].id
  BY DEF Attributed
<1>2. rows[i].by \in 1 .. Len(cmds) /\ rows[i].cmd \in 1 .. Len(cmds)
  BY DEF Attributed, LogInv, Known
<1> QED BY <1>1, <1>2, SharedIsConfusable

(* The rows that one step settles carry the identifier of its              *)
(* acknowledgement.                                                        *)
LEMMA SettledTogether ==
    ASSUME Types, LogInv, Numbering, [Next]_vars,
           NEW i \in 1 .. Len(rows), NEW j \in 1 .. Len(rows),
           i # j, rows'[i] # rows[i], rows'[j] # rows[j]
    PROVE  Confusable(rows[i].cmd, rows[j].cmd)
<1>1. Update
  BY OnlyPendingChanges
<1>2. Matches(rows[i], thread) /\ Matches(rows[j], thread)
  BY <1>1, UpdateFacts
<1>3. cmds[rows[i].cmd].id = cmds[rows[j].cmd].id
  BY <1>2 DEF Matches
<1>4. rows[i].cmd \in 1 .. Len(cmds) /\ rows[j].cmd \in 1 .. Len(cmds)
  BY DEF LogInv, Known
<1>5. rows[i].cmd # rows[j].cmd
  BY DEF LogInv, Separate
<1> QED BY <1>3, <1>4, <1>5, SharedIsConfusable

(* A row's verdict comes from its own command, or from one of the same hub *)
(* that shares its identifier across a restart, a wrap of the counter, or  *)
(* a client's choice (services.py:17-41, sqlite_repo.py:126-134).          *)
THEOREM GivenCorrect == Spec => []VerdictGiven
<1>1. Init => Attributed
  BY DEF Init, Attributed
<1>2. Types /\ LogInv /\ Attributed /\ [Next]_vars => Attributed'
  BY AttributedStep
<1>3. Types /\ LogInv /\ Numbering /\ Attributed => VerdictGiven
  BY GivenByRule
<1> QED BY <1>1, <1>2, <1>3, TypesAlways, LogAlways, NumberingAlways, PTL DEF Spec

(* No acknowledgement changes a verdict, and one settles two rows only     *)
(* when their commands could share an identifier, for every largest        *)
(* identifier and any number of hubs, requests and restarts                *)
(* (services.py:17-41, sqlite_repo.py:126-134).                            *)
THEOREM SettlesCorrect == Spec => SettlesByRule
<1>1. Types /\ LogInv /\ Numbering /\ [Next]_vars
        => [\A i \in 1 .. Len(rows) : rows'[i] # rows[i] =>
               /\ rows[i].status = "pending"
               /\ \A j \in 1 .. Len(rows) :
                     (i # j /\ rows'[j] # rows[j]) => Confusable(rows[i].cmd, rows[j].cmd)]_vars
  BY OnlyPendingChanges, SettledTogether
<1> QED BY <1>1, TypesAlways, LogAlways, NumberingAlways, PTL DEF Spec, SettlesByRule

=============================================================================
