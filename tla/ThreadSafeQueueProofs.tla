----------------------- MODULE ThreadSafeQueueProofs ------------------------
(***************************************************************************)
(* The ring buffer keeps its cursors and its counter consistent, and       *)
(* implements the bounded first-in first-out queue, for every capacity.    *)
(***************************************************************************)
EXTENDS ThreadSafeQueue, SequenceTheorems, TLAPS

(* The only modular arithmetic of the ring: an index of at most two rounds *)
(* is brought back by at most one subtraction.                             *)
LEMMA OneWrap ==
    ASSUME NEW a \in 0 .. N + N - 1
    PROVE  a % N = IF a < N THEN a ELSE a - N
  BY QueueAssumption, SMT

(* After() is the next cell, around the end of the ring.                   *)
LEMMA AfterCell ==
    ASSUME NEW i \in Cell
    PROVE  /\ After(i) = IF i = N - 1 THEN 0 ELSE i + 1
           /\ After(i) \in Cell
  BY QueueAssumption, OneWrap DEF After, Cell

(* Before() is the previous cell, around the start of the ring.            *)
LEMMA BeforeCell ==
    ASSUME NEW i \in Cell
    PROVE  /\ Before(i) = IF i = 0 THEN N - 1 ELSE i - 1
           /\ Before(i) \in Cell
  BY QueueAssumption, OneWrap DEF Before, Cell

-----------------------------------------------------------------------------
(* Every operation keeps RingInv: after any number of pushes at either end *)
(* and pops, on any capacity, tail is still count cells after head         *)
(* (thread_safe_queue.h:25-127).                                           *)
LEMMA RingStep ==
    ASSUME RingInv, [Next]_vars
    PROVE  RingInv'
<1> USE QueueAssumption
<1>0. /\ N \in Nat \ {0} /\ head \in 0 .. N - 1 /\ count \in 0 .. N
      /\ head + count \in 0 .. N + N - 1
  BY DEF RingInv, Cell
<1>a. (head + count) % N = IF head + count < N THEN head + count ELSE head + count - N
  BY <1>0, OneWrap
<1>1. ASSUME NEW x \in Item, Push(x) PROVE RingInv'
  <2>1. CASE ~IsFull
    <3>1. tail' = After(tail) /\ head' = head /\ count' = count + 1
      BY <1>1, <2>1 DEF Push, IsFull
    <3>2. buf' \in [Cell -> Item]
      BY <1>1, <2>1 DEF Push, IsFull, RingInv
    <3>3. (head + count + 1) % N = After((head + count) % N)
      <4>1. count \in 0 .. N - 1
        BY <1>0, <2>1 DEF IsFull
      <4>2. (head + count + 1) % N
              = IF head + count + 1 < N THEN head + count + 1 ELSE head + count + 1 - N
        <5>1. head + count + 1 \in 0 .. N + N - 1
          BY <1>0, <4>1
        <5> QED BY <1>0, <5>1, OneWrap
      <4>3. After((head + count) % N)
              = IF (head + count) % N = N - 1 THEN 0 ELSE ((head + count) % N) + 1
        <5>1. (head + count) % N \in Cell
          BY <1>0, <1>a DEF Cell
        <5> QED BY <5>1, AfterCell
      <4> QED BY <1>0, <1>a, <4>1, <4>2, <4>3
    <3> QED
      BY <2>1, <3>1, <3>2, <3>3, AfterCell DEF RingInv, Cell, IsFull
  <2>2. CASE IsFull
    BY <1>1, <2>2 DEF Push, RingInv
  <2> QED BY <2>1, <2>2
<1>2. ASSUME NEW x \in Item, PushFront(x) PROVE RingInv'
  <2>1. CASE ~IsFull
    <3>1. head' = Before(head) /\ tail' = tail /\ count' = count + 1
      BY <1>2, <2>1 DEF PushFront, IsFull
    <3>2. buf' \in [Cell -> Item]
      BY <1>2, <2>1, BeforeCell DEF PushFront, IsFull, RingInv
    <3>3. (Before(head) + (count + 1)) % N = (head + count) % N
      <4>1. count \in 0 .. N - 1
        BY <1>0, <2>1 DEF IsFull
      <4>2. CASE head = 0
        <5>1. Before(head) = N - 1
          BY <1>0, <4>2, BeforeCell DEF Cell
        <5>2. N - 1 + (count + 1) \in 0 .. N + N - 1
          BY <1>0, <4>1
        <5>3. (N - 1 + (count + 1)) % N = (N - 1 + (count + 1)) - N
          BY <1>0, <4>1, <5>2, OneWrap
        <5> QED BY <1>0, <1>a, <4>1, <4>2, <5>1, <5>3
      <4>3. CASE head # 0
        <5>1. Before(head) = head - 1
          BY <1>0, <4>3, BeforeCell DEF Cell
        <5>2. Before(head) + (count + 1) = head + count
          BY <1>0, <5>1
        <5> QED BY <5>2
      <4> QED BY <4>2, <4>3
    <3> QED
      BY <2>1, <3>1, <3>2, <3>3, BeforeCell DEF RingInv, Cell, IsFull
  <2>2. CASE IsFull
    BY <1>2, <2>2 DEF PushFront, RingInv
  <2> QED BY <2>1, <2>2
<1>3. CASE Pop
  <2>1. CASE ~IsEmpty
    <3>1. (After(head) + (count - 1)) % N = (head + count) % N
      <4>1. count \in 1 .. N
        BY <1>0, <2>1 DEF IsEmpty
      <4>2. CASE head = N - 1
        <5>1. After(head) = 0
          BY <1>0, <4>2, AfterCell DEF Cell
        <5>2. (0 + (count - 1)) % N = count - 1
          <6>1. 0 + (count - 1) \in 0 .. N + N - 1
            BY <1>0, <4>1
          <6> QED BY <1>0, <4>1, <6>1, OneWrap
        <5> QED BY <1>0, <1>a, <4>1, <4>2, <5>1, <5>2
      <4>3. CASE head # N - 1
        <5>1. After(head) = head + 1
          BY <1>0, <4>3, AfterCell DEF Cell
        <5>2. After(head) + (count - 1) = head + count
          BY <1>0, <4>1, <5>1
        <5> QED BY <5>2
      <4> QED BY <4>2, <4>3
    <3> QED
      <4>1. head' = After(head) /\ count' = count - 1 /\ tail' = tail /\ buf' = buf
        BY <1>3, <2>1 DEF Pop
      <4>2. After(head) \in Cell
        BY AfterCell DEF RingInv
      <4>3. count - 1 \in 0 .. N
        BY <1>0, <2>1 DEF IsEmpty
      <4> QED BY <3>1, <4>1, <4>2, <4>3 DEF RingInv
  <2>2. CASE IsEmpty
    BY <1>3, <2>2 DEF Pop, RingInv
  <2> QED BY <2>1, <2>2
<1>4. ASSUME NEW x \in Item, Contains(x) PROVE RingInv'
  BY <1>4 DEF Contains, RingInv
<1>5. CASE Full
  BY <1>5 DEF Full, RingInv
<1>6. CASE UNCHANGED vars
  BY <1>6 DEF vars, RingInv
<1> QED BY <1>1, <1>2, <1>3, <1>4, <1>5, <1>6 DEF Next

(* The ring's cells, cursors and counter always agree                      *)
(* (thread_safe_queue.h:18-127).                                           *)
THEOREM RingCorrect == Spec => []RingInv
<1>1. Init => RingInv
  BY QueueAssumption, OneWrap DEF Init, RingInv, Cell
<1> QED BY <1>1, RingStep, PTL DEF Spec

-----------------------------------------------------------------------------
(* The c items of ring b that start at cell h. *)
RingSeq(b, h, c) == [i \in 1 .. c |-> b[(h + (i - 1)) % N]]

(* A ring read from its head is a sequence of items.                       *)
LEMMA RingSeqType ==
    ASSUME NEW b \in [Cell -> Item], NEW h \in Cell, NEW c \in 0 .. N
    PROVE  /\ RingSeq(b, h, c) \in Seq(Item)
           /\ Len(RingSeq(b, h, c)) = c
           /\ \A i \in 1 .. c : RingSeq(b, h, c)[i] = b[(h + (i - 1)) % N]
<1>1. \A i \in 1 .. c : b[(h + (i - 1)) % N] \in Item
  <2> TAKE i \in 1 .. c
  <2>1. h + (i - 1) \in 0 .. N + N - 1
    BY QueueAssumption DEF Cell
  <2>2. (h + (i - 1)) % N \in Cell
    BY <2>1, QueueAssumption, OneWrap DEF Cell
  <2> QED BY <2>2
<1>2. c \in Nat
  BY QueueAssumption
<1>3. RingSeq(b, h, c) \in [1 .. c -> Item]
  BY <1>1 DEF RingSeq
<1>4. RingSeq(b, h, c) \in Seq(Item)
  BY <1>2, <1>3
<1> QED BY <1>2, <1>3, <1>4 DEF RingSeq

(* Below the count of a ring with room, a cell is neither the one a push   *)
(* fills nor the one a pushFront fills.                                    *)
LEMMA Apart ==
    ASSUME NEW h \in Cell, NEW c \in 0 .. N - 1, NEW i \in 1 .. c
    PROVE  /\ (h + (i - 1)) % N \in Cell
           /\ (h + (i - 1)) % N # (h + c) % N
           /\ (h + (i - 1)) % N # Before(h)
           /\ (Before(h) + ((i + 1) - 1)) % N = (h + (i - 1)) % N
<1> USE QueueAssumption
<1>1. N \in Nat \ {0} /\ h \in 0 .. N - 1 /\ i \in 1 .. c /\ c \in 0 .. N - 1
  BY DEF Cell
<1>2. h + (i - 1) \in 0 .. N + N - 1 /\ h + c \in 0 .. N + N - 1
  BY <1>1
<1>3. (h + (i - 1)) % N = IF h + (i - 1) < N THEN h + (i - 1) ELSE h + (i - 1) - N
  BY <1>1, <1>2, OneWrap
<1>4. (h + c) % N = IF h + c < N THEN h + c ELSE h + c - N
  BY <1>1, <1>2, OneWrap
<1>5. Before(h) = IF h = 0 THEN N - 1 ELSE h - 1
  BY BeforeCell
<1>6. (h + (i - 1)) % N \in Cell
  BY <1>1, <1>3 DEF Cell
<1>7. (h + (i - 1)) % N # (h + c) % N
  BY <1>1, <1>3, <1>4
<1>8. (h + (i - 1)) % N # Before(h)
  BY <1>1, <1>3, <1>5
<1>9. (Before(h) + ((i + 1) - 1)) % N = (h + (i - 1)) % N
  <2>1. CASE h = 0
    <3>1. Before(h) + ((i + 1) - 1) \in 0 .. N + N - 1
      BY <1>1, <1>5, <2>1
    <3>2. (Before(h) + ((i + 1) - 1)) % N = (N - 1 + i) - N
      BY <1>1, <1>5, <2>1, <3>1, OneWrap
    <3> QED BY <1>1, <1>3, <2>1, <3>2
  <2>2. CASE h # 0
    <3>1. Before(h) + ((i + 1) - 1) = h + (i - 1)
      BY <1>1, <1>5, <2>2
    <3> QED BY <3>1
  <2> QED BY <2>1, <2>2
<1> QED BY <1>6, <1>7, <1>8, <1>9

LEMMA StoredIs ==
    ASSUME RingInv
    PROVE  /\ Stored = RingSeq(buf, head, count)
           /\ Stored \in Seq(Item)
           /\ Len(Stored) = count
           /\ \A i \in 1 .. count : Stored[i] = buf[(head + (i - 1)) % N]
<1>1. Stored = RingSeq(buf, head, count)
  BY DEF Stored, RingSeq, At
<1> QED BY <1>1, RingSeqType DEF RingInv

LEMMA StoredNext ==
    ASSUME RingInv'
    PROVE  /\ Stored' \in Seq(Item)
           /\ Len(Stored') = count'
           /\ \A i \in 1 .. count' : Stored'[i] = buf'[(head' + (i - 1)) % N]
<1>1. Stored' = RingSeq(buf', head', count')
  BY DEF Stored, RingSeq, At
<1> QED BY <1>1, RingSeqType DEF RingInv

-----------------------------------------------------------------------------
(* One lemma per operation: the ring operation is the queue operation.     *)

LEMMA PushRefines ==
    ASSUME RingInv, NEW x \in Item, Push(x)
    PROVE  Fifo!Push(x)
<1>1. RingInv'
  BY RingStep DEF Next
<1>2. CASE ~IsFull
  <2>1. /\ buf' = [buf EXCEPT ![(head + count) % N] = x]
        /\ head' = head
        /\ count' = count + 1
        /\ count \in 0 .. N - 1
        /\ (head + count) % N \in Cell
    <3>1. count \in 0 .. N - 1
      BY <1>2, QueueAssumption DEF IsFull, RingInv
    <3> QED BY <1>2, <3>1 DEF Push, IsFull, RingInv
  <2>2. \A i \in 1 .. count : Stored'[i] = Stored[i]
    BY <2>1, <1>1, StoredIs, StoredNext, Apart DEF RingInv
  <2>3. Stored'[count + 1] = x
    <3>1. Stored'[count + 1] = buf'[(head + ((count + 1) - 1)) % N]
      BY <1>1, <2>1, StoredNext
    <3>2. (count + 1) - 1 = count
      BY <2>1, QueueAssumption
    <3> QED BY <2>1, <3>1, <3>2 DEF RingInv
  <2>4. Append(Stored, x) \in Seq(Item) /\ Len(Append(Stored, x)) = count + 1
    BY StoredIs, AppendProperties
  <2>5. \A i \in 1 .. count + 1 : Stored'[i] = Append(Stored, x)[i]
    BY <2>1, <2>2, <2>3, StoredIs, AppendProperties, QueueAssumption
  <2>6. Stored' = Append(Stored, x)
    BY <1>1, <2>1, <2>4, <2>5, StoredNext, SeqEqual
  <2>7. Len(Stored) < N
    BY <2>1, StoredIs, QueueAssumption
  <2>8. result' = Result("push", TRUE, None)
    BY <1>2 DEF Push
  <2> QED BY <2>6, <2>7, <2>8 DEF Fifo!Push, Fifo!Result, Result
<1>3. CASE IsFull
  <2>1. Stored' = Stored
    BY <1>3 DEF Push, Stored, At
  <2> QED BY <1>3, <2>1, StoredIs, QueueAssumption
          DEF Push, Fifo!Push, Fifo!Result, Result, IsFull, RingInv
<1> QED BY <1>2, <1>3

LEMMA PushFrontRefines ==
    ASSUME RingInv, NEW x \in Item, PushFront(x)
    PROVE  Fifo!PushFront(x)
<1>1. RingInv'
  BY RingStep DEF Next
<1>2. CASE ~IsFull
  <2>1. /\ buf' = [buf EXCEPT ![Before(head)] = x]
        /\ head' = Before(head)
        /\ count' = count + 1
        /\ count \in 0 .. N - 1
        /\ Before(head) \in Cell
    <3>1. count \in 0 .. N - 1
      BY <1>2, QueueAssumption DEF IsFull, RingInv
    <3> QED BY <1>2, <3>1, BeforeCell DEF PushFront, IsFull, RingInv
  <2>2. \A i \in 1 .. count : Stored'[i + 1] = Stored[i]
    <3> TAKE i \in 1 .. count
    <3>1. i + 1 \in 1 .. count + 1
      BY <2>1, QueueAssumption
    <3>2. Stored'[i + 1] = buf'[(Before(head) + ((i + 1) - 1)) % N]
      BY <1>1, <2>1, <3>1, StoredNext
    <3>3. /\ (head + (i - 1)) % N \in Cell
          /\ (head + (i - 1)) % N # Before(head)
          /\ (Before(head) + ((i + 1) - 1)) % N = (head + (i - 1)) % N
      BY <2>1, Apart DEF RingInv
    <3>4. Stored'[i + 1] = buf[(head + (i - 1)) % N]
      BY <2>1, <3>2, <3>3 DEF RingInv
    <3> QED BY <3>4, StoredIs
  <2>3. Stored'[1] = x
    <3>1. Stored'[1] = buf'[(Before(head) + (1 - 1)) % N]
      BY <1>1, <2>1, StoredNext, QueueAssumption
    <3>2. Before(head) + (1 - 1) = Before(head) /\ Before(head) \in 0 .. N - 1
      BY <2>1, QueueAssumption DEF Cell
    <3>3. Before(head) % N = Before(head)
      BY <3>2, OneWrap, QueueAssumption
    <3> QED BY <2>1, <3>1, <3>2, <3>3 DEF RingInv
  <2>4. /\ <<x>> \o Stored \in Seq(Item)
        /\ Len(<<x>> \o Stored) = count + 1
        /\ \A i \in 1 .. count + 1 :
             (<<x>> \o Stored)[i] = IF i <= 1 THEN x ELSE Stored[i - 1]
    <3>1. <<x>> \in Seq(Item) /\ Len(<<x>>) = 1 /\ <<x>>[1] = x
      OBVIOUS
    <3>2. count \in Nat /\ Len(Stored) = count /\ Stored \in Seq(Item)
      BY StoredIs, QueueAssumption DEF RingInv
    <3>3. /\ <<x>> \o Stored \in Seq(Item)
          /\ Len(<<x>> \o Stored) = 1 + count
          /\ \A i \in 1 .. 1 + count :
               (<<x>> \o Stored)[i] = IF i <= 1 THEN <<x>>[i] ELSE Stored[i - 1]
      BY <3>1, <3>2, ConcatProperties
    <3> QED BY <3>1, <3>2, <3>3
  <2>5. \A i \in 1 .. count + 1 : Stored'[i] = (<<x>> \o Stored)[i]
    <3> TAKE i \in 1 .. count + 1
    <3>1. CASE i = 1
      BY <2>3, <2>4, <3>1
    <3>2. CASE i # 1
      <4>1. i - 1 \in 1 .. count /\ (i - 1) + 1 = i /\ ~(i <= 1)
        BY <2>1, <3>2, QueueAssumption
      <4>2. Stored'[(i - 1) + 1] = Stored[i - 1]
        BY <2>2, <4>1
      <4> QED BY <2>4, <4>1, <4>2
    <3> QED BY <3>1, <3>2
  <2>6. Stored' = <<x>> \o Stored
    BY <1>1, <2>1, <2>4, <2>5, StoredNext, SeqEqual
  <2>7. Len(Stored) < N
    BY <2>1, StoredIs, QueueAssumption
  <2>8. result' = Result("pushFront", TRUE, None)
    BY <1>2 DEF PushFront
  <2> QED BY <2>6, <2>7, <2>8 DEF Fifo!PushFront, Fifo!Result, Result
<1>3. CASE IsFull
  <2>1. Stored' = Stored
    BY <1>3 DEF PushFront, Stored, At
  <2>2. Len(Stored) = N
    BY <1>3, StoredIs, QueueAssumption DEF IsFull, RingInv
  <2>3. result' = Result("pushFront", FALSE, None)
    BY <1>3 DEF PushFront
  <2> QED BY <2>1, <2>2, <2>3 DEF Fifo!PushFront, Fifo!Result, Result
<1> QED BY <1>2, <1>3

LEMMA PopRefines ==
    ASSUME RingInv, Pop
    PROVE  Fifo!Pop
<1>1. RingInv'
  BY RingStep DEF Next
<1>2. CASE ~IsEmpty
  <2>1. /\ count \in 1 .. N
        /\ head \in 0 .. N - 1
        /\ count' = count - 1
        /\ head' = After(head)
        /\ buf' = buf
        /\ result' = Result("pop", TRUE, buf[head])
    <3>1. count \in 1 .. N
      BY <1>2, QueueAssumption DEF IsEmpty, RingInv
    <3> QED BY <1>2, <3>1 DEF Pop, RingInv, Cell
  <2>2. Stored \in Seq(Item) /\ Len(Stored) = count /\ Stored # <<>>
    BY <2>1, StoredIs, QueueAssumption
  <2>3. Stored[1] = buf[head]
    <3>1. Stored[1] = buf[(head + (1 - 1)) % N]
      BY <2>1, StoredIs, QueueAssumption
    <3>2. head + (1 - 1) = head /\ head % N = head
      BY <2>1, OneWrap, QueueAssumption
    <3> QED BY <3>1, <3>2
  <2>4. \A i \in 1 .. count - 1 : Stored'[i] = Stored[i + 1]
    <3> TAKE i \in 1 .. count - 1
    <3>1. Stored'[i] = buf[(After(head) + (i - 1)) % N]
      BY <1>1, <2>1, StoredNext
    <3>2. Stored[i + 1] = buf[(head + i) % N]
      <4>1. i + 1 \in 1 .. count /\ (i + 1) - 1 = i
        BY <2>1, QueueAssumption
      <4> QED BY <4>1, StoredIs
    <3>3. (After(head) + (i - 1)) % N = (head + i) % N
      <4>1. CASE head = N - 1
        <5>1. After(head) = 0
          BY <2>1, <4>1, AfterCell DEF Cell
        <5>2. (0 + (i - 1)) % N = i - 1
          BY <2>1, OneWrap, QueueAssumption
        <5>3. (head + i) % N = (N - 1 + i) - N
          BY <2>1, <4>1, OneWrap, QueueAssumption
        <5> QED BY <2>1, <5>1, <5>2, <5>3, QueueAssumption
      <4>2. CASE head # N - 1
        <5>1. After(head) = head + 1
          BY <2>1, <4>2, AfterCell DEF Cell
        <5>2. After(head) + (i - 1) = head + i
          BY <2>1, <5>1, QueueAssumption
        <5> QED BY <5>2
      <4> QED BY <4>1, <4>2
    <3> QED BY <3>1, <3>2, <3>3
  <2>5. /\ Tail(Stored) \in Seq(Item)
        /\ Len(Tail(Stored)) = count - 1
        /\ \A i \in 1 .. count - 1 : Tail(Stored)[i] = Stored[i + 1]
    BY <2>2, HeadTailProperties
  <2>6. Stored' = Tail(Stored)
    BY <1>1, <2>1, <2>4, <2>5, StoredNext, SeqEqual
  <2>7. Head(Stored) = buf[head]
    BY <2>2, <2>3
  <2> QED BY <2>1, <2>2, <2>6, <2>7 DEF Fifo!Pop, Fifo!Result, Result
<1>3. CASE IsEmpty
  <2>1. Stored' = Stored
    BY <1>3 DEF Pop, Stored, At
  <2>2. Stored = <<>>
    <3>1. Len(Stored) = 0 /\ Stored \in Seq(Item)
      BY <1>3, StoredIs, QueueAssumption DEF IsEmpty, RingInv
    <3> QED BY <3>1, EmptySeq
  <2>3. result' = Result("pop", FALSE, None)
    BY <1>3 DEF Pop
  <2> QED BY <2>1, <2>2, <2>3 DEF Fifo!Pop, Fifo!Result, Result
<1> QED BY <1>2, <1>3

LEMMA ContainsRefines ==
    ASSUME RingInv, NEW x \in Item, Contains(x)
    PROVE  Fifo!Contains(x)
<1>1. Stored' = Stored
  BY DEF Contains, Stored, At
<1>2. (\E i \in 0 .. count - 1 : At(i) = x) <=> (\E i \in 1 .. Len(Stored) : Stored[i] = x)
  <2>1. count \in Nat /\ Len(Stored) = count
    BY StoredIs, QueueAssumption DEF RingInv
  <2>2. \A i \in 1 .. count : Stored[i] = At(i - 1)
    BY StoredIs DEF At
  <2>3. ASSUME NEW i \in 0 .. count - 1, At(i) = x
        PROVE  \E j \in 1 .. Len(Stored) : Stored[j] = x
    <3>1. i + 1 \in 1 .. count /\ (i + 1) - 1 = i
      BY <2>1
    <3>2. Stored[i + 1] = x
      BY <2>2, <2>3, <3>1
    <3> QED BY <2>1, <3>1, <3>2
  <2>4. ASSUME NEW i \in 1 .. Len(Stored), Stored[i] = x
        PROVE  \E j \in 0 .. count - 1 : At(j) = x
    <3>1. i - 1 \in 0 .. count - 1
      BY <2>1
    <3>2. At(i - 1) = x
      BY <2>1, <2>2, <2>4
    <3> QED BY <3>1, <3>2
  <2> QED BY <2>3, <2>4
<1>3. result' = Result("contains", \E i \in 0 .. count - 1 : At(i) = x, None)
  BY DEF Contains
<1>4. (\E i \in 0 .. count - 1 : At(i) = x) = (\E i \in 1 .. Len(Stored) : Stored[i] = x)
  BY <1>2
<1> QED BY <1>1, <1>3, <1>4, Zenon DEF Fifo!Contains, Fifo!Result, Result

LEMMA FullRefines ==
    ASSUME RingInv, Full
    PROVE  Fifo!Full
<1>1. Stored' = Stored
  BY DEF Full, Stored, At
<1>2. (count >= N) = (Len(Stored) = N)
  BY StoredIs, QueueAssumption DEF RingInv
<1>3. result' = Result("full", count >= N, None)
  BY DEF Full, IsFull
<1> QED BY <1>1, <1>2, <1>3, Zenon DEF Fifo!Full, Fifo!Result, Result

(* The ring buffer implements the bounded queue: every operation returns   *)
(* what the queue of items would return, for every capacity and every item *)
(* type (thread_safe_queue.h:18-127).                                      *)
THEOREM RingImplementsFifo == Spec => ImplementsFifo
<1>1. Init => Fifo!Init
  <2> SUFFICES ASSUME Init PROVE Fifo!Init
    OBVIOUS
  <2>1. Stored = <<>>
    BY DEF Init, Stored
  <2> QED BY <2>1 DEF Init, Fifo!Init, Fifo!Result, Result
<1>2. RingInv /\ [Next]_vars => [Fifo!Next]_(Fifo!vars)
  <2> SUFFICES ASSUME RingInv, [Next]_vars PROVE [Fifo!Next]_(Fifo!vars)
    OBVIOUS
  <2>1. ASSUME NEW x \in Item, Push(x) PROVE Fifo!Next
    BY <2>1, PushRefines DEF Fifo!Next
  <2>2. ASSUME NEW x \in Item, PushFront(x) PROVE Fifo!Next
    BY <2>2, PushFrontRefines DEF Fifo!Next
  <2>3. ASSUME NEW x \in Item, Contains(x) PROVE Fifo!Next
    BY <2>3, ContainsRefines DEF Fifo!Next
  <2>4. CASE Pop
    BY <2>4, PopRefines DEF Fifo!Next
  <2>5. CASE Full
    BY <2>5, FullRefines DEF Fifo!Next
  <2>6. CASE UNCHANGED vars
    BY <2>6 DEF vars, Fifo!vars, Stored, At
  <2> QED BY <2>1, <2>2, <2>3, <2>4, <2>5, <2>6 DEF Next
<1> QED BY <1>1, <1>2, RingCorrect, PTL DEF Spec, ImplementsFifo, Fifo!Spec

=============================================================================
