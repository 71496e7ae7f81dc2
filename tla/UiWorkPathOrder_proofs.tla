----------------------- MODULE UiWorkPathOrder_proofs -----------------------
(***************************************************************************)
(* The pool, the work queue and the message queue of UiWorkPath are one    *)
(* bounded queue (FifoRefined), and the readings in it are in the order of *)
(* their timestamps (TimestampsOrdered): for every size of the two buffers *)
(* and every set of requests.                                              *)
(*                                                                         *)
(* PathInv says who owns an item, and so that a reading is not changed     *)
(* while it is on its way.  Two things are added here.  The message queue  *)
(* never holds more than it has room for (QueueBounded): that is what      *)
(* makes the dropped reading the one behind TEMP_MSG_QUEUE_SIZE others.    *)
(* And the items of the pool bound the readings in the work queue, which   *)
(* is the pigeonhole principle for an item that is free (RoomInPool).      *)
(***************************************************************************)
EXTENDS UiWorkPath_proofs, FiniteSetTheorems, SequenceTheorems

-----------------------------------------------------------------------------
(* Facts about sequences.                                                  *)

LEMMA HeadTailOfConcat ==
    ASSUME NEW S, NEW a \in Seq(S), NEW b \in Seq(S), a # <<>>
    PROVE  /\ a \o b # <<>>
           /\ Head(a \o b) = Head(a)
           /\ Tail(a \o b) = Tail(a) \o b
  OBVIOUS

LEMMA AppendToConcat ==
    ASSUME NEW S, NEW a \in Seq(S), NEW b \in Seq(S), NEW d \in S
    PROVE  a \o Append(b, d) = Append(a \o b, d)
  OBVIOUS

LEMMA LengthOfConcat ==
    ASSUME NEW S, NEW a \in Seq(S), NEW b \in Seq(S), NEW c \in Seq(S)
    PROVE  Len((a \o b) \o c) = Len(a) + Len(b) + Len(c)
  OBVIOUS

\* A sequence is its first element followed by the rest.
LEMMA FirstAndRest ==
    ASSUME NEW S, NEW s \in Seq(S), NEW t \in Seq(S), NEW h \in S,
           Len(s) > 0, Len(t) = Len(s) - 1, s[1] = h,
           \A k \in 1..Len(t) : t[k] = s[k + 1]
    PROVE  s = <<h>> \o t
<1>1. <<h>> \in Seq(S) /\ Len(<<h>>) = 1 /\ <<h>>[1] = h
  OBVIOUS
<1>2. /\ <<h>> \o t \in Seq(S) /\ Len(<<h>> \o t) = Len(s)
      /\ \A i \in 1..Len(s) : (<<h>> \o t)[i] = IF i <= 1 THEN <<h>>[i] ELSE t[i - 1]
  BY <1>1, ConcatProperties
<1>3. \A i \in 1..Len(s) : (<<h>> \o t)[i] = s[i]
  BY <1>1, <1>2
<1> QED BY <1>2, <1>3, SeqEqual

\* Taking an element out of the middle leaves what is before and behind it.
LEMMA RemoveMiddle ==
    ASSUME NEW S, NEW a \in Seq(S), NEW d \in S, NEW b \in Seq(S)
    PROVE  Fifo!RemoveAt((a \o <<d>>) \o b, Len(a) + 1) = a \o b
<1> DEFINE s == (a \o <<d>>) \o b
           n == Len(a)
<1>1. /\ s \in Seq(S) /\ Len(s) = n + 1 + Len(b) /\ n \in Nat /\ Len(b) \in Nat
      /\ \A i \in 1..n : s[i] = a[i]
      /\ \A i \in 1..Len(b) : s[n + 1 + i] = b[i]
  OBVIOUS
<1>2. Fifo!RemoveAt(s, n + 1) = SubSeq(s, 1, n) \o SubSeq(s, n + 2, Len(s))
  <2>1. (n + 1) - 1 = n /\ (n + 1) + 1 = n + 2
    BY <1>1
  <2> QED BY <2>1 DEF Fifo!RemoveAt
<1> HIDE DEF s
<1>3. SubSeq(s, 1, n) = a
  BY <1>1
<1> HIDE DEF n
<1>4. SubSeq(s, n + 2, Len(s)) = b
  <2> DEFINE c == SubSeq(s, n + 2, Len(s))
  <2>1. \A i \in (n + 2)..Len(s) : s[i] \in S
    BY <1>1, ElementOfSeq
  <2>2. n + 2 \in Int /\ Len(s) \in Int
    BY <1>1
  <2>3. /\ c \in Seq(S)
        /\ Len(c) = IF n + 2 <= Len(s) THEN Len(s) - (n + 2) + 1 ELSE 0
        /\ \A i \in 1..(Len(s) - (n + 2) + 1) : c[i] = s[(n + 2) + i - 1]
    BY <2>1, <2>2, SubSeqProperties
  <2>4. Len(c) = Len(b)
    BY <1>1, <2>3
  <2>5. \A i \in 1..Len(b) : c[i] = b[i]
    <3> SUFFICES ASSUME NEW i \in 1..Len(b) PROVE c[i] = b[i]
      OBVIOUS
    <3>1. i \in 1..(Len(s) - (n + 2) + 1) /\ (n + 2) + i - 1 = n + 1 + i
      BY <1>1
    <3>2. c[i] = s[n + 1 + i]
      BY <2>3, <3>1
    <3> QED BY <1>1, <3>2
  <2> HIDE DEF c
  <2> QED BY <2>3, <2>4, <2>5, SeqEqual DEF c
<1> QED BY <1>2, <1>3, <1>4 DEF s, n

-----------------------------------------------------------------------------
(* The readings on their way.                                              *)

\* The message queue never holds more than TEMP_MSG_QUEUE_SIZE messages.
QueueBounded == Len(msgq) <= TEMP_MSG_QUEUE_SIZE

Called  == IF wqPc = "call" THEN <<data[wqItem]>> ELSE <<>>
Waiting == [k \in 1..Len(pending) |-> data[pending[k]]]

\* Whatever is on its way was written.
WellWritten ==
    /\ msgq \in Seq(Msgs) /\ Called \in Seq(Msgs) /\ Waiting \in Seq(Msgs)
    /\ Len(Waiting) = Len(pending)
    /\ \A k \in 1..Len(pending) : Waiting[k] = data[pending[k]]
    /\ InFlight = (msgq \o Called) \o Waiting
    /\ InFlight \in Seq(Msgs)

LEMMA InFlightType == PathInv => WellWritten
<1> SUFFICES ASSUME PathInv PROVE WellWritten
  OBVIOUS
<1>1. msgq \in Seq(Msgs) /\ pending \in Seq(Items) /\ Len(pending) \in Nat
  BY DEF PathInv, TypeOK
<1>2. Called \in Seq(Msgs)
  <2>1. CASE wqPc = "call"
    <3>1. wqItem \in Items /\ "running" \in flags[wqItem]
      BY <2>1 DEF PathInv, TypeOK, PoolConsistent
    <3>2. data[wqItem] \in Msgs
      BY <3>1 DEF PathInv, WrittenBeforeRead, IsBusy
    <3> QED BY <2>1, <3>2 DEF Called
  <2> QED BY <2>1 DEF Called
<1>3. \A k \in 1..Len(pending) : data[pending[k]] \in Msgs
  <2> SUFFICES ASSUME NEW k \in 1..Len(pending) PROVE data[pending[k]] \in Msgs
    OBVIOUS
  <2>1. pending[k] \in Items /\ "queued" \in flags[pending[k]]
    BY <1>1 DEF PathInv, PoolConsistent
  <2> QED BY <2>1 DEF PathInv, WrittenBeforeRead, IsBusy
<1>4. /\ Waiting \in Seq(Msgs) /\ Len(Waiting) = Len(pending)
      /\ \A k \in 1..Len(pending) : Waiting[k] = data[pending[k]]
  BY <1>1, <1>3 DEF Waiting
<1>5. InFlight = (msgq \o Called) \o Waiting
  BY DEF InFlight, Called, Waiting
<1> QED BY <1>1, <1>2, <1>4, <1>5 DEF WellWritten

LEMMA InFlightTypeNext == PathInv' => WellWritten'
  BY InFlightType, PTL

\* An item that is free is missing in the work queue, and so is the one being
\* handled: the two leave no room for UI_WORK_POOL_SIZE waiting ones.
LEMMA RoomInPool ==
    ASSUME PathInv, coapPc = "queue"
    PROVE  Len(Called) + Len(pending) < UI_WORK_POOL_SIZE
<1> DEFINE n == Len(Called) + Len(pending)
           free == Items \ {slot}
           f == [k \in 1..n |-> IF k <= Len(pending) THEN pending[k] ELSE wqItem]
<1>1. /\ pending \in Seq(Items) /\ Len(pending) \in Nat /\ slot \in Items
      /\ flags[slot] = {} /\ UI_WORK_POOL_SIZE \in Nat \ {0}
  BY PathAssumption DEF PathInv, TypeOK, WriterOwnsItem, IsBusy
<1>2. /\ wqPc = "call" => Len(Called) = 1
      /\ wqPc # "call" => Len(Called) = 0
  BY DEF Called
<1>3. n \in Nat
  BY <1>1, <1>2
<1>4. \A k \in 1..Len(pending) : pending[k] \in free
  BY <1>1 DEF PathInv, PoolConsistent
<1>5. wqPc = "call" =>
        /\ wqItem \in free
        /\ \A k \in 1..Len(pending) : pending[k] # wqItem
  <2> SUFFICES ASSUME wqPc = "call"
               PROVE  /\ wqItem \in free
                      /\ \A k \in 1..Len(pending) : pending[k] # wqItem
    OBVIOUS
  <2>1. wqItem \in Items
    BY DEF PathInv, TypeOK, PoolConsistent
  <2>2. flags[wqItem] \subseteq {"queued", "running"} /\ "running" \in flags[wqItem]
    BY <2>1 DEF PathInv, TypeOK, PoolConsistent
  <2>3. "queued" \notin flags[wqItem]
    BY <2>1, <2>2 DEF PathInv, PoolConsistent
  <2> QED BY <1>1, <2>1, <2>2, <2>3 DEF PathInv, PoolConsistent
<1>6. f \in [1..n -> free]
  BY <1>1, <1>2, <1>4, <1>5
<1>7. ASSUME NEW j \in 1..n, NEW k \in 1..n, f[j] = f[k] PROVE j = k
  <2>1. CASE j <= Len(pending) /\ k <= Len(pending)
    BY <1>1, <1>7, <2>1 DEF PathInv, PoolConsistent
  <2>2. CASE j > Len(pending) /\ k > Len(pending)
    <3>1. Len(Called) = 0 \/ Len(Called) = 1
      BY <1>2
    <3>2. n <= Len(pending) + 1
      BY <1>1, <3>1
    <3> QED BY <1>1, <1>3, <2>2, <3>2
  <2>3. CASE (j <= Len(pending)) # (k <= Len(pending))
    BY <1>1, <1>2, <1>5, <1>7, <2>3
  <2> QED BY <1>1, <2>1, <2>2, <2>3
<1>8. IsFiniteSet(Items) /\ Cardinality(Items) = UI_WORK_POOL_SIZE
  BY <1>1, FS_Interval DEF Items
<1>9. IsFiniteSet(free) /\ Cardinality(free) = UI_WORK_POOL_SIZE - 1
  BY <1>1, <1>8, FS_RemoveElement
<1>10. IsFiniteSet(1..n) /\ Cardinality(1..n) = n
  BY <1>3, FS_Interval
<1> HIDE DEF n, f, free
<1>11. ~ (Cardinality(free) < Cardinality(1..n))
  <2> SUFFICES ASSUME Cardinality(free) < Cardinality(1..n) PROVE FALSE
    OBVIOUS
  <2>1. \E j, k \in 1..n : j # k /\ f[j] = f[k]
    BY <1>6, <1>9, <1>10, FS_PigeonHole
  <2> QED BY <1>7, <2>1
<1>12. n < UI_WORK_POOL_SIZE
  BY <1>1, <1>3, <1>9, <1>10, <1>11
<1> QED BY <1>12 DEF n

-----------------------------------------------------------------------------
(* What each step does to the readings on their way.                       *)

\* The submission puts the stamped reading at the end.
LEMMA SubmitAppends ==
    ASSUME PathInv, SubmitToQueue
    PROVE  /\ InFlight' = Append(InFlight, msg)
           /\ msg \in Msgs /\ UNCHANGED <<got, msgq, now>>
           /\ coapPc = "queue" /\ coapPc' = "respond"
<1>1. /\ slot \in Items /\ flags[slot] = {} /\ pending \in Seq(Items)
      /\ msg \in Msgs /\ data[slot] = msg /\ coapPc = "queue" /\ coapPc' = "respond"
  BY DEF PathInv, TypeOK, WriterOwnsItem, WrittenBeforeRead, SubmitToQueue, IsBusy
<1>2. pending' = Append(pending, slot) /\ UNCHANGED <<data, wqVars, outVars, now>>
  BY <1>1 DEF SubmitToQueue
<1>3. UNCHANGED <<msgq, got, wqPc, wqItem, now, Called>>
  BY <1>2 DEF wqVars, outVars, Called
<1>4. Waiting' = Append(Waiting, msg)
  <2>1. /\ PathInv' /\ Len(pending') = Len(pending) + 1 /\ Len(pending) \in Nat
        /\ pending'[Len(pending) + 1] = slot
        /\ \A k \in 1..Len(pending) : pending'[k] = pending[k]
    BY <1>1, <1>2, SubmitToQueueInv
  <2>2. /\ Waiting \in Seq(Msgs) /\ Len(Waiting) = Len(pending)
        /\ \A k \in 1..Len(pending) : Waiting[k] = data[pending[k]]
    BY InFlightType DEF WellWritten
  <2>3. /\ Waiting' \in Seq(Msgs) /\ Len(Waiting') = Len(pending')
        /\ \A k \in 1..Len(pending') : Waiting'[k] = data'[pending'[k]]
    BY <2>1, InFlightTypeNext DEF WellWritten
  <2>4. /\ Append(Waiting, msg) \in Seq(Msgs)
        /\ Len(Append(Waiting, msg)) = Len(Waiting) + 1
        /\ \A k \in 1..Len(Waiting) : Append(Waiting, msg)[k] = Waiting[k]
        /\ Append(Waiting, msg)[Len(Waiting) + 1] = msg
    BY <1>1, <2>2, AppendProperties
  <2>5. \A k \in 1..Len(Waiting') : Waiting'[k] = Append(Waiting, msg)[k]
    <3> SUFFICES ASSUME NEW k \in 1..Len(Waiting')
                 PROVE  Waiting'[k] = Append(Waiting, msg)[k]
      OBVIOUS
    <3>1. Waiting'[k] = data[pending'[k]]
      BY <1>2, <2>3
    <3>2. CASE k \in 1..Len(pending)
      BY <2>1, <2>2, <2>4, <3>1, <3>2
    <3>3. CASE k = Len(pending) + 1
      BY <1>1, <2>1, <2>2, <2>4, <3>1, <3>3
    <3>4. k \in 1..Len(pending) \/ k = Len(pending) + 1
      BY <2>1, <2>3
    <3> QED BY <3>2, <3>3, <3>4
  <2>6. Len(Waiting') = Len(Append(Waiting, msg))
    BY <2>1, <2>2, <2>3, <2>4
  <2> QED BY <2>3, <2>4, <2>5, <2>6, SeqEqual
<1>5. InFlight' = (msgq \o Called) \o Append(Waiting, msg)
  BY <1>3, <1>4 DEF InFlight, Called, Waiting
<1>6. msgq \o Called \in Seq(Msgs) /\ Waiting \in Seq(Msgs)
  BY InFlightType DEF WellWritten
<1>7. InFlight' = Append((msgq \o Called) \o Waiting, msg)
  BY <1>1, <1>5, <1>6, AppendToConcat
<1> QED BY <1>1, <1>3, <1>7, InFlightType DEF WellWritten

\* Taking the next item moves a reading from the work queue to the handler.
LEMMA TakeKeepsInFlight == PathInv /\ TakeItem => InFlight' = InFlight
<1> SUFFICES ASSUME PathInv, TakeItem PROVE InFlight' = InFlight
  OBVIOUS
<1>1. /\ wqPc = "wait" /\ wqPc' = "call" /\ wqItem' = Head(pending)
      /\ pending' = Tail(pending) /\ pending \in Seq(Items) /\ pending # <<>>
      /\ UNCHANGED <<data, msgq>> /\ PathInv'
  BY TakeItemInv DEF TakeItem, PathInv, TypeOK, outVars
<1> DEFINE h == data[pending[1]]
<1>2. Called = <<>> /\ Called' = <<h>>
  BY <1>1 DEF Called
<1>3. /\ Waiting \in Seq(Msgs) /\ Len(Waiting) = Len(pending)
      /\ \A k \in 1..Len(pending) : Waiting[k] = data[pending[k]]
      /\ msgq \in Seq(Msgs) /\ Called \in Seq(Msgs)
  BY InFlightType DEF WellWritten
<1>4. /\ Waiting' \in Seq(Msgs) /\ Len(Waiting') = Len(pending')
      /\ \A k \in 1..Len(pending') : Waiting'[k] = data'[pending'[k]]
  BY <1>1, InFlightTypeNext DEF WellWritten
<1>5. /\ Len(pending) > 0 /\ Len(pending') = Len(pending) - 1
      /\ \A k \in 1..Len(pending') : pending'[k] = pending[k + 1]
  BY <1>1
<1>6. h \in Msgs /\ Waiting[1] = h
  BY <1>3, <1>5
<1>7. \A k \in 1..Len(Waiting') : Waiting'[k] = Waiting[k + 1]
  <2> SUFFICES ASSUME NEW k \in 1..Len(Waiting') PROVE Waiting'[k] = Waiting[k + 1]
    OBVIOUS
  <2>1. k \in 1..Len(pending') /\ k + 1 \in 1..Len(pending)
    BY <1>1, <1>4, <1>5
  <2>2. Waiting'[k] = data[pending'[k]]
    BY <1>1, <1>4, <2>1
  <2>3. pending'[k] = pending[k + 1]
    BY <1>5, <2>1
  <2>4. Waiting[k + 1] = data[pending[k + 1]]
    BY <1>3, <2>1
  <2> QED BY <2>2, <2>3, <2>4
<1> HIDE DEF h
<1>8. Waiting = <<h>> \o Waiting'
  BY <1>3, <1>4, <1>5, <1>6, <1>7, FirstAndRest
<1>9. InFlight = msgq \o Waiting
  BY <1>2, <1>3, InFlightType DEF WellWritten
<1>10. InFlight' = (msgq \o <<h>>) \o Waiting'
  BY <1>1, <1>2 DEF InFlight, Called, Waiting
<1>11. <<h>> \in Seq(Msgs)
  BY <1>6
<1> QED BY <1>3, <1>4, <1>8, <1>9, <1>10, <1>11, ConcatAssociative

\* The handler moves its reading to the end of the message queue.
LEMMA EnqueueKeepsInFlight == PathInv /\ EnqueueReading => InFlight' = InFlight
<1> SUFFICES ASSUME PathInv, EnqueueReading PROVE InFlight' = InFlight
  OBVIOUS
<1>1. /\ wqPc = "call" /\ wqPc' = "done" /\ msgq' = Append(msgq, data[wqItem])
      /\ UNCHANGED <<data, pending>>
  BY DEF EnqueueReading, poolVars
<1>2. /\ msgq \in Seq(Msgs) /\ Called \in Seq(Msgs) /\ Waiting \in Seq(Msgs)
      /\ InFlight = (msgq \o Called) \o Waiting
  BY InFlightType DEF WellWritten
<1>3. Called = <<data[wqItem]>> /\ Called' = <<>> /\ Waiting' = Waiting
  BY <1>1 DEF Called, Waiting
<1>4. data[wqItem] \in Msgs
  <2>1. wqItem \in Items /\ "running" \in flags[wqItem]
    BY <1>1 DEF PathInv, TypeOK, PoolConsistent
  <2> QED BY <2>1 DEF PathInv, WrittenBeforeRead, IsBusy
<1>5. InFlight' = (msgq' \o <<>>) \o Waiting
  BY <1>3 DEF InFlight, Called, Waiting
<1>6. msgq' = msgq \o <<data[wqItem]>> /\ msgq' \in Seq(Msgs)
  BY <1>1, <1>2, <1>4, AppendIsConcat
<1>7. msgq' \o <<>> = msgq'
  BY <1>6
<1> QED BY <1>2, <1>3, <1>5, <1>6, <1>7

\* A handler that finds the message queue full takes its reading out, behind
\* those that are in the message queue.
LEMMA DropRemoves ==
    ASSUME PathInv, DropReading
    PROVE  \E d \in Msgs :
             /\ InFlight = (msgq \o <<d>>) \o Waiting
             /\ InFlight' = msgq \o Waiting
             /\ UNCHANGED <<got, msgq, now, Stamped>>
<1>1. /\ wqPc = "call" /\ wqPc' = "done"
      /\ UNCHANGED <<msgq, got, data, pending, coapPc, msg, now>>
  BY DEF DropReading, outVars, poolVars, coapVars
<1>2. /\ msgq \in Seq(Msgs) /\ Called \in Seq(Msgs) /\ Waiting \in Seq(Msgs)
      /\ InFlight = (msgq \o Called) \o Waiting
  BY InFlightType DEF WellWritten
<1>3. Called = <<data[wqItem]>> /\ Called' = <<>> /\ Waiting' = Waiting
  BY <1>1 DEF Called, Waiting
<1>4. data[wqItem] \in Msgs
  <2>1. wqItem \in Items /\ "running" \in flags[wqItem]
    BY <1>1 DEF PathInv, TypeOK, PoolConsistent
  <2> QED BY <2>1 DEF PathInv, WrittenBeforeRead, IsBusy
<1>5. InFlight' = (msgq \o <<>>) \o Waiting
  BY <1>1, <1>3 DEF InFlight, Called, Waiting
<1>6. msgq \o <<>> = msgq
  BY <1>2
<1> QED BY <1>1, <1>2, <1>3, <1>4, <1>5, <1>6 DEF Stamped

\* The display loop takes the oldest reading.
LEMMA GetTakesOldest ==
    ASSUME PathInv, GetReading
    PROVE  /\ InFlight # <<>> /\ got' = Head(InFlight) /\ InFlight' = Tail(InFlight)
           /\ Len(msgq') = Len(msgq) - 1 /\ UNCHANGED <<now, Stamped>>
<1>1. /\ msgq # <<>> /\ got' = Head(msgq) /\ msgq' = Tail(msgq)
      /\ UNCHANGED <<data, pending, wqPc, wqItem, coapPc, msg, now>>
  BY DEF GetReading, poolVars, wqVars, coapVars
<1>2. /\ msgq \in Seq(Msgs) /\ Called \in Seq(Msgs) /\ Waiting \in Seq(Msgs)
      /\ InFlight = (msgq \o Called) \o Waiting
  BY InFlightType DEF WellWritten
<1>3. InFlight' = (Tail(msgq) \o Called) \o Waiting
  BY <1>1 DEF InFlight, Called, Waiting
<1>4. /\ msgq \o Called # <<>> /\ Head(msgq \o Called) = Head(msgq)
      /\ Tail(msgq \o Called) = Tail(msgq) \o Called
      /\ msgq \o Called \in Seq(Msgs)
  BY <1>1, <1>2, HeadTailOfConcat
<1>5. /\ InFlight # <<>> /\ Head(InFlight) = Head(msgq)
      /\ Tail(InFlight) = (Tail(msgq) \o Called) \o Waiting
  <2> DEFINE front == msgq \o Called
  <2>1. /\ front # <<>> /\ Head(front) = Head(msgq) /\ Tail(front) = Tail(msgq) \o Called
        /\ front \in Seq(Msgs) /\ InFlight = front \o Waiting
    BY <1>2, <1>4
  <2> HIDE DEF front
  <2>2. /\ front \o Waiting # <<>> /\ Head(front \o Waiting) = Head(front)
        /\ Tail(front \o Waiting) = Tail(front) \o Waiting
    BY <1>2, <2>1, HeadTailOfConcat
  <2> QED BY <2>1, <2>2
<1>6. Len(msgq') = Len(msgq) - 1
  BY <1>1, <1>2
<1> QED BY <1>1, <1>3, <1>5, <1>6 DEF Stamped

\* No other step adds, removes or changes a reading that is on its way.
OtherStep == \/ BootStep \/ Tick \/ FinishItem \/ ReceivePost \/ RefuseNotReady
             \/ StartScan \/ SkipBusyItem \/ PoolExhausted \/ FindFreeItem \/ CopyMsg
             \/ Respond

LEMMA OthersKeepInFlight ==
    ASSUME PathInv, OtherStep
    PROVE  UNCHANGED <<InFlight, got, msgq>>
<1>1. UNCHANGED <<pending, msgq, got>>
  BY DEF OtherStep, BootStep, InitItem, InitDone, Tick, FinishItem, ReceivePost,
     ReceivePostOf, RefuseNotReady, StartScan, SkipBusyItem, PoolExhausted,
     FindFreeItem, CopyMsg, Respond, poolVars, outVars
<1>2. Called' = Called
  <2>1. CASE FinishItem
    BY <2>1 DEF FinishItem, Called
  <2>2. CASE CopyMsg
    <3>1. /\ coapPc = "copy" /\ data' = [data EXCEPT ![slot] = msg]
          /\ UNCHANGED <<wqPc, wqItem>>
      BY <2>2 DEF CopyMsg, wqVars
    <3>2. wqPc = "call" => wqItem \in Items /\ wqItem # slot
      BY <3>1 DEF PathInv, TypeOK, PoolConsistent, WriterOwnsItem, IsBusy
    <3> QED BY <3>1, <3>2 DEF Called, PathInv, TypeOK
  <2>3. CASE ~FinishItem /\ ~CopyMsg
    <3>1. UNCHANGED <<data, wqPc, wqItem>>
      BY <2>3 DEF OtherStep, BootStep, InitItem, InitDone, Tick, ReceivePost,
         ReceivePostOf, RefuseNotReady, StartScan, SkipBusyItem, PoolExhausted,
         FindFreeItem, Respond, poolVars, wqVars
    <3> QED BY <3>1 DEF Called
  <2> QED BY <2>1, <2>2, <2>3
<1>3. Waiting' = Waiting
  <2>1. CASE CopyMsg
    <3>1. /\ coapPc = "copy" /\ data' = [data EXCEPT ![slot] = msg]
          /\ pending \in Seq(Items)
      BY <2>1 DEF CopyMsg, PathInv, TypeOK
    <3>2. \A k \in 1..Len(pending) : pending[k] \in Items /\ pending[k] # slot
      BY <3>1 DEF PathInv, TypeOK, PoolConsistent, WriterOwnsItem, IsBusy
    <3>3. \A k \in 1..Len(pending) : data'[pending[k]] = data[pending[k]]
      BY <3>1, <3>2 DEF PathInv, TypeOK
    <3> QED BY <1>1, <3>3 DEF Waiting
  <2>2. CASE ~CopyMsg
    <3>1. UNCHANGED data
      BY <2>2 DEF OtherStep, BootStep, InitItem, InitDone, Tick, FinishItem, ReceivePost,
         ReceivePostOf, RefuseNotReady, StartScan, SkipBusyItem, PoolExhausted,
         FindFreeItem, Respond, poolVars
    <3> QED BY <1>1, <3>1 DEF Waiting
  <2> QED BY <2>1, <2>2
<1> QED BY <1>1, <1>2, <1>3 DEF InFlight, Called, Waiting

\* Every step of the three threads and of the clock is one of those.
LEMMA InFlightStep ==
    ASSUME PathInv, PathNext
    PROVE  \/ SubmitToQueue \/ DropReading \/ GetReading
           \/ InFlight' = InFlight /\ got' = got
<1>1. CASE OtherStep
  BY <1>1, OthersKeepInFlight
<1>2. CASE TakeItem \/ EnqueueReading
  <2>1. got' = got
    BY <1>2 DEF TakeItem, EnqueueReading, outVars
  <2> QED BY <1>2, <2>1, TakeKeepsInFlight, EnqueueKeepsInFlight
<1> QED BY <1>1, <1>2 DEF PathNext, BootStep, CoapStep, SubmitStep, WorkStep, OtherStep

-----------------------------------------------------------------------------
(* The message queue is bounded.                                           *)

LEMMA QueueStep ==
    ASSUME PathInv, QueueBounded, [PathNext]_pathVars
    PROVE  QueueBounded'
<1>1. msgq \in Seq(Msgs) /\ TEMP_MSG_QUEUE_SIZE \in Nat
  BY PathAssumption DEF PathInv, TypeOK
<1>2. CASE EnqueueReading
  <2>1. Len(msgq') = Len(msgq) + 1 /\ Len(msgq) < TEMP_MSG_QUEUE_SIZE
    BY <1>1, <1>2 DEF EnqueueReading
  <2> QED BY <1>1, <2>1 DEF QueueBounded
<1>3. CASE GetReading
  <2>1. Len(msgq') = Len(msgq) - 1 /\ Len(msgq) \in Nat
    BY <1>1, <1>3, GetTakesOldest
  <2> QED BY <1>1, <2>1 DEF QueueBounded
<1>4. CASE ~EnqueueReading /\ ~GetReading
  <2>1. msgq' = msgq
    BY <1>4 DEF PathNext, BootStep, InitItem, InitDone, CoapStep, SubmitStep, ReceivePost,
       ReceivePostOf, RefuseNotReady, StartScan, SkipBusyItem, PoolExhausted,
       FindFreeItem, CopyMsg, SubmitToQueue, Respond, WorkStep, TakeItem, DropReading,
       FinishItem, Tick, outVars, pathVars
  <2> QED BY <2>1 DEF QueueBounded
<1> QED BY <1>2, <1>3, <1>4

\* temp_data_msgq never overflows.
THEOREM PathQueueBounded == PathSpec => []QueueBounded
<1>1. PathInit => QueueBounded
  BY PathAssumption DEF PathInit, QueueBounded
<1>2. PathInv /\ QueueBounded /\ [PathNext]_pathVars => QueueBounded'
  BY QueueStep
<1> QED BY <1>1, <1>2, PathInvariant, PTL DEF PathSpec

-----------------------------------------------------------------------------
(* The path implements a bounded queue.                                    *)

LEMMA FifoStep ==
    ASSUME PathInv, QueueBounded, [PathNext]_pathVars
    PROVE  [Fifo!FifoNext]_(Fifo!fifoVars)
<1> SUFFICES ASSUME PathNext PROVE Fifo!FifoNext \/ UNCHANGED Fifo!fifoVars
  <2>1. UNCHANGED pathVars => UNCHANGED Fifo!fifoVars
    BY DEF pathVars, poolVars, wqVars, outVars, InFlight, Fifo!fifoVars
  <2> QED BY <2>1
<1>1. /\ msgq \in Seq(Msgs) /\ Called \in Seq(Msgs) /\ Waiting \in Seq(Msgs)
      /\ Len(Waiting) = Len(pending) /\ InFlight = (msgq \o Called) \o Waiting
      /\ Len(pending) \in Nat
      /\ TEMP_MSG_QUEUE_SIZE \in Nat /\ UI_WORK_POOL_SIZE \in Nat
  BY InFlightType, PathAssumption DEF WellWritten, PathInv, TypeOK
<1>2. CASE SubmitToQueue
  <2>1. InFlight' = Append(InFlight, msg) /\ msg \in Msgs /\ got' = got
    BY <1>2, SubmitAppends
  <2>2. Len(Called) + Len(pending) < UI_WORK_POOL_SIZE
    BY <1>2, RoomInPool DEF SubmitToQueue
  <2>3. Len(InFlight) = Len(msgq) + Len(Called) + Len(pending)
    <3>1. msgq \in Seq(Msgs) /\ Called \in Seq(Msgs) /\ Waiting \in Seq(Msgs)
      BY <1>1
    <3>2. Len((msgq \o Called) \o Waiting) = Len(msgq) + Len(Called) + Len(Waiting)
      BY ONLY <3>1, LengthOfConcat
    <3> QED BY <1>1, <3>2
  <2>4. Len(msgq) \in Nat /\ Len(Called) \in Nat
    BY <1>1
  <2>5. Len(InFlight) < TEMP_MSG_QUEUE_SIZE + UI_WORK_POOL_SIZE
    BY <1>1, <2>2, <2>3, <2>4 DEF QueueBounded
  <2>6. Fifo!Accept
    BY <2>1, <2>5 DEF Fifo!Accept
  <2> QED BY <2>6 DEF Fifo!FifoNext
<1>3. CASE DropReading
  <2>1. PICK d \in Msgs : /\ InFlight = (msgq \o <<d>>) \o Waiting
                          /\ InFlight' = msgq \o Waiting
                          /\ got' = got
    BY <1>3, DropRemoves
  <2>2. Len(msgq) = TEMP_MSG_QUEUE_SIZE
    BY <1>1, <1>3 DEF DropReading, QueueBounded
  <2>3. InFlight' = Fifo!RemoveAt(InFlight, TEMP_MSG_QUEUE_SIZE + 1)
    <3>1. Fifo!RemoveAt((msgq \o <<d>>) \o Waiting, Len(msgq) + 1) = msgq \o Waiting
      BY <1>1, RemoveMiddle
    <3> QED BY <2>1, <2>2, <3>1
  <2>4. Len(InFlight) = Len(msgq) + 1 + Len(Waiting) /\ Len(Waiting) \in Nat
    <3>1. <<d>> \in Seq(Msgs) /\ Len(<<d>>) = 1
      OBVIOUS
    <3>2. Len((msgq \o <<d>>) \o Waiting) = Len(msgq) + Len(<<d>>) + Len(Waiting)
      BY <1>1, <3>1, LengthOfConcat
    <3> QED BY <1>1, <2>1, <3>1, <3>2
  <2>5. Len(InFlight) > TEMP_MSG_QUEUE_SIZE
    BY <1>1, <2>2, <2>4
  <2>6. Fifo!Lose
    BY <2>1, <2>3, <2>5 DEF Fifo!Lose
  <2> QED BY <2>6 DEF Fifo!FifoNext
<1>4. CASE GetReading
  <2>1. Fifo!Take
    BY <1>4, GetTakesOldest DEF Fifo!Take
  <2> QED BY <2>1 DEF Fifo!FifoNext
<1>5. CASE InFlight' = InFlight /\ got' = got
  BY <1>5 DEF Fifo!fifoVars
<1> QED BY <1>2, <1>3, <1>4, <1>5, InFlightStep

\* Pool, work queue and message queue together keep the order, duplicate and
\* change nothing, never hold more than both sizes together, and lose a
\* reading only if TEMP_MSG_QUEUE_SIZE others are ahead of it
\* (ui_update_submit, ui_update_work_handler, k_msgq_get in main).
THEOREM PathFifoRefined == PathSpec => FifoRefined
<1>1. PathInit => Fifo!FifoInit
  BY DEF PathInit, Fifo!FifoInit, InFlight
<1>2. PathInv /\ QueueBounded /\ [PathNext]_pathVars => [Fifo!FifoNext]_(Fifo!fifoVars)
  BY FifoStep
<1> QED BY <1>1, <1>2, PathInvariant, PathQueueBounded, PTL
     DEF PathSpec, FifoRefined, Fifo!FifoSpec

-----------------------------------------------------------------------------
(* The order of the timestamps.                                            *)

\* q is in the order of its timestamps, and nothing in it is older than l or
\* newer than t.
Chronological(q, l, t) ==
    \A j \in 1..Len(q) : /\ l <= q[j].time
                         /\ q[j].time <= t
                         /\ \A k \in 1..j : q[k].time <= q[j].time

LEMMA MsgTimes == \A m \in Msgs : m.time \in Int
  BY PathAssumption DEF Msgs, Times

\* A message stamped with the present time may join at the end.
LEMMA StampAtEnd ==
    ASSUME NEW q \in Seq(Msgs), NEW l \in Int, NEW t \in Int, l <= t,
           Chronological(q, l, t), NEW m \in Msgs, m.time = t
    PROVE  Chronological(Append(q, m), l, t)
<1> DEFINE r == Append(q, m)
<1>1. /\ r \in Seq(Msgs) /\ Len(r) = Len(q) + 1 /\ Len(q) \in Nat
      /\ \A i \in 1..Len(q) : r[i] = q[i]
      /\ r[Len(q) + 1] = m
  BY AppendProperties
<1> HIDE DEF r
<1>2. \A j \in 1..Len(r) : l <= r[j].time /\ r[j].time <= t
  BY <1>1 DEF Chronological
<1>3. ASSUME NEW j \in 1..Len(r), NEW k \in 1..j PROVE r[k].time <= r[j].time
  <2>1. CASE j = Len(q) + 1
    BY <1>1, <1>2, <1>3, <2>1
  <2>2. CASE j # Len(q) + 1
    BY <1>1, <1>3, <2>2 DEF Chronological
  <2> QED BY <2>1, <2>2
<1>4. Chronological(r, l, t)
  BY <1>2, <1>3 DEF Chronological
<1> QED BY <1>4 DEF r

\* Time passes.
LEMMA LaterStillOrdered ==
    ASSUME NEW q \in Seq(Msgs), NEW l \in Int, NEW t \in Int, NEW u \in Int, t <= u,
           Chronological(q, l, t)
    PROVE  Chronological(q, l, u)
  BY MsgTimes, ElementOfSeq DEF Chronological

\* What is left when the last element, the first ones, or one in the middle
\* are taken out is still in order.
LEMMA FrontIsOrdered ==
    ASSUME NEW a \in Seq(Msgs), NEW b \in Seq(Msgs), NEW l \in Int, NEW t \in Int,
           Chronological(a \o b, l, t)
    PROVE  Chronological(a, l, t)
<1>1. \A i \in 1..Len(a) : i \in 1..Len(a \o b) /\ (a \o b)[i] = a[i]
  OBVIOUS
<1> QED BY <1>1 DEF Chronological

LEMMA RestIsOrdered ==
    ASSUME NEW a \in Seq(Msgs), NEW b \in Seq(Msgs), NEW l \in Int, NEW t \in Int,
           Chronological(a \o b, l, t)
    PROVE  Chronological(b, l, t)
<1>1. \A i \in 1..Len(b) : /\ Len(a) + i \in 1..Len(a \o b)
                           /\ (a \o b)[Len(a) + i] = b[i]
  OBVIOUS
<1>2. Len(a) \in Nat /\ Len(b) \in Nat
  OBVIOUS
<1>3. ASSUME NEW j \in 1..Len(b), NEW k \in 1..j
      PROVE  l <= b[j].time /\ b[j].time <= t /\ b[k].time <= b[j].time
  <2>1. Len(a) + k \in 1..(Len(a) + j) /\ k \in 1..Len(b)
    BY <1>2
  <2> QED BY <1>1, <2>1 DEF Chronological
<1> QED BY <1>3 DEF Chronological

LEMMA WithoutMiddleIsOrdered ==
    ASSUME NEW a \in Seq(Msgs), NEW d \in Msgs, NEW b \in Seq(Msgs),
           NEW l \in Int, NEW t \in Int, Chronological((a \o <<d>>) \o b, l, t)
    PROVE  Chronological(a \o b, l, t)
<1> DEFINE s == (a \o <<d>>) \o b
           r == a \o b
           place(i) == IF i <= Len(a) THEN i ELSE i + 1
<1>1. Len(a) \in Nat /\ Len(b) \in Nat
  OBVIOUS
<1>2. Len(s) = Len(a) + 1 + Len(b) /\ Len(r) = Len(a) + Len(b)
  OBVIOUS
<1>3. \A i \in 1..Len(r) : place(i) \in 1..Len(s) /\ s[place(i)] = r[i]
  OBVIOUS
<1>4. Chronological(s, l, t)
  OBVIOUS
<1> HIDE DEF s, r
<1>5. ASSUME NEW j \in 1..Len(r), NEW k \in 1..j
      PROVE  l <= r[j].time /\ r[j].time <= t /\ r[k].time <= r[j].time
  <2>1. place(k) \in 1..place(j) /\ k \in 1..Len(r)
    BY <1>1, <1>2
  <2> HIDE DEF place
  <2> QED BY <1>3, <1>4, <2>1 DEF Chronological
<1>6. Chronological(r, l, t)
  BY <1>5 DEF Chronological
<1> QED BY <1>6 DEF r

Taken   == IF got = NoMsg THEN <<>> ELSE <<got>>
Journey == (Taken \o InFlight) \o Stamped

LEMMA JourneyType ==
    ASSUME PathInv
    PROVE  /\ Taken \in Seq(Msgs) /\ InFlight \in Seq(Msgs) /\ Stamped \in Seq(Msgs)
           /\ Journey \in Seq(Msgs) /\ now \in Int
<1>1. Taken \in Seq(Msgs)
  BY DEF Taken, PathInv, TypeOK
<1>2. Stamped \in Seq(Msgs)
  <2>1. coapPc \in {"submit", "scan", "copy", "queue"} => msg \in Msgs
    BY DEF PathInv, WrittenBeforeRead
  <2> QED BY <2>1 DEF Stamped
<1>3. InFlight \in Seq(Msgs) /\ now \in Int
  BY InFlightType, PathAssumption DEF WellWritten, PathInv, TypeOK, Times
<1>4. Journey \in Seq(Msgs)
  BY <1>1, <1>2, <1>3 DEF Journey
<1> QED BY <1>1, <1>2, <1>3, <1>4

\* A received request is stamped with the present time.
LEMMA StampStep ==
    ASSUME PathInv, ReceivePost, NEW l \in Int, l <= now,
           Chronological(Journey, l, now)
    PROVE  Chronological(Journey', l, now')
<1>1. PICK r \in Requests : msg' \in Posted(r, now)
  BY DEF ReceivePost, ReceivePostOf
<1>2. msg' \in Msgs /\ msg'.time = now
  BY <1>1, PostedMsgs DEF Posted, PathInv, TypeOK
<1>3. Stamped = <<>> /\ Stamped' = <<msg'>> /\ now' = now
  BY DEF ReceivePost, ReceivePostOf, Stamped
<1>4. InFlight' = InFlight /\ Taken' = Taken
  BY OthersKeepInFlight DEF OtherStep, Taken
<1>5. Taken \o InFlight \in Seq(Msgs) /\ now \in Int
  BY JourneyType
<1> DEFINE q == Taken \o InFlight
<1>6. Journey = q \o <<>> /\ Journey' = q \o <<msg'>>
  BY <1>3, <1>4 DEF Journey
<1> HIDE DEF q
<1>7. q \o <<>> = q /\ q \o <<msg'>> = Append(q, msg')
  BY <1>2, <1>5 DEF q
<1>8. Chronological(Append(q, msg'), l, now)
  BY <1>2, <1>5, <1>6, <1>7, StampAtEnd DEF q
<1> QED BY <1>3, <1>6, <1>7, <1>8

\* Submitting hands the stamped reading over, and answering a refused request
\* forgets it.
LEMMA SubmitStepOrder ==
    ASSUME PathInv, SubmitToQueue, NEW l \in Int,
           Chronological(Journey, l, now)
    PROVE  Chronological(Journey', l, now')
<1>1. /\ InFlight' = Append(InFlight, msg) /\ msg \in Msgs /\ got' = got /\ now' = now
      /\ coapPc = "queue" /\ coapPc' = "respond"
  BY SubmitAppends
<1>2. Taken \in Seq(Msgs) /\ InFlight \in Seq(Msgs)
  BY JourneyType
<1>3. Stamped = <<msg>> /\ Stamped' = <<>> /\ Taken' = Taken
  BY <1>1 DEF Stamped, Taken
<1>4. /\ Journey = (Taken \o InFlight) \o <<msg>>
      /\ Journey' = (Taken \o Append(InFlight, msg)) \o <<>>
  BY <1>1, <1>3 DEF Journey
<1>5. Taken \o Append(InFlight, msg) = Append(Taken \o InFlight, msg)
  BY <1>1, <1>2, AppendToConcat
<1>6. \A q \in Seq(Msgs) : q \o <<msg>> = Append(q, msg) \o <<>>
  BY <1>1
<1>7. Taken \o InFlight \in Seq(Msgs)
  BY <1>2
<1>8. Journey' = Journey
  BY <1>4, <1>5, <1>6, <1>7
<1> QED BY <1>1, <1>8

LEMMA RefuseStepOrder ==
    ASSUME PathInv, RefuseNotReady \/ PoolExhausted, NEW l \in Int,
           Chronological(Journey, l, now)
    PROVE  Chronological(Journey', l, now')
<1>1. InFlight' = InFlight /\ Taken' = Taken
  BY OthersKeepInFlight DEF OtherStep, Taken
<1>2. Stamped' = <<>> /\ now' = now
  BY DEF RefuseNotReady, PoolExhausted, Stamped
<1>3. Taken \o InFlight \in Seq(Msgs) /\ Stamped \in Seq(Msgs) /\ now \in Int
  BY JourneyType
<1>4. Journey' = (Taken \o InFlight) \o <<>>
  BY <1>1, <1>2 DEF Journey
<1>5. (Taken \o InFlight) \o <<>> = Taken \o InFlight
  BY <1>3, ConcatEmptySeq
<1>6. Chronological(Taken \o InFlight, l, now)
  BY <1>3, FrontIsOrdered DEF Journey
<1> QED BY <1>2, <1>4, <1>5, <1>6

LEMMA DropStepOrder ==
    ASSUME PathInv, DropReading, NEW l \in Int,
           Chronological(Journey, l, now)
    PROVE  Chronological(Journey', l, now')
<1>1. PICK d \in Msgs : /\ InFlight = (msgq \o <<d>>) \o Waiting
                        /\ InFlight' = msgq \o Waiting
                        /\ UNCHANGED <<got, now, Stamped>>
  BY DropRemoves
<1>2. /\ Taken \in Seq(Msgs) /\ Stamped \in Seq(Msgs) /\ msgq \in Seq(Msgs)
      /\ Waiting \in Seq(Msgs) /\ <<d>> \in Seq(Msgs) /\ now \in Int
  BY JourneyType, InFlightType DEF WellWritten
<1> DEFINE a == Taken \o msgq
           b == Waiting \o Stamped
<1>3. a \in Seq(Msgs) /\ b \in Seq(Msgs)
  BY <1>2
<1>4. \A s, u, v \in Seq(Msgs) : (s \o u) \o v = s \o (u \o v)
  BY ConcatAssociative
<1>5. Journey = (a \o <<d>>) \o b
  <2>1. Journey = (Taken \o ((msgq \o <<d>>) \o Waiting)) \o Stamped
    BY <1>1 DEF Journey
  <2>2. Taken \o ((msgq \o <<d>>) \o Waiting) = (Taken \o (msgq \o <<d>>)) \o Waiting
    <3>1. msgq \o <<d>> \in Seq(Msgs)
      BY <1>2
    <3>2. Taken \in Seq(Msgs) /\ Waiting \in Seq(Msgs)
      BY <1>2
    <3>3. \A c \in Seq(Msgs) : Taken \o (c \o Waiting) = (Taken \o c) \o Waiting
      BY ONLY <1>4, <3>2
    <3> QED BY <3>1, <3>3
  <2>3. Taken \o (msgq \o <<d>>) = a \o <<d>>
    BY <1>2, <1>4
  <2>4. ((a \o <<d>>) \o Waiting) \o Stamped = (a \o <<d>>) \o b
    <3>1. a \o <<d>> \in Seq(Msgs)
      BY <1>2, <1>3
    <3> HIDE DEF a
    <3> QED BY <1>2, <1>4, <3>1
  <2> QED BY <2>1, <2>2, <2>3, <2>4
<1>6. Journey' = a \o b
  <2>1. Journey' = (Taken \o (msgq \o Waiting)) \o Stamped
    BY <1>1 DEF Journey, Taken
  <2>2. Taken \o (msgq \o Waiting) = (Taken \o msgq) \o Waiting
    BY <1>2, <1>4
  <2>3. (a \o Waiting) \o Stamped = a \o b
    <3>1. a \in Seq(Msgs)
      BY <1>3
    <3> HIDE DEF a
    <3> QED BY <1>2, <1>4, <3>1
  <2> QED BY <2>1, <2>2, <2>3
<1> HIDE DEF a, b
<1>7. Chronological(a \o b, l, now)
  BY <1>2, <1>3, <1>5, WithoutMiddleIsOrdered
<1> QED BY <1>1, <1>6, <1>7

\* The reading taken before makes way for the oldest one.
LEMMA GetStepOrder ==
    ASSUME PathInv, GetReading, NEW l \in Int,
           Chronological(Journey, l, now)
    PROVE  Chronological(Journey', l, now')
<1>1. /\ InFlight # <<>> /\ got' = Head(InFlight) /\ InFlight' = Tail(InFlight)
      /\ UNCHANGED <<now, Stamped>>
  BY GetTakesOldest
<1>2. /\ Taken \in Seq(Msgs) /\ InFlight \in Seq(Msgs) /\ Stamped \in Seq(Msgs)
      /\ now \in Int
  BY JourneyType
<1>3. got' \in Msgs /\ PathInv'
  BY GetReadingInv, <1>1, <1>2
<1>4. Taken' = <<got'>> \/ Taken' = <<>>
  BY DEF Taken
<1>5. InFlight = <<got'>> \o InFlight'
  BY <1>1, <1>2
<1> DEFINE q == InFlight \o Stamped
<1>6. q \in Seq(Msgs) /\ Journey = Taken \o q
  BY <1>2, ConcatAssociative DEF Journey
<1>7. Chronological(q, l, now)
  <2> HIDE DEF q
  <2> QED BY <1>2, <1>6, RestIsOrdered
<1>8. CASE Taken' = <<got'>>
  <2>1. Journey' = q
    BY <1>1, <1>5, <1>8 DEF Journey
  <2> QED BY <1>1, <1>7, <2>1
<1>9. CASE Taken' = <<>>
  <2>1. Tail(InFlight) \in Seq(Msgs) /\ <<got'>> \in Seq(Msgs)
    BY <1>1, <1>2, <1>3
  <2>2. Journey' = Tail(InFlight) \o Stamped
    BY <1>1, <1>9, <2>1 DEF Journey
  <2>3. q = <<got'>> \o (Tail(InFlight) \o Stamped)
    BY <1>1, <1>2, <1>5, <2>1, ConcatAssociative
  <2>4. Tail(InFlight) \o Stamped \in Seq(Msgs)
    BY <1>2, <2>1
  <2> HIDE DEF q
  <2> QED BY <1>1, <1>2, <1>7, <2>1, <2>2, <2>3, <2>4, RestIsOrdered
<1> QED BY <1>4, <1>8, <1>9

\* No message is older than the start of the clock.
LEMMA JourneyOrdered ==
    ASSUME PathInv
    PROVE  TimestampsOrdered <=> Chronological(Journey, 0, now)
<1>1. \A j \in 1..Len(Journey) : 0 <= Journey[j].time
  <2> SUFFICES ASSUME NEW j \in 1..Len(Journey) PROVE 0 <= Journey[j].time
    OBVIOUS
  <2>1. Journey \in Seq(Msgs)
    BY JourneyType
  <2>2. Journey[j] \in Msgs
    BY <2>1, ElementOfSeq
  <2> QED BY <2>2, PathAssumption DEF Msgs, Times
<1> QED BY <1>1 DEF TimestampsOrdered, Chronological, Journey, Taken

LEMMA OrderStep ==
    ASSUME PathInv, [PathNext]_pathVars, NEW l \in Int, l <= now,
           Chronological(Journey, l, now)
    PROVE  Chronological(Journey', l, now')
<1>1. CASE UNCHANGED pathVars
  BY <1>1 DEF pathVars, coapVars, poolVars, wqVars, outVars, Journey, Taken, InFlight,
     Stamped
<1>2. CASE Tick
  <2>1. Journey' = Journey
    BY <1>2 DEF Tick, coapVars, poolVars, wqVars, outVars, Journey, Taken, InFlight, Stamped
  <2>2. now \in Int /\ now' \in Int /\ now <= now' /\ Journey \in Seq(Msgs)
    BY <1>2, JourneyType DEF Tick
  <2> QED BY <2>1, <2>2, LaterStillOrdered
<1>3. CASE \/ BootStep \/ FinishItem \/ StartScan \/ SkipBusyItem \/ FindFreeItem
           \/ CopyMsg \/ Respond
  <2>1. UNCHANGED <<InFlight, Taken, now>>
    BY <1>3, OthersKeepInFlight DEF OtherStep, Taken, BootStep, InitItem, InitDone,
       FinishItem, StartScan, SkipBusyItem, FindFreeItem, CopyMsg, Respond
  <2>2. Stamped' = Stamped
    BY <1>3 DEF Stamped, BootStep, InitItem, InitDone, FinishItem, StartScan,
       SkipBusyItem, FindFreeItem, CopyMsg, Respond, coapVars
  <2> QED BY <2>1, <2>2 DEF Journey
<1>4. CASE TakeItem \/ EnqueueReading
  <2>1. UNCHANGED <<Taken, Stamped, now>>
    BY <1>4 DEF TakeItem, EnqueueReading, Taken, Stamped, outVars, coapVars
  <2> QED BY <1>4, <2>1, TakeKeepsInFlight, EnqueueKeepsInFlight DEF Journey
<1>5. CASE RefuseNotReady \/ PoolExhausted
  BY <1>5, RefuseStepOrder
<1> QED BY <1>1, <1>2, <1>3, <1>4, <1>5, StampStep, SubmitStepOrder, DropStepOrder,
     GetStepOrder DEF PathNext, CoapStep, SubmitStep, WorkStep

\* From temp_node_post's k_uptime_get to the display loop the readings are in
\* the order of their timestamps, and none is newer than the clock.
THEOREM PathTimestampsOrdered == PathSpec => []TimestampsOrdered
<1>1. PathInit => TimestampsOrdered
  BY DEF PathInit, TimestampsOrdered, InFlight, Stamped
<1>2. ASSUME PathInv, TimestampsOrdered, [PathNext]_pathVars PROVE TimestampsOrdered'
  <2>1. Chronological(Journey, 0, now) /\ 0 <= now
    BY <1>2, JourneyOrdered, PathAssumption DEF PathInv, TypeOK, Times
  <2>2. Chronological(Journey', 0, now')
    BY <1>2, <2>1, OrderStep
  <2>3. TimestampsOrdered'
    BY <2>2 DEF TimestampsOrdered, Chronological, Journey, Taken
  <2> QED BY <2>3
<1> QED BY <1>1, <1>2, PathInvariant, PTL DEF PathSpec

-----------------------------------------------------------------------------
(* Nothing is on its way before the pool is ready.                         *)

ReadyFirst == /\ \A i \in Items : IsBusy(i) => poolReady
              /\ msgq # <<>> => poolReady

LEMMA ReadyFirstStep ==
    ASSUME PathInv, ReadyFirst, [PathNext]_pathVars
    PROVE  ReadyFirst' /\ (poolReady => poolReady')
<1>1. CASE UNCHANGED pathVars
  BY <1>1 DEF ReadyFirst, IsBusy, pathVars, bootVars, poolVars, outVars
<1>2. CASE SubmitToQueue
  <2>1. poolReady /\ poolReady' = poolReady
    BY <1>2 DEF SubmitToQueue, PathInv, InitializedBeforeUse, bootVars
  <2> QED BY <2>1 DEF ReadyFirst
<1>3. CASE TakeItem
  <2>1. pending \in Seq(Items) /\ pending # <<>> /\ UNCHANGED <<msgq, poolReady>>
    BY <1>3 DEF TakeItem, PathInv, TypeOK, bootVars, outVars
  <2>2. 1 \in 1..Len(pending) /\ pending[1] \in Items
    BY <2>1
  <2>3. IsBusy(pending[1])
    BY <2>2 DEF PathInv, PoolConsistent, IsBusy
  <2> QED BY <2>1, <2>2, <2>3 DEF ReadyFirst
<1>4. CASE EnqueueReading
  <2>1. wqItem \in Items /\ IsBusy(wqItem) /\ UNCHANGED <<flags, poolReady>>
    BY <1>4 DEF EnqueueReading, PathInv, TypeOK, PoolConsistent, IsBusy, poolVars, bootVars
  <2> QED BY <2>1 DEF ReadyFirst
<1>5. CASE FinishItem
  <2>1. /\ flags' = [flags EXCEPT ![wqItem] = @ \ {"running"}]
        /\ UNCHANGED <<msgq, poolReady>>
    BY <1>5 DEF FinishItem, bootVars, outVars
  <2>2. \A i \in Items : IsBusy(i)' => IsBusy(i)
    BY <2>1 DEF PathInv, TypeOK, IsBusy
  <2> QED BY <2>1, <2>2 DEF ReadyFirst
<1>6. CASE BootStep
  <2>1. /\ poolReady => poolReady'
        /\ msgq' = msgq
    BY <1>6 DEF BootStep, InitItem, InitDone, outVars
  <2>2. \A i \in Items : IsBusy(i)' => IsBusy(i)
    BY <1>6 DEF BootStep, InitItem, InitDone, PathInv, TypeOK, IsBusy, poolVars
  <2> QED BY <2>1, <2>2 DEF ReadyFirst
<1>7. CASE GetReading
  <2>1. msgq # <<>> /\ UNCHANGED <<flags, poolReady>>
    BY <1>7 DEF GetReading, bootVars, poolVars
  <2> QED BY <2>1 DEF ReadyFirst, IsBusy
<1>8. CASE \/ Tick \/ DropReading \/ ReceivePost \/ RefuseNotReady \/ StartScan
           \/ SkipBusyItem \/ PoolExhausted \/ FindFreeItem \/ CopyMsg \/ Respond
  <2>1. UNCHANGED <<flags, poolReady, msgq>>
    BY <1>8 DEF Tick, DropReading, ReceivePost, ReceivePostOf, RefuseNotReady, StartScan,
       SkipBusyItem, PoolExhausted, FindFreeItem, CopyMsg, Respond, poolVars, bootVars,
       outVars
  <2> QED BY <2>1 DEF ReadyFirst, IsBusy
<1> QED BY <1>1, <1>2, <1>3, <1>4, <1>5, <1>6, <1>7, <1>8
     DEF PathNext, CoapStep, SubmitStep, WorkStep

\* The clock never goes back.
LEMMA ClockStep ==
    ASSUME PathInv, [PathNext]_pathVars
    PROVE  now \in Times /\ now' \in Times /\ now <= now'
<1>1. now \in Times /\ now' \in Times
  BY PathStepInv DEF PathInv, TypeOK
<1>2. CASE Tick
  BY <1>1, <1>2, PathAssumption DEF Tick, Times
<1>3. CASE ~Tick
  <2>1. now' = now
    BY <1>3 DEF PathNext, BootStep, InitItem, InitDone, CoapStep, SubmitStep, ReceivePost,
       ReceivePostOf, RefuseNotReady, StartScan, SkipBusyItem, PoolExhausted,
       FindFreeItem, CopyMsg, SubmitToQueue, Respond, WorkStep, TakeItem,
       EnqueueReading, DropReading, FinishItem, GetReading, pathVars
  <2> QED BY <1>1, <2>1, PathAssumption DEF Times
<1> QED BY <1>2, <1>3
=============================================================================
