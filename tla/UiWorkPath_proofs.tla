-------------------------- MODULE UiWorkPath_proofs --------------------------
(***************************************************************************)
(* Proofs about UiWorkPath, for every pool size, queue size and set of     *)
(* requests.                                                               *)
(*                                                                         *)
(* The invariant.  TypeOK is not inductive: that msgq holds messages needs *)
(* that the item being handled was written (WrittenBeforeRead), which      *)
(* needs that nobody writes an item that is busy (WriterOwnsItem), which   *)
(* needs that "not busy" is "in no queue and not being handled"            *)
(* (PoolConsistent), which needs that k_work_init never clears the flags   *)
(* of an item in use (InitializedBeforeUse).  PathInv is their             *)
(* conjunction, and it is inductive.                                       *)
(***************************************************************************)
EXTENDS UiWorkPath, TLAPS

PathInv == /\ TypeOK
           /\ PoolConsistent
           /\ InitializedBeforeUse
           /\ WriterOwnsItem
           /\ WrittenBeforeRead

-----------------------------------------------------------------------------
(* Facts about the helpers.                                                *)

\* The handler never copies more than the node_id buffer holds, nor, when the
\* option has its prefix, more than the option holds after it.
LEMMA CopyLenBounds ==
    ASSUME NEW len \in Nat, len <= OPTION_VALUE_LEN
    PROVE  /\ CopyLen(len) \in 0..(NODE_ID_LEN - 1)
           /\ len >= PrefixLen => CopyLen(len) <= len - PrefixLen
  BY PostAssumption DEF CopyLen, PrefixLen

\* Whatever the request, the extracted id fits a node_id buffer.
LEMMA ExtractedIdsFit ==
    ASSUME NEW r \in Requests
    PROVE  ExtractedIds(r.query) \subseteq NodeIds
<1> DEFINE q == r.query
           n == CopyLen(Len(q))
<1>1. CASE ~HasQuery(q)
  <2>1. ExtractedIds(q) = {<<>>}
    BY <1>1 DEF ExtractedIds
  <2>2. <<>> \in [1..0 -> Chars]
    OBVIOUS
  <2>3. 0 \in 0..(NODE_ID_LEN - 1)
    BY PostAssumption
  <2> QED BY <2>1, <2>2, <2>3 DEF NodeIds
<1>2. CASE HasQuery(q)
  <2>1. /\ q \in Seq(Chars)
        /\ Len(q) \in Nat
        /\ Len(q) <= OPTION_VALUE_LEN
    BY <1>2, PathAssumption DEF HasQuery
  <2>2. n \in 0..(NODE_ID_LEN - 1)
    BY <2>1, CopyLenBounds
  <2>3. CASE Len(q) < PrefixLen
    <3>1. ExtractedIds(q) = UNION {[1..k -> Chars] : k \in 0..n}
      BY <1>2, <2>3 DEF ExtractedIds
    <3>2. \A k \in 0..n : k \in 0..(NODE_ID_LEN - 1)
      BY <2>2, PostAssumption
    <3> QED BY <3>1, <3>2 DEF NodeIds
  <2>4. CASE ~(Len(q) < PrefixLen)
    <3>1. ExtractedIds(q) = {[k \in 1..n |-> q[k + PrefixLen]]}
      BY <1>2, <2>4 DEF ExtractedIds
    <3>2. n <= Len(q) - PrefixLen
      BY <2>1, <2>4, CopyLenBounds DEF PrefixLen
    <3>3. \A k \in 1..n : k + PrefixLen \in 1..Len(q)
      BY <2>1, <2>2, <3>2, PostAssumption DEF PrefixLen
    <3>4. [k \in 1..n |-> q[k + PrefixLen]] \in [1..n -> Chars]
      BY <2>1, <3>3
    <3> QED BY <2>2, <3>1, <3>4 DEF NodeIds
  <2> QED BY <2>3, <2>4
<1> QED BY <1>1, <1>2

\* temp_node_post only ever builds well-formed messages.
LEMMA PostedMsgs ==
    ASSUME NEW r \in Requests, NEW t \in Times
    PROVE  Posted(r, t) \subseteq Msgs
<1>1. ParsedTemps(r.payload) \subseteq Temps
  BY PathAssumption, PostAssumption DEF ParsedTemps
<1> QED BY <1>1, ExtractedIdsFit DEF Posted, Msgs

-----------------------------------------------------------------------------
(* The invariant is inductive.                                             *)

LEMMA PathInitInv == PathInit => PathInv
<1> SUFFICES ASSUME PathInit PROVE PathInv
  OBVIOUS
<1> USE PathAssumption
<1>1. TypeOK
  BY DEF PathInit, TypeOK, Items, Times
<1>2. PoolConsistent
  BY DEF PathInit, PoolConsistent, Items
<1>3. InitializedBeforeUse /\ WriterOwnsItem /\ WrittenBeforeRead
  BY DEF PathInit, InitializedBeforeUse, WriterOwnsItem, WrittenBeforeRead, IsBusy
<1> QED BY <1>1, <1>2, <1>3 DEF PathInv

\* The steps that touch neither an item nor a buffer of messages.
LEMMA BootInv == PathInv /\ BootStep => PathInv'
<1> SUFFICES ASSUME PathInv, BootStep PROVE PathInv'
  OBVIOUS
<1> USE PathAssumption
<1>1. CASE InitItem
  <2>1. inited \in Items /\ ~poolReady
    BY <1>1 DEF PathInv, TypeOK, InitializedBeforeUse, InitItem, Items
  <2>2. flags' = flags
    BY <1>1, <2>1 DEF PathInv, TypeOK, InitializedBeforeUse, InitItem, IsBusy, Items
  <2>3. UNCHANGED <<poolReady, coapVars, data, pending, wqVars, outVars, now>>
    BY <1>1 DEF InitItem
  <2>4. inited' = inited + 1 /\ inited < UI_WORK_POOL_SIZE
    BY <1>1 DEF InitItem
  <2>5. TypeOK'
    BY <2>2, <2>3, <2>4 DEF PathInv, TypeOK, coapVars, wqVars, outVars
  <2>6. PoolConsistent' /\ WriterOwnsItem' /\ WrittenBeforeRead'
    BY <2>2, <2>3 DEF PathInv, PoolConsistent, WriterOwnsItem,
       WrittenBeforeRead, IsBusy, coapVars, wqVars, outVars
  <2>7. InitializedBeforeUse'
    BY <2>1, <2>2, <2>3, <2>4 DEF PathInv, TypeOK, InitializedBeforeUse,
       IsBusy, coapVars, Items
  <2> QED BY <2>5, <2>6, <2>7 DEF PathInv
<1>2. CASE InitDone
  BY <1>2 DEF PathInv, TypeOK, PoolConsistent, InitializedBeforeUse, WriterOwnsItem,
     WrittenBeforeRead, InitDone, IsBusy, coapVars, poolVars, wqVars, outVars
<1> QED BY <1>1, <1>2 DEF BootStep

LEMMA TickInv == PathInv /\ Tick => PathInv'
  BY PathAssumption DEF PathInv, TypeOK, PoolConsistent, InitializedBeforeUse,
     WriterOwnsItem, WrittenBeforeRead, Tick, Times, IsBusy, bootVars, coapVars,
     poolVars, wqVars, outVars

LEMMA GetReadingInv == PathInv /\ GetReading => PathInv'
<1> SUFFICES ASSUME PathInv, GetReading PROVE PathInv'
  OBVIOUS
<1>1. msgq' \in Seq(Msgs) /\ got' \in Msgs
  BY DEF PathInv, TypeOK, GetReading
<1> QED BY <1>1 DEF PathInv, TypeOK, PoolConsistent, InitializedBeforeUse,
     WriterOwnsItem, WrittenBeforeRead, GetReading, IsBusy, bootVars, coapVars,
     poolVars, wqVars

\* The CoAP thread's steps that leave the pool alone.
LEMMA CoapLocalInv ==
    ASSUME PathInv,
           \/ ReceivePost \/ RefuseNotReady \/ StartScan \/ SkipBusyItem
           \/ PoolExhausted \/ FindFreeItem \/ Respond
    PROVE  PathInv'
<1> USE PathAssumption
<1>1. UNCHANGED <<bootVars, poolVars, wqVars, outVars, now>>
  BY DEF ReceivePost, ReceivePostOf, RefuseNotReady, StartScan, SkipBusyItem, PoolExhausted,
     FindFreeItem, Respond
<1>2. msg' \in Msgs \union {NoMsg} /\ (coapPc' \notin {"idle", "respond"} => msg' \in Msgs)
  <2>1. CASE ReceivePost
    BY <2>1, PostedMsgs DEF PathInv, TypeOK, ReceivePost, ReceivePostOf
  <2>2. CASE ~ReceivePost
    BY <2>2 DEF PathInv, TypeOK, WrittenBeforeRead, RefuseNotReady, StartScan,
       SkipBusyItem, PoolExhausted, FindFreeItem, Respond
  <2> QED BY <2>1, <2>2
<1>3. TypeOK'
  <2>1. slot' \in Items
    BY DEF PathInv, TypeOK, Items, ReceivePost, ReceivePostOf, RefuseNotReady, StartScan,
       SkipBusyItem, PoolExhausted, FindFreeItem, Respond
  <2>2. /\ coapPc' \in {"idle", "submit", "scan", "copy", "queue", "respond"}
        /\ ret' \in {"none", "OK", "EINVAL", "ENOMEM"}
        /\ response' \in {"none", "CREATED"}
    BY DEF PathInv, TypeOK, ReceivePost, ReceivePostOf, RefuseNotReady, StartScan,
       SkipBusyItem, PoolExhausted, FindFreeItem, Respond
  <2> QED BY <1>1, <1>2, <2>1, <2>2 DEF PathInv, TypeOK, bootVars, poolVars,
       wqVars, outVars
<1>4. PoolConsistent'
  BY <1>1 DEF PathInv, PoolConsistent, poolVars, wqVars
<1>5. /\ coapPc' # "queue"
      /\ coapPc' \in {"scan", "copy"} => poolReady
      /\ coapPc' = "copy" => ~IsBusy(slot')
  BY DEF PathInv, InitializedBeforeUse, ReceivePost, ReceivePostOf, RefuseNotReady, StartScan,
     SkipBusyItem, PoolExhausted, FindFreeItem, Respond, IsBusy
<1>6. InitializedBeforeUse' /\ WriterOwnsItem' /\ WrittenBeforeRead'
  BY <1>1, <1>2, <1>5 DEF PathInv, InitializedBeforeUse, WriterOwnsItem,
     WrittenBeforeRead, IsBusy, bootVars, poolVars
<1> QED BY <1>3, <1>4, <1>6 DEF PathInv

\* The copy goes to an item nobody else holds.
LEMMA CopyMsgInv == PathInv /\ CopyMsg => PathInv'
<1> SUFFICES ASSUME PathInv, CopyMsg PROVE PathInv'
  OBVIOUS
<1>1. /\ coapPc = "copy" /\ coapPc' = "queue"
      /\ data' = [data EXCEPT ![slot] = msg]
      /\ UNCHANGED <<msg, slot, ret, response, flags, pending>>
      /\ UNCHANGED <<bootVars, wqVars, outVars, now>>
  BY DEF CopyMsg
<1>2. slot \in Items /\ msg \in Msgs /\ ~IsBusy(slot)
  BY <1>1 DEF PathInv, TypeOK, WriterOwnsItem, WrittenBeforeRead
<1>3. TypeOK'
  BY <1>1, <1>2 DEF PathInv, TypeOK, bootVars, wqVars, outVars
<1>4. PoolConsistent' /\ InitializedBeforeUse' /\ WriterOwnsItem'
  BY <1>1, <1>2 DEF PathInv, PoolConsistent, InitializedBeforeUse,
     WriterOwnsItem, IsBusy, bootVars, wqVars
<1>5. WrittenBeforeRead'
  BY <1>1, <1>2 DEF PathInv, TypeOK, WrittenBeforeRead, IsBusy
<1> QED BY <1>3, <1>4, <1>5 DEF PathInv

\* The submission puts a free item at the end of the work queue.
LEMMA SubmitToQueueInv == PathInv /\ SubmitToQueue => PathInv'
<1> SUFFICES ASSUME PathInv, SubmitToQueue PROVE PathInv'
  OBVIOUS
<1>1. slot \in Items /\ flags[slot] = {} /\ poolReady /\ pending \in Seq(Items)
  BY DEF PathInv, TypeOK, InitializedBeforeUse, WriterOwnsItem, SubmitToQueue, IsBusy
<1>2. /\ coapPc = "queue" /\ coapPc' = "respond" /\ ret' = "OK"
      /\ flags' = [flags EXCEPT ![slot] = {"queued"}]
      /\ pending' = Append(pending, slot)
      /\ UNCHANGED <<msg, slot, response, data, bootVars, wqVars, outVars, now>>
  BY <1>1 DEF SubmitToQueue, PathInv, TypeOK
<1>3. TypeOK'
  BY <1>1, <1>2 DEF PathInv, TypeOK, bootVars, wqVars, outVars
<1>4. PoolConsistent'
  <2>1. /\ Len(pending') = Len(pending) + 1
        /\ pending'[Len(pending) + 1] = slot
        /\ \A k \in 1..Len(pending) : pending'[k] = pending[k]
    BY <1>1, <1>2
  <2>2. \A k \in 1..Len(pending) : pending[k] # slot
    BY <1>1 DEF PathInv, PoolConsistent
  <2>3. \A j, k \in 1..Len(pending') : pending'[j] = pending'[k] => j = k
    BY <1>1, <2>1, <2>2 DEF PathInv, PoolConsistent
  <2>4. \A i \in Items : "queued" \in flags'[i] <=> \E k \in 1..Len(pending') : pending'[k] = i
    BY <1>1, <1>2, <2>1 DEF PathInv, TypeOK, PoolConsistent
  <2>5. \A i \in Items : /\ "running" \in flags'[i] <=> wqItem' = i
                         /\ flags'[i] # {"queued", "running"}
    BY <1>1, <1>2 DEF PathInv, TypeOK, PoolConsistent, wqVars
  <2> QED BY <1>2, <2>3, <2>4, <2>5 DEF PathInv, PoolConsistent, wqVars
<1>5. InitializedBeforeUse' /\ WriterOwnsItem'
  BY <1>1, <1>2, PathAssumption DEF PathInv, TypeOK, InitializedBeforeUse,
     WriterOwnsItem, IsBusy, bootVars, Items
<1>6. WrittenBeforeRead'
  BY <1>1, <1>2 DEF PathInv, TypeOK, WrittenBeforeRead, SubmitToQueue, IsBusy
<1> QED BY <1>3, <1>4, <1>5, <1>6 DEF PathInv

LEMMA TakeItemInv == PathInv /\ TakeItem => PathInv'
<1> SUFFICES ASSUME PathInv, TakeItem PROVE PathInv'
  OBVIOUS
<1> DEFINE h == Head(pending)
<1>1. /\ wqPc = "wait" /\ wqPc' = "call"
      /\ wqItem = NoItem /\ wqItem' = h /\ pending' = Tail(pending)
      /\ pending \in Seq(Items) /\ Len(pending) > 0 /\ Len(pending) \in Nat
      /\ UNCHANGED <<data, bootVars, coapVars, outVars, now>>
  BY DEF TakeItem, PathInv, TypeOK, PoolConsistent
<1>2. h = pending[1] /\ h \in Items
  BY <1>1
<1>3. /\ Len(pending') = Len(pending) - 1
      /\ \A k \in 1..Len(pending') : pending'[k] = pending[k + 1]
      /\ pending' \in Seq(Items)
  BY <1>1
<1>4. flags[h] = {"queued"}
  BY <1>1, <1>2 DEF PathInv, TypeOK, PoolConsistent
<1>5. flags' = [flags EXCEPT ![h] = {"running"}]
  BY <1>2, <1>4 DEF TakeItem, PathInv, TypeOK
<1>6. TypeOK'
  BY <1>1, <1>2, <1>3, <1>5 DEF PathInv, TypeOK, bootVars, coapVars, outVars
<1>7. PoolConsistent'
  <2>1. \A j, k \in 1..Len(pending') : pending'[j] = pending'[k] => j = k
    <3> SUFFICES ASSUME NEW j \in 1..Len(pending'), NEW k \in 1..Len(pending'),
                        pending'[j] = pending'[k]
                 PROVE  j = k
      OBVIOUS
    <3>1. j + 1 \in 1..Len(pending) /\ k + 1 \in 1..Len(pending)
      BY <1>1, <1>3
    <3>2. pending[j + 1] = pending[k + 1]
      BY <1>3
    <3>3. j + 1 = k + 1
      BY <3>1, <3>2 DEF PathInv, PoolConsistent
    <3> QED BY <3>3
  <2>2. \A i \in Items : (\E k \in 1..Len(pending) : pending[k] = i)
                          <=> i = h \/ \E k \in 1..Len(pending') : pending'[k] = i
    <3> SUFFICES ASSUME NEW i \in Items
                 PROVE  (\E k \in 1..Len(pending) : pending[k] = i)
                          <=> i = h \/ \E k \in 1..Len(pending') : pending'[k] = i
      OBVIOUS
    <3>1. ASSUME NEW k \in 1..Len(pending), pending[k] = i, i # h
          PROVE  k - 1 \in 1..Len(pending') /\ pending'[k - 1] = i
      BY <1>1, <1>2, <1>3, <3>1
    <3>2. ASSUME NEW k \in 1..Len(pending'), pending'[k] = i
          PROVE  k + 1 \in 1..Len(pending) /\ pending[k + 1] = i
      BY <1>1, <1>3, <3>2
    <3>3. i = h => \E k \in 1..Len(pending) : pending[k] = i
      BY <1>1, <1>2
    <3> HIDE DEF h
    <3> QED BY ONLY <3>1, <3>2, <3>3
  <2>3. ~ \E k \in 1..Len(pending') : pending'[k] = h
    <3> SUFFICES ASSUME NEW k \in 1..Len(pending'), pending'[k] = h PROVE FALSE
      OBVIOUS
    <3>1. k + 1 \in 1..Len(pending) /\ 1 \in 1..Len(pending) /\ k + 1 # 1
      BY <1>1, <1>3
    <3>2. pending[k + 1] = pending[1]
      BY <1>2, <1>3
    <3> QED BY <3>1, <3>2 DEF PathInv, PoolConsistent
  <2>4. \A i \in Items : "queued" \in flags'[i] <=> \E k \in 1..Len(pending') : pending'[k] = i
    BY <1>2, <1>5, <2>2, <2>3 DEF PathInv, TypeOK, PoolConsistent
  <2>5. \A i \in Items : "running" \notin flags[i]
    BY <1>1, PathAssumption DEF PathInv, PoolConsistent, Items
  <2>6. \A i \in Items : /\ "running" \in flags'[i] <=> wqItem' = i
                         /\ flags'[i] # {"queued", "running"}
    BY <1>1, <1>2, <1>5, <2>5 DEF PathInv, TypeOK, PoolConsistent
  <2>7. wqItem' # NoItem
    BY <1>1, <1>2, PathAssumption DEF Items
  <2> QED BY <1>1, <2>1, <2>4, <2>6, <2>7 DEF PoolConsistent
<1>8. \A i \in Items : IsBusy(i)' <=> IsBusy(i)
  BY <1>2, <1>4, <1>5 DEF PathInv, TypeOK, IsBusy
<1>9. InitializedBeforeUse'
  BY <1>1, <1>8 DEF PathInv, InitializedBeforeUse, bootVars, coapVars
<1>10. WriterOwnsItem'
  BY <1>1, <1>8 DEF PathInv, TypeOK, WriterOwnsItem, coapVars
<1>11. WrittenBeforeRead'
  BY <1>1, <1>8 DEF PathInv, WrittenBeforeRead, coapVars
<1> QED BY <1>6, <1>7, <1>9, <1>10, <1>11 DEF PathInv

LEMMA HandlerInv == PathInv /\ (EnqueueReading \/ DropReading) => PathInv'
<1> SUFFICES ASSUME PathInv, EnqueueReading \/ DropReading PROVE PathInv'
  OBVIOUS
<1>1. /\ wqPc = "call" /\ wqPc' = "done"
      /\ UNCHANGED <<wqItem, got, bootVars, coapVars, poolVars, now>>
      /\ msgq' = Append(msgq, data[wqItem]) \/ msgq' = msgq
  BY DEF EnqueueReading, DropReading, outVars
<1>2. wqItem \in Items /\ "running" \in flags[wqItem]
  BY <1>1 DEF PathInv, TypeOK, PoolConsistent
<1>3. data[wqItem] \in Msgs
  BY <1>2 DEF PathInv, WrittenBeforeRead, IsBusy
<1>4. msgq' \in Seq(Msgs)
  BY <1>1, <1>3 DEF PathInv, TypeOK
<1> QED BY <1>1, <1>4 DEF PathInv, TypeOK, PoolConsistent, InitializedBeforeUse,
     WriterOwnsItem, WrittenBeforeRead, IsBusy, bootVars, coapVars, poolVars

LEMMA FinishItemInv == PathInv /\ FinishItem => PathInv'
<1> SUFFICES ASSUME PathInv, FinishItem PROVE PathInv'
  OBVIOUS
<1>1. /\ wqPc = "done" /\ wqPc' = "wait" /\ wqItem' = NoItem
      /\ UNCHANGED <<data, pending, bootVars, coapVars, outVars, now>>
  BY DEF FinishItem
<1>2. wqItem \in Items /\ flags[wqItem] = {"running"}
  BY <1>1 DEF PathInv, TypeOK, PoolConsistent
<1>3. flags' = [flags EXCEPT ![wqItem] = {}]
  BY <1>2 DEF FinishItem, PathInv, TypeOK
<1>4. TypeOK'
  BY <1>1, <1>2, <1>3 DEF PathInv, TypeOK, bootVars, coapVars, outVars
<1>5. PoolConsistent'
  BY <1>1, <1>2, <1>3, PathAssumption DEF PathInv, TypeOK, PoolConsistent, Items
<1>6. \A i \in Items : IsBusy(i)' => IsBusy(i)
  BY <1>2, <1>3 DEF PathInv, TypeOK, IsBusy
<1>7. InitializedBeforeUse' /\ WriterOwnsItem' /\ WrittenBeforeRead'
  BY <1>1, <1>6 DEF PathInv, TypeOK, InitializedBeforeUse, WriterOwnsItem,
     WrittenBeforeRead, bootVars, coapVars
<1> QED BY <1>4, <1>5, <1>7 DEF PathInv

\* Every step of the three threads and of the clock keeps the invariant.
LEMMA PathStepInv == PathInv /\ [PathNext]_pathVars => PathInv'
<1> SUFFICES ASSUME PathInv, [PathNext]_pathVars PROVE PathInv'
  OBVIOUS
<1>1. CASE UNCHANGED pathVars
  BY <1>1 DEF PathInv, TypeOK, PoolConsistent, InitializedBeforeUse, WriterOwnsItem,
     WrittenBeforeRead, IsBusy, pathVars, bootVars, coapVars, poolVars, wqVars, outVars
<1>2. CASE PathNext
  BY <1>2, BootInv, TickInv, GetReadingInv, CoapLocalInv, CopyMsgInv,
     SubmitToQueueInv, TakeItemInv, HandlerInv, FinishItemInv
     DEF PathNext, CoapStep, SubmitStep, WorkStep
<1> QED BY <1>1, <1>2

-----------------------------------------------------------------------------
(* Theorems.                                                               *)

\* In every reachable state the whole invariant holds.
THEOREM PathInvariant == PathSpec => []PathInv
  BY PathInitInv, PathStepInv, PTL DEF PathSpec

\* Every variable of the path keeps its type: ids that fit a node_id buffer,
\* items of the pool, written messages in the message queue.
THEOREM PathTypeCorrect == PathSpec => []TypeOK
  BY PathInvariant, PTL DEF PathInv

\* The flags of the work items, the work queue and the item being handled
\* always tell the same story (ui_update_submit's test for a free item).
THEOREM PathPoolConsistent == PathSpec => []PoolConsistent
  BY PathInvariant, PTL DEF PathInv

\* No item is used before ui_work_queue_init has prepared all of them.
THEOREM PathInitializedBeforeUse == PathSpec => []InitializedBeforeUse
  BY PathInvariant, PTL DEF PathInv

\* The item ui_update_submit copies a message to belongs to no other thread.
THEOREM PathWriterOwnsItem == PathSpec => []WriterOwnsItem
  BY PathInvariant, PTL DEF PathInv

\* No message buffer is read before a message was copied to it.
THEOREM PathWrittenBeforeRead == PathSpec => []WrittenBeforeRead
  BY PathInvariant, PTL DEF PathInv

\* The data of an item is never changed between its submission and the end of
\* its handler.
THEOREM PathDataStable == PathSpec => DataStableWhileBusy
<1>1. PathInv /\ [PathNext]_pathVars
        => [\A i \in Items : IsBusy(i) => data'[i] = data[i]]_pathVars
  <2> SUFFICES ASSUME PathInv, PathNext, NEW i \in Items, IsBusy(i)
               PROVE  data'[i] = data[i]
    OBVIOUS
  <2>1. CASE CopyMsg
    BY <2>1 DEF PathInv, TypeOK, WriterOwnsItem, CopyMsg
  <2>2. CASE ~CopyMsg
    BY <2>2 DEF PathNext, BootStep, InitItem, InitDone, CoapStep, ReceivePost, ReceivePostOf,
       SubmitStep, RefuseNotReady, StartScan, SkipBusyItem, PoolExhausted,
       FindFreeItem, SubmitToQueue, Respond, WorkStep, TakeItem, EnqueueReading,
       DropReading, FinishItem, GetReading, Tick, poolVars
  <2> QED BY <2>1, <2>2
<1> QED BY <1>1, PathInvariant, PTL DEF PathSpec, DataStableWhileBusy
=============================================================================
