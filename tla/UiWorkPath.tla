----------------------------- MODULE UiWorkPath -----------------------------
(***************************************************************************)
(* The way of a reading from the CoAP socket to the display loop of the    *)
(* hub: three threads and two bounded buffers.                             *)
(*                                                                         *)
(*   CoAP service thread   temp_node_post -> ui_update_submit              *)
(*        | work_pool[i], handed over to ui_work_q                         *)
(*   work queue thread     ui_update_work_handler -> temp_data_enqueue     *)
(*        | temp_data_msgq                                                 *)
(*   main thread           k_msgq_get in the LVGL loop                     *)
(*                                                                         *)
(* The CoAP service starts by itself at boot (COAP_SERVICE_AUTOSTART), so  *)
(* requests arrive before main has called ui_work_queue_init.  Each action *)
(* is what one thread does between two points where another can preempt    *)
(* it and see the difference.                                              *)
(***************************************************************************)
EXTENDS TempNodePost, FiniteSets

CONSTANTS
    Requests,             \* the requests a client may send
    UI_WORK_POOL_SIZE,
    TEMP_MSG_QUEUE_SIZE,
    MaxTime,              \* bound: the uptime stops there
    NoMsg,                \* contents of a message buffer never written
    NoItem                \* the work queue thread runs no item

ASSUME PathAssumption ==
    /\ UI_WORK_POOL_SIZE \in Nat \ {0}
    /\ TEMP_MSG_QUEUE_SIZE \in Nat \ {0}
    /\ MaxTime \in Nat
    /\ \A r \in Requests :
         /\ r.query # NoQuery => r.query \in Seq(Chars)
         /\ r.payload \in Texts \union {NoPayload}
    /\ NoItem \notin Nat

VARIABLES
    poolReady,  \* work_pool_init
    inited,     \* how many work items k_work_init has prepared
    coapPc,     \* where the CoAP service thread is
    msg,        \* msg of temp_node_post, on the CoAP thread's stack
    slot,       \* i of the loop in ui_update_submit
    ret,        \* what ui_update_submit returned for the last request
    response,   \* the response code of the last request
    flags,      \* the state flags of each item's k_work; none: it is idle
    data,       \* work_pool[i].data
    pending,    \* the items ui_work_q holds, oldest first
    wqPc,       \* where the work queue thread is
    wqItem,     \* the item it runs
    msgq,       \* temp_data_msgq
    got,        \* msg of main, the last message k_msgq_get returned
    now         \* k_uptime_get()

bootVars == <<poolReady, inited>>
coapVars == <<coapPc, msg, slot, ret, response>>
poolVars == <<flags, data, pending>>
wqVars   == <<wqPc, wqItem>>
outVars  == <<msgq, got>>
pathVars == <<bootVars, coapVars, poolVars, wqVars, outVars, now>>

Items == 0..(UI_WORK_POOL_SIZE - 1)
IsBusy(i) == flags[i] # {}   \* k_work_busy_get(&work_pool[i].work) != 0
Times == 0..MaxTime
Msgs  == [id : NodeIds, temp : Temps, time : Times]

TypeOK ==
    /\ poolReady \in BOOLEAN
    /\ inited \in 0..UI_WORK_POOL_SIZE
    /\ coapPc \in {"idle", "submit", "scan", "copy", "queue", "respond"}
    /\ msg \in Msgs \union {NoMsg}
    /\ slot \in Items
    /\ ret \in {"none", "OK", "EINVAL", "ENOMEM"}
    /\ response \in {"none", "CREATED"}
    /\ flags \in [Items -> SUBSET {"queued", "running"}]
    /\ data \in [Items -> Msgs \union {NoMsg}]
    /\ pending \in Seq(Items)
    /\ wqPc \in {"wait", "call", "done"}
    /\ wqItem \in Items \union {NoItem}
    /\ msgq \in Seq(Msgs)
    /\ got \in Msgs \union {NoMsg}
    /\ now \in Times

PathInit ==
    /\ poolReady = FALSE /\ inited = 0
    /\ coapPc = "idle" /\ msg = NoMsg /\ slot = 0
    /\ ret = "none" /\ response = "none"
    /\ flags = [i \in Items |-> {}]
    /\ data = [i \in Items |-> NoMsg]
    /\ pending = <<>> /\ wqPc = "wait" /\ wqItem = NoItem
    /\ msgq = <<>> /\ got = NoMsg
    /\ now = 0

-----------------------------------------------------------------------------
(* main: ui_work_queue_init.                                               *)

InitItem ==
    /\ inited < UI_WORK_POOL_SIZE
    /\ flags' = [flags EXCEPT ![inited] = {}]
    /\ inited' = inited + 1
    /\ UNCHANGED <<poolReady, coapVars, data, pending, wqVars, outVars, now>>

\* A slip: the flag is set before the items are prepared.
InitDoneTooEarly ==
    /\ ~poolReady
    /\ poolReady' = TRUE
    /\ UNCHANGED <<inited, coapVars, poolVars, wqVars, outVars, now>>

InitDone ==
    /\ ~poolReady
    /\ inited = UI_WORK_POOL_SIZE
    /\ poolReady' = TRUE
    /\ UNCHANGED <<inited, coapVars, poolVars, wqVars, outVars, now>>

-----------------------------------------------------------------------------
(* CoAP service thread: temp_node_post, and ui_update_submit in it.        *)

ReceivePostOf(r) ==
    /\ coapPc = "idle"
    /\ msg' \in Posted(r, now)
    /\ coapPc' = "submit"
    /\ UNCHANGED <<slot, ret, response, bootVars, poolVars, wqVars, outVars, now>>

ReceivePost == \E r \in Requests : ReceivePostOf(r)

RefuseNotReady ==
    /\ coapPc = "submit"
    /\ ~poolReady
    /\ ret' = "EINVAL"
    /\ coapPc' = "respond"
    /\ UNCHANGED <<msg, slot, response, bootVars, poolVars, wqVars, outVars, now>>

\* A slip: the scan starts without looking at work_pool_init.
StartScanUnchecked ==
    /\ coapPc = "submit"
    /\ slot' = 0
    /\ coapPc' = "scan"
    /\ UNCHANGED <<msg, ret, response, bootVars, poolVars, wqVars, outVars, now>>

\* A slip: the loop begins with the second item.
StartScanAtOne ==
    /\ coapPc = "submit"
    /\ poolReady
    /\ slot' = 1
    /\ coapPc' = "scan"
    /\ UNCHANGED <<msg, ret, response, bootVars, poolVars, wqVars, outVars, now>>

StartScan ==
    /\ coapPc = "submit"
    /\ poolReady
    /\ slot' = 0
    /\ coapPc' = "scan"
    /\ UNCHANGED <<msg, ret, response, bootVars, poolVars, wqVars, outVars, now>>

\* A slip: the loop runs to i <= UI_WORK_POOL_SIZE.
SkipBusyItemTooFar ==
    /\ coapPc = "scan"
    /\ IsBusy(slot)
    /\ slot' = slot + 1
    /\ UNCHANGED <<coapPc, msg, ret, response, bootVars, poolVars, wqVars, outVars, now>>

SkipBusyItem ==
    /\ coapPc = "scan"
    /\ IsBusy(slot)
    /\ slot + 1 < UI_WORK_POOL_SIZE
    /\ slot' = slot + 1
    /\ UNCHANGED <<coapPc, msg, ret, response, bootVars, poolVars, wqVars, outVars, now>>

PoolExhausted ==
    /\ coapPc = "scan"
    /\ IsBusy(slot)
    /\ slot + 1 = UI_WORK_POOL_SIZE
    /\ ret' = "ENOMEM"
    /\ coapPc' = "respond"
    /\ UNCHANGED <<msg, slot, response, bootVars, poolVars, wqVars, outVars, now>>

\* A slip: an item whose handler is running counts as free.
FindFreeItemUnqueued ==
    /\ coapPc = "scan"
    /\ "queued" \notin flags[slot]
    /\ coapPc' = "copy"
    /\ UNCHANGED <<msg, slot, ret, response, bootVars, poolVars, wqVars, outVars, now>>

\* A slip: the work is submitted before the message is copied.
FindFreeItemNoCopy ==
    /\ coapPc = "scan"
    /\ ~IsBusy(slot)
    /\ coapPc' = "queue"
    /\ UNCHANGED <<msg, slot, ret, response, bootVars, poolVars, wqVars, outVars, now>>

FindFreeItem ==
    /\ coapPc = "scan"
    /\ ~IsBusy(slot)
    /\ coapPc' = "copy"
    /\ UNCHANGED <<msg, slot, ret, response, bootVars, poolVars, wqVars, outVars, now>>

CopyMsg ==
    /\ coapPc = "copy"
    /\ data' = [data EXCEPT ![slot] = msg]
    /\ coapPc' = "queue"
    /\ UNCHANGED <<msg, slot, ret, response, flags, pending, bootVars, wqVars, outVars, now>>

\* A slip: the newest item is handled first.
SubmitToQueueFront ==
    /\ coapPc = "queue"
    /\ flags' = [flags EXCEPT ![slot] = @ \union {"queued"}]
    /\ pending' = <<slot>> \o pending
    /\ ret' = "OK"
    /\ coapPc' = "respond"
    /\ UNCHANGED <<msg, slot, response, data, bootVars, wqVars, outVars, now>>

\* k_work_submit_to_queue: an item that is already queued is left where it is.
SubmitToQueue ==
    /\ coapPc = "queue"
    /\ flags' = [flags EXCEPT ![slot] = @ \union {"queued"}]
    /\ pending' = IF "queued" \in flags[slot] THEN pending
                   ELSE Append(pending, slot)
    /\ ret' = "OK"
    /\ coapPc' = "respond"
    /\ UNCHANGED <<msg, slot, response, data, bootVars, wqVars, outVars, now>>

Respond ==
    /\ coapPc = "respond"
    /\ response' = "CREATED"
    /\ coapPc' = "idle"
    /\ UNCHANGED <<msg, slot, ret, bootVars, poolVars, wqVars, outVars, now>>

-----------------------------------------------------------------------------
(* Work queue thread: take an item, run its handler, mark it idle again.   *)

TakeItem ==
    /\ wqPc = "wait"
    /\ pending # <<>>
    /\ wqItem' = Head(pending)
    /\ pending' = Tail(pending)
    /\ flags' = [flags EXCEPT ![Head(pending)] = (@ \ {"queued"}) \union {"running"}]
    /\ wqPc' = "call"
    /\ UNCHANGED <<data, bootVars, coapVars, outVars, now>>

\* ui_update_work_handler: temp_data_enqueue does not wait for room.
EnqueueReading ==
    /\ wqPc = "call"
    /\ Len(msgq) < TEMP_MSG_QUEUE_SIZE
    /\ msgq' = Append(msgq, data[wqItem])
    /\ wqPc' = "done"
    /\ UNCHANGED <<wqItem, got, bootVars, coapVars, poolVars, now>>

\* A slip: a full queue makes room by giving up its oldest message.
DropOldest ==
    /\ wqPc = "call"
    /\ Len(msgq) >= TEMP_MSG_QUEUE_SIZE
    /\ msgq' = Append(Tail(msgq), data[wqItem])
    /\ wqPc' = "done"
    /\ UNCHANGED <<wqItem, got, bootVars, coapVars, poolVars, now>>

\* A slip: k_msgq_put waits for room (K_FOREVER instead of K_NO_WAIT).
WaitForRoom ==
    /\ wqPc = "call"
    /\ Len(msgq) >= TEMP_MSG_QUEUE_SIZE
    /\ UNCHANGED pathVars

DropReading ==
    /\ wqPc = "call"
    /\ Len(msgq) >= TEMP_MSG_QUEUE_SIZE
    /\ wqPc' = "done"
    /\ UNCHANGED <<wqItem, outVars, bootVars, coapVars, poolVars, now>>

FinishItem ==
    /\ wqPc = "done"
    /\ flags' = [flags EXCEPT ![wqItem] = @ \ {"running"}]
    /\ wqItem' = NoItem
    /\ wqPc' = "wait"
    /\ UNCHANGED <<data, pending, bootVars, coapVars, outVars, now>>

-----------------------------------------------------------------------------
(* main: k_msgq_get in the LVGL loop, which only starts when               *)
(* ui_work_queue_init has returned.                                        *)

GetReading ==
    /\ poolReady
    /\ msgq # <<>>
    /\ got' = Head(msgq)
    /\ msgq' = Tail(msgq)
    /\ UNCHANGED <<bootVars, coapVars, poolVars, wqVars, now>>

Tick ==
    /\ now < MaxTime
    /\ now' = now + 1
    /\ UNCHANGED <<bootVars, coapVars, poolVars, wqVars, outVars>>

BootStep == InitItem \/ InitDone
SubmitStep == \/ RefuseNotReady \/ StartScan \/ SkipBusyItem \/ PoolExhausted
              \/ FindFreeItem \/ CopyMsg \/ SubmitToQueue \/ Respond
CoapStep == ReceivePost \/ SubmitStep
WorkStep == TakeItem \/ EnqueueReading \/ DropReading \/ FinishItem

PathNext == BootStep \/ CoapStep \/ WorkStep \/ GetReading \/ Tick

PathSpec == PathInit /\ [][PathNext]_pathVars

\* Each thread that can run does run: main blocks in every round of its loop
\* (k_poll), the work queue thread between two items, and no thread waits for
\* a lower one.  Nobody has to send a request, and nobody has to drain.
PathFairSpec == PathSpec /\ WF_pathVars(BootStep) /\ WF_pathVars(SubmitStep)
                         /\ WF_pathVars(WorkStep)
-----------------------------------------------------------------------------
(* Safety.                                                                 *)

\* The pool's three views of an item agree: it is in the work queue exactly
\* when it is flagged queued, and only once; it is the one being handled
\* exactly when it is flagged running; it is never both.  The scan of
\* ui_update_submit relies on this when it takes "not busy" for "free".
PoolConsistent ==
    /\ \A j, k \in 1..Len(pending) : pending[j] = pending[k] => j = k
    /\ \A i \in Items :
        /\ "queued" \in flags[i] <=> \E k \in 1..Len(pending) : pending[k] = i
        /\ "running" \in flags[i] <=> wqItem = i
        /\ flags[i] # {"queued", "running"}
    /\ wqPc = "wait" <=> wqItem = NoItem

\* No item is handed to a work queue before k_work_init gave it its handler,
\* although requests are served from boot on.
InitializedBeforeUse ==
    /\ poolReady => inited = UI_WORK_POOL_SIZE
    /\ \A i \in Items : IsBusy(i) => i < inited
    /\ coapPc \in {"scan", "copy", "queue"} => poolReady

\* Between the scan and the submission nobody else owns the chosen item: the
\* CoAP thread fills data the work queue thread is not reading.
WriterOwnsItem == coapPc \in {"copy", "queue"} => ~IsBusy(slot)

\* No buffer is read before it was written: neither the message the CoAP
\* thread is handing over nor the data of an item that is handed over.
WrittenBeforeRead ==
    /\ coapPc \notin {"idle", "respond"} => msg \in Msgs
    /\ coapPc = "queue" => data[slot] = msg
    /\ \A i \in Items : IsBusy(i) => data[i] \in Msgs

\* A submitted reading is not touched until its handler has finished with it.
DataStableWhileBusy ==
    [][\A i \in Items : IsBusy(i) => data'[i] = data[i]]_pathVars

\* The readings on their way, oldest first: those in temp_data_msgq, the one
\* the running handler has still to put there, and those in the work queue.
InFlight ==
    msgq \o (IF wqPc = "call" THEN <<data[wqItem]>> ELSE <<>>)
         \o [k \in 1..Len(pending) |-> data[pending[k]]]

\* The reading temp_node_post has stamped and not yet handed over.
Stamped == IF coapPc \in {"submit", "scan", "copy", "queue"} THEN <<msg>> ELSE <<>>

\* Readings keep the order of their timestamps from the stamp to the display
\* loop, and none comes from the future.
TimestampsOrdered ==
    LET q == (IF got = NoMsg THEN <<>> ELSE <<got>>) \o InFlight \o Stamped
    IN  \A j \in 1..Len(q) :
            /\ q[j].time <= now
            /\ \A k \in 1..j : q[k].time <= q[j].time

\* Pool, work queue and message queue together are one bounded queue that
\* keeps the order, duplicates nothing and loses a reading only if
\* TEMP_MSG_QUEUE_SIZE others are ahead of it.
Fifo == INSTANCE ReadingFifo WITH
            Readings <- Msgs, Nothing <- NoMsg, Queue <- TEMP_MSG_QUEUE_SIZE,
            Pool <- UI_WORK_POOL_SIZE, chan <- InFlight, taken <- got
FifoRefined == Fifo!FifoSpec

-----------------------------------------------------------------------------
(* Liveness.                                                               *)

\* No item of the pool leaks: whatever is submitted is handled and the item
\* is free again, whether or not the display loop drains the queue.
ItemsComeBack == \A i \in Items : IsBusy(i) ~> ~IsBusy(i)
=============================================================================
