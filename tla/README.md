# ZephyrHomeHub: a TLA+ model of the hub and its nodes

ZephyrHomeHub is a home automation system on Zephyr RTOS. Sensor nodes measure
temperatures and send them over CoAP/UDP to a hub, which shows them on a touch
screen. This directory models the parts of it that keep state and run
concurrently, checks them with TLC on small instances and proves the core of
them with TLAPS. Paths below are relative to the repository.

## 1. The system

| Component | Source | State it keeps | Operations |
|---|---|---|---|
| CoAP POST handler | `apps/hub/src/coap_server.c` | its stack | `temp_node_post` for each request, on the thread of Zephyr's CoAP service |
| UI work path | `apps/hub/src/utils.c` | `work_pool[10]`, `work_pool_init`, `ui_work_q`, `temp_data_msgq` (30) | `ui_work_queue_init`, `ui_update_submit`, `ui_update_work_handler`, `temp_data_enqueue` |
| Node table | `apps/hub/src/utils.c`, `main.c` | `nodes[6]`, each with a ring of 60 readings | `get_or_create_node`, the update in the drain loop |
| Main loop and cards | `apps/hub/src/main.c`, `lvgl/lvgl_temperature_tab.c`, `lvgl/lvgl_tabs.c` | boot progress, `last_second`, active tab, `temperature_tab_active`, cards | boot sequence, `k_poll`, clock, drain loop, `lv_task_handler`, `event_tabview_cb` |
| Network start | `config_network.c` of the hub and of both nodes | `sem_ipv4`, `sem_wifi`, the registered callbacks | `network_init`, `network_connect`, `wifi_connect`, `wait_for_ip_addr`, `get_ip_address`, two event callbacks |
| Temperature node | `apps/nodes/temperature_node/src` | `sensor_last_value`, CoAP message id, socket | sensor thread, request loop, reply handling |
| Node identity | `apps/common/utils.c` | none | `get_node_id`: eight hexadecimal digits of the MAC address |
| Settings panel | `apps/hub/src/lvgl/lvgl_settings_tab.c` | the address painted | created once by `init_gui` |
| Static tabs, styles, images | `apps/hub/src/lvgl` | widgets | created once |
| Test scripts | `scripts/*.py` | none | play a node or a hub on a PC |

How they interact. A node's main thread prints the latest sample and sends it
as a confirmable POST. On the hub the request is handled by the **CoAP service
thread**, which stamps a message and copies it into a free item of the work
pool; the **work queue thread** (priority 5) runs the item, which puts the
message into the message queue without waiting; the **main thread** (priority
0) is woken by `k_poll`, takes the messages, stores them in the node table and
paints cards. Nothing is locked: all hand-overs go through the state flags of a
work item and through kernel queues. The CoAP service starts by itself at boot,
so requests are served before main has an IP address or has prepared the pool.
During boot the net_mgmt thread wakes main through two binary semaphores.

What is hard here, and what would make each part correct:

* *Interleaving* of the three hub threads over the item pool: an item that is
  being read is never overwritten, an item always comes back.
* *Order*: readings are stamped early and displayed late; they must not overtake
  each other, or a node's history would run backwards.
* *Bounds*: ten items, thirty messages, six slots, sixty history entries, ten
  bytes of id. Each limit is reached in normal use and has its own policy
  (refuse, drop the newest, refuse, overwrite the oldest, cut).
* *Boot*: events and requests arrive at any point of a boot sequence that waits
  without a timeout.
* *Delivery*: the node neither retransmits nor times out nor compares the reply
  with its request.
* *Restart*: nothing is persistent on the hub, and it may restart with a request
  in hand and nodes in the middle of an exchange.

`PROJECT.json` lists these hazards at the lines where they bite, each with the
properties that cover it or with the reason why none does.

## 2. Modules

| Module | Models | Depends on |
|---|---|---|
| `TempNodePost` | what `temp_node_post` makes of a request (operators only) | |
| `UiWorkPath` | CoAP thread, work queue thread, pool and both queues | `TempNodePost`, refines `ReadingFifo` |
| `ReadingFifo` | abstract: one bounded FIFO that may lose what is beyond its bound | |
| `NodeTable` | the node table | refines `NodeLog` |
| `NodeLog` | abstract: the last readings of each admitted node | |
| `Hub` | main's boot and loop, the cards, the tabs; composes the two above | `UiWorkPath`, `NodeTable` |
| `NetBoot` | network start of the hub, a WiFi node and an Ethernet node | |
| `SensorPayload` | a temperature as text and back (operators only) | |
| `TempNode` | the threads of a node, the hub's answer, a faulty network | `SensorPayload` |
| `HomeHub` | the whole system: nodes, network and hub end to end, with restarts of the hub | `TempNode`, `UiWorkPath`, `NodeTable`; refines `TempNode` |
| `UiWorkPath_proofs`, `UiWorkPathOrder_proofs` | theorems about who owns an item; about order | `UiWorkPath` |
| `NodeTable_proofs`, `NetBoot_proofs`, `SensorPayload_proofs` | theorems about the module of that name | |
| `TempNode_proofs` | theorems about nodes and network | `SensorPayload_proofs` |
| `Hub_proofs` | theorems about main with path and table | instances of `UiWorkPathOrder_proofs` and `NodeTable_proofs` |
| `HomeHub_proofs` | theorems about the whole system | instances of these two and of `TempNode_proofs` |
| `MC*` | small instances for TLC | |

Definitions named "A slip: ..." in a comment are not part of any specification.
Each is a plausible mistake in the operator that follows it; putting it in that
operator's place makes TLC find the property violated that guards against it,
which shows that the property is not vacuous. `PROJECT.json` lists the pairs.

### TempNodePost

`Posted(request, now)` is the *set* of messages the built program may submit.
It is a set because the handler reads memory it never wrote in two cases: an
option shorter than `id=` (the subtraction at `coap_server.c:72` wraps around in
`size_t`, so nine bytes are copied from beyond the option) and a request without
payload (`payload_str` is not initialised). An option that does not fit
`struct coap_option` is an error of `coap_find_options`, which the handler
treats as no option. Names are sequences of a small set of characters; atof is a
constant function.

### UiWorkPath

One action per point at which another thread can see a difference: the scan of
`ui_update_submit` looks at one item per step, the copy and the submission are
separate steps, and so are taking an item, running its handler and marking it
idle. `flags` are the state bits of `k_work`; an item may be submitted again
while its handler is still running only if the scan lets it, so the model allows
the combination and `PoolConsistent` excludes it. `ui_work_queue_init` is
modelled item by item, because requests arrive during it.

`UiWorkPath` has the one caller of `ui_update_submit` that the program has, the
CoAP thread. The comment of the function calls it thread-safe and offers it to
"other threads" as well (`utils.c:114`, `:116`). That is more than the code gives
and more than is shown here: the test of an item (line 132) and its submission
(line 136) are not one step, so a second caller could find the same item free and
overwrite data that is already queued. `WriterOwnsItem` and `DataStableWhileBusy`
hold because there is one caller, and are to be checked again if a second one is
added.

### NodeTable and Hub

Only main touches the table, so one message is one step. `Hub` adds main's
program counter around it: the boot sequence, `k_poll` (which returns on data or
after 10 ms, so it is never blocked), clock, drain loop, `lv_task_handler` with
the tab events. `cards` holds what is *painted*, separately from the table,
because the code repaints a card only at certain moments. The uptime is one
clock, used for stamps, staleness and the clock label.

### NetBoot

One `build` per behaviour: hub, WiFi node, Ethernet node (a node built without
`CONFIG_WIFI`). The network raises events, the net_mgmt thread delivers them one
by one to the callbacks, if they are registered. `sem_wifi` is given by a
successful connection and taken back by a disconnection, but only by one
reported with status 0: the callback takes any other for a request to disconnect
that failed. Which of the two a lost link is reported with is the driver's
affair, so `LoseLink` allows both, and `reasonGiven` remembers whether it was
ever the second. At "waitWifi" main is about to call `k_sem_take` or waits in
it; a main that waits is handed the semaphore at once, which here is the
delivery with `WifiConnected` right after it, so a disconnection in between
means a main that had not called yet. Driver, link and DHCP client are Zephyr's
and modelled from how this code uses them. On the hub the boot ends with
`InitGui`, which paints the settings panel from `unicast[0]` of the interface;
that field is read without a look at whether it is in use, and keeps an address
that is gone.

### TempNode

Two threads per node, datagrams as sets (any order), at most one fault of each
kind: lost, duplicated, failed poll. A request carries its message id, so that
the model can tell a late answer from the right one, although the node cannot.
Temperatures are in thousandths of a degree and go through the real conversion.
The sensor thread may run while main prints: `sprintf` gets sign, whole part and
decimals by three reads of the same variable, so `PrintedTexts(before, after)`
has all mixtures of two samples (a third sample would need 200 ms). The value
itself is one aligned word, which the node's processor writes in one piece, and
its shift never changes; a sample that cannot be decoded is stored as 0, because
the result of `decode` is not looked at. `from` keeps the samples a text was printed from, and
`held` counts the buffers on the heap, because two error paths do not free one.

### HomeHub

`TempNode` has the hub handle a request in one step; `HomeHub` replaces that step
by the path of the request through `UiWorkPath` and `NodeTable`, and shows that
the nodes cannot tell the difference (`NodeViewRefined`): for a node a request is
on its way until it is answered (`posts` and `inHand` together), and a
restart looks like a lost datagram. A request carries an id made by `GetNodeId`
from the bytes of a MAC address. `HubRestart` puts all of the hub's state back to
what it is at power-up. Main is reduced to its boot and its drain loop, which is
one step per message: nobody else sees the table, and `Hub` has the rest.
`journal` (what each node sent) and `hurried` (a node woke up although its last
reading was still inside the hub) are history variables.

## 3. Runs

| Run | Instance | What it shows |
|---|---|---|
| `ui_work_path` | 2 items, 2 messages, uptime 0..1, a node's request and one with neither a whole option nor a payload | the pool is never corrupted; everything between stamp and display is one FIFO (`FifoRefined`), and every item comes back although nobody need drain |
| `node_table` | 3 ids for 2 slots, ring of 3 | slots and ring implement the log (`LogRefined`) |
| `hub` | 1 item, 1 message, 1 slot, a node with two different readings, ring of 2, 2 tabs, uptime 0..1, stale after 0 ms | table, cards, clock and boot agree; while the temperature tab is open no card falls behind |
| `hub_live` | 1 item, 2 messages, 1 slot for 2 ids, thread priorities | the screen never freezes |
| `net_boot` | hub and WiFi node, 6 events, 2 addresses | no wake-up is lost, and none outlives its connection if losses are reported with status 0; a settled network ends the boot; the settings panel shows a leased address |
| `temp_node` | 1 node, 2 requests, 1 fault of each kind, samples -1.05, -0.95 and (not decoded) 0 degrees | which promise survives which fault; how far off a mixed text can be; no buffer is lost between reports |
| `home_hub` | 2 nodes (one with a sensor) with 2 and 1 reports, ids of 8 and buffers of 10 characters as in the code, 2 items, 2 messages, 2 slots, ring of 2, one trouble: a lost datagram, a node that quits, or a restart of the hub | each history holds its own node's readings in order; no reading of a patient node is refused; the nodes see the hub of `TempNode`; a node appears, also after a restart |
| `stale_cards` | uptime 0..3, threshold 1 | **violated**: a silent node's card never turns red |
| `cards_named_after_nodes` | two ids one character too long | **violated**: their nodes share a card without a name |
| `wifi_connect_returns` | WiFi node, 2 events | **violated**: a failed connection blocks `wifi_connect` |
| `wifi_connect_succeeds` | WiFi node, 2 events | **violated**: `wifi_connect` returns 0 for a node that is not connected, because a link lost with a reason leaves the semaphore given |
| `ethernet_node_boots` | Ethernet node | **violated**: nobody starts DHCP |

The violated ones compare the code with a sentence of the repository's
documents; `findings` in `PROJECT.json` quotes it. Two more disagreements can be
read off the code and have no run: the one about "other threads" above, and
"COAP_RESPONSE_CODE_CREATED on success" (`coap_server.c:54`), which
`temp_node_post` also answers to a reading that `ui_update_submit` refused. In
passing, `temp_node` shows limits that no document contradicts: `AnswerOnItsWay`
and `KeepsReporting` are stated for runs without loss, because one lost datagram
stops a node for ever, and `StopAndWait` and `HubGoesForward` for runs without
duplication and without a failed poll, because the node takes any reply for the
right one.

Why the bounds are enough. Every limit of the code is a constant that the
instances make smaller than the traffic: pool and queue fill up, requests are
refused and messages dropped, the table is full when another node comes, the
ring wraps around. Two items are enough to see one being filled while the other
runs and to tell the order of a queue; with `hub` the questions about the pool
are settled and one item suffices. Two or three different times are enough for
"older" and "newer", and the order of more follows pairwise. Six network events
hold a failed attempt, a successful one, a disconnection and two addresses; two
are enough for a link that comes and goes before main waits. Two
nodes share nothing but the budget of faults, so one node is enough in
`temp_node`; two requests are enough for one answer to be taken for the next.
Two of its samples are less than a degree apart with different whole parts, which
is where a mixed text is furthest off; the third is the 0 of a sample not decoded. In `home_hub` two nodes compete for
every bounded part of the hub, and one node's two reports can be inside it
together; one trouble at any point is enough to see what it leaves behind. The
clock stands still there: the order of stamps is settled by `hub`. `hub` itself
has one node with two readings, so that an old card can be told from a new one;
two nodes for one slot are in `node_table` and `hub_live`.

`CHECK_DEADLOCK FALSE` stands where a bound stops the model (uptime, requests,
events) or where the program stops (a node that quits).

## 4. Fairness

* `PathFairSpec`: the boot, the request in hand and the work queue thread go on
  when they can. Main blocks in `k_poll` in every round, so lower priorities get
  their turn. Sending requests and draining the queue are *not* fair.
* `HubFairSpec` adds main's boot and loop and the clock. Obtaining an address is
  not fair.
* `HubPrioritySpec` is used for `hub_live`: the work queue thread (priority 5)
  cannot run while main (priority 0) is runnable, on the single core of the
  hub's board. Without it `UiKeepsRunning` would be false: a work queue thread
  of equal rank could refill the queue for ever.
  The CoAP thread's priority depends on Zephyr's configuration, so it is left
  free to run at any point.
* `NetBoot!FairSpec`: main, the net_mgmt thread and the DHCP client on a link
  that is up. Nothing is promised of the access point.
* `TempNode!FairSpec`: main of the node, the hub's answer and the arrival of what
  is not lost. Sensor thread and faults are not fair.
* `HomeFairSpec`: the threads of the hub run (boot, CoAP thread with a request in
  hand, work queue thread, drain loop), as in `HubFairSpec`. Nodes and network
  promise nothing, so `NodeAppears` speaks of requests that have arrived.

## 5. Proofs

Proved with TLAPS, for every value of the constants that the assumptions below
allow. Each component has an inductive invariant of its own; a composition takes
over those of its parts and adds what ties them together. `PROJECT.json` lists
the theorems with the properties of the runs they state.

### Path: `UiWorkPath_proofs`, `UiWorkPathOrder_proofs`

The inductive invariant `PathInv` is the conjunction of `TypeOK`,
`PoolConsistent`, `InitializedBeforeUse`, `WriterOwnsItem` and
`WrittenBeforeRead`. None of the last three is inductive alone: that the chosen
item stays free needs "queued exactly when in the queue", so that `TakeItem`
cannot take the chosen one; that `InitItem` frees no busy item needs "busy items
are initialised"; that the handler enqueues a message needs "busy items hold
one". There is one lemma per group of actions (`SubmitToQueueInv`,
`TakeItemInv`, ...). That messages fit their buffers rests on `CopyLenBounds` and
`ExtractedIdsFit`, which cover the wrapped subtraction. `PathDataStable` is an
action property and follows from ownership.

`PathFifoRefined` shows step by step that what is in flight (message queue, the
item the handler is called with, work queue) behaves as one `ReadingFifo`:
submitting appends, taking an item and enqueuing its message change nothing,
dropping removes the message that stands right behind the full queue. Two facts
carry it: `PathQueueBounded`, and `RoomInPool`, a pigeonhole argument (an item
that is free leaves room, since the waiting items are different items). On top,
`PathTimestampsOrdered` says that the messages taken last, in flight and stamped
but not submitted (`Journey`) are together chronological; a message dropped out
of the middle leaves the rest so.

### Table: `NodeTable_proofs`

`TableInv` is `TypeOK`, `SlotsWellFormed` and `RingWellFormed`. The arithmetic of
the ring is in `NextHead` and `BeforeNextHead` (the entry before the next head is
the one just written), the shape of a stored node in `StoredShape`, and "the
first free slot comes right after the used ones" in `FirstFreeIsNext`.

`TableLogRefined` shows that the table implements `NodeLog`. `StoredIsLatest` is
the lemma about rings: storing a reading makes the chronicle the latest
`HISTORY_SIZE` of the old one with the reading appended, in the three cases of a
ring that is filling, gets full and is full. `AdmittedInSlots` counts: the ids
admitted are as many as the slots used, so the log is full when the table is.

### Network start: `NetBoot_proofs`

For every set of builds and number of events. `BootInv` is
`TypeOK`, `Quiet`, `LinkAnnounced` and `AddressAnnounced`. Once the callbacks are
registered every event reaches them; `Quiet` covers the time before: nothing is
attempted or requested, so there is no event that the callbacks could miss, and
`NoEventBeforeCallbacks` is part of it. `WakeUpsArrive` alone is not inductive: a
connect event that is still to be delivered helps only if no disconnection comes
after it, so `LinkAnnounced` adds that the connection is the last word on the
link. `BootNoStaleWakeUp` is about the converse, as long as no loss was reported
with a reason: `EndAnnounced` says that a semaphore that is given, or an event
about to give it, has a link that is up or a disconnection behind it. Without that
condition the run `wifi_connect_succeeds` refutes it.
`BootPanelShowsLease` has an invariant of its own on top of `BootInv`
(`LeaseInv`): as long as `unicast[0]` is empty there is no address event,
delivered or not, and main has not got past its semaphore.

### Nodes: `SensorPayload_proofs`, `TempNode_proofs`

`SensorPayload_proofs` holds what the conversion of a temperature does for every
integer: what survives the text (`TextKeepsParts`) and how far off a text mixed
from two samples can be (`TornTextIsNear`).

`NodeInv` adds three things to the properties of `TempNode`. `FinitelyMany`:
datagrams are finite sets, so that they can be counted. `ReplyWaits`: in a
faultless exchange a node that was woken by poll has the reply in its socket, and
the hub shows nothing newer than its last request. `TextsPrinted`: every text, in
a request or shown, was printed from two samples. `StopAndWait` is inductive with
`ReplyWaits`; the proof counts the datagrams of one node (`Open`, `OnlyOne`). That
a node cannot send a second time while one is open rests on the part about
"start", "send" and "sleep". A duplicated datagram or a failed poll breaks it,
which is why its premise excludes both. `NodeHubGoesForward` follows from it.

### Main: `Hub_proofs`

`HubInv` is `PathInv`, `TableInv`, the type of main's own variables (`OwnType`),
`BootOrder` (the pool is ready before main's loop runs, and the table empty until
then), `CardsMatchTable` and `ReadingsInOrder`: no reading that is still on its way
is older than what a slot shows, and each ring is chronological. The lemmas
named `Same...` say that the actions of the instances of `UiWorkPath` and
`NodeTable` are those their proofs speak about; all but main's own steps are
then covered by the components' theorems. `HubOpenTabKeepsUp` compares the cards
before and after a step and follows from `CardsMatchTable` and the boot order.

### Whole system: `HomeHub_proofs`

`HomeInv` consists of the three components' invariants (nodes, path, table;
every step of the system is a step of each, or a restart, which makes path and
table begin again) and of the thread that connects them:

* `Fresh`: no two requests on their way are the same, so the one in hand is not
  also in the network. Needed to see the hub as `TempNode` does.
* `Journaled`, `HandOver`: a request carries a text its node has sent, and the
  CoAP thread hands over exactly the id and the value of the request in hand
  (`PostedReading`: what `temp_node_post` makes of a node's request is one
  message, because an option and a `node_id` have room for it).
* `AllOwned`: each reading under an id, in the ring of its slot or still inside
  the hub, is a text of the node with that id. `OwnReadings` follows.
* `SentInOrder`: without duplicates and poll errors, the readings under an id
  *fit* what its node sent: there are increasing positions in the journal. A
  reading that is refused, dropped or overwritten only takes one away
  (`FitsDrawn`, `StoreDraws`), and a new one is appended with the position of the
  last text (`FitsAppend`), for which the exchange must be stop-and-wait
  (`OneRequest`). `EndToEndOrder` follows.

`HomeNodeViewRefined` needs `Fresh` and `TypeOK`: answering a request is
`TempNode`'s one step of the hub, a restart its loss of a datagram, everything
else inside the hub a step that no node sees. `NodeIdsDiffer` shows that
`get_node_id` gives different nodes different ids.

`HomeNothingRefused` counts the readings inside the hub by nodes, under
`RoomForAll`: pool, queue and table have at least as many places as there are
nodes (in the code 10, 30 and 6; the README promises 6 nodes). Its invariant
`RoomInv` adds to `HomeInv`, for nodes that sleep long enough, that a node which
is about to send has nothing in the hub (`NothingBehind`), so that no two items
and no two messages are of one node (`ItemsApart`, `MessagesApart`). The scan of
`ui_update_submit` looks at one item after the other while the work queue thread
sets them free, so all being busy when it looks does not mean that all are busy
at once; `Held` therefore counts the items already looked at. An item freed
behind the scan still names a node that cannot have got another reading in,
because that would need the CoAP thread. One pigeonhole lemma (`FewerThanNodes`)
then serves `PoolHasRoom`, `QueueHasRoom` and `TableHasRoom`.

### Assumptions

All are checked by TLC on the instances of the runs.

* `PostAssumption`, `PathAssumption`, `TableAssumption`, `NetAssumption`,
  `NodeAssumption`: buffers have at least one place, times and ids are of the
  right kind, the values that stand for "none" are not values.
* `HubAssumption`, `HomeAssumption`: the same for main; devices differ in the last
  four bytes of their addresses (the code uses no more of it).
* `HubComponents`, `HomeComponents`: the constants given to the instances satisfy
  the components' assumptions, and in `HomeHub` an option value and a `node_id`
  have room for an id, as in the code (`NODE_ID_LEN` is 10).

### Only model-checked

The liveness properties (`ItemsComeBack`, `UiKeepsRunning`, `AddressEndsBoot`,
`KeepsReporting`, `NodeAppears`), because fairness is out of the
prover's reach. All other properties of the passing runs are theorems.

## 6. Not modelled

Humidity (the handler always stores -1), pressure, layout, colours other than
the stale red, logging, the gateway label of the settings panel (made like the
address label), `wifi_disconnect` and `init_coap_server` (called by nobody), the
contents of styles and images, and the planned camera and voice nodes, which have
no code. The test scripts appear only as senders of ids that are too long. The
constants of `prj.conf` appear as what they switch on or off (WiFi, automatic
DHCP). A restart of a node is not modelled: it would begin a new exchange with a
new socket, which the hub cannot tell from another node that sends the same id.

## 7. Plan

1. Core of the hub: `UiWorkPath`, `NodeTable`, `Hub`, with proofs of the first
   two. *Done.*
2. The edges: `NetBoot` with the settings panel, `TempNode` with the torn print
   and the heap. *Done.*
3. The composition `HomeHub` with restarts of the hub. *Done.*
4. Proofs of all components and of both compositions, with the three
   refinements and `NothingRefused`: every safety property. *Done.*
5. Left: the liveness properties stay with TLC. What a further proof could add
   is the bound behind `NodeAppears` (how many steps of the hub's threads take a
   submitted reading to the table), as a safety property of a variant.
