-------------------------------- MODULE Hub --------------------------------
(***************************************************************************)
(* The hub application: main (apps/hub/src/main.c) boots, then runs the    *)
(* LVGL loop, in which it drains the message queue into the node table and *)
(* paints the node cards.  The module composes UiWorkPath (CoAP thread,    *)
(* work queue thread, buffers) and NodeTable (the table main fills), and   *)
(* adds what main and the LVGL event callbacks keep: the boot sequence,    *)
(* the clock label, the active tab, the cards.                             *)
(***************************************************************************)
EXTENDS Integers, Sequences, FiniteSets

CONSTANTS
    Chars, Texts, Temps, AtoF, NODE_ID_LEN, OPTION_VALUE_LEN, SIZE_MOD,
    NoQuery, NoPayload,                                \* of TempNodePost
    Requests, UI_WORK_POOL_SIZE, TEMP_MSG_QUEUE_SIZE, MaxTime,
    NoMsg, NoItem,                                     \* of UiWorkPath
    MAX_NODES, HISTORY_SIZE, ZeroTemp, NoNode,         \* of NodeTable
    STALE_DATA_THRESHOLD_MS,
    MS_PER_SECOND,
    Tabs,                  \* tabs of the tabview
    TAB_WELCOME,           \* the tab shown first
    TAB_TEMPERATURE,       \* the tab with the node cards
    Blank,                 \* "--.-", the text of a temperature label at first
    NoCard                 \* card = NULL

ASSUME HubAssumption ==
    /\ STALE_DATA_THRESHOLD_MS \in Nat
    /\ MS_PER_SECOND \in Nat \ {0}
    /\ {TAB_WELCOME, TAB_TEMPERATURE} \subseteq Tabs
    /\ TAB_WELCOME # TAB_TEMPERATURE
    /\ Blank \notin Temps
    /\ NoCard \notin [temp : Temps \union {Blank}, red : BOOLEAN]

VARIABLES
    poolReady, inited, coapPc, msg, slot, ret, response,
    flags, data, pending, wqPc, wqItem, msgq, got, now,     \* of UiWorkPath
    nodes, node,                                            \* of NodeTable
    mainPc,                   \* where the main thread is
    lastSecond,               \* last_second, what the clock label shows
    activeTab,                \* lv_tabview_get_tab_active(tabview)
    temperature_tab_active,
    cards,                    \* nodes[s].card and what is painted on it
    noNodesHidden             \* no_nodes_label has LV_OBJ_FLAG_HIDDEN

Path == INSTANCE UiWorkPath
Table == INSTANCE NodeTable WITH
            Ids <- Path!NodeIds, Times <- Path!Times, EmptyId <- <<>>

\* The constants are as the two components want them.
ASSUME HubComponents ==
    /\ Path!PostAssumption /\ Path!PathAssumption /\ Table!TableAssumption
    /\ NoMsg \notin Path!Msgs

pathVars == <<poolReady, inited, coapPc, msg, slot, ret, response, flags, data,
              pending, wqPc, wqItem, msgq, got, now>>
tableVars == <<nodes, node>>
guiVars  == <<lastSecond, activeTab, temperature_tab_active, cards, noNodesHidden>>
hubVars  == <<pathVars, tableVars, mainPc, guiVars>>

Slots == Table!Slots
Cards == [temp : Temps \union {Blank}, red : BOOLEAN]

TypeOK ==
    /\ Path!TypeOK
    /\ Table!TypeOK
    /\ mainPc \in {"boot", "waitIp", "workq", "poll", "clock", "drain", "store",
                   "lvgl", "quit"}
    /\ lastSecond \in Path!Times \union {-1}
    /\ activeTab \in Tabs
    /\ temperature_tab_active \in BOOLEAN
    /\ cards \in [Slots -> Cards \union {NoCard}]
    /\ noNodesHidden \in BOOLEAN

HubInit ==
    /\ Path!PathInit
    /\ Table!TableInit
    /\ mainPc = "boot"
    /\ lastSecond = -1
    /\ activeTab = TAB_WELCOME
    /\ temperature_tab_active = FALSE
    /\ cards = [s \in Slots |-> NoCard]
    /\ noNodesHidden = FALSE

-----------------------------------------------------------------------------
(* main: the boot sequence.                                                *)

\* device_is_ready(display_dev), network_init, network_connect.
StartNetwork ==
    /\ mainPc = "boot"
    /\ mainPc' \in {"waitIp", "quit"}
    /\ UNCHANGED <<pathVars, tableVars, guiVars>>

\* wait_for_ip_addr returns: an IPv4 address was added.
GotIpAddress ==
    /\ mainPc = "waitIp"
    /\ mainPc' = "workq"
    /\ UNCHANGED <<pathVars, tableVars, guiVars>>

UiWorkQueueInit ==
    /\ mainPc = "workq"
    /\ Path!BootStep
    /\ UNCHANGED <<tableVars, mainPc, guiVars>>

\* init_gui: the tabview shows the first tab, and no event was sent for it.
InitGui ==
    /\ mainPc = "workq"
    /\ poolReady
    /\ mainPc' = "poll"
    /\ UNCHANGED <<pathVars, tableVars, guiVars>>

-----------------------------------------------------------------------------
(* main: one round of the LVGL loop.                                       *)

\* A slip: the poll has no timeout.
PollForever ==
    /\ mainPc = "poll"
    /\ msgq # <<>>
    /\ mainPc' = "clock"
    /\ UNCHANGED <<pathVars, tableVars, guiVars>>

\* k_poll returns when temp_data_msgq has data, or after 10 ms.
Poll ==
    /\ mainPc = "poll"
    /\ mainPc' = "clock"
    /\ UNCHANGED <<pathVars, tableVars, guiVars>>

UpdateClock ==
    /\ mainPc = "clock"
    /\ lastSecond' = now \div MS_PER_SECOND
    /\ mainPc' = "drain"
    /\ UNCHANGED <<pathVars, tableVars, activeTab, temperature_tab_active, cards,
                   noNodesHidden>>

DrainOne ==
    /\ mainPc = "drain"
    /\ Path!GetReading
    /\ mainPc' = "store"
    /\ UNCHANGED <<tableVars, guiVars>>

DrainEmpty ==
    /\ mainPc = "drain"
    /\ msgq = <<>>
    /\ mainPc' = "lvgl"
    /\ UNCHANGED <<pathVars, tableVars, guiVars>>

NewCard == [temp |-> Blank, red |-> FALSE]   \* create_node_widgets

\* update_node_display: the label and the colour for the node as it is now.
Painted(n) == [temp |-> n.current_temp,
               red |-> now - n.last_update_time > STALE_DATA_THRESHOLD_MS]

\* A slip: a node gets its card only while its tab is open.
HandleReadingLateCard ==
    /\ mainPc = "store"
    /\ Table!StoreReading(got)
    /\ IF node' = NoNode \/ ~temperature_tab_active
       THEN UNCHANGED <<cards, noNodesHidden>>
       ELSE /\ noNodesHidden' = TRUE
            /\ cards' = [cards EXCEPT ![node'] = Painted(nodes'[node'])]
    /\ mainPc' = "drain"
    /\ UNCHANGED <<pathVars, lastSecond, activeTab, temperature_tab_active>>

\* A slip: the reading gets the time of its display, not of its arrival.
HandleReadingRestamped ==
    /\ mainPc = "store"
    /\ Table!StoreReading([got EXCEPT !.time = now])
    /\ IF node' = NoNode THEN UNCHANGED <<cards, noNodesHidden>>
       ELSE /\ noNodesHidden' = TRUE
            /\ cards' = [cards EXCEPT ![node'] = Painted(nodes'[node'])]
    /\ mainPc' = "drain"
    /\ UNCHANGED <<pathVars, lastSecond, activeTab, temperature_tab_active>>

\* A slip: the card is painted before the reading is stored.
HandleReadingPaintsOld ==
    /\ mainPc = "store"
    /\ Table!StoreReading(got)
    /\ IF node' = NoNode THEN UNCHANGED <<cards, noNodesHidden>>
       ELSE /\ noNodesHidden' = (noNodesHidden \/ cards[node'] = NoCard)
            /\ cards' = [cards EXCEPT ![node'] =
                           IF temperature_tab_active THEN Painted(nodes[node'])
                           ELSE IF @ = NoCard THEN NewCard ELSE @]
    /\ mainPc' = "drain"
    /\ UNCHANGED <<pathVars, lastSecond, activeTab, temperature_tab_active>>

\* The body of the drain loop for the message just taken.
HandleReading ==
    /\ mainPc = "store"
    /\ Table!StoreReading(got)
    /\ IF node' = NoNode THEN UNCHANGED <<cards, noNodesHidden>>
       ELSE /\ noNodesHidden' = (noNodesHidden \/ cards[node'] = NoCard)
            /\ cards' = [cards EXCEPT ![node'] =
                           IF temperature_tab_active THEN Painted(nodes'[node'])
                           ELSE IF @ = NoCard THEN NewCard ELSE @]
    /\ mainPc' = "drain"
    /\ UNCHANGED <<pathVars, lastSecond, activeTab, temperature_tab_active>>

\* event_tabview_cb, called for a swipe or a press on a tab button after the
\* tabview has changed its active tab.
EventTabview(tab) ==
    /\ activeTab' = tab
    /\ temperature_tab_active' = (tab = TAB_TEMPERATURE)

\* lv_task_handler redraws and delivers what the user did.
LvTaskHandler ==
    /\ mainPc = "lvgl"
    /\ \/ UNCHANGED <<activeTab, temperature_tab_active>>
       \/ \E tab \in Tabs : EventTabview(tab)
    /\ mainPc' = "poll"
    /\ UNCHANGED <<pathVars, tableVars, lastSecond, cards, noNodesHidden>>

BootMain == StartNetwork \/ UiWorkQueueInit \/ InitGui
LoopMain == \/ Poll \/ UpdateClock \/ DrainOne \/ DrainEmpty
            \/ HandleReading \/ LvTaskHandler

-----------------------------------------------------------------------------
(* The other threads and the clock.                                        *)

Others == <<tableVars, mainPc, guiVars>>

CoapThread == (Path!ReceivePost \/ Path!SubmitStep) /\ UNCHANGED Others
WorkThread == Path!WorkStep /\ UNCHANGED Others
Uptime     == Path!Tick /\ UNCHANGED Others

HubNext == \/ BootMain \/ GotIpAddress \/ LoopMain
           \/ CoapThread \/ WorkThread \/ Uptime

HubSpec == HubInit /\ [][HubNext]_hubVars

\* main runs whenever it is not waiting for its address; the other threads run
\* while it waits in k_poll.  Nobody has to send a request.
HubFairSpec ==
    /\ HubSpec
    /\ WF_hubVars(BootMain)
    /\ WF_hubVars(LoopMain)
    /\ WF_hubVars(Path!SubmitStep /\ UNCHANGED Others)
    /\ WF_hubVars(WorkThread)
    /\ WF_hubVars(Uptime)

-----------------------------------------------------------------------------
(* The work queue thread has a lower priority (UI_WORK_PRIORITY 5) than    *)
(* main (0) on a single core: it runs only while main is blocked.          *)

MainBlocked == \/ mainPc \in {"waitIp", "lvgl", "quit"}
               \/ mainPc = "poll" /\ msgq = <<>>

PriorityNext == \/ BootMain \/ GotIpAddress \/ LoopMain
                \/ CoapThread \/ (MainBlocked /\ WorkThread) \/ Uptime

HubPrioritySpec ==
    /\ HubInit
    /\ [][PriorityNext]_hubVars
    /\ WF_hubVars(BootMain)
    /\ WF_hubVars(LoopMain)

-----------------------------------------------------------------------------
(* Safety.                                                                 *)

\* A slot has a card exactly when it is used, and the "No nodes detected"
\* message is on the screen exactly as long as there is no card.
CardsMatchTable ==
    /\ \A s \in Slots : nodes[s].used <=> cards[s] # NoCard
    /\ noNodesHidden <=> \E s \in Slots : cards[s] # NoCard

\* Readings reach the table in the order in which temp_node_post stamped
\* them: last_update_time never lies ahead of a reading still on its way, the
\* history of a node is chronological, and no card was painted from the future.
HistoryInOrder ==
    /\ \A s \in Slots :
         LET c == Table!Chronicle(nodes[s])
         IN  \A j, k \in 1..Len(c) : j <= k => c[j].timestamp <= c[k].timestamp
    /\ \A s \in Slots : \A k \in 1..Len(Path!InFlight) :
         nodes[s].last_update_time <= Path!InFlight[k].time
    /\ got # NoMsg => \A s \in Slots : nodes[s].last_update_time <= got.time

\* The table never holds a reading before the boot sequence is over, although
\* requests are served from power-up on.
NothingStoredBeforeGui ==
    mainPc \in {"boot", "waitIp", "workq", "quit"} =>
        /\ \A s \in Slots : ~nodes[s].used
        /\ msgq = <<>> \/ poolReady
        /\ mainPc # "workq" => \A i \in Path!Items : ~Path!IsBusy(i)

\* Readings stored while another tab is open are not painted, and opening the
\* temperature tab repaints nothing: a card may be old when it comes on the
\* screen.  But while the tab is open no card gets old: each reading is on its
\* card at once, and a card that shows its node's last reading goes on doing so.
Current(s) == IF cards[s] = NoCard THEN ~nodes[s].used
              ELSE cards[s].temp = nodes[s].current_temp
OpenTabKeepsUp ==
    [][temperature_tab_active =>
         \A s \in Slots : Current(s) \/ nodes'[s] # nodes[s] => Current(s)']_hubVars

-----------------------------------------------------------------------------
(* Liveness.                                                               *)

Looping == mainPc \in {"poll", "clock", "drain", "store", "lvgl"}

\* The user interface keeps running: under the priorities of the threads the
\* drain loop cannot keep main away from lv_task_handler.
UiKeepsRunning == Looping ~> mainPc = "lvgl"

-----------------------------------------------------------------------------
(* What README.md says of the cards.                                       *)

Shown(s) == nodes[s].used /\ temperature_tab_active

\* "Cards turn red if no data received for 2+ minutes" (README.md:144).
StaleCardsTurnRed ==
    \A s \in Slots :
        Shown(s) /\ now - nodes[s].last_update_time > STALE_DATA_THRESHOLD_MS
            ~> \/ cards[s] # NoCard /\ cards[s].red
               \/ ~Shown(s)
               \/ now - nodes[s].last_update_time <= STALE_DATA_THRESHOLD_MS

\* "Automatic node registration (up to 6 simultaneous nodes)" and "Node ID
\* header at top right" (README.md:120, :140): the header of a card is an id
\* that some node sends, so different nodes never share a card.
SentIds == {SubSeq(r.query, Path!PrefixLen + 1, Len(r.query)) :
                r \in {q \in Requests : q.query # NoQuery}}
=============================================================================
