----------------------------- MODULE NodeTable -----------------------------
(***************************************************************************)
(* The table of sensor nodes of the hub (node_info_t nodes[MAX_NODES]):    *)
(* get_or_create_node and what the LVGL loop stores in the node it         *)
(* returns.  Only the main thread touches the table, one message at a      *)
(* time, so handling a message is one step.  The humidity is left out: the *)
(* CoAP handler always sets it to -1.  The widgets of a node are in Hub.   *)
(***************************************************************************)
EXTENDS Integers, Sequences, FiniteSets

CONSTANTS
    Ids, Temps, Times,   \* what a message may hold
    MAX_NODES,
    HISTORY_SIZE,
    ZeroTemp,            \* 0.0f, the temperature of static memory
    EmptyId,             \* "", the node_id of static memory
    NoNode               \* NULL, the result of get_or_create_node

ASSUME TableAssumption ==
    /\ MAX_NODES \in Nat \ {0}
    /\ HISTORY_SIZE \in Nat \ {0}
    /\ Times \subseteq Nat
    /\ 0 \in Times
    /\ ZeroTemp \in Temps
    /\ EmptyId \in Ids
    /\ NoNode \notin Nat

VARIABLES
    nodes,   \* the table
    node     \* result of get_or_create_node for the last message

tableVars == <<nodes, node>>

Slots   == 0..(MAX_NODES - 1)
Entries == 0..(HISTORY_SIZE - 1)
Samples == [temp : Temps, timestamp : Times]
NodeInfo ==
    [used : BOOLEAN, node_id : Ids, current_temp : Temps,
     last_update_time : Times, history : [Entries -> Samples],
     history_head : Entries, history_count : 0..HISTORY_SIZE]

TypeOK == nodes \in [Slots -> NodeInfo] /\ node \in Slots \union {NoNode}

\* Static storage is zero.
ZeroedTable ==
    [s \in Slots |->
        [used |-> FALSE, node_id |-> EmptyId, current_temp |-> ZeroTemp,
         last_update_time |-> 0,
         history |-> [e \in Entries |-> [temp |-> ZeroTemp, timestamp |-> 0]],
         history_head |-> 0, history_count |-> 0]]

TableInit == nodes = ZeroedTable /\ node = NoNode

-----------------------------------------------------------------------------
(* get_or_create_node, in two halves: the slot it finds, and what it does  *)
(* to a slot it allocates.                                                 *)

Known(id) == {s \in Slots : nodes[s].used /\ nodes[s].node_id = id}
Free      == {s \in Slots : ~nodes[s].used}

IsFirst(s, S) == s \in S /\ \A t \in S : s <= t

Allocated(n, id) == [n EXCEPT !.node_id = id, !.used = TRUE,
                              !.history_head = 0, !.history_count = 0]

\* A slip: history_head is not wrapped around.
StoredNoWrap(n, m) ==
    [n EXCEPT
        !.current_temp = m.temp,
        !.last_update_time = m.time,
        !.history[n.history_head] = [temp |-> m.temp, timestamp |-> m.time],
        !.history_head = n.history_head + 1,
        !.history_count = IF @ < HISTORY_SIZE THEN @ + 1 ELSE @]

\* A slip: the last entry of the ring is never used.
StoredShortRing(n, m) ==
    [n EXCEPT
        !.current_temp = m.temp,
        !.last_update_time = m.time,
        !.history[n.history_head] = [temp |-> m.temp, timestamp |-> m.time],
        !.history_head = (n.history_head + 1) % (HISTORY_SIZE - 1),
        !.history_count = IF @ < HISTORY_SIZE THEN @ + 1 ELSE @]

\* A slip: the head moves before the entry is written.
StoredAfterHead(n, m) ==
    LET head == (n.history_head + 1) % HISTORY_SIZE
    IN  [n EXCEPT
            !.current_temp = m.temp,
            !.last_update_time = m.time,
            !.history[head] = [temp |-> m.temp, timestamp |-> m.time],
            !.history_head = head,
            !.history_count = IF @ < HISTORY_SIZE THEN @ + 1 ELSE @]

\* What main stores in the node: the current values and a history entry.
Stored(n, m) ==
    [n EXCEPT
        !.current_temp = m.temp,
        !.last_update_time = m.time,
        !.history[n.history_head] = [temp |-> m.temp, timestamp |-> m.time],
        !.history_head = (n.history_head + 1) % HISTORY_SIZE,
        !.history_count = IF @ < HISTORY_SIZE THEN @ + 1 ELSE @]

UpdateKnown(m) ==
    \E s \in Slots :
        /\ IsFirst(s, Known(m.id))
        /\ nodes' = [nodes EXCEPT ![s] = Stored(@, m)]
        /\ node' = s

\* A slip: a slot is allocated without searching the id first.
RegisterAlways(m) ==
    \E s \in Slots :
        /\ IsFirst(s, Free)
        /\ nodes' = [nodes EXCEPT ![s] = Stored(Allocated(@, m.id), m)]
        /\ node' = s

RegisterNew(m) ==
    /\ Known(m.id) = {}
    /\ \E s \in Slots :
        /\ IsFirst(s, Free)
        /\ nodes' = [nodes EXCEPT ![s] = Stored(Allocated(@, m.id), m)]
        /\ node' = s

\* A slip: a full table gives its first slot to the new node.
EvictFirst(m) ==
    /\ Known(m.id) = {}
    /\ Free = {}
    /\ nodes' = [nodes EXCEPT ![0] = Stored(Allocated(@, m.id), m)]
    /\ node' = 0

DropTableFull(m) ==
    /\ Known(m.id) = {}
    /\ Free = {}
    /\ node' = NoNode
    /\ UNCHANGED nodes

StoreReading(m) == UpdateKnown(m) \/ RegisterNew(m) \/ DropTableFull(m)

TableNext == \E m \in [id : Ids, temp : Temps, time : Times] : StoreReading(m)

TableSpec == TableInit /\ [][TableNext]_tableVars

-----------------------------------------------------------------------------
(* Safety.                                                                 *)

\* The used slots come first and hold different ids, so the linear search
\* finds the one slot of an id and the first free slot is the next one.
SlotsWellFormed ==
    \A s, t \in Slots :
        /\ nodes[t].used /\ s < t => nodes[s].used
        /\ nodes[s].used /\ nodes[t].used /\ nodes[s].node_id = nodes[t].node_id => s = t

\* The entry written last, and the k-th valid entry from the oldest on.
Newest(n) == n.history[(n.history_head + HISTORY_SIZE - 1) % HISTORY_SIZE]
Chronicle(n) ==
    LET oldest == IF n.history_count < HISTORY_SIZE THEN 0 ELSE n.history_head
    IN  [k \in 1..n.history_count |-> n.history[(oldest + k - 1) % HISTORY_SIZE]]

\* A node in use has a history, which fills from entry 0 before it wraps
\* around, and its newest entry is what the node shows as current.
RingWellFormed ==
    \A s \in Slots :
        LET n == nodes[s]
        IN  /\ n.used <=> n.history_count > 0
            /\ n.history_count < HISTORY_SIZE => n.history_head = n.history_count
            /\ n.used => Newest(n) = [temp |-> n.current_temp,
                                      timestamp |-> n.last_update_time]

\* A slot, once given to an id, keeps it: a card never changes its owner and
\* a node never loses its history.
SlotsArePermanent ==
    [][\A s \in Slots : nodes[s].used =>
           /\ nodes'[s].used
           /\ nodes'[s].node_id = nodes[s].node_id
           /\ nodes'[s].history_count >= nodes[s].history_count]_tableVars

\* Slots and ring implement the log of the last HISTORY_SIZE readings per id,
\* which refuses a reading only when MAX_NODES other ids are admitted.
Outcome == IF node # NoNode THEN "stored"
           ELSE IF Free = {} THEN "refused" ELSE "none"
LogOf(id) == IF Known(id) = {} THEN <<>>
             ELSE Chronicle(nodes[CHOOSE s \in Known(id) : TRUE])
Log == INSTANCE NodeLog WITH
           MaxNodes <- MAX_NODES, HistorySize <- HISTORY_SIZE,
           log <- [id \in Ids |-> LogOf(id)], outcome <- Outcome
LogRefined == Log!LogSpec
=============================================================================
