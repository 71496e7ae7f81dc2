----------------------------- MODULE Hub_proofs -----------------------------
(***************************************************************************)
(* Proofs about Hub, for every pool, queue, table and history size.        *)
(***************************************************************************)
EXTENDS Hub, FiniteSetTheorems, SequenceTheorems, TLAPS

PathP == INSTANCE UiWorkPathOrder_proofs
TableP == INSTANCE NodeTable_proofs WITH
             Ids <- Path!NodeIds, Times <- Path!Times, EmptyId <- <<>>

-----------------------------------------------------------------------------
(* The components and the modules that hold the proofs about them define   *)
(* the same things.                                                        *)

LEMMA SamePathState ==
    /\ Path!PathInit <=> PathP!PathInit
    /\ Path!TypeOK <=> PathP!TypeOK
    /\ Path!NodeIds = PathP!NodeIds
    /\ Path!Times = PathP!Times
    /\ Path!Msgs = PathP!Msgs
    /\ Path!Items = PathP!Items
    /\ \A i : Path!IsBusy(i) <=> PathP!IsBusy(i)
    /\ Path!InFlight = PathP!InFlight
  BY DEF Path!PathInit, PathP!PathInit, Path!TypeOK, PathP!TypeOK, Path!NodeIds,
     PathP!NodeIds, Path!Times, PathP!Times, Path!Msgs, PathP!Msgs, Path!Items,
     PathP!Items, Path!IsBusy, PathP!IsBusy, Path!InFlight, PathP!InFlight

LEMMA SameBoot == Path!BootStep => PathP!PathNext
  BY DEF Path!BootStep, PathP!BootStep, Path!InitItem, PathP!InitItem, Path!InitDone,
     PathP!InitDone, Path!coapVars, PathP!coapVars, Path!wqVars, PathP!wqVars,
     Path!outVars, PathP!outVars, Path!poolVars, PathP!poolVars, PathP!PathNext

LEMMA SameGet == Path!GetReading => PathP!GetReading /\ PathP!PathNext
  BY DEF Path!GetReading, PathP!GetReading, Path!bootVars, PathP!bootVars,
     Path!coapVars, PathP!coapVars, Path!wqVars, PathP!wqVars,
     Path!poolVars, PathP!poolVars, PathP!PathNext

LEMMA SameTick == Path!Tick => PathP!PathNext
  BY DEF Path!Tick, PathP!Tick, Path!bootVars, PathP!bootVars,
     Path!coapVars, PathP!coapVars, Path!wqVars, PathP!wqVars,
     Path!poolVars, PathP!poolVars, Path!outVars, PathP!outVars, PathP!PathNext

LEMMA SameWork == Path!WorkStep => PathP!PathNext
  BY DEF Path!WorkStep, PathP!WorkStep, Path!TakeItem, PathP!TakeItem,
     Path!EnqueueReading, PathP!EnqueueReading, Path!DropReading, PathP!DropReading,
     Path!FinishItem, PathP!FinishItem, Path!bootVars, PathP!bootVars,
     Path!coapVars, PathP!coapVars,
     Path!poolVars, PathP!poolVars, Path!outVars, PathP!outVars, PathP!PathNext

LEMMA SameSubmit == Path!SubmitStep => PathP!PathNext
  BY DEF Path!SubmitStep, PathP!SubmitStep, Path!RefuseNotReady, PathP!RefuseNotReady,
     Path!StartScan, PathP!StartScan, Path!SkipBusyItem, PathP!SkipBusyItem,
     Path!PoolExhausted, PathP!PoolExhausted, Path!FindFreeItem, PathP!FindFreeItem,
     Path!CopyMsg, PathP!CopyMsg, Path!SubmitToQueue, PathP!SubmitToQueue,
     Path!Respond, PathP!Respond, Path!IsBusy, PathP!IsBusy,
     Path!bootVars, PathP!bootVars, Path!wqVars, PathP!wqVars,
     Path!poolVars, PathP!poolVars, Path!outVars, PathP!outVars,
     PathP!PathNext, PathP!CoapStep

LEMMA SamePost == Path!ReceivePost => PathP!PathNext
  BY DEF Path!ReceivePost, PathP!ReceivePost, Path!ReceivePostOf, PathP!ReceivePostOf,
     Path!Posted, PathP!Posted, Path!ExtractedIds, PathP!ExtractedIds,
     Path!ParsedTemps, PathP!ParsedTemps, Path!CopyLen, PathP!CopyLen,
     Path!HasQuery, PathP!HasQuery, Path!PrefixLen, PathP!PrefixLen,
     Path!bootVars, PathP!bootVars, Path!wqVars, PathP!wqVars,
     Path!poolVars, PathP!poolVars, Path!outVars, PathP!outVars,
     PathP!PathNext, PathP!CoapStep

LEMMA SameTable ==
    /\ Table!TableInit <=> TableP!TableInit
    /\ Table!TypeOK <=> TableP!TypeOK
    /\ Table!NodeInfo = TableP!NodeInfo
    /\ Table!Slots = TableP!Slots
    /\ \A n : Table!Chronicle(n) = TableP!Chronicle(n)
  BY DEF Table!TableInit, TableP!TableInit, Table!ZeroedTable, TableP!ZeroedTable,
     Table!TypeOK, TableP!TypeOK, Table!NodeInfo, TableP!NodeInfo, Table!Slots,
     TableP!Slots, Table!Entries, TableP!Entries, Table!Samples, TableP!Samples,
     Table!Chronicle, TableP!Chronicle

LEMMA SameStore ==
    ASSUME NEW m, Table!StoreReading(m)
    PROVE  TableP!StoreReading(m)
  BY DEF Table!StoreReading, TableP!StoreReading, Table!UpdateKnown, TableP!UpdateKnown,
     Table!RegisterNew, TableP!RegisterNew, Table!DropTableFull, TableP!DropTableFull,
     Table!Known, TableP!Known, Table!Free, TableP!Free, Table!IsFirst, TableP!IsFirst,
     Table!Stored, TableP!Stored, Table!Allocated, TableP!Allocated, Table!Slots,
     TableP!Slots

-----------------------------------------------------------------------------
(* The invariant.                                                          *)

\* c is in the order of its timestamps, and nothing in it is newer than t.
InOrder(c, t) ==
    \A j \in 1..Len(c) : /\ c[j].timestamp <= t
                         /\ \A k \in 1..j : c[k].timestamp <= c[j].timestamp

OwnType ==
    /\ mainPc \in {"boot", "waitIp", "workq", "poll", "clock", "drain", "store",
                   "lvgl", "quit"}
    /\ lastSecond \in Path!Times \union {-1}
    /\ activeTab \in Tabs
    /\ temperature_tab_active \in BOOLEAN
    /\ cards \in [Slots -> Cards \union {NoCard}]
    /\ noNodesHidden \in BOOLEAN

\* Until main has initialised the pool nothing is on its way, until it runs its
\* loop nothing is stored, and what it stores is a message it took.
BootOrder ==
    /\ PathP!ReadyFirst
    /\ mainPc \in {"boot", "waitIp", "quit"} => ~poolReady
    /\ mainPc \in {"boot", "waitIp", "workq", "quit"} => \A s \in Slots : ~nodes[s].used
    /\ mainPc = "store" => got \in Path!Msgs /\ got # NoMsg

\* What a node shows is not newer than any reading that is still on its way.
ReadingsInOrder ==
    \A s \in Slots :
        /\ InOrder(TableP!Chronicle(nodes[s]), nodes[s].last_update_time)
        /\ nodes[s].last_update_time <= now
        /\ PathP!Chronological(PathP!Journey, nodes[s].last_update_time, now)

HubInv == /\ PathP!PathInv
          /\ TableP!TableInv
          /\ OwnType
          /\ BootOrder
          /\ CardsMatchTable
          /\ ReadingsInOrder

\* Steps of the other threads, and of main where it leaves the table alone.
LEMMA PathPart ==
    ASSUME HubInv, [PathP!PathNext]_(PathP!pathVars), UNCHANGED tableVars
    PROVE  /\ PathP!PathInv' /\ TableP!TableInv' /\ ReadingsInOrder'
           /\ PathP!ReadyFirst' /\ (poolReady => poolReady')
<1>1. PathP!PathInv' /\ PathP!ReadyFirst' /\ (poolReady => poolReady')
  BY HubComponents, PathP!PathStepInv, PathP!ReadyFirstStep DEF HubInv, BootOrder
<1>2. TableP!TableInv'
  BY HubComponents, TableP!TableStepInv DEF HubInv, tableVars, TableP!tableVars
<1>3. ReadingsInOrder'
  <2> SUFFICES ASSUME NEW s \in Slots
               PROVE  /\ InOrder(TableP!Chronicle(nodes'[s]), nodes'[s].last_update_time)
                      /\ nodes'[s].last_update_time <= now'
                      /\ PathP!Chronological(PathP!Journey', nodes'[s].last_update_time, now')
    BY DEF ReadingsInOrder, InOrder, TableP!Chronicle, PathP!Chronological
  <2>1. nodes' = nodes
    BY DEF tableVars
  <2> DEFINE u == nodes[s].last_update_time
  <2>2. u \in Int /\ u <= now /\ PathP!Chronological(PathP!Journey, u, now)
        /\ InOrder(TableP!Chronicle(nodes[s]), u)
    BY HubComponents DEF HubInv, ReadingsInOrder, TableP!TableInv, TableP!TypeOK, TableP!NodeInfo, Slots,
       Table!Slots, TableP!Slots, Path!Times
  <2>3. now \in Int /\ now' \in Int /\ now <= now'
    BY HubComponents, PathP!ClockStep DEF HubInv, PathP!Times
  <2> HIDE DEF u
  <2>4. PathP!Chronological(PathP!Journey', u, now')
    BY HubComponents, <2>2, PathP!OrderStep DEF HubInv
  <2>5. u <= now'
    BY <2>2, <2>3
  <2> QED BY <2>1, <2>2, <2>4, <2>5 DEF u
<1> QED BY <1>1, <1>2, <1>3

-----------------------------------------------------------------------------
(* Storing a reading.                                                      *)

\* The last entries of a sequence are in order when the sequence is.
LEMMA LatestInOrder ==
    ASSUME NEW S, NEW q \in Seq(S), NEW h \in Nat \ {0}, NEW t, InOrder(q, t)
    PROVE  InOrder(TableP!Log!Latest(q, h), t)
<1>1. CASE Len(q) <= h
  BY <1>1 DEF TableP!Log!Latest
<1>2. CASE ~(Len(q) <= h)
  <2> DEFINE d == Len(q) - h
             r == SubSeq(q, d + 1, Len(q))
  <2>1. d \in Nat /\ Len(q) = d + h /\ d + 1 \in Int /\ Len(q) \in Int
    BY <1>2
  <2>2. \A i \in (d + 1)..Len(q) : q[i] \in S
    BY <2>1, ElementOfSeq
  <2>3. /\ Len(r) = IF d + 1 <= Len(q) THEN Len(q) - (d + 1) + 1 ELSE 0
        /\ \A i \in 1..(Len(q) - (d + 1) + 1) : r[i] = q[(d + 1) + i - 1]
    BY <2>1, <2>2, SubSeqProperties
  <2>4. TableP!Log!Latest(q, h) = r
    BY <1>2 DEF TableP!Log!Latest
  <2> HIDE DEF d, r
  <2>5. Len(r) = h /\ \A i \in 1..h : r[i] = q[d + i] /\ d + i \in 1..Len(q)
    BY <2>1, <2>3
  <2>6. InOrder(r, t)
    <3> SUFFICES ASSUME NEW j \in 1..h, NEW k \in 1..j
                 PROVE  r[j].timestamp <= t /\ r[k].timestamp <= r[j].timestamp
      BY <2>5 DEF InOrder
    <3>1. k \in 1..h /\ d + k \in 1..(d + j)
      BY <2>1
    <3> QED BY <2>5, <3>1 DEF InOrder
  <2> QED BY <2>4, <2>6
<1> QED BY <1>1, <1>2

\* A node that takes a reading not older than its last one stays in order.
LEMMA StoredInOrder ==
    ASSUME NEW n \in TableP!NodeInfo, NEW m \in TableP!Messages, n.used,
           n.history_count < HISTORY_SIZE => n.history_head = n.history_count,
           NEW u \in Int, u <= m.time, InOrder(TableP!Chronicle(n), u)
    PROVE  InOrder(TableP!Chronicle(TableP!Stored(n, m)), m.time)
<1> DEFINE x == [temp |-> m.temp, timestamp |-> m.time]
           q == TableP!Chronicle(n)
           a == Append(q, x)
<1>1. /\ TableP!Chronicle(TableP!Stored(n, m)) = TableP!Log!Latest(a, HISTORY_SIZE)
      /\ q \in Seq(TableP!Samples)
  BY HubComponents, TableP!StoredIsLatest, TableP!ChronicleEntries DEF TableP!WellShaped
<1>2. x \in TableP!Samples /\ m.time \in Int /\ HISTORY_SIZE \in Nat \ {0}
      /\ x.timestamp = m.time
  BY HubComponents DEF TableP!Messages, TableP!Samples, Path!Times
<1>3. \A e \in TableP!Samples : e.timestamp \in Int
  BY HubComponents DEF TableP!Samples, Path!Times
<1> HIDE DEF x, q
<1>4. /\ a \in Seq(TableP!Samples) /\ Len(a) = Len(q) + 1 /\ Len(q) \in Nat
      /\ \A i \in 1..Len(q) : a[i] = q[i] /\ q[i] \in TableP!Samples
      /\ a[Len(q) + 1] = x
  BY <1>1, <1>2, AppendProperties, ElementOfSeq
<1> HIDE DEF a
<1>5. InOrder(q, u)
  BY DEF q
<1>6. InOrder(a, m.time)
  <2> SUFFICES ASSUME NEW j \in 1..Len(a), NEW k \in 1..j
               PROVE  a[j].timestamp <= m.time /\ a[k].timestamp <= a[j].timestamp
    BY DEF InOrder
  <2>1. \A i \in 1..Len(q) : a[i].timestamp \in Int /\ a[i].timestamp <= u
    BY <1>3, <1>4, <1>5 DEF InOrder
  <2>2. CASE j = Len(q) + 1
    <3>1. a[j].timestamp = m.time
      BY <1>2, <1>4, <2>2
    <3>2. CASE k = j
      BY <1>2, <3>1, <3>2
    <3>3. CASE k # j
      <4>1. k \in 1..Len(q)
        BY <1>4, <2>2, <3>3
      <4> QED BY <1>2, <2>1, <3>1, <4>1
    <3> QED BY <3>2, <3>3
  <2>3. CASE j # Len(q) + 1
    <3>1. j \in 1..Len(q) /\ k \in 1..Len(q)
      BY <1>4, <2>3
    <3>2. a[j].timestamp <= m.time
      BY <1>2, <2>1, <3>1
    <3>3. a[k].timestamp <= a[j].timestamp
      BY <1>4, <1>5, <3>1 DEF InOrder
    <3> QED BY <3>2, <3>3
  <2> QED BY <2>2, <2>3
<1> QED BY <1>1, <1>2, <1>4, <1>6, LatestInOrder

\* Which slot the reading goes to, and what it finds and leaves there.
LEMMA ReadingTarget ==
    ASSUME HubInv, HandleReading
    PROVE  /\ got \in TableP!Messages /\ got \in PathP!Msgs /\ got # NoMsg
           /\ TableP!StoreReading(got) /\ TableP!TableInv'
           /\ \/ nodes' = nodes /\ node' = NoNode
              \/ \E s \in Slots, n \in TableP!NodeInfo :
                   /\ node' = s /\ nodes' = [nodes EXCEPT ![s] = TableP!Stored(n, got)]
                   /\ n.used
                   /\ n.history_count < HISTORY_SIZE => n.history_head = n.history_count
                   /\ n = nodes[s] \/ n.history_count = 0
<1>1. got \in Path!Msgs /\ got # NoMsg
  BY DEF HubInv, BootOrder, HandleReading
<1>2. got \in TableP!Messages /\ got \in PathP!Msgs
  BY <1>1, SamePathState DEF Path!Msgs, TableP!Messages
<1>3. TableP!StoreReading(got)
  BY SameStore DEF HandleReading
<1>4. TableP!TableNext
  BY <1>2, <1>3 DEF TableP!TableNext, TableP!Messages
<1>5. TableP!TableInv'
  BY <1>4, HubComponents, TableP!TableStepInv DEF HubInv
<1>6. Slots = TableP!Slots
  BY SameTable DEF Slots
<1>7. \/ nodes' = nodes /\ node' = NoNode
      \/ \E s \in Slots, n \in TableP!NodeInfo :
           /\ node' = s /\ nodes' = [nodes EXCEPT ![s] = TableP!Stored(n, got)]
           /\ n.used
           /\ n.history_count < HISTORY_SIZE => n.history_head = n.history_count
           /\ n = nodes[s] \/ n.history_count = 0
  BY <1>2, <1>3, <1>6, HubComponents, TableP!StoreTarget DEF HubInv
<1> QED BY <1>1, <1>2, <1>3, <1>5, <1>7

\* The slot that takes the reading is used from then on, and shows it.
LEMMA StoredInSlot ==
    ASSUME HubInv, NEW m \in TableP!Messages, NEW s \in Slots, NEW n \in TableP!NodeInfo,
           nodes' = [nodes EXCEPT ![s] = TableP!Stored(n, m)], n.used,
           n.history_count < HISTORY_SIZE => n.history_head = n.history_count
    PROVE  /\ nodes'[s] = TableP!Stored(n, m)
           /\ nodes'[s].used
           /\ nodes'[s].current_temp = m.temp
           /\ nodes'[s].last_update_time = m.time
           /\ \A t \in Slots : t # s => nodes'[t] = nodes[t]
<1>1. nodes'[s] = TableP!Stored(n, m) /\ \A t \in Slots : t # s => nodes'[t] = nodes[t]
  BY SameTable DEF HubInv, TableP!TableInv, TableP!TypeOK, Slots
<1>2. TableP!Stored(n, m).used
  BY HubComponents, TableP!StoredShape
<1>3. /\ TableP!Stored(n, m).current_temp = m.temp
      /\ TableP!Stored(n, m).last_update_time = m.time
  BY DEF TableP!Stored, TableP!NodeInfo
<1> QED BY <1>1, <1>2, <1>3

\* Each reading is painted or its card created, at the slot that takes it.
LEMMA CardPainted ==
    ASSUME HubInv, HandleReading, NEW s \in Slots, node' = s
    PROVE  /\ noNodesHidden'
           /\ \A t \in Slots : t # s => cards'[t] = cards[t]
           /\ cards' \in [Slots -> Cards \union {NoCard}]
           /\ cards'[s] # NoCard
           /\ temperature_tab_active => cards'[s].temp = nodes'[s].current_temp
<1>1. s # NoNode
  BY HubComponents DEF Slots, Table!Slots, Table!TableAssumption
<1>2. /\ noNodesHidden' = (noNodesHidden \/ cards[s] = NoCard)
      /\ cards' = [cards EXCEPT ![s] =
                     IF temperature_tab_active THEN Painted(nodes'[s])
                     ELSE IF cards[s] = NoCard THEN NewCard ELSE cards[s]]
  BY <1>1 DEF HandleReading, HubInv, OwnType
<1>3. cards \in [Slots -> Cards \union {NoCard}] /\ noNodesHidden \in BOOLEAN
  BY DEF HubInv, OwnType
<1>4. noNodesHidden'
  BY <1>2 DEF HubInv, CardsMatchTable
<1>5. nodes'[s].current_temp \in Temps
  BY ReadingTarget, SameTable DEF TableP!TableInv, TableP!TypeOK, TableP!NodeInfo, Slots
<1> DEFINE p == Painted(nodes'[s])
<1>6. p \in Cards /\ p.temp = nodes'[s].current_temp
  <2>1. (now - nodes'[s].last_update_time > STALE_DATA_THRESHOLD_MS) \in BOOLEAN
    OBVIOUS
  <2> QED BY <1>5, <2>1 DEF Painted, Cards
<1>7. NewCard \in Cards /\ NoCard \notin Cards
  BY HubAssumption DEF NewCard, Cards
<1> HIDE DEF p
<1>8. cards'[s] = IF temperature_tab_active THEN p
                  ELSE IF cards[s] = NoCard THEN NewCard ELSE cards[s]
  BY <1>2, <1>3 DEF p
<1>9. cards'[s] \in Cards
  BY <1>3, <1>6, <1>7, <1>8
<1>10. cards' = [cards EXCEPT ![s] = cards'[s]]
  BY <1>2, <1>3
<1>11. /\ \A t \in Slots : t # s => cards'[t] = cards[t]
       /\ cards' \in [Slots -> Cards \union {NoCard}]
  BY <1>3, <1>9, <1>10
<1> QED BY <1>4, <1>6, <1>7, <1>8, <1>9, <1>11

\* The message main has taken is the oldest on its way.
LEMMA JourneyFromGot ==
    ASSUME HubInv, got \in PathP!Msgs, got # NoMsg
    PROVE  LET q == PathP!Journey
           IN  q \in Seq(PathP!Msgs) /\ Len(q) \in Nat /\ Len(q) >= 1 /\ q[1] = got
<1> DEFINE q == PathP!Journey
<1>1. /\ PathP!InFlight \in Seq(PathP!Msgs) /\ PathP!Stamped \in Seq(PathP!Msgs)
  BY HubComponents, PathP!JourneyType DEF HubInv
<1>2. PathP!Taken = <<got>> /\ <<got>> \in Seq(PathP!Msgs)
  BY DEF PathP!Taken
<1>3. q = (<<got>> \o PathP!InFlight) \o PathP!Stamped
  BY <1>2 DEF PathP!Journey
<1> HIDE DEF q
<1>4. q \in Seq(PathP!Msgs) /\ Len(q) \in Nat /\ Len(q) >= 1 /\ q[1] = got
  BY ONLY <1>1, <1>2, <1>3
<1> QED BY <1>4 DEF q

\* Nothing on its way is older than it, and no node shows anything newer.
LEMMA HandedOver ==
    ASSUME HubInv, got \in PathP!Msgs, got # NoMsg
    PROVE  /\ got.time \in Int /\ got.time <= now
           /\ PathP!Chronological(PathP!Journey, got.time, now)
<1> DEFINE q == PathP!Journey
<1>1. PathP!PathInv /\ got.time \in Int
  BY HubComponents, PathP!MsgTimes DEF HubInv
<1>2. Len(q) \in Nat /\ Len(q) >= 1 /\ q[1] = got
  BY JourneyFromGot
<1>3. \E s \in Slots : TRUE
  BY HubComponents DEF Slots, Table!Slots, Table!TableAssumption
<1>4. PICK l : PathP!Chronological(q, l, now)
  BY <1>3 DEF HubInv, ReadingsInOrder
<1> HIDE DEF q
<1>5. got.time <= now /\ \A j \in 1..Len(q) : got.time <= q[j].time /\ q[j].time <= now
  BY <1>2, <1>4 DEF PathP!Chronological
<1>6. PathP!Chronological(q, got.time, now)
  BY <1>4, <1>5 DEF PathP!Chronological
<1> QED BY <1>1, <1>5, <1>6 DEF q

LEMMA LastUpdateBefore ==
    ASSUME HubInv, NEW s \in Slots, got \in PathP!Msgs, got # NoMsg
    PROVE  LET u == nodes[s].last_update_time
           IN  u \in Int /\ u <= got.time /\ InOrder(TableP!Chronicle(nodes[s]), u)
<1> DEFINE u == nodes[s].last_update_time
           q == PathP!Journey
<1>1. u \in Int
  BY HubComponents, SameTable DEF HubInv, TableP!TableInv, TableP!TypeOK, TableP!NodeInfo,
     Slots, Path!Times
<1>2. InOrder(TableP!Chronicle(nodes[s]), u) /\ PathP!Chronological(q, u, now)
  BY DEF HubInv, ReadingsInOrder
<1>3. Len(q) \in Nat /\ Len(q) >= 1 /\ q[1] = got
  BY JourneyFromGot
<1> HIDE DEF q, u
<1>4. u <= got.time
  BY <1>2, <1>3 DEF PathP!Chronological
<1> QED BY <1>1, <1>2, <1>4 DEF u

LEMMA EmptyInOrder ==
    ASSUME NEW n, n.history_count = 0, NEW t
    PROVE  InOrder(TableP!Chronicle(n), t)
<1>1. TableP!Chronicle(n) = <<>>
  BY DEF TableP!Chronicle
<1> QED BY <1>1 DEF InOrder

LEMMA HandleReadingInv ==
    ASSUME HubInv, HandleReading
    PROVE  HubInv'
<1>1. /\ got \in TableP!Messages /\ got \in PathP!Msgs /\ got # NoMsg
      /\ TableP!TableInv'
  BY ReadingTarget
<1>2. /\ UNCHANGED pathVars /\ UNCHANGED <<lastSecond, activeTab, temperature_tab_active>>
      /\ mainPc' = "drain" /\ mainPc = "store"
  BY DEF HandleReading
<1>3. UNCHANGED PathP!pathVars
  BY <1>2 DEF pathVars, PathP!pathVars, PathP!bootVars, PathP!coapVars, PathP!poolVars,
     PathP!wqVars, PathP!outVars
<1>4. PathP!PathInv' /\ PathP!ReadyFirst'
  BY <1>3, HubComponents, PathP!PathStepInv, PathP!ReadyFirstStep DEF HubInv, BootOrder
<1>5. PathP!Journey' = PathP!Journey /\ now' = now
  BY <1>3 DEF PathP!Journey, PathP!Taken, PathP!InFlight, PathP!Stamped,
     PathP!pathVars, PathP!bootVars, PathP!coapVars, PathP!poolVars,
     PathP!wqVars, PathP!outVars
<1>6. BootOrder'
  BY <1>2, <1>4 DEF BootOrder
<1>7. CASE nodes' = nodes /\ node' = NoNode
  <2>1. UNCHANGED <<cards, noNodesHidden>>
    BY <1>7 DEF HandleReading
  <2>2. OwnType'
    BY <1>2, <2>1 DEF HubInv, OwnType
  <2>3. CardsMatchTable'
    BY <1>7, <2>1 DEF HubInv, CardsMatchTable
  <2>4. ReadingsInOrder'
    BY <1>5, <1>7 DEF HubInv, ReadingsInOrder, InOrder, TableP!Chronicle,
       PathP!Chronological
  <2> QED BY <1>1, <1>4, <1>6, <2>2, <2>3, <2>4 DEF HubInv
<1>8. ASSUME NEW s \in Slots, NEW n \in TableP!NodeInfo,
             node' = s, nodes' = [nodes EXCEPT ![s] = TableP!Stored(n, got)],
             n.used, n.history_count < HISTORY_SIZE => n.history_head = n.history_count,
             n = nodes[s] \/ n.history_count = 0
      PROVE  HubInv'
  <2>1. /\ nodes'[s] = TableP!Stored(n, got)
        /\ nodes'[s].used /\ nodes'[s].last_update_time = got.time
        /\ \A t \in Slots : t # s => nodes'[t] = nodes[t]
    BY <1>1, <1>8, StoredInSlot
  <2>2. /\ noNodesHidden' /\ cards'[s] # NoCard
        /\ \A t \in Slots : t # s => cards'[t] = cards[t]
        /\ cards' \in [Slots -> Cards \union {NoCard}]
    BY <1>8, CardPainted
  <2>3. OwnType'
    <3>1. noNodesHidden' \in BOOLEAN
      BY DEF HandleReading, HubInv, OwnType
    <3> QED BY <1>2, <2>2, <3>1 DEF HubInv, OwnType
  <2>4. CardsMatchTable'
    <3>1. \A t \in Slots : nodes'[t].used <=> cards'[t] # NoCard
      BY <2>1, <2>2 DEF HubInv, CardsMatchTable
    <3> QED BY <2>2, <3>1 DEF CardsMatchTable
  <2>5. ReadingsInOrder'
    <3>1. got.time \in Int /\ got.time <= now /\ PathP!Chronological(PathP!Journey, got.time, now)
      BY <1>1, HandedOver
    <3>2. InOrder(TableP!Chronicle(nodes'[s]), got.time)
      <4>1. CASE n = nodes[s]
        <5> DEFINE u == n.last_update_time
        <5>1. u \in Int /\ u <= got.time /\ InOrder(TableP!Chronicle(n), u)
          BY <1>1, <4>1, LastUpdateBefore
        <5> QED BY <1>1, <1>8, <2>1, <5>1, StoredInOrder
      <4>2. CASE n.history_count = 0
        <5>1. InOrder(TableP!Chronicle(n), got.time)
          BY <4>2, EmptyInOrder
        <5> QED BY <1>1, <1>8, <2>1, <3>1, <5>1, StoredInOrder
      <4> QED BY <1>8, <4>1, <4>2
    <3> SUFFICES ASSUME NEW t \in Slots
                 PROVE  /\ InOrder(TableP!Chronicle(nodes'[t]), nodes'[t].last_update_time)
                        /\ nodes'[t].last_update_time <= now'
                        /\ PathP!Chronological(PathP!Journey', nodes'[t].last_update_time, now')
      BY DEF ReadingsInOrder, InOrder, TableP!Chronicle, PathP!Chronological
    <3>3. CASE t = s
      BY <1>5, <2>1, <3>1, <3>2, <3>3
    <3>4. CASE t # s
      BY <1>5, <2>1, <3>4 DEF HubInv, ReadingsInOrder
    <3> QED BY <3>3, <3>4
  <2> QED BY <1>1, <1>4, <1>6, <2>3, <2>4, <2>5 DEF HubInv
<1> QED BY <1>7, <1>8, ReadingTarget

-----------------------------------------------------------------------------
(* The other steps.                                                        *)

\* Steps of main that leave the components and the cards alone, and the work
\* queue thread, CoAP thread and clock, which leave everything of main alone.
LEMMA QuietStep ==
    ASSUME HubInv, [PathP!PathNext]_(PathP!pathVars), UNCHANGED tableVars,
           UNCHANGED <<cards, noNodesHidden>>, OwnType', BootOrder'
    PROVE  HubInv'
<1>1. CardsMatchTable'
  BY DEF HubInv, CardsMatchTable, tableVars
<1> QED BY <1>1, PathPart DEF HubInv

LEMMA PathUnchanged == UNCHANGED pathVars => UNCHANGED PathP!pathVars
  BY DEF pathVars, PathP!pathVars, PathP!bootVars, PathP!coapVars, PathP!poolVars,
     PathP!wqVars, PathP!outVars

LEMMA OthersInv ==
    ASSUME HubInv, CoapThread \/ WorkThread \/ Uptime
    PROVE  HubInv'
<1>1. PathP!PathNext /\ UNCHANGED Others /\ poolReady' = poolReady /\ got' = got
  <2>1. CASE CoapThread
    <3>1. UNCHANGED <<poolReady, got>>
      BY <2>1 DEF CoapThread, Path!ReceivePost, Path!ReceivePostOf, Path!SubmitStep,
         Path!RefuseNotReady, Path!StartScan, Path!SkipBusyItem, Path!PoolExhausted,
         Path!FindFreeItem, Path!CopyMsg, Path!SubmitToQueue, Path!Respond,
         Path!bootVars, Path!outVars
    <3> QED BY <2>1, <3>1, SamePost, SameSubmit DEF CoapThread
  <2>2. CASE WorkThread
    <3>1. UNCHANGED <<poolReady, got>>
      BY <2>2 DEF WorkThread, Path!WorkStep, Path!TakeItem, Path!EnqueueReading,
         Path!DropReading, Path!FinishItem, Path!bootVars, Path!outVars
    <3> QED BY <2>2, <3>1, SameWork DEF WorkThread
  <2>3. CASE Uptime
    <3>1. UNCHANGED <<poolReady, got>>
      BY <2>3 DEF Uptime, Path!Tick, Path!bootVars, Path!outVars
    <3> QED BY <2>3, <3>1, SameTick DEF Uptime
  <2> QED BY <2>1, <2>2, <2>3
<1>2. OwnType'
  BY <1>1 DEF HubInv, OwnType, Others, guiVars
<1>3. UNCHANGED tableVars /\ UNCHANGED <<cards, noNodesHidden, mainPc>>
  BY <1>1 DEF Others, guiVars
<1>4. BootOrder'
  BY <1>1, <1>3, PathPart DEF HubInv, BootOrder, tableVars
<1> QED BY <1>1, <1>2, <1>3, <1>4, QuietStep

LEMMA BootInv ==
    ASSUME HubInv, BootMain \/ GotIpAddress
    PROVE  HubInv'
<1>1. CASE UiWorkQueueInit
  <2>1. PathP!PathNext /\ UNCHANGED <<tableVars, mainPc, guiVars>> /\ mainPc = "workq"
    BY <1>1, SameBoot DEF UiWorkQueueInit
  <2>2. OwnType' /\ UNCHANGED <<cards, noNodesHidden>>
    BY <2>1 DEF HubInv, OwnType, guiVars
  <2>3. BootOrder'
    BY <2>1, PathPart DEF HubInv, BootOrder, tableVars
  <2> QED BY <2>1, <2>2, <2>3, QuietStep
<1>2. CASE StartNetwork \/ GotIpAddress \/ InitGui
  <2>1. UNCHANGED <<pathVars, tableVars, guiVars>>
    BY <1>2 DEF StartNetwork, GotIpAddress, InitGui
  <2>2. UNCHANGED PathP!pathVars /\ UNCHANGED <<cards, noNodesHidden, poolReady>>
    BY <2>1, PathUnchanged DEF pathVars, guiVars
  <2>3. OwnType'
    BY <1>2, <2>1 DEF HubInv, OwnType, guiVars, StartNetwork, GotIpAddress, InitGui
  <2>4. BootOrder'
    BY <1>2, <2>1, <2>2, PathPart
       DEF HubInv, BootOrder, tableVars, StartNetwork, GotIpAddress, InitGui
  <2> QED BY <2>1, <2>2, <2>3, <2>4, QuietStep
<1> QED BY <1>1, <1>2 DEF BootMain

\* The clock label shows a second that has begun.
LEMMA SecondsAreTimes == \A t \in Path!Times : t \div MS_PER_SECOND \in Path!Times
<1> SUFFICES ASSUME NEW t \in Path!Times PROVE t \div MS_PER_SECOND \in Path!Times
  OBVIOUS
<1>1. t \in Nat /\ t <= MaxTime /\ MaxTime \in Nat /\ MS_PER_SECOND \in Nat \ {0}
  BY HubComponents, HubAssumption DEF Path!Times, Path!PathAssumption
<1>2. t \div MS_PER_SECOND \in Nat /\ t \div MS_PER_SECOND <= t
  BY <1>1
<1> QED BY <1>1, <1>2 DEF Path!Times

LEMMA LoopInv ==
    ASSUME HubInv, LoopMain
    PROVE  HubInv'
<1>1. CASE DrainOne
  <2>1. PathP!PathNext /\ UNCHANGED <<tableVars, guiVars>> /\ mainPc' = "store"
    BY <1>1, SameGet DEF DrainOne
  <2>2. OwnType' /\ UNCHANGED <<cards, noNodesHidden>>
    BY <2>1 DEF HubInv, OwnType, guiVars
  <2>3. got' \in Path!Msgs /\ got' # NoMsg
    <3>1. msgq \in Seq(PathP!Msgs) /\ msgq # <<>> /\ got' = Head(msgq)
      BY <1>1 DEF DrainOne, Path!GetReading, HubInv, PathP!PathInv, PathP!TypeOK
    <3> QED BY <3>1, HubComponents, SamePathState
  <2>4. BootOrder'
    BY <2>1, <2>3, PathPart DEF BootOrder, Path!Msgs, Path!NodeIds, Path!Times
  <2> QED BY <2>1, <2>2, <2>4, QuietStep
<1>2. CASE UpdateClock \/ Poll \/ DrainEmpty \/ LvTaskHandler
  <2>1. UNCHANGED <<pathVars, tableVars, cards, noNodesHidden>>
    BY <1>2 DEF UpdateClock, Poll, DrainEmpty, LvTaskHandler, guiVars
  <2>2. mainPc' \in {"clock", "drain", "lvgl", "poll"}
    BY <1>2 DEF UpdateClock, Poll, DrainEmpty, LvTaskHandler
  <2>3. lastSecond' \in Path!Times \union {-1}
    <3>1. now \in Path!Times /\ lastSecond \in Path!Times \union {-1}
      BY SamePathState DEF HubInv, OwnType, PathP!PathInv, PathP!TypeOK
    <3>2. CASE UpdateClock
      BY <3>1, <3>2, SecondsAreTimes DEF UpdateClock
    <3>3. CASE ~UpdateClock
      BY <1>2, <3>1, <3>3 DEF Poll, DrainEmpty, LvTaskHandler, guiVars
    <3> QED BY <3>2, <3>3
  <2>4. activeTab' \in Tabs /\ temperature_tab_active' \in BOOLEAN
    <3>1. CASE LvTaskHandler
      BY <3>1 DEF LvTaskHandler, EventTabview, HubInv, OwnType
    <3>2. CASE ~LvTaskHandler
      BY <1>2, <3>2 DEF UpdateClock, Poll, DrainEmpty, guiVars, HubInv, OwnType
    <3> QED BY <3>1, <3>2
  <2>5. OwnType'
    <3>1. cards' = cards /\ noNodesHidden' = noNodesHidden
      BY <2>1
    <3>2. cards' \in [Slots -> Cards \union {NoCard}] /\ noNodesHidden' \in BOOLEAN
      BY <3>1 DEF HubInv, OwnType
    <3> QED BY <2>2, <2>3, <2>4, <3>2 DEF OwnType
  <2>6. UNCHANGED PathP!pathVars
    BY <2>1, PathUnchanged
  <2>7. BootOrder'
    BY <2>1, <2>2, <2>6, PathPart DEF BootOrder
  <2> QED BY <2>1, <2>5, <2>6, <2>7, QuietStep
<1> QED BY <1>1, <1>2, HandleReadingInv DEF LoopMain

LEMMA HubStepInv == HubInv /\ [HubNext]_hubVars => HubInv'
<1> SUFFICES ASSUME HubInv, [HubNext]_hubVars PROVE HubInv'
  OBVIOUS
<1>1. CASE UNCHANGED hubVars
  <2>1. UNCHANGED <<pathVars, tableVars, mainPc, guiVars>>
    BY <1>1 DEF hubVars
  <2>2. UNCHANGED PathP!pathVars /\ UNCHANGED <<cards, noNodesHidden, got>>
    BY <2>1, PathUnchanged DEF guiVars, pathVars
  <2>3. OwnType'
    BY <2>1 DEF HubInv, OwnType, guiVars
  <2>4. BootOrder'
    BY <2>1, <2>2, PathPart DEF HubInv, BootOrder, tableVars, pathVars
  <2> QED BY <2>1, <2>2, <2>3, <2>4, QuietStep
<1> QED BY <1>1, BootInv, LoopInv, OthersInv DEF HubNext

LEMMA HubInitInv == HubInit => HubInv
<1> SUFFICES ASSUME HubInit PROVE HubInv
  OBVIOUS
<1>1. PathP!PathInit /\ TableP!TableInit
  BY SamePathState, SameTable DEF HubInit
<1>2. PathP!PathInv /\ TableP!TableInv
  BY <1>1, HubComponents, PathP!PathInitInv, TableP!TableInitInv
<1>3. OwnType
  BY HubComponents, HubAssumption DEF HubInit, OwnType
<1>4. \A s \in Slots : /\ ~nodes[s].used /\ nodes[s].last_update_time = 0
                       /\ nodes[s].history_count = 0 /\ cards[s] = NoCard
  BY SameTable DEF HubInit, Table!TableInit, Table!ZeroedTable, Slots
<1>5. CardsMatchTable
  BY <1>4 DEF HubInit, CardsMatchTable
<1>6. PathP!Journey = <<>> /\ now = 0
  <2>1. pending = <<>> /\ msgq = <<>> /\ got = NoMsg /\ wqPc = "wait" /\ coapPc = "idle"
        /\ now = 0
    BY <1>1 DEF PathP!PathInit
  <2>2. PathP!Taken = <<>> /\ PathP!Stamped = <<>> /\ PathP!InFlight = <<>>
    BY <2>1 DEF PathP!Taken, PathP!Stamped, PathP!InFlight
  <2> QED BY <2>1, <2>2 DEF PathP!Journey
<1>7. ReadingsInOrder
  <2> SUFFICES ASSUME NEW s \in Slots
               PROVE  /\ InOrder(TableP!Chronicle(nodes[s]), nodes[s].last_update_time)
                      /\ nodes[s].last_update_time <= now
                      /\ PathP!Chronological(PathP!Journey, nodes[s].last_update_time, now)
    BY DEF ReadingsInOrder
  <2>1. PathP!Chronological(PathP!Journey, nodes[s].last_update_time, now)
    BY <1>6 DEF PathP!Chronological
  <2> QED BY <1>4, <1>6, <2>1, EmptyInOrder
<1>8. BootOrder
  <2>1. PathP!ReadyFirst
    BY <1>1 DEF PathP!PathInit, PathP!ReadyFirst, PathP!IsBusy
  <2> QED BY <1>1, <1>4, <2>1 DEF BootOrder, HubInit, PathP!PathInit
<1> QED BY <1>2, <1>3, <1>5, <1>7, <1>8 DEF HubInv

-----------------------------------------------------------------------------
(* The theorems.                                                           *)

\* The components keep their invariants when they are composed, and with them
\* hold the order of the boot sequence, the cards and the order of the readings.
THEOREM HubInvariant == HubSpec => []HubInv
  BY HubInitInv, HubStepInv, PTL DEF HubSpec

\* Every variable of the hub keeps its type.
THEOREM HubTypeCorrect == HubSpec => []TypeOK
<1>1. HubInv => TypeOK
  BY SamePathState, SameTable
     DEF HubInv, OwnType, TypeOK, PathP!PathInv, TableP!TableInv
<1> QED BY <1>1, HubInvariant, PTL

\* main creates the card of a node in the round that registers the node, and
\* hides "No nodes detected" with the first one, whatever tab is open.
THEOREM HubCardsMatchTable == HubSpec => []CardsMatchTable
<1>1. HubInv => CardsMatchTable
  BY DEF HubInv
<1> QED BY <1>1, HubInvariant, PTL

\* No reading overtakes another between temp_node_post and the history of its
\* node, over the pool, the two queues and the drain loop.
THEOREM HubHistoryInOrder == HubSpec => []HistoryInOrder
<1>1. HubInv => HistoryInOrder
  <2> SUFFICES ASSUME HubInv PROVE HistoryInOrder
    OBVIOUS
  <2>1. ASSUME NEW s \in Slots
        PROVE  \A j, k \in 1..Len(Table!Chronicle(nodes[s])) :
                 j <= k => Table!Chronicle(nodes[s])[j].timestamp
                             <= Table!Chronicle(nodes[s])[k].timestamp
    <3> DEFINE c == TableP!Chronicle(nodes[s])
    <3>1. InOrder(c, nodes[s].last_update_time)
      BY DEF HubInv, ReadingsInOrder
    <3>2. Table!Chronicle(nodes[s]) = c
      BY SameTable
    <3> HIDE DEF c
    <3>3. ASSUME NEW j \in 1..Len(c), NEW k \in 1..Len(c), j <= k
          PROVE  c[j].timestamp <= c[k].timestamp
      <4>1. j \in 1..k
        BY <3>3
      <4> QED BY <3>1, <4>1 DEF InOrder
    <3> QED BY <3>2, <3>3
  <2>2. ASSUME NEW s \in Slots, NEW k \in 1..Len(Path!InFlight)
        PROVE  nodes[s].last_update_time <= Path!InFlight[k].time
    <3> DEFINE u == nodes[s].last_update_time
               f == PathP!InFlight
    <3>1. PathP!Chronological((PathP!Taken \o f) \o PathP!Stamped, u, now)
      BY DEF HubInv, ReadingsInOrder, PathP!Journey
    <3>2. /\ PathP!Taken \in Seq(PathP!Msgs) /\ f \in Seq(PathP!Msgs)
          /\ PathP!Stamped \in Seq(PathP!Msgs)
      BY HubComponents, PathP!JourneyType DEF HubInv
    <3>3. k \in 1..Len(f) /\ Path!InFlight[k] = f[k]
      BY SamePathState
    <3> HIDE DEF u, f
    <3> DEFINE q == (PathP!Taken \o f) \o PathP!Stamped
               i == Len(PathP!Taken) + k
    <3>4. i \in 1..Len(q) /\ q[i] = f[k]
      BY ONLY <3>2, <3>3
    <3> HIDE DEF q, i
    <3>5. u <= q[i].time
      BY <3>1, <3>4 DEF PathP!Chronological, q
    <3> QED BY <3>3, <3>4, <3>5 DEF u
  <2>3. ASSUME got # NoMsg, NEW s \in Slots
        PROVE  nodes[s].last_update_time <= got.time
    <3>1. got \in PathP!Msgs
      BY <2>3 DEF HubInv, PathP!PathInv, PathP!TypeOK
    <3> QED BY <2>3, <3>1, LastUpdateBefore
  <2> QED BY <2>1, <2>2, <2>3 DEF HistoryInOrder
<1> QED BY <1>1, HubInvariant, PTL

\* Requests are served from power-up on, but until ui_work_queue_init has
\* returned nothing is submitted, and until the loop runs nothing is stored.
THEOREM HubNothingStoredBeforeGui == HubSpec => []NothingStoredBeforeGui
<1>1. HubInv => NothingStoredBeforeGui
  BY SamePathState DEF HubInv, BootOrder, NothingStoredBeforeGui, PathP!ReadyFirst
<1> QED BY <1>1, HubInvariant, PTL

\* While the temperature tab is open a reading is on its card in the step that
\* stores it, and a card that shows its node's last reading goes on doing so.
THEOREM HubOpenTabKeepsUp == HubSpec => OpenTabKeepsUp
<1> DEFINE KeepsUp == temperature_tab_active =>
             \A s \in Slots : Current(s) \/ nodes'[s] # nodes[s] => Current(s)'
<1>1. ASSUME HubInv, HubNext PROVE KeepsUp
  <2> SUFFICES ASSUME temperature_tab_active, NEW t \in Slots,
                      Current(t) \/ nodes'[t] # nodes[t]
               PROVE  Current(t)'
    OBVIOUS
  <2>1. HubInv'
    BY <1>1, HubStepInv
  <2>2. CASE nodes' = nodes /\ cards' = cards
    BY <2>2 DEF Current
  <2>3. CASE HandleReading
    <3>1. CASE nodes' = nodes /\ node' = NoNode
      BY <2>2, <2>3, <3>1 DEF HandleReading
    <3>2. ASSUME NEW s \in Slots, NEW n \in TableP!NodeInfo,
                 node' = s, nodes' = [nodes EXCEPT ![s] = TableP!Stored(n, got)],
                 n.used,
                 n.history_count < HISTORY_SIZE => n.history_head = n.history_count
          PROVE  Current(t)'
      <4>1. /\ cards'[s] # NoCard /\ cards'[s].temp = nodes'[s].current_temp
            /\ \A x \in Slots : x # s => cards'[x] = cards[x]
        BY <1>1, <2>3, <3>2, CardPainted
      <4>2. \A x \in Slots : x # s => nodes'[x] = nodes[x]
        BY <1>1, <2>3, <3>2, ReadingTarget, StoredInSlot
      <4>3. CASE t = s
        BY <4>1, <4>3 DEF Current
      <4>4. CASE t # s
        BY <4>1, <4>2, <4>4 DEF Current
      <4> QED BY <4>3, <4>4
    <3> QED BY <1>1, <2>3, <3>1, <3>2, ReadingTarget
  <2>4. CASE ~HandleReading
    BY <1>1, <2>2, <2>4
       DEF HubNext, BootMain, StartNetwork, UiWorkQueueInit, InitGui, GotIpAddress,
       LoopMain, Poll, UpdateClock, DrainOne, DrainEmpty, LvTaskHandler, CoapThread,
       WorkThread, Uptime, Others, tableVars, guiVars
  <2> QED BY <2>3, <2>4
<1>2. HubInv /\ [HubNext]_hubVars => [KeepsUp]_hubVars
  BY <1>1
<1> HIDE DEF KeepsUp
<1>3. HubSpec => [][KeepsUp]_hubVars
  BY <1>2, HubInvariant, PTL DEF HubSpec
<1> QED BY <1>3 DEF OpenTabKeepsUp, KeepsUp
=============================================================================
