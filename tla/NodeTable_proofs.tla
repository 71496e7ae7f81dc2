-------------------------- MODULE NodeTable_proofs --------------------------
(***************************************************************************)
(* Proofs about NodeTable, for every number of slots and every size of the *)
(* history.  The inductive invariant is the type, the shape of the table   *)
(* and the shape of the rings together: the search finds at most one slot  *)
(* because the ids are distinct, and the newest entry is one before the    *)
(* head because the head never leaves the ring.                            *)
(***************************************************************************)
EXTENDS NodeTable, FiniteSetTheorems, SequenceTheorems, TLAPS

TableInv == TypeOK /\ SlotsWellFormed /\ RingWellFormed

Messages == [id : Ids, temp : Temps, time : Times]

-----------------------------------------------------------------------------
(* Facts about the helpers.                                                *)

\* The ring index steps by one and wraps around at the end.
LEMMA NextHead ==
    ASSUME NEW h \in Entries
    PROVE  (h + 1) % HISTORY_SIZE = IF h = HISTORY_SIZE - 1 THEN 0 ELSE h + 1
<1>1. h \in Nat /\ h + 1 \in 1..HISTORY_SIZE /\ HISTORY_SIZE \in Nat \ {0}
  BY TableAssumption DEF Entries
<1> QED BY <1>1

\* One before the next head is the entry just written.
LEMMA BeforeNextHead ==
    ASSUME NEW h \in Entries
    PROVE  LET g == (h + 1) % HISTORY_SIZE
           IN  /\ g \in Entries
               /\ (g + HISTORY_SIZE - 1) % HISTORY_SIZE = h
<1> DEFINE g == (h + 1) % HISTORY_SIZE
<1>1. h \in Nat /\ h < HISTORY_SIZE /\ HISTORY_SIZE \in Nat \ {0}
  BY TableAssumption DEF Entries
<1>2. CASE h = HISTORY_SIZE - 1
  <2>1. g = 0
    BY <1>2, NextHead
  <2> QED BY <1>1, <1>2, <2>1 DEF Entries
<1>3. CASE h # HISTORY_SIZE - 1
  <2>1. g = h + 1
    BY <1>3, NextHead
  <2>2. (h + HISTORY_SIZE) % HISTORY_SIZE = h
    BY <1>1
  <2> QED BY <1>1, <1>3, <2>1, <2>2 DEF Entries
<1> QED BY <1>2, <1>3

\* Storing a reading in a well-typed node, allocated now or before, gives a
\* node whose newest entry is that reading and whose ring is still in shape.
LEMMA StoredShape ==
    ASSUME NEW n \in NodeInfo, NEW m \in Messages, n.used,
           n.history_count < HISTORY_SIZE => n.history_head = n.history_count
    PROVE  LET s == Stored(n, m)
           IN  /\ s \in NodeInfo
               /\ s.used /\ s.node_id = n.node_id
               /\ s.history_count > 0 /\ s.history_count >= n.history_count
               /\ s.history_count < HISTORY_SIZE => s.history_head = s.history_count
               /\ Newest(s) = [temp |-> s.current_temp, timestamp |-> s.last_update_time]
<1> DEFINE s == Stored(n, m)
           h == n.history_head
<1>1. h \in Entries /\ n.history_count \in 0..HISTORY_SIZE
  BY DEF NodeInfo
<1>2. /\ s.used /\ s.node_id = n.node_id
      /\ s.current_temp = m.temp /\ s.last_update_time = m.time
      /\ s.history = [n.history EXCEPT ![h] = [temp |-> m.temp, timestamp |-> m.time]]
      /\ s.history_head = (h + 1) % HISTORY_SIZE
      /\ s.history_count = IF n.history_count < HISTORY_SIZE
                           THEN n.history_count + 1 ELSE n.history_count
  BY DEF Stored, NodeInfo
<1>3. /\ s.history_head \in Entries
      /\ (s.history_head + HISTORY_SIZE - 1) % HISTORY_SIZE = h
  BY <1>1, <1>2, BeforeNextHead
<1>4. /\ s.history_count \in 0..HISTORY_SIZE
      /\ s.history_count > 0 /\ s.history_count >= n.history_count
  BY <1>1, <1>2, TableAssumption
<1>5. s \in NodeInfo
  <2>1. s.history \in [Entries -> Samples]
    BY <1>2 DEF NodeInfo, Samples, Messages
  <2> DEFINE s1 == [n EXCEPT !.current_temp = m.temp]
             s2 == [s1 EXCEPT !.last_update_time = m.time]
             s3 == [s2 EXCEPT !.history = s.history]
             s4 == [s3 EXCEPT !.history_head = s.history_head]
             s5 == [s4 EXCEPT !.history_count = s.history_count]
  <2>2. m.temp \in Temps /\ m.time \in Times
    BY DEF Messages
  <2>3. s = s5
    BY <1>2 DEF Stored, NodeInfo
  <2> HIDE DEF s
  <2>4. s1 \in NodeInfo
    BY <2>2 DEF NodeInfo
  <2> HIDE DEF s1
  <2>5. s2 \in NodeInfo
    BY <2>2, <2>4 DEF NodeInfo
  <2> HIDE DEF s2
  <2>6. s3 \in NodeInfo
    BY <2>1, <2>5 DEF NodeInfo
  <2> HIDE DEF s3
  <2>7. s4 \in NodeInfo
    BY <1>3, <2>6 DEF NodeInfo
  <2> HIDE DEF s4
  <2>8. s5 \in NodeInfo
    BY <1>4, <2>7 DEF NodeInfo
  <2> QED BY <2>3, <2>8
<1>6. s.history_count < HISTORY_SIZE => s.history_head = s.history_count
  <2> SUFFICES ASSUME s.history_count < HISTORY_SIZE
               PROVE  s.history_head = s.history_count
    OBVIOUS
  <2>1. n.history_count < HISTORY_SIZE /\ s.history_count = n.history_count + 1
    BY <1>1, <1>2, TableAssumption
  <2>2. h = n.history_count
    BY <2>1
  <2>3. h # HISTORY_SIZE - 1
    BY <1>1, <2>1, <2>2, TableAssumption
  <2>4. (h + 1) % HISTORY_SIZE = h + 1
    BY <1>1, <2>3, NextHead
  <2> QED BY <1>2, <2>1, <2>2, <2>4
<1>7. Newest(s) = [temp |-> s.current_temp, timestamp |-> s.last_update_time]
  <2>1. s.history[h] = [temp |-> m.temp, timestamp |-> m.time]
    BY <1>1, <1>2 DEF NodeInfo
  <2> QED BY <1>2, <1>3, <2>1 DEF Newest
<1> QED BY <1>2, <1>4, <1>5, <1>6, <1>7

\* A freshly allocated node meets the hypotheses of StoredShape.
LEMMA AllocatedShape ==
    ASSUME NEW n \in NodeInfo, NEW id \in Ids
    PROVE  LET a == Allocated(n, id)
           IN  a \in NodeInfo /\ a.used /\ a.node_id = id
               /\ a.history_head = 0 /\ a.history_count = 0
<1> DEFINE a1 == [n EXCEPT !.node_id = id]
           a2 == [a1 EXCEPT !.used = TRUE]
           a3 == [a2 EXCEPT !.history_head = 0]
           a4 == [a3 EXCEPT !.history_count = 0]
<1>1. 0 \in Entries /\ 0 \in 0..HISTORY_SIZE
  BY TableAssumption DEF Entries
<1>2. Allocated(n, id) = a4
  BY DEF Allocated
<1>3. a1 \in NodeInfo /\ a1.node_id = id
  BY DEF NodeInfo
<1> HIDE DEF a1
<1>4. a2 \in NodeInfo /\ a2.used /\ a2.node_id = id
  BY <1>3 DEF NodeInfo
<1> HIDE DEF a2
<1>5. a3 \in NodeInfo /\ a3.used /\ a3.node_id = id /\ a3.history_head = 0
  BY <1>1, <1>4 DEF NodeInfo
<1> HIDE DEF a3
<1>6. /\ a4 \in NodeInfo /\ a4.used /\ a4.node_id = id
      /\ a4.history_head = 0 /\ a4.history_count = 0
  BY <1>1, <1>5 DEF NodeInfo
<1> HIDE DEF a4
<1> QED BY <1>2, <1>6

\* When a used slot exists beyond s, or s is the first free slot, all slots
\* before s are used.
LEMMA FirstFreeIsNext ==
    ASSUME TypeOK, SlotsWellFormed, NEW s \in Slots, IsFirst(s, Free)
    PROVE  /\ ~nodes[s].used
           /\ \A t \in Slots : nodes[t].used <=> t < s
  BY TableAssumption DEF TypeOK, SlotsWellFormed, IsFirst, Free, Slots, NodeInfo

-----------------------------------------------------------------------------
(* The invariant is inductive.                                             *)

LEMMA TableInitInv == TableInit => TableInv
<1> SUFFICES ASSUME TableInit PROVE TableInv
  OBVIOUS
<1> USE TableAssumption
<1>1. TypeOK
  BY DEF TableInit, ZeroedTable, TypeOK, NodeInfo, Samples, Entries
<1>2. \A s \in Slots : /\ nodes[s].used = FALSE
                       /\ nodes[s].history_head = 0
                       /\ nodes[s].history_count = 0
  BY DEF TableInit, ZeroedTable
<1>3. SlotsWellFormed /\ RingWellFormed
  BY <1>2 DEF SlotsWellFormed, RingWellFormed
<1> QED BY <1>1, <1>3 DEF TableInv

\* What one handled message does, whichever way get_or_create_node goes: at
\* most one slot changes, and it holds the message's id from then on.
LEMMA StoreStep ==
    ASSUME TableInv, NEW m \in Messages, StoreReading(m)
    PROVE  /\ node' \in Slots \union {NoNode}
           /\ \/ nodes' = nodes
              \/ \E s \in Slots, r \in NodeInfo :
                   /\ nodes' = [nodes EXCEPT ![s] = r]
                   /\ r.used /\ r.node_id = m.id
                   /\ r.history_count > 0
                   /\ r.history_count < HISTORY_SIZE => r.history_head = r.history_count
                   /\ Newest(r) = [temp |-> r.current_temp,
                                   timestamp |-> r.last_update_time]
                   /\ \/ /\ nodes[s].used /\ nodes[s].node_id = m.id
                         /\ r.history_count >= nodes[s].history_count
                      \/ IsFirst(s, Free) /\ Known(m.id) = {}
<1>1. CASE UpdateKnown(m)
  <2>1. PICK s \in Slots : /\ IsFirst(s, Known(m.id))
                           /\ nodes' = [nodes EXCEPT ![s] = Stored(nodes[s], m)]
                           /\ node' = s
    BY <1>1 DEF UpdateKnown, TableInv, TypeOK
  <2>2. nodes[s] \in NodeInfo /\ nodes[s].used /\ nodes[s].node_id = m.id
    BY <2>1 DEF IsFirst, Known, TableInv, TypeOK
  <2>3. nodes[s].history_count < HISTORY_SIZE
          => nodes[s].history_head = nodes[s].history_count
    BY DEF TableInv, RingWellFormed
  <2> DEFINE r == Stored(nodes[s], m)
  <2>4. /\ r \in NodeInfo /\ r.used /\ r.node_id = m.id
        /\ r.history_count > 0 /\ r.history_count >= nodes[s].history_count
        /\ r.history_count < HISTORY_SIZE => r.history_head = r.history_count
        /\ Newest(r) = [temp |-> r.current_temp, timestamp |-> r.last_update_time]
    BY <2>2, <2>3, StoredShape
  <2>5. nodes' = [nodes EXCEPT ![s] = r]
    BY <2>1
  <2> HIDE DEF r
  <2> QED BY <2>1, <2>2, <2>4, <2>5
<1>2. CASE RegisterNew(m)
  <2>1. PICK s \in Slots :
            /\ IsFirst(s, Free)
            /\ nodes' = [nodes EXCEPT ![s] = Stored(Allocated(nodes[s], m.id), m)]
            /\ node' = s
    BY <1>2 DEF RegisterNew, TableInv, TypeOK
  <2>2. nodes[s] \in NodeInfo /\ m.id \in Ids
    BY DEF TableInv, TypeOK, Messages
  <2> DEFINE a == Allocated(nodes[s], m.id)
             r == Stored(a, m)
  <2>3. /\ a \in NodeInfo /\ a.used /\ a.node_id = m.id
        /\ a.history_head = 0 /\ a.history_count = 0
    BY <2>2, AllocatedShape
  <2> HIDE DEF a
  <2>4. /\ r \in NodeInfo /\ r.used /\ r.node_id = m.id
        /\ r.history_count > 0
        /\ r.history_count < HISTORY_SIZE => r.history_head = r.history_count
        /\ Newest(r) = [temp |-> r.current_temp, timestamp |-> r.last_update_time]
    BY <2>3, StoredShape
  <2>5. nodes' = [nodes EXCEPT ![s] = r]
    BY <2>1 DEF a
  <2>6. Known(m.id) = {}
    BY <1>2 DEF RegisterNew
  <2> HIDE DEF r
  <2> QED BY <2>1, <2>4, <2>5, <2>6
<1>3. CASE DropTableFull(m)
  BY <1>3 DEF DropTableFull
<1> QED BY <1>1, <1>2, <1>3 DEF StoreReading

\* The slot that get_or_create_node returns is the one that takes the reading:
\* as it was, when the id is known, or freshly allocated.
LEMMA StoreTarget ==
    ASSUME TableInv, NEW m \in Messages, StoreReading(m)
    PROVE  \/ nodes' = nodes /\ node' = NoNode
           \/ \E s \in Slots, n \in NodeInfo :
                /\ node' = s /\ nodes' = [nodes EXCEPT ![s] = Stored(n, m)]
                /\ n.used /\ n.node_id = m.id
                /\ n.history_count < HISTORY_SIZE => n.history_head = n.history_count
                /\ \/ n = nodes[s] /\ s \in Known(m.id)
                   \/ n.history_count = 0 /\ ~nodes[s].used /\ Known(m.id) = {}
<1>1. CASE UpdateKnown(m)
  <2>1. PICK s \in Slots : /\ IsFirst(s, Known(m.id))
                           /\ nodes' = [nodes EXCEPT ![s] = Stored(nodes[s], m)]
                           /\ node' = s
    BY <1>1 DEF UpdateKnown, TableInv, TypeOK
  <2>2. nodes[s] \in NodeInfo /\ s \in Known(m.id)
    BY <2>1 DEF IsFirst, TableInv, TypeOK
  <2>3. /\ nodes[s].used /\ nodes[s].node_id = m.id
        /\ nodes[s].history_count < HISTORY_SIZE
             => nodes[s].history_head = nodes[s].history_count
    BY <2>2 DEF Known, TableInv, RingWellFormed
  <2> QED BY <2>1, <2>2, <2>3
<1>2. CASE RegisterNew(m)
  <2>1. PICK s \in Slots :
            /\ IsFirst(s, Free)
            /\ nodes' = [nodes EXCEPT ![s] = Stored(Allocated(nodes[s], m.id), m)]
            /\ node' = s
    BY <1>2 DEF RegisterNew, TableInv, TypeOK
  <2>2. nodes[s] \in NodeInfo /\ m.id \in Ids /\ ~nodes[s].used
    BY <2>1 DEF TableInv, TypeOK, Messages, IsFirst, Free
  <2> DEFINE a == Allocated(nodes[s], m.id)
  <2>3. /\ a \in NodeInfo /\ a.used /\ a.node_id = m.id
        /\ a.history_head = 0 /\ a.history_count = 0
    BY <2>2, AllocatedShape
  <2>4. nodes' = [nodes EXCEPT ![s] = Stored(a, m)]
    BY <2>1
  <2> HIDE DEF a
  <2>5. Known(m.id) = {}
    BY <1>2 DEF RegisterNew
  <2> QED BY <2>1, <2>2, <2>3, <2>4, <2>5
<1>3. CASE DropTableFull(m)
  BY <1>3 DEF DropTableFull
<1> QED BY <1>1, <1>2, <1>3 DEF StoreReading

LEMMA TableStepInv == TableInv /\ [TableNext]_tableVars => TableInv'
<1> SUFFICES ASSUME TableInv, [TableNext]_tableVars PROVE TableInv'
  OBVIOUS
<1>1. CASE UNCHANGED tableVars
  BY <1>1 DEF TableInv, TypeOK, SlotsWellFormed, RingWellFormed, tableVars
<1>2. CASE TableNext
  <2>1. PICK m \in Messages : StoreReading(m)
    BY <1>2 DEF TableNext, Messages
  <2>2. node' \in Slots \union {NoNode}
    BY <2>1, StoreStep
  <2>3. CASE nodes' = nodes
    BY <2>2, <2>3 DEF TableInv, TypeOK, SlotsWellFormed, RingWellFormed
  <2>4. CASE nodes' # nodes
    <3>1. PICK s \in Slots, r \in NodeInfo :
            /\ nodes' = [nodes EXCEPT ![s] = r]
            /\ r.used /\ r.node_id = m.id
            /\ r.history_count > 0
            /\ r.history_count < HISTORY_SIZE => r.history_head = r.history_count
            /\ Newest(r) = [temp |-> r.current_temp, timestamp |-> r.last_update_time]
            /\ \/ nodes[s].used /\ nodes[s].node_id = m.id
               \/ IsFirst(s, Free) /\ Known(m.id) = {}
      BY <2>1, <2>4, StoreStep
    <3>2. \A t \in Slots : nodes'[t] = IF t = s THEN r ELSE nodes[t]
      BY <3>1 DEF TableInv, TypeOK
    <3>3. TypeOK'
      BY <2>2, <3>1 DEF TableInv, TypeOK
    <3>4. SlotsWellFormed'
      <4>1. CASE nodes[s].used /\ nodes[s].node_id = m.id
        BY <3>1, <3>2, <4>1 DEF TableInv, SlotsWellFormed
      <4>2. CASE IsFirst(s, Free) /\ Known(m.id) = {}
        <5>1. \A t \in Slots : nodes[t].used <=> t < s
          BY <4>2, FirstFreeIsNext DEF TableInv
        <5>2. \A t \in Slots : nodes[t].used => nodes[t].node_id # m.id
          BY <4>2 DEF Known
        <5> QED BY <3>1, <3>2, <5>1, <5>2, TableAssumption
             DEF TableInv, SlotsWellFormed, Slots
      <4> QED BY <3>1, <4>1, <4>2
    <3>5. RingWellFormed'
      BY <3>1, <3>2 DEF TableInv, RingWellFormed, Newest
    <3> QED BY <3>3, <3>4, <3>5 DEF TableInv
  <2> QED BY <2>3, <2>4
<1> QED BY <1>1, <1>2

-----------------------------------------------------------------------------
(* Theorems.                                                               *)

\* In every reachable state the whole invariant holds.
THEOREM TableInvariant == TableSpec => []TableInv
  BY TableInitInv, TableStepInv, PTL DEF TableSpec

\* The table keeps its type: head and count never leave their ranges.
THEOREM TableTypeCorrect == TableSpec => []TypeOK
  BY TableInvariant, PTL DEF TableInv

\* Used slots come first and never hold the same id twice, so an id has one
\* card (get_or_create_node).
THEOREM TableSlotsWellFormed == TableSpec => []SlotsWellFormed
  BY TableInvariant, PTL DEF TableInv

\* The ring fills before it wraps around, and its newest entry is what the
\* node shows as current.
THEOREM TableRingWellFormed == TableSpec => []RingWellFormed
  BY TableInvariant, PTL DEF TableInv

\* A slot given to an id is never taken away, renamed or emptied.
THEOREM TableSlotsArePermanent == TableSpec => SlotsArePermanent
<1>1. TableInv /\ [TableNext]_tableVars
        => [\A s \in Slots : nodes[s].used =>
              /\ nodes'[s].used
              /\ nodes'[s].node_id = nodes[s].node_id
              /\ nodes'[s].history_count >= nodes[s].history_count]_tableVars
  <2> SUFFICES ASSUME TableInv, TableNext, NEW t \in Slots, nodes[t].used
               PROVE  /\ nodes'[t].used
                      /\ nodes'[t].node_id = nodes[t].node_id
                      /\ nodes'[t].history_count >= nodes[t].history_count
    OBVIOUS
  <2>1. PICK m \in Messages : StoreReading(m)
    BY DEF TableNext, Messages
  <2>2. nodes[t].history_count \in 0..HISTORY_SIZE
    BY DEF TableInv, TypeOK, NodeInfo
  <2>3. CASE nodes'[t] = nodes[t]
    BY <2>2, <2>3, TableAssumption
  <2>4. CASE nodes'[t] # nodes[t]
    <3>1. PICK s \in Slots, r \in NodeInfo :
            /\ nodes' = [nodes EXCEPT ![s] = r]
            /\ r.used /\ r.node_id = m.id
            /\ \/ /\ nodes[s].used /\ nodes[s].node_id = m.id
                  /\ r.history_count >= nodes[s].history_count
               \/ IsFirst(s, Free)
      BY <2>1, <2>4, StoreStep
    <3>2. t = s /\ nodes'[t] = r
      BY <2>4, <3>1 DEF TableInv, TypeOK
    <3> QED BY <3>1, <3>2 DEF IsFirst, Free
  <2> QED BY <2>3, <2>4
<1> QED BY <1>1, TableInvariant, PTL DEF TableSpec, SlotsArePermanent

-----------------------------------------------------------------------------
(* The table implements the log of NodeLog.                                *)

WellShaped(n) == n.history_count < HISTORY_SIZE => n.history_head = n.history_count

\* Going k entries on from entry h passes the end of the ring at most once.
LEMMA RingIndex ==
    ASSUME NEW h \in Entries, NEW k \in 0..HISTORY_SIZE
    PROVE  /\ (h + k) % HISTORY_SIZE
                = IF h + k < HISTORY_SIZE THEN h + k ELSE h + k - HISTORY_SIZE
           /\ (h + k) % HISTORY_SIZE \in Entries
<1>1. h \in Nat /\ k \in Nat /\ h + k < 2 * HISTORY_SIZE /\ HISTORY_SIZE \in Nat \ {0}
  BY TableAssumption DEF Entries
<1>2. CASE h + k < HISTORY_SIZE
  BY <1>1, <1>2 DEF Entries
<1>3. CASE ~(h + k < HISTORY_SIZE)
  <2>1. h + k - HISTORY_SIZE \in 0..(HISTORY_SIZE - 1)
    BY <1>1, <1>3
  <2>2. (h + k) % HISTORY_SIZE = h + k - HISTORY_SIZE
    BY <1>1, <2>1
  <2> QED BY <1>1, <1>3, <2>1, <2>2 DEF Entries
<1> QED BY <1>2, <1>3

\* The valid entries of a ring, from the oldest on: until it is full they are
\* its first ones, then they begin at the head.
LEMMA ChronicleEntries ==
    ASSUME NEW n \in NodeInfo, WellShaped(n)
    PROVE  /\ Chronicle(n) \in Seq(Samples)
           /\ Len(Chronicle(n)) = n.history_count
           /\ n.history_count < HISTORY_SIZE =>
                \A k \in 1..n.history_count : Chronicle(n)[k] = n.history[k - 1]
           /\ n.history_count = HISTORY_SIZE =>
                \A k \in 1..HISTORY_SIZE :
                    Chronicle(n)[k] = n.history[(n.history_head + (k - 1)) % HISTORY_SIZE]
<1> DEFINE c == n.history_count
           h == n.history_head
           oldest == IF c < HISTORY_SIZE THEN 0 ELSE h
<1>1. /\ c \in 0..HISTORY_SIZE /\ h \in Entries /\ HISTORY_SIZE \in Nat \ {0}
      /\ 0 \in Entries /\ n.history \in [Entries -> Samples]
  BY TableAssumption DEF NodeInfo, Entries
<1>2. Chronicle(n) = [k \in 1..c |-> n.history[(oldest + k - 1) % HISTORY_SIZE]]
  BY DEF Chronicle
<1>3. oldest \in Entries
  BY <1>1
<1> HIDE DEF c, h
<1>4. \A k \in 1..c : /\ k - 1 \in 0..HISTORY_SIZE
                      /\ oldest + k - 1 = oldest + (k - 1)
  BY <1>1, <1>3 DEF Entries
<1> HIDE DEF oldest
<1>5. \A k \in 1..c : (oldest + k - 1) % HISTORY_SIZE \in Entries
  BY <1>3, <1>4, RingIndex
<1>6. Chronicle(n) \in Seq(Samples) /\ Len(Chronicle(n)) = c
  BY <1>1, <1>2, <1>5
<1>7. ASSUME c < HISTORY_SIZE, NEW k \in 1..c
      PROVE  Chronicle(n)[k] = n.history[k - 1]
  <2>1. oldest = 0
    BY <1>7 DEF oldest
  <2>2. (0 + (k - 1)) % HISTORY_SIZE = k - 1
    <3>1. 0 + (k - 1) < HISTORY_SIZE /\ k - 1 \in 0..HISTORY_SIZE
      BY <1>1, <1>7
    <3> QED BY <1>1, <3>1, RingIndex
  <2> QED BY <1>2, <1>4, <2>1, <2>2
<1>8. ASSUME c = HISTORY_SIZE, NEW k \in 1..HISTORY_SIZE
      PROVE  Chronicle(n)[k] = n.history[(h + (k - 1)) % HISTORY_SIZE]
  <2>1. oldest = h
    BY <1>1, <1>8 DEF oldest
  <2> QED BY <1>2, <1>4, <1>8, <2>1
<1> QED BY <1>6, <1>7, <1>8 DEF c, h

\* Storing a reading appends it to the chronicle, which keeps the last
\* HISTORY_SIZE readings.
LEMMA StoredIsLatest ==
    ASSUME NEW n \in NodeInfo, NEW m \in Messages, n.used, WellShaped(n)
    PROVE  Chronicle(Stored(n, m))
             = Log!Latest(Append(Chronicle(n), [temp |-> m.temp, timestamp |-> m.time]),
                          HISTORY_SIZE)
<1> DEFINE c == n.history_count
           h == n.history_head
           x == [temp |-> m.temp, timestamp |-> m.time]
           s == Stored(n, m)
           q == Chronicle(n)
           a == Append(q, x)
<1>1. /\ c \in 0..HISTORY_SIZE /\ h \in Entries /\ HISTORY_SIZE \in Nat \ {0}
      /\ n.history \in [Entries -> Samples] /\ x \in Samples
  BY TableAssumption DEF NodeInfo, Messages, Samples
<1>2. s \in NodeInfo /\ WellShaped(s)
  BY StoredShape DEF WellShaped
<1>3. /\ s.history = [n.history EXCEPT ![h] = x]
      /\ s.history_head = (h + 1) % HISTORY_SIZE
      /\ s.history_count = IF c < HISTORY_SIZE THEN c + 1 ELSE c
  BY DEF Stored, NodeInfo
<1>4. \A e \in Entries : s.history[e] = IF e = h THEN x ELSE n.history[e]
  BY <1>1, <1>3
<1>5. /\ q \in Seq(Samples) /\ Len(q) = c
      /\ c < HISTORY_SIZE => \A k \in 1..c : q[k] = n.history[k - 1]
      /\ c = HISTORY_SIZE =>
            \A k \in 1..HISTORY_SIZE : q[k] = n.history[(h + (k - 1)) % HISTORY_SIZE]
  BY ChronicleEntries
<1>6. /\ Chronicle(s) \in Seq(Samples) /\ Len(Chronicle(s)) = s.history_count
      /\ s.history_count < HISTORY_SIZE =>
            \A k \in 1..s.history_count : Chronicle(s)[k] = s.history[k - 1]
      /\ s.history_count = HISTORY_SIZE =>
            \A k \in 1..HISTORY_SIZE :
                Chronicle(s)[k] = s.history[(s.history_head + (k - 1)) % HISTORY_SIZE]
  BY <1>2, ChronicleEntries
<1> HIDE DEF s, q
<1>7. /\ a \in Seq(Samples) /\ Len(a) = c + 1
      /\ \A k \in 1..c : a[k] = q[k]
      /\ a[c + 1] = x
  BY <1>1, <1>5, AppendProperties
<1> HIDE DEF x, a
<1>8. CASE c < HISTORY_SIZE
  <2>1. h = c /\ s.history_count = c + 1
    BY <1>3, <1>8 DEF WellShaped
  <2>2. \A k \in 1..(c + 1) : Chronicle(s)[k] = s.history[k - 1]
    <3>1. CASE c + 1 < HISTORY_SIZE
      BY <1>6, <2>1, <3>1
    <3>2. CASE c + 1 = HISTORY_SIZE
      <4>1. s.history_head = 0
        <5>1. (h + 1) % HISTORY_SIZE = h + 1 - HISTORY_SIZE
          BY <1>1, <2>1, <3>2, RingIndex
        <5> QED BY <1>1, <1>3, <2>1, <3>2, <5>1
      <4> SUFFICES ASSUME NEW k \in 1..(c + 1)
                   PROVE  Chronicle(s)[k] = s.history[k - 1]
        OBVIOUS
      <4>2. (0 + (k - 1)) % HISTORY_SIZE = k - 1
        <5>1. k - 1 \in 0..HISTORY_SIZE /\ 0 + (k - 1) < HISTORY_SIZE /\ 0 \in Entries
          BY <1>1, <3>2 DEF Entries
        <5>2. \A j \in 0..HISTORY_SIZE : j < HISTORY_SIZE => (0 + j) % HISTORY_SIZE = j
          BY <5>1, RingIndex
        <5> HIDE DEF c
        <5> QED BY <5>1, <5>2
      <4> QED BY <1>6, <2>1, <3>2, <4>1, <4>2
    <3> QED BY <1>1, <1>8, <3>1, <3>2
  <2>3. \A k \in 1..(c + 1) : Chronicle(s)[k] = a[k]
    <3> SUFFICES ASSUME NEW k \in 1..(c + 1) PROVE Chronicle(s)[k] = a[k]
      OBVIOUS
    <3>1. k - 1 \in Entries /\ (k - 1 = h <=> k = c + 1)
      BY <1>1, <1>8, <2>1 DEF Entries
    <3>2. CASE k = c + 1
      BY <1>4, <1>7, <2>2, <3>1, <3>2
    <3>3. CASE k \in 1..c
      BY <1>1, <1>4, <1>5, <1>7, <1>8, <2>2, <3>1, <3>3
    <3> QED BY <1>1, <3>2, <3>3
  <2>4. Chronicle(s) = a
    BY <1>6, <1>7, <2>1, <2>3, SeqEqual
  <2>5. Log!Latest(a, HISTORY_SIZE) = a
    BY <1>1, <1>7, <1>8 DEF Log!Latest
  <2> QED BY <2>4, <2>5 DEF s, a, x, q
<1>9. CASE c = HISTORY_SIZE
  <2>1. s.history_count = HISTORY_SIZE /\ s.history_head \in Entries
    BY <1>1, <1>2, <1>3, <1>9 DEF NodeInfo
  <2>2. ASSUME NEW k \in 1..HISTORY_SIZE PROVE Chronicle(s)[k] = a[k + 1]
    <3> DEFINE e == (h + k) % HISTORY_SIZE
    <3>1. /\ k \in 0..HISTORY_SIZE /\ k - 1 \in 0..HISTORY_SIZE /\ 1 \in 0..HISTORY_SIZE
          /\ h \in Nat
      BY <1>1 DEF Entries
    <3>2. /\ e = IF h + k < HISTORY_SIZE THEN h + k ELSE h + k - HISTORY_SIZE
          /\ e \in Entries
      BY <1>1, <3>1, RingIndex
    <3>3. (s.history_head + (k - 1)) % HISTORY_SIZE = e
      <4> DEFINE g == s.history_head
      <4>1. g = IF h + 1 < HISTORY_SIZE THEN h + 1 ELSE h + 1 - HISTORY_SIZE
        BY <1>1, <1>3, <3>1, RingIndex
      <4>2. (g + (k - 1)) % HISTORY_SIZE
              = IF g + (k - 1) < HISTORY_SIZE THEN g + (k - 1) ELSE g + (k - 1) - HISTORY_SIZE
        BY <2>1, <3>1, RingIndex
      <4>3. g \in Nat /\ h < HISTORY_SIZE
        BY <1>1, <2>1 DEF Entries
      <4> HIDE DEF g
      <4>4. (g + (k - 1)) % HISTORY_SIZE = e
        <5> HIDE DEF e
        <5>1. CASE h + 1 < HISTORY_SIZE
          BY <1>1, <3>1, <3>2, <4>1, <4>2, <4>3, <5>1
        <5>2. CASE ~(h + 1 < HISTORY_SIZE)
          BY <1>1, <3>1, <3>2, <4>1, <4>2, <4>3, <5>2
        <5> QED BY <5>1, <5>2
      <4> QED BY <4>4 DEF g
    <3> HIDE DEF e
    <3>4. Chronicle(s)[k] = s.history[e]
      BY <1>6, <2>1, <3>3
    <3>5. CASE k = HISTORY_SIZE
      <4>1. e = h
        BY <1>1, <3>1, <3>2, <3>5 DEF Entries
      <4> QED BY <1>4, <1>7, <1>9, <3>2, <3>4, <3>5, <4>1
    <3>6. CASE k # HISTORY_SIZE
      <4>1. e # h
        BY <1>1, <3>1, <3>2, <3>6 DEF Entries
      <4>2. k + 1 \in 1..HISTORY_SIZE /\ (k + 1) - 1 = k
        BY <1>1, <3>6
      <4>3. q[k + 1] = n.history[e]
        BY <1>5, <1>9, <4>2 DEF e
      <4>4. a[k + 1] = q[k + 1]
        BY <1>7, <1>9, <4>2
      <4> QED BY <1>4, <3>2, <3>4, <4>1, <4>3, <4>4
    <3> QED BY <3>5, <3>6
  <2> DEFINE b == SubSeq(a, 2, HISTORY_SIZE + 1)
  <2>3. Log!Latest(a, HISTORY_SIZE) = b
    <3>1. ~(Len(a) <= HISTORY_SIZE) /\ Len(a) - HISTORY_SIZE + 1 = 2
      BY <1>1, <1>7, <1>9
    <3> QED BY <1>7, <1>9, <3>1 DEF Log!Latest
  <2>4. /\ b \in Seq(Samples) /\ Len(b) = HISTORY_SIZE
        /\ \A k \in 1..HISTORY_SIZE : b[k] = a[k + 1]
    <3>1. \A i \in 2..(HISTORY_SIZE + 1) : a[i] \in Samples
      BY <1>1, <1>7, <1>9, ElementOfSeq
    <3>2. /\ b \in Seq(Samples)
          /\ Len(b) = IF 2 <= HISTORY_SIZE + 1 THEN HISTORY_SIZE + 1 - 2 + 1 ELSE 0
          /\ \A i \in 1..(HISTORY_SIZE + 1 - 2 + 1) : b[i] = a[2 + i - 1]
      BY <1>1, <3>1, SubSeqProperties
    <3> HIDE DEF b
    <3>3. HISTORY_SIZE + 1 - 2 + 1 = HISTORY_SIZE /\ 2 <= HISTORY_SIZE + 1
      BY <1>1
    <3>4. \A k \in 1..HISTORY_SIZE : 2 + k - 1 = k + 1
      BY <1>1
    <3> QED BY <3>2, <3>3, <3>4
  <2> HIDE DEF b
  <2>5. Chronicle(s) = b
    BY <1>6, <2>1, <2>2, <2>4, SeqEqual
  <2> QED BY <2>3, <2>5 DEF s, a, x, q
<1> QED BY <1>1, <1>8, <1>9

\* The log of an id is the chronicle of the one slot that holds it, and it is
\* empty exactly when no slot does.
LogsInSlots ==
    \A id \in Ids :
        /\ \A s \in Known(id) : LogOf(id) = Chronicle(nodes[s])
        /\ LogOf(id) = <<>> <=> Known(id) = {}

LEMMA SlotsHoldLogs == TableInv => LogsInSlots
<1> SUFFICES ASSUME TableInv, NEW id \in Ids
             PROVE  /\ \A s \in Known(id) : LogOf(id) = Chronicle(nodes[s])
                    /\ LogOf(id) = <<>> <=> Known(id) = {}
  BY DEF LogsInSlots
<1>1. ASSUME NEW s \in Known(id) PROVE LogOf(id) = Chronicle(nodes[s])
  <2>1. Known(id) = {s}
    BY <1>1 DEF Known, TableInv, SlotsWellFormed
  <2>2. (CHOOSE t \in Known(id) : TRUE) = s
    BY <2>1
  <2> QED BY <2>1, <2>2 DEF LogOf
<1>2. ASSUME NEW s \in Known(id) PROVE Chronicle(nodes[s]) # <<>>
  <2>1. s \in Slots /\ nodes[s] \in NodeInfo /\ nodes[s].used /\ WellShaped(nodes[s])
    BY <1>2 DEF Known, TableInv, TypeOK, RingWellFormed, WellShaped
  <2>2. nodes[s].history_count > 0
    BY <2>1 DEF TableInv, RingWellFormed
  <2>3. Len(Chronicle(nodes[s])) > 0
    BY <2>1, <2>2, ChronicleEntries
  <2>4. Len(<<>>) = 0
    OBVIOUS
  <2> QED BY <2>3, <2>4
<1>3. Known(id) = {} => LogOf(id) = <<>>
  BY DEF LogOf
<1> QED BY <1>1, <1>2, <1>3

LEMMA SlotsHoldLogsNext == TableInv' => LogsInSlots'
  BY SlotsHoldLogs, PTL

\* NodeLog counts with the same operator.
LEMMA SameCardinality == \A S : Log!Cardinality(S) = Cardinality(S)
  BY DEF Log!Cardinality, Cardinality, Log!IsFiniteSet, IsFiniteSet

\* As many ids are admitted as slots are used.
LEMMA AdmittedInSlots ==
    ASSUME TableInv
    PROVE  /\ \A id \in Ids : id \in Log!Admitted <=> Known(id) # {}
           /\ Cardinality(Log!Admitted) \in Nat
           /\ Cardinality(Log!Admitted) <= MAX_NODES
           /\ Cardinality(Log!Admitted) = MAX_NODES <=> Free = {}
<1> DEFINE usedSlots == {s \in Slots : nodes[s].used}
           owner == [s \in usedSlots |-> nodes[s].node_id]
<1>1. \A id \in Ids : id \in Log!Admitted <=> Known(id) # {}
  BY SlotsHoldLogs DEF Log!Admitted, LogsInSlots
<1>2. owner \in Bijection(usedSlots, Log!Admitted)
  <2>1. ASSUME NEW s \in usedSlots PROVE owner[s] \in Log!Admitted
    <3>1. s \in Slots /\ nodes[s].node_id \in Ids /\ s \in Known(nodes[s].node_id)
      BY DEF TableInv, TypeOK, NodeInfo, Known
    <3> QED BY <1>1, <3>1
  <2>2. ASSUME NEW s \in usedSlots, NEW t \in usedSlots, owner[s] = owner[t] PROVE s = t
    BY <2>2 DEF TableInv, SlotsWellFormed
  <2>3. ASSUME NEW id \in Log!Admitted PROVE \E s \in usedSlots : owner[s] = id
    <3>1. id \in Ids
      BY DEF Log!Admitted
    <3>2. PICK s \in Known(id) : TRUE
      BY <1>1, <3>1
    <3> QED BY <3>2 DEF Known
  <2>4. owner \in [usedSlots -> Log!Admitted]
    BY <2>1
  <2> HIDE DEF usedSlots, owner
  <2>5. owner \in Injection(usedSlots, Log!Admitted)
    BY <2>2, <2>4 DEF Injection, IsInjective
  <2>6. owner \in Surjection(usedSlots, Log!Admitted)
    BY <2>3, <2>4 DEF Surjection
  <2> QED BY <2>5, <2>6 DEF Bijection
<1>3. IsFiniteSet(Slots) /\ Cardinality(Slots) = MAX_NODES /\ MAX_NODES \in Nat
  BY TableAssumption, FS_Interval DEF Slots
<1>4. usedSlots \in SUBSET Slots /\ (usedSlots = Slots <=> Free = {})
  BY DEF Free
<1> HIDE DEF usedSlots, owner
<1>5. /\ IsFiniteSet(usedSlots) /\ Cardinality(usedSlots) \in Nat
      /\ Cardinality(usedSlots) <= MAX_NODES
      /\ Cardinality(usedSlots) = MAX_NODES <=> usedSlots = Slots
  BY <1>3, <1>4, FS_Subset, FS_CardinalityType
<1>6. Cardinality(Log!Admitted) = Cardinality(usedSlots)
  BY <1>2, <1>5, FS_Bijection DEF ExistsBijection
<1> QED BY <1>1, <1>4, <1>5, <1>6

\* A reading that is stored in slot s changes the log of its id, and no other.
LEMMA RecordStep ==
    ASSUME TableInv, TableInv', NEW m \in Messages, NEW s \in Slots, NEW n \in NodeInfo,
           nodes' = [nodes EXCEPT ![s] = Stored(n, m)],
           n.used, n.node_id = m.id, WellShaped(n),
           Chronicle(n) = LogOf(m.id),
           s \in Known(m.id) \/ ~nodes[s].used
    PROVE  \A id \in Ids :
             LogOf(id)' = IF id = m.id
                          THEN Log!Latest(Append(LogOf(id), [temp |-> m.temp, timestamp |-> m.time]),
                                          HISTORY_SIZE)
                          ELSE LogOf(id)
<1> DEFINE r == Stored(n, m)
<1>1. r.used /\ r.node_id = m.id
  BY StoredShape DEF WellShaped
<1>2. \A t \in Slots : nodes'[t] = IF t = s THEN r ELSE nodes[t]
  BY DEF TableInv, TypeOK
<1> HIDE DEF r
<1>3. s \in Known(m.id)'
  BY <1>1, <1>2 DEF Known
<1>4. LogOf(m.id)' = Chronicle(r)
  <2>1. m.id \in Ids
    BY DEF Messages
  <2>2. LogOf(m.id)' = Chronicle(nodes[s])'
    BY <1>3, <2>1, SlotsHoldLogsNext DEF LogsInSlots
  <2> QED BY <1>2, <2>2 DEF Chronicle
<1>5. ASSUME NEW id \in Ids, id # m.id PROVE LogOf(id)' = LogOf(id)
  <2>1. Known(id)' = Known(id) /\ s \notin Known(id)
    BY <1>1, <1>2, <1>5 DEF Known
  <2>2. CASE Known(id) = {}
    BY <2>1, <2>2 DEF LogOf
  <2>3. CASE Known(id) # {}
    <3>1. PICK t \in Known(id) : TRUE
      BY <2>3
    <3>2. LogOf(id) = Chronicle(nodes[t]) /\ LogOf(id)' = Chronicle(nodes[t])'
      BY <2>1, SlotsHoldLogs, SlotsHoldLogsNext DEF LogsInSlots
    <3>3. nodes'[t] = nodes[t]
      BY <1>2, <2>1 DEF Known
    <3> QED BY <3>2, <3>3 DEF Chronicle
  <2> QED BY <2>2, <2>3
<1>6. Chronicle(r) = Log!Latest(Append(LogOf(m.id), [temp |-> m.temp, timestamp |-> m.time]),
                                HISTORY_SIZE)
  BY StoredIsLatest DEF r
<1> QED BY <1>4, <1>5, <1>6

\* A reading that is stored goes to the log of its id, which keeps the last
\* HISTORY_SIZE ones; one that is refused changes no log.
LEMMA StoreLogs ==
    ASSUME TableInv, NEW m \in Messages, StoreReading(m)
    PROVE  \/ nodes' = nodes /\ \A id \in Ids : LogOf(id)' = LogOf(id)
           \/ \A id \in Ids :
                LogOf(id)' = IF id = m.id
                             THEN Log!Latest(Append(LogOf(id), [temp |-> m.temp, timestamp |-> m.time]),
                                             HISTORY_SIZE)
                             ELSE LogOf(id)
<1>1. TableInv'
  BY TableStepInv DEF TableNext, Messages
<1>2. m.id \in Ids
  BY DEF Messages
<1>3. CASE nodes' = nodes
  <2>1. \A id \in Ids : LogOf(id)' = LogOf(id)
    BY <1>3 DEF LogOf, Known, Chronicle
  <2> QED BY <1>3, <2>1
<1>4. ASSUME NEW s \in Slots, NEW n \in NodeInfo,
             nodes' = [nodes EXCEPT ![s] = Stored(n, m)], n.used, n.node_id = m.id,
             n.history_count < HISTORY_SIZE => n.history_head = n.history_count,
             n = nodes[s] /\ s \in Known(m.id)
      PROVE  \A id \in Ids :
               LogOf(id)' = IF id = m.id
                            THEN Log!Latest(Append(LogOf(id), [temp |-> m.temp, timestamp |-> m.time]),
                                            HISTORY_SIZE)
                            ELSE LogOf(id)
  <2>1. WellShaped(n)
    BY <1>4 DEF WellShaped
  <2>2. Chronicle(n) = LogOf(m.id)
    BY <1>2, <1>4, SlotsHoldLogs DEF LogsInSlots
  <2> QED BY <1>1, <1>4, <2>1, <2>2, RecordStep
<1>5. ASSUME NEW s \in Slots, NEW n \in NodeInfo, Known(m.id) = {},
             nodes' = [nodes EXCEPT ![s] = Stored(n, m)], n.used, n.node_id = m.id,
             n.history_count < HISTORY_SIZE => n.history_head = n.history_count,
             n.history_count = 0, ~nodes[s].used
      PROVE  \A id \in Ids :
               LogOf(id)' = IF id = m.id
                            THEN Log!Latest(Append(LogOf(id), [temp |-> m.temp, timestamp |-> m.time]),
                                            HISTORY_SIZE)
                            ELSE LogOf(id)
  <2>1. WellShaped(n)
    BY <1>5 DEF WellShaped
  <2>2. Chronicle(n) = <<>>
    <3>1. Chronicle(n) \in Seq(Samples) /\ Len(Chronicle(n)) = 0
      BY <1>5, <2>1, ChronicleEntries
    <3> QED BY <3>1, EmptySeq
  <2>3. LogOf(m.id) = <<>>
    BY <1>5 DEF LogOf
  <2> QED BY <1>1, <1>5, <2>1, <2>2, <2>3, RecordStep
<1> QED BY <1>3, <1>4, <1>5, StoreTarget

LEMMA LogStep ==
    ASSUME TableInv, [TableNext]_tableVars
    PROVE  [Log!LogNext]_(Log!logVars)
<1> DEFINE logs == [id \in Ids |-> LogOf(id)]
<1>1. TableInv'
  BY TableStepInv
<1>2. CASE UNCHANGED tableVars
  <2>1. UNCHANGED <<logs, Outcome>>
    BY <1>2 DEF tableVars, LogOf, Known, Chronicle, Outcome, Free
  <2> QED BY <2>1 DEF Log!logVars
<1>3. CASE TableNext
  <2>1. PICK m \in Messages : StoreReading(m)
    BY <1>3 DEF TableNext, Messages
  <2> DEFINE x == [temp |-> m.temp, timestamp |-> m.time]
  <2>2. m.id \in Ids /\ x \in Samples
    BY DEF Messages, Samples
  <2>3. ASSUME NEW s \in Slots, NEW n \in NodeInfo,
               nodes' = [nodes EXCEPT ![s] = Stored(n, m)], node' = s,
               n.used, n.node_id = m.id, WellShaped(n), Chronicle(n) = LogOf(m.id),
               s \in Known(m.id) \/ ~nodes[s].used
        PROVE  Log!Record(m.id, x)
    <3>1. \A id \in Ids : LogOf(id)' = IF id = m.id
                                       THEN Log!Latest(Append(LogOf(id), x), HISTORY_SIZE)
                                       ELSE LogOf(id)
      BY <1>1, <2>3, RecordStep
    <3>2. logs' = [logs EXCEPT ![m.id] = Log!Latest(Append(@, x), HISTORY_SIZE)]
      BY <2>2, <3>1
    <3>3. m.id \in Log!Admitted \/ Cardinality(Log!Admitted) < MAX_NODES
      <4>1. CASE s \in Known(m.id)
        BY <2>2, <4>1, AdmittedInSlots
      <4>2. CASE ~nodes[s].used
        <5>1. Free # {}
          BY <4>2 DEF Free
        <5> QED BY <5>1, AdmittedInSlots, TableAssumption
      <4> QED BY <2>3, <4>1, <4>2
    <3>4. Outcome' = "stored"
      BY <2>3, TableAssumption DEF Outcome, Slots
    <3> HIDE DEF x
    <3> QED BY <3>2, <3>3, <3>4, SameCardinality DEF Log!Record
  <2>4. CASE UpdateKnown(m)
    <3>1. PICK s \in Slots : /\ IsFirst(s, Known(m.id))
                             /\ nodes' = [nodes EXCEPT ![s] = Stored(nodes[s], m)]
                             /\ node' = s
      BY <2>4 DEF UpdateKnown, TableInv, TypeOK
    <3>2. s \in Known(m.id) /\ nodes[s].used /\ nodes[s].node_id = m.id
      BY <3>1 DEF IsFirst, Known
    <3>3. nodes[s] \in NodeInfo /\ WellShaped(nodes[s])
      BY DEF TableInv, TypeOK, RingWellFormed, WellShaped
    <3>4. Chronicle(nodes[s]) = LogOf(m.id)
      BY <2>2, <3>2, SlotsHoldLogs DEF LogsInSlots
    <3>5. Log!Record(m.id, x)
      BY <2>3, <3>1, <3>2, <3>3, <3>4
    <3> HIDE DEF x
    <3> QED BY <2>2, <3>5 DEF Log!LogNext
  <2>5. CASE RegisterNew(m)
    <3>1. PICK s \in Slots :
              /\ IsFirst(s, Free)
              /\ nodes' = [nodes EXCEPT ![s] = Stored(Allocated(nodes[s], m.id), m)]
              /\ node' = s
      BY <2>5 DEF RegisterNew, TableInv, TypeOK
    <3> DEFINE n == Allocated(nodes[s], m.id)
    <3>2. /\ n \in NodeInfo /\ n.used /\ n.node_id = m.id
          /\ n.history_head = 0 /\ n.history_count = 0
      BY <2>2, AllocatedShape DEF TableInv, TypeOK
    <3>3. nodes' = [nodes EXCEPT ![s] = Stored(n, m)]
      BY <3>1
    <3> HIDE DEF n
    <3>4. WellShaped(n) /\ Chronicle(n) = <<>>
      <4>1. WellShaped(n)
        BY <3>2 DEF WellShaped
      <4>2. Chronicle(n) \in Seq(Samples) /\ Len(Chronicle(n)) = 0
        BY <3>2, <4>1, ChronicleEntries
      <4> QED BY <4>1, <4>2, EmptySeq
    <3>5. LogOf(m.id) = <<>>
      BY <2>5 DEF RegisterNew, LogOf
    <3>6. ~nodes[s].used
      BY <3>1 DEF IsFirst, Free
    <3>7. Log!Record(m.id, x)
      BY <2>3, <3>1, <3>2, <3>3, <3>4, <3>5, <3>6
    <3> HIDE DEF x
    <3> QED BY <2>2, <3>7 DEF Log!LogNext
  <2>6. CASE DropTableFull(m)
    <3>1. Known(m.id) = {} /\ Free = {} /\ node' = NoNode /\ nodes' = nodes
      BY <2>6 DEF DropTableFull
    <3>2. m.id \notin Log!Admitted /\ Cardinality(Log!Admitted) = MAX_NODES
      BY <2>2, <3>1, AdmittedInSlots
    <3>3. UNCHANGED logs /\ Outcome' = "refused"
      BY <3>1 DEF LogOf, Known, Chronicle, Outcome, Free
    <3>4. Log!Refuse(m.id)
      BY <3>2, <3>3, SameCardinality DEF Log!Refuse
    <3> QED BY <2>2, <3>4 DEF Log!LogNext
  <2> QED BY <2>1, <2>4, <2>5, <2>6 DEF StoreReading
<1> QED BY <1>2, <1>3

\* Slots, linear search and ring keep what they promise: the first MAX_NODES
\* ids that send a reading are admitted for good, the last HISTORY_SIZE
\* readings of each are kept in the order of arrival, and a reading is refused
\* only when the table is full of other ids (get_or_create_node and the body of
\* the drain loop in main).
THEOREM TableLogRefined == TableSpec => LogRefined
<1>1. TableInit => Log!LogInit
  <2> SUFFICES ASSUME TableInit PROVE Log!LogInit
    OBVIOUS
  <2>1. \A s \in Slots : ~nodes[s].used
    BY DEF TableInit, ZeroedTable
  <2>2. \A id \in Ids : LogOf(id) = <<>>
    BY <2>1 DEF LogOf, Known
  <2>3. 0 \in Slots
    BY TableAssumption DEF Slots
  <2>4. Outcome = "none"
    BY <2>1, <2>3 DEF Outcome, Free, TableInit
  <2> QED BY <2>2, <2>4 DEF Log!LogInit
<1>2. TableInv /\ [TableNext]_tableVars => [Log!LogNext]_(Log!logVars)
  BY LogStep
<1> QED BY <1>1, <1>2, TableInvariant, PTL DEF TableSpec, LogRefined, Log!LogSpec
=============================================================================
