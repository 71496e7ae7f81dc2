--------------------------- MODULE HomeHub_proofs ---------------------------
(***************************************************************************)
(* Proofs about HomeHub, for every number of nodes, reports and faults and *)
(* every size of the hub's buffers.  Each component keeps its own          *)
(* invariant, proved in its own module; what is added here follows a       *)
(* reading from the node that sent it to the history of the slot that is   *)
(* named after it: first the requests, then what is inside the hub.        *)
(* The last part counts the readings inside the hub by the nodes that sent *)
(* them (NothingRefused).                                                  *)
(***************************************************************************)
EXTENDS HomeHub, FiniteSetTheorems, SequenceTheorems, TLAPS

\* The requests on their way, as the nodes see them.
OnWay == posts \union (IF inHand = NoRequest THEN {} ELSE {inHand})

ViewP == INSTANCE TempNode_proofs WITH
            Samples <- Measurable, requests <- OnWay, shown <- answered
PathP == INSTANCE UiWorkPathOrder_proofs WITH
            MaxTime <- 0, Texts <- Node!Text,
            Requests <- {PostOf(r) : r \in [node : Nodes, text : Node!Text]}
TableP == INSTANCE NodeTable_proofs WITH
            Ids <- Path!NodeIds, Times <- Path!Times, EmptyId <- <<>>, ZeroTemp <- 0

-----------------------------------------------------------------------------
(* The invariant.                                                          *)

\* No two requests on their way are the same, and none is from the future.
Fresh ==
    /\ inHand \notin posts
    /\ \A r \in OnWay : r.copy <= faults["duplicated"] /\ r.id <= sent[r.node]

\* Every request carries a text its node has sent.
Journaled ==
    /\ journal \in [Nodes -> Seq(Node!Text)]
    /\ \A r \in OnWay : \E j \in 1..Len(journal[r.node]) : journal[r.node][j] = r.text

\* The CoAP thread hands over the reading of the request in hand.
BeforeQueue == {"submit", "scan", "copy", "queue"}
HandOver ==
    coapPc \in BeforeQueue =>
        msg.id = GetNodeId[inHand.node] /\ msg.temp = AtoF[inHand.text]

\* The readings under an id: those in the history of its slot, in the form of
\* messages, followed by all that are inside the hub.
Marked(id, c) ==
    [k \in 1..Len(c) |-> [id |-> id, temp |-> c[k].temp, time |-> c[k].timestamp]]
Readings(id) == Marked(id, TableP!LogOf(id)) \o PathP!InFlight

\* m is a reading that a node sent under its own id.
Owned(m) == \E n \in Nodes : /\ m.id = GetNodeId[n]
                             /\ \E j \in 1..Len(journal[n]) : m.temp = AtoF[journal[n][j]]
AllOwned ==
    \A id \in Path!NodeIds : \A k \in 1..Len(Readings(id)) : Owned(Readings(id)[k])

\* The elements of w with this id are readings among the first b of the texts,
\* in their order, each text read at most once.
Fits(w, id, texts, b) ==
    \E p \in [1..Len(w) -> 0..Len(texts)] :
        \A k \in 1..Len(w) : w[k].id = id =>
            /\ p[k] \in 1..b
            /\ w[k].temp = AtoF[texts[p[k]]]
            /\ \A j \in 1..Len(w) : j < k /\ w[j].id = id => p[j] < p[k]

\* The requests of n whose readings are not yet in the pool, and the number of
\* texts that are older than those.
Coming(n) == {r \in OnWay : r.node = n /\ (r = inHand => coapPc \in BeforeQueue)}
Older(n)  == Len(journal[n]) - (IF Coming(n) = {} THEN 0 ELSE 1)

SentInOrder ==
    Faultless => \A n \in Nodes :
        /\ Fits(Readings(GetNodeId[n]), GetNodeId[n], journal[n], Older(n))
        /\ \A r \in Coming(n) : /\ Len(journal[n]) > 0
                                /\ r.text = journal[n][Len(journal[n])]

HomeInv == /\ ViewP!NodeInv /\ PathP!PathInv /\ TableP!TableInv
           /\ TypeOK
           /\ Fresh /\ Journaled /\ HandOver
           /\ AllOwned /\ SentInOrder

-----------------------------------------------------------------------------
(* The components and the modules that hold the proofs about them define   *)
(* the same things.                                                        *)

LEMMA SamePath ==
    /\ Path!PathInit <=> PathP!PathInit
    /\ Path!NodeIds = PathP!NodeIds
    /\ Path!Times = PathP!Times
    /\ Path!Msgs = PathP!Msgs
    /\ Path!BootStep => PathP!OtherStep
    /\ Path!GetReading => PathP!GetReading
  BY DEF Path!PathInit, PathP!PathInit, Path!NodeIds, PathP!NodeIds, Path!Times,
     PathP!Times, Path!Msgs, PathP!Msgs, Path!Items, PathP!Items,
     Path!BootStep, PathP!BootStep, Path!InitItem, PathP!InitItem, Path!InitDone,
     PathP!InitDone, Path!coapVars, PathP!coapVars, Path!wqVars, PathP!wqVars,
     Path!outVars, PathP!outVars, Path!poolVars, PathP!poolVars, Path!bootVars,
     PathP!bootVars, PathP!OtherStep, Path!GetReading, PathP!GetReading

LEMMA SameSubmit ==
    ASSUME Path!SubmitStep
    PROVE  \/ PathP!SubmitToQueue
           \/ PathP!OtherStep /\ PathP!SubmitStep
  BY DEF Path!SubmitStep, PathP!SubmitStep, Path!RefuseNotReady, PathP!RefuseNotReady,
     Path!StartScan, PathP!StartScan, Path!SkipBusyItem, PathP!SkipBusyItem,
     Path!PoolExhausted, PathP!PoolExhausted, Path!FindFreeItem, PathP!FindFreeItem,
     Path!CopyMsg, PathP!CopyMsg, Path!SubmitToQueue, PathP!SubmitToQueue,
     Path!Respond, PathP!Respond, Path!IsBusy, PathP!IsBusy,
     Path!bootVars, PathP!bootVars, Path!wqVars, PathP!wqVars,
     Path!poolVars, PathP!poolVars, Path!outVars, PathP!outVars,
     PathP!OtherStep

LEMMA SameWork ==
    ASSUME Path!WorkStep
    PROVE  PathP!TakeItem \/ PathP!EnqueueReading \/ PathP!DropReading \/ PathP!FinishItem
  BY DEF Path!WorkStep, Path!TakeItem, PathP!TakeItem,
     Path!EnqueueReading, PathP!EnqueueReading, Path!DropReading, PathP!DropReading,
     Path!FinishItem, PathP!FinishItem, Path!bootVars, PathP!bootVars,
     Path!coapVars, PathP!coapVars,
     Path!poolVars, PathP!poolVars, Path!outVars, PathP!outVars

LEMMA SamePost ==
    ASSUME NEW r \in [node : Nodes, text : Node!Text], Path!ReceivePostOf(PostOf(r))
    PROVE  PathP!ReceivePost /\ PathP!ReceivePostOf(PostOf(r))
<1>1. PathP!ReceivePostOf(PostOf(r))
  BY DEF Path!ReceivePostOf, PathP!ReceivePostOf,
     Path!Posted, PathP!Posted, Path!ExtractedIds, PathP!ExtractedIds,
     Path!ParsedTemps, PathP!ParsedTemps, Path!CopyLen, PathP!CopyLen,
     Path!HasQuery, PathP!HasQuery, Path!PrefixLen, PathP!PrefixLen,
     Path!bootVars, PathP!bootVars, Path!wqVars, PathP!wqVars,
     Path!poolVars, PathP!poolVars, Path!outVars, PathP!outVars
<1> QED BY <1>1 DEF PathP!ReceivePost

LEMMA SameTable ==
    /\ Table!TableInit <=> TableP!TableInit
    /\ Table!NodeInfo = TableP!NodeInfo
    /\ Table!Slots = TableP!Slots
    /\ Table!ZeroedTable = TableP!ZeroedTable
    /\ \A n : Table!Chronicle(n) = TableP!Chronicle(n)
    /\ \A id : Table!Known(id) = TableP!Known(id)
  BY DEF Table!TableInit, TableP!TableInit, Table!ZeroedTable, TableP!ZeroedTable,
     Table!NodeInfo, TableP!NodeInfo, Table!Slots, Table!Known, TableP!Known,
     TableP!Slots, Table!Entries, TableP!Entries, Table!Samples, TableP!Samples,
     Table!Chronicle, TableP!Chronicle

LEMMA SameStore ==
    ASSUME NEW m, Table!StoreReading(m)
    PROVE  TableP!StoreReading(m)
  BY DEF Table!StoreReading, TableP!StoreReading, Table!UpdateKnown, TableP!UpdateKnown,
     Table!RegisterNew, TableP!RegisterNew, Table!DropTableFull, TableP!DropTableFull,
     Table!Known, TableP!Known, Table!Free, TableP!Free, Table!IsFirst, TableP!IsFirst,
     Table!Stored, TableP!Stored, Table!Allocated, TableP!Allocated, Table!Slots,
     TableP!Slots

-----------------------------------------------------------------------------
(* The constants.                                                          *)

\* The table finds its constants as it wants them: the empty id is an id, and
\* 0 is the temperature that is read back from the text of 0.
LEMMA TableConstants == Table!TableAssumption
<1>1. <<>> \in Path!NodeIds
  <2>1. <<>> \in [1..0 -> Chars] /\ 0 \in 0..(NODE_ID_LEN - 1)
    BY HomeComponents DEF Path!PostAssumption
  <2> QED BY <2>1 DEF Path!NodeIds
<1>2. 0 \in Temps
  <2> DEFINE zero == [negative |-> Node!Printed(0).negative, whole |-> Node!Printed(0).whole,
                      decimals |-> Node!Printed(0).decimals]
  <2>1. zero \in Node!PrintedTexts(0, 0) /\ 0 \in Node!Measured
    BY DEF Node!PrintedTexts, Node!Measured
  <2>2. zero \in Node!Text
    BY <2>1 DEF Node!Text
  <2>3. zero.whole = 0 /\ zero.decimals = 0
    <3>1. 0 \div 1000 = 0 /\ (0 % 1000) \div 10 = 0
      OBVIOUS
    <3> QED BY <3>1 DEF Node!Printed, Node!Magnitude
  <2> HIDE DEF zero
  <2>4. Node!ReadBack(zero) = 0
    <3>1. ViewP!ReadBack(zero) = 0
      BY <2>3, HomeComponents, ViewP!ZeroText DEF ViewP!Faults, Node!Faults
    <3> QED BY <3>1 DEF Node!ReadBack, ViewP!ReadBack
  <2> QED BY <2>2, <2>4 DEF Temps, AtoF
<1>3. Path!Times \subseteq Nat /\ 0 \in Path!Times
  BY DEF Path!Times
<1> QED BY <1>1, <1>2, <1>3, HomeComponents DEF Table!TableAssumption

LEMMA Constants ==
    /\ Node!NodeAssumption /\ Path!PostAssumption /\ Path!PathAssumption
    /\ Table!TableAssumption /\ NoMsg \notin Path!Msgs
    /\ ViewP!Faults = Node!Faults
  BY TableConstants, HomeComponents DEF ViewP!Faults, Node!Faults


-----------------------------------------------------------------------------
(* What a node puts into a request, and what the hub gets out of it.       *)

\* Two digits of an id are the two halves of one byte.
LEMMA DigitsOfByte ==
    ASSUME NEW n \in Nodes, NEW i \in 1..4
    PROVE  /\ Mac[n][2 + i] \in 0..255
           /\ GetNodeId[n][2 * i - 1] = Mac[n][2 + i] \div 16
           /\ GetNodeId[n][2 * i] = Mac[n][2 + i] % 16
<1>1. /\ 2 + i \in 1..6 /\ 2 * i - 1 \in 1..8 /\ 2 * i \in 1..8
      /\ ((2 * i - 1) + 1) \div 2 = i /\ (2 * i + 1) \div 2 = i
      /\ (2 * i - 1) % 2 = 1 /\ (2 * i) % 2 = 0
  OBVIOUS
<1>2. ASSUME NEW k \in 1..8
      PROVE  GetNodeId[n][k] = IF k % 2 = 1 THEN Mac[n][2 + (k + 1) \div 2] \div 16
                               ELSE Mac[n][2 + (k + 1) \div 2] % 16
  BY DEF GetNodeId
<1>3. Mac[n][2 + i] \in 0..255
  BY <1>1, HomeAssumption
<1>4. GetNodeId[n][2 * i - 1] = Mac[n][2 + i] \div 16
  BY <1>1, <1>2
<1>5. GetNodeId[n][2 * i] = Mac[n][2 + i] % 16
  BY <1>1, <1>2
<1> QED BY <1>3, <1>4, <1>5

LEMMA NodeIdsDiffer ==
    ASSUME NEW m \in Nodes, NEW n \in Nodes, GetNodeId[m] = GetNodeId[n]
    PROVE  m = n
<1>1. ASSUME NEW i \in 1..4 PROVE Mac[m][2 + i] = Mac[n][2 + i]
  <2>1. \A b, c \in 0..255 : b \div 16 = c \div 16 /\ b % 16 = c % 16 => b = c
    OBVIOUS
  <2>2. /\ Mac[m][2 + i] \in 0..255
        /\ GetNodeId[m][2 * i - 1] = Mac[m][2 + i] \div 16
        /\ GetNodeId[m][2 * i] = Mac[m][2 + i] % 16
    BY DigitsOfByte
  <2>3. /\ Mac[n][2 + i] \in 0..255
        /\ GetNodeId[n][2 * i - 1] = Mac[n][2 + i] \div 16
        /\ GetNodeId[n][2 * i] = Mac[n][2 + i] % 16
    BY DigitsOfByte
  <2>4. /\ Mac[m][2 + i] \div 16 = Mac[n][2 + i] \div 16
        /\ Mac[m][2 + i] % 16 = Mac[n][2 + i] % 16
    BY <2>2, <2>3
  <2> QED BY <2>1, <2>2, <2>3, <2>4
<1>2. ASSUME NEW k \in 3..6 PROVE Mac[m][k] = Mac[n][k]
  <2>1. k - 2 \in 1..4 /\ 2 + (k - 2) = k
    OBVIOUS
  <2>2. Mac[m][2 + (k - 2)] = Mac[n][2 + (k - 2)]
    BY <1>1, <2>1
  <2> QED BY <2>1, <2>2
<1> QED BY <1>2, HomeAssumption

LEMMA NodeIdType ==
    ASSUME NEW n \in Nodes
    PROVE  GetNodeId[n] \in [1..8 -> Chars] /\ GetNodeId[n] \in Path!NodeIds
<1>1. ASSUME NEW k \in 1..8 PROVE GetNodeId[n][k] \in Chars
  <2>1. \A b \in 0..255 : b \div 16 \in 0..18 /\ b % 16 \in 0..18
    OBVIOUS
  <2>2. 2 + (k + 1) \div 2 \in 1..6
    OBVIOUS
  <2>3. Mac[n][2 + (k + 1) \div 2] \in 0..255
    BY <2>2, HomeAssumption
  <2>4. GetNodeId[n][k] = IF k % 2 = 1 THEN Mac[n][2 + (k + 1) \div 2] \div 16
                          ELSE Mac[n][2 + (k + 1) \div 2] % 16
    BY DEF GetNodeId
  <2> QED BY <2>1, <2>3, <2>4 DEF Chars
<1>2. GetNodeId[n] = [k \in 1..8 |-> GetNodeId[n][k]]
  BY DEF GetNodeId
<1>3. GetNodeId[n] \in [1..8 -> Chars]
  BY <1>1, <1>2
<1>4. 8 \in 0..(NODE_ID_LEN - 1)
  BY HomeComponents DEF Path!PostAssumption
<1> QED BY <1>3, <1>4 DEF Path!NodeIds

\* temp_node_post makes one message of the request of a node: the id that the
\* node put into it, and the value of its text.
LEMMA PostedReading ==
    ASSUME NEW n \in Nodes, NEW text \in Node!Text, NEW r, r.node = n, r.text = text, NEW t
    PROVE  PathP!Posted(PostOf(r), t) = {[id |-> GetNodeId[n], temp |-> AtoF[text], time |-> t]}
<1> DEFINE q == Prefix \o GetNodeId[n]
           p == PostOf(r)
<1>1. p.query = q /\ p.payload = text
  BY DEF PostOf
<1>2. /\ Len(q) = 11 /\ \A k \in 1..8 : q[k + 3] = GetNodeId[n][k]
  <2>1. GetNodeId[n] \in Seq(Chars) /\ Len(GetNodeId[n]) = 8
    <3>1. ASSUME NEW S, NEW f \in [1..8 -> S] PROVE f \in Seq(S) /\ Len(f) = 8
      <4>1. f \in Seq(S)
        <5>1. f = [k \in 1..8 |-> f[k]] /\ \A k \in 1..8 : f[k] \in S
          OBVIOUS
        <5>2. [k \in 1..8 |-> f[k]] \in Seq(S)
          BY <5>1
        <5> QED BY <5>1, <5>2
      <4> QED BY ONLY <4>1, f \in [1..8 -> S], DOMAIN f = 1..8, 8 \in Nat, LenProperties
    <3> QED BY ONLY <3>1, NodeIdType
  <2>2. Prefix \in Seq(Chars) /\ Len(Prefix) = 3
    BY DEF Prefix, Chars
  <2>3. ASSUME NEW f \in Seq(Chars), Len(f) = 8
        PROVE  /\ Len(Prefix \o f) = 11
               /\ \A k \in 1..8 : (Prefix \o f)[k + 3] = f[k]
    <3>1. /\ Len(Prefix \o f) = Len(Prefix) + Len(f)
          /\ \A i \in 1..(Len(Prefix) + Len(f)) : (Prefix \o f)[i] =
                IF i <= Len(Prefix) THEN Prefix[i] ELSE f[i - Len(Prefix)]
      BY ONLY <2>2, <2>3, ConcatProperties
    <3>2. Len(Prefix) + Len(f) = 11
      BY ONLY <2>2, <2>3
    <3>3. ASSUME NEW k \in 1..8 PROVE (Prefix \o f)[k + 3] = f[k]
      <4>1. k + 3 \in 1..(Len(Prefix) + Len(f)) /\ ~(k + 3 <= Len(Prefix))
        BY ONLY <2>2, <3>2, k \in 1..8
      <4>2. (k + 3) - Len(Prefix) = k
        BY ONLY <2>2, k \in 1..8
      <4> QED BY ONLY <3>1, <4>1, <4>2
    <3> QED BY ONLY <3>1, <3>2, <3>3
  <2> QED BY <2>1, <2>3
<1>3. q # NoQuery
  BY HomeComponents
<1> HIDE DEF q, p
<1>4. PathP!HasQuery(q)
  BY <1>2, <1>3, HomeComponents DEF PathP!HasQuery, Path!PostAssumption
<1>5. PathP!CopyLen(Len(q)) = 8
  BY <1>2, HomeComponents DEF PathP!CopyLen, PathP!PrefixLen, Path!PostAssumption
<1>6. PathP!ExtractedIds(q) = {GetNodeId[n]}
  <2>1. [k \in 1..8 |-> q[k + 3]] = GetNodeId[n]
    BY <1>2, NodeIdType
  <2>2. PathP!ExtractedIds(q) = {[k \in 1..8 |-> q[k + 3]]}
    <3>1. ~(Len(q) < PathP!PrefixLen)
      BY <1>2 DEF PathP!PrefixLen
    <3>2. [k \in 1..8 |-> q[k + 3]] = [k \in 1..8 |-> q[k + PathP!PrefixLen]]
      BY DEF PathP!PrefixLen
    <3> QED BY <1>4, <1>5, <3>1, <3>2 DEF PathP!ExtractedIds
  <2> QED BY <2>1, <2>2
<1>7. PathP!ParsedTemps(text) = {AtoF[text]}
  BY HomeComponents DEF PathP!ParsedTemps, Path!PostAssumption
<1> QED BY <1>1, <1>6, <1>7 DEF PathP!Posted, p

-----------------------------------------------------------------------------
(* What the nodes see of the hub.                                          *)

LEMMA SameNode ==
    /\ ViewP!Request = Node!Request /\ ViewP!Text = Node!Text
    /\ ViewP!Faults = Node!Faults
    /\ \A v, w : ViewP!PrintedTexts(v, w) = Node!PrintedTexts(v, w)
    /\ ViewP!Init => ViewP!NodeInv
    /\ ViewP!NodeInv /\ [ViewP!Next]_(ViewP!vars) => ViewP!NodeInv'
  BY Constants, HomeComponents, ViewP!NodeInitInv, ViewP!NodeStepInv
  DEF ViewP!Request, Node!Request, ViewP!Text, Node!Text, ViewP!Ids, Node!Ids,
     ViewP!Copy, Node!Copy, ViewP!Measured, Node!Measured, ViewP!PrintedTexts,
     Node!PrintedTexts, ViewP!Printed, Node!Printed, ViewP!Magnitude, Node!Magnitude

LEMMA ViewInit == HomeInit => ViewP!Init
  BY DEF HomeInit, Node!Init, ViewP!Init, OnWay, ViewP!Nothing, Node!Nothing,
     ViewP!Faults, Node!Faults

\* Whatever main of a node does to its requests it does to those on their way.
LEMMA ViewMainStep ==
    ASSUME NEW n \in Nodes, Node!MainStep(n), UNCHANGED inHand
    PROVE  ViewP!MainStep(n)
<1>1. posts' = posts => OnWay' = OnWay
  BY DEF OnWay
<1>2. ASSUME NEW R, posts' = posts \union R PROVE OnWay' = OnWay \union R
  BY <1>2 DEF OnWay
<1>3. CASE Node!SendReading(n)
  <2>1. CASE Node!PrintAndSend(n, sent[n] + 1) /\ UNCHANGED faults
    <3>1. ViewP!PrintAndSend(n, sent[n] + 1)
      BY <1>2, <2>1, SameNode DEF Node!PrintAndSend, ViewP!PrintAndSend
    <3>2. ViewP!SendReading(n)
      BY <1>3, <2>1, <3>1 DEF Node!SendReading, ViewP!SendReading, Node!GoTo, ViewP!GoTo,
         Node!Hold, ViewP!Hold
    <3> QED BY <3>2 DEF ViewP!MainStep
  <2>2. CASE Node!Fault("lost") /\ UNCHANGED <<posts, latest>>
    <3>1. ViewP!SendReading(n)
      BY <1>1, <1>3, <2>2 DEF Node!SendReading, ViewP!SendReading, Node!GoTo, ViewP!GoTo,
         Node!Hold, ViewP!Hold, Node!Fault, ViewP!Fault
    <3> QED BY <3>1 DEF ViewP!MainStep
  <2> QED BY <1>3, <2>1, <2>2 DEF Node!SendReading
<1>4. CASE ~Node!SendReading(n)
  BY <1>1, <1>4 DEF Node!MainStep, ViewP!MainStep, Node!StartClient, ViewP!StartClient,
     Node!SendFails, ViewP!SendFails, Node!PollReturns, ViewP!PollReturns,
     Node!ReceiveReply, ViewP!ReceiveReply, Node!ReceiveFails, ViewP!ReceiveFails,
     Node!WakeUp, ViewP!WakeUp, Node!GoTo, ViewP!GoTo, Node!Hold, ViewP!Hold,
     Node!Fault, ViewP!Fault, Node!threadVars, ViewP!threadVars
<1> QED BY <1>3, <1>4

\* Requests are answered out of the CoAP thread's hand, and lost with it.
LEMMA ViewStep ==
    ASSUME HomeInv, [HomeNext]_vars
    PROVE  [ViewP!Next]_(ViewP!vars)
<1> USE DEF nodeVars, seenVars, ViewP!threadVars, Node!threadVars
<1>1. /\ NoRequest \notin posts /\ inHand \notin posts
      /\ inHand = NoRequest <=> coapPc = "idle"
  <2>1. OnWay \subseteq ViewP!Request
    BY DEF HomeInv, ViewP!NodeInv, ViewP!TypeOK
  <2> QED BY <2>1, SameNode, HomeAssumption DEF OnWay, HomeInv, Fresh, TypeOK
<1>2. ASSUME UNCHANGED <<nodeVars, inHand, answered>> PROVE UNCHANGED ViewP!vars
  BY <1>2 DEF OnWay, ViewP!vars
<1>3. ASSUME NEW n \in Nodes, NodeMain(n) PROVE ViewP!Next
  BY <1>3, ViewMainStep DEF NodeMain, ViewP!Next
<1>4. ASSUME NEW r \in posts, HubReceives(r) PROVE UNCHANGED ViewP!vars
  <2>1. inHand = NoRequest
    BY <1>1, <1>4 DEF HubReceives, Path!ReceivePostOf
  <2>2. OnWay' = OnWay
    BY <1>1, <1>4, <2>1 DEF HubReceives, OnWay
  <2> QED BY <1>4, <2>2 DEF HubReceives, ViewP!vars
<1>5. CASE HubSubmits \/ HubWorks \/ HubBoots \/ HubStores
  BY <1>2, <1>5 DEF HubSubmits, HubWorks, HubBoots, HubStores, HubUnchanged
<1>6. CASE HubAnswers
  <2>1. inHand # NoRequest
    BY <1>1, <1>6 DEF HubAnswers, Path!Respond
  <2>2. inHand \in OnWay /\ OnWay' = OnWay \ {inHand}
    BY <1>1, <1>6, <2>1 DEF HubAnswers, OnWay
  <2>3. ViewP!HubHandles(inHand)
    BY <1>6, <2>2 DEF HubAnswers, ViewP!HubHandles, Node!Show, ViewP!Show, Node!ReadBack,
       ViewP!ReadBack
  <2> QED BY <2>2, <2>3 DEF ViewP!Next, ViewP!Exchange
<1>7. CASE HubRestart /\ inHand = NoRequest
  BY <1>2, <1>7 DEF HubRestart
<1>8. CASE HubRestart /\ inHand # NoRequest
  <2>1. inHand \in OnWay /\ OnWay' = OnWay \ {inHand}
    BY <1>1, <1>8 DEF HubRestart, OnWay
  <2>2. ViewP!LoseDatagram
    BY <1>8, <2>1 DEF HubRestart, ViewP!LoseDatagram, Node!Fault, ViewP!Fault
  <2> QED BY <2>2 DEF ViewP!Next
<1>9. CASE Arrives
  BY <1>9 DEF Arrives, Node!DeliverReply, ViewP!DeliverReply, OnWay, ViewP!Next,
     ViewP!Exchange
<1>10. CASE Misbehaves
  <2>1. CASE Node!LoseDatagram
    <3>1. CASE \E r \in posts : posts' = posts \ {r} /\ UNCHANGED replies
      <4>1. PICK r \in posts : posts' = posts \ {r} /\ UNCHANGED replies
        BY <3>1
      <4>2. r \in OnWay /\ OnWay' = OnWay \ {r}
        BY <1>1, <1>10, <4>1 DEF OnWay, Misbehaves
      <4> QED BY <2>1, <1>10, <4>1, <4>2 DEF Node!LoseDatagram, ViewP!LoseDatagram,
                 Node!Fault, ViewP!Fault, ViewP!Next
    <3>2. CASE \E r \in replies : replies' = replies \ {r} /\ UNCHANGED posts
      BY <2>1, <1>10, <3>2 DEF Misbehaves, OnWay, Node!LoseDatagram, ViewP!LoseDatagram,
         Node!Fault, ViewP!Fault, ViewP!Next
    <3> QED BY <2>1, <3>1, <3>2 DEF Node!LoseDatagram
  <2>2. CASE Node!DuplicateDatagram
    <3>1. CASE \E r \in posts :
                 /\ posts' = posts \union {[r EXCEPT !.copy = faults'["duplicated"]]}
                 /\ UNCHANGED replies
      <4>1. PICK r \in posts :
                   /\ posts' = posts \union {[r EXCEPT !.copy = faults'["duplicated"]]}
                   /\ UNCHANGED replies
        BY <3>1
      <4>2. r \in OnWay /\ OnWay' = OnWay \union {[r EXCEPT !.copy = faults'["duplicated"]]}
        BY <1>10, <4>1 DEF OnWay, Misbehaves
      <4> QED BY <2>2, <1>10, <4>1, <4>2 DEF Node!DuplicateDatagram,
                 ViewP!DuplicateDatagram, Node!Fault, ViewP!Fault, ViewP!Next
    <3>2. CASE /\ \E r \in replies :
                    replies' = replies \union {[r EXCEPT !.copy = faults'["duplicated"]]}
               /\ UNCHANGED posts
      BY <2>2, <1>10, <3>2 DEF Misbehaves, OnWay, Node!DuplicateDatagram,
         ViewP!DuplicateDatagram, Node!Fault, ViewP!Fault, ViewP!Next
    <3> QED BY <2>2, <3>1, <3>2 DEF Node!DuplicateDatagram
  <2> QED BY <1>10, <2>1, <2>2 DEF Misbehaves, ViewP!Next
<1>11. CASE UNCHANGED vars
  BY <1>2, <1>11 DEF vars
<1> QED BY <1>3, <1>4, <1>5, <1>6, <1>7, <1>8, <1>9, <1>10, <1>11
        DEF HomeNext, Hub, Receives

-----------------------------------------------------------------------------
(* The components keep their invariants.                                   *)

LEMMA PathRestarts == PathP!PathInit' => PathP!PathInv'
  BY HomeComponents, PathP!PathInitInv, PTL

LEMMA TableRestarts == TableP!TableInit' => TableP!TableInv'
  BY TableConstants, TableP!TableInitInv, PTL

\* What main takes from the queue is a message for the table.
LEMMA TakenIsMessage ==
    ASSUME HomeInv, HubStores
    PROVE  Head(msgq) \in TableP!Messages /\ PathP!GetReading /\ TableP!StoreReading(Head(msgq))
<1>1. msgq \in Seq(PathP!Msgs) /\ msgq # <<>>
  BY DEF HomeInv, PathP!PathInv, PathP!TypeOK, HubStores, Path!GetReading
<1>2. Head(msgq) \in PathP!Msgs
  BY <1>1
<1>3. PathP!Msgs = TableP!Messages
  BY SamePath DEF PathP!Msgs, TableP!Messages
<1> QED BY <1>2, <1>3, SamePath, SameStore DEF HubStores

\* Every step is one of the path's, or leaves it alone, or restarts the hub.
LEMMA PathOfStep ==
    ASSUME HomeInv, [HomeNext]_vars
    PROVE  [PathP!PathNext]_(PathP!pathVars) \/ (HubRestart /\ PathP!PathInit')
<1>1. ASSUME UNCHANGED pathVars PROVE UNCHANGED PathP!pathVars
  BY <1>1 DEF pathVars, PathP!pathVars, PathP!bootVars, PathP!coapVars, PathP!poolVars,
     PathP!wqVars, PathP!outVars
<1>2. PathP!OtherStep => PathP!PathNext
  BY DEF PathP!OtherStep, PathP!PathNext, PathP!CoapStep, PathP!SubmitStep, PathP!WorkStep
<1>3. ASSUME NEW r \in posts, HubReceives(r) PROVE PathP!PathNext
  <2>1. r \in Node!Request
    BY SameNode DEF HomeInv, ViewP!NodeInv, ViewP!TypeOK, OnWay
  <2>2. [node |-> r.node, text |-> r.text] \in [node : Nodes, text : Node!Text]
    BY <2>1 DEF Node!Request
  <2>3. PostOf([node |-> r.node, text |-> r.text]) = PostOf(r)
    BY DEF PostOf
  <2>4. PathP!ReceivePost
    BY <1>3, <2>2, <2>3, SamePost DEF HubReceives
  <2> QED BY <2>4 DEF PathP!PathNext, PathP!CoapStep
<1>4. CASE HubSubmits
  BY <1>2, <1>4, SameSubmit DEF HubSubmits, PathP!PathNext, PathP!CoapStep, PathP!SubmitStep
<1>5. CASE HubAnswers
  <2>1. PathP!Respond
    BY <1>5 DEF HubAnswers, Path!Respond, PathP!Respond, Path!bootVars, PathP!bootVars,
       Path!wqVars, PathP!wqVars, Path!poolVars, PathP!poolVars, Path!outVars, PathP!outVars
  <2> QED BY <2>1 DEF PathP!PathNext, PathP!CoapStep, PathP!SubmitStep
<1>6. CASE HubWorks
  BY <1>6, SameWork DEF HubWorks, PathP!PathNext, PathP!WorkStep
<1>7. CASE HubBoots
  BY <1>2, <1>7, SamePath DEF HubBoots
<1>8. CASE HubStores
  BY <1>8, TakenIsMessage DEF PathP!PathNext
<1>9. CASE HubRestart
  <2>1. Path!Items = PathP!Items
    BY DEF Path!Items, PathP!Items
  <2> QED BY <1>9, <2>1 DEF HubRestart, PathP!PathInit
<1>10. CASE (\E n \in Nodes : NodeMain(n)) \/ Arrives \/ Misbehaves \/ UNCHANGED vars
  BY <1>1, <1>10 DEF NodeMain, Arrives, Misbehaves, vars
<1> QED BY <1>3, <1>4, <1>5, <1>6, <1>7, <1>8, <1>9, <1>10 DEF HomeNext, Hub, Receives

LEMMA PathKept ==
    ASSUME HomeInv, [HomeNext]_vars
    PROVE  PathP!PathInv'
<1>1. PathP!PathInv
  BY DEF HomeInv
<1>2. [PathP!PathNext]_(PathP!pathVars) => PathP!PathInv'
  BY <1>1, HomeComponents, PathP!PathStepInv
<1> QED BY <1>2, PathOfStep, PathRestarts

LEMMA TableKept ==
    ASSUME HomeInv, [HomeNext]_vars
    PROVE  TableP!TableInv'
<1>1. TableP!TableInv
  BY DEF HomeInv
<1>2. [TableP!TableNext]_(TableP!tableVars) => TableP!TableInv'
  BY <1>1, TableConstants, TableP!TableStepInv DEF Table!TableAssumption
<1>3. CASE UNCHANGED tableVars
  BY <1>2, <1>3 DEF tableVars, TableP!tableVars
<1>4. CASE HubStores
  BY <1>2, <1>4, TakenIsMessage DEF TableP!TableNext, TableP!Messages
<1>5. CASE HubRestart
  <2>1. TableP!TableInit'
    BY <1>5, SameTable DEF HubRestart, TableP!TableInit
  <2> QED BY <2>1, TableRestarts
<1> QED BY <1>3, <1>4, <1>5 DEF HomeNext, Hub, Receives, HubReceives, HubSubmits,
        HubAnswers, HubWorks, HubBoots, NodeMain, Arrives, Misbehaves, vars

-----------------------------------------------------------------------------
(* Requests and texts.                                                     *)

\* A node that sends adds one request, which is the newest of all, and its
\* text to the journal; any other step of main leaves both alone.
LEMMA SendEffect ==
    ASSUME HomeInv, NEW n \in Nodes, NodeMain(n)
    PROVE  \/ /\ posts' = posts /\ journal' = journal
              /\ sent' = sent \/ (n \in Nodes /\ sent' = [sent EXCEPT ![n] = @ + 1])
           \/ /\ pc[n] = "send" /\ faults' = faults
              /\ sent' = [sent EXCEPT ![n] = @ + 1]
              /\ \E r : /\ r.node = n /\ r.id = sent[n] + 1 /\ r.copy = 0
                        /\ r.text \in Node!Text
                        /\ r \notin OnWay
                        /\ posts' = posts \union {r}
                        /\ journal' = [journal EXCEPT ![n] = Append(@, r.text)]
<1>1. /\ journal \in [Nodes -> Seq(Node!Text)]
      /\ \A r \in OnWay : r.id <= sent[r.node]
      /\ sent \in [Nodes -> Nat] /\ latest \in [Nodes -> Node!Measured]
  <2>1. ViewP!Measured = Node!Measured
    BY DEF ViewP!Measured, Node!Measured
  <2> QED BY <2>1, HomeComponents DEF HomeInv, Journaled, Fresh, ViewP!NodeInv,
             ViewP!TypeOK, Node!NodeAssumption
<1>2. ASSUME posts' = posts PROVE journal' = journal
  BY <1>1, <1>2 DEF NodeMain
<1>3. CASE Node!SendReading(n) /\ Node!PrintAndSend(n, sent[n] + 1) /\ UNCHANGED faults
  <2>1. PICK next \in IF alive[n] THEN Measurable \union {latest[n]} ELSE {latest[n]} :
          \E text \in Node!PrintedTexts(latest[n], next) :
             posts' = posts \union
                 {[node |-> n, id |-> sent[n] + 1, text |-> text,
                   from |-> {latest[n], next}, copy |-> 0]}
    BY <1>3 DEF Node!PrintAndSend
  <2>2. PICK text \in Node!PrintedTexts(latest[n], next) :
             posts' = posts \union
                 {[node |-> n, id |-> sent[n] + 1, text |-> text,
                   from |-> {latest[n], next}, copy |-> 0]}
    BY <2>1
  <2> DEFINE r == [node |-> n, id |-> sent[n] + 1, text |-> text,
                   from |-> {latest[n], next}, copy |-> 0]
  <2>3. text \in Node!Text
    <3>1. latest[n] \in Node!Measured /\ next \in Node!Measured
      BY <1>1 DEF Node!Measured
    <3> QED BY <3>1 DEF Node!Text
  <2>4. /\ r.node = n /\ r.id = sent[n] + 1 /\ r.copy = 0 /\ r.text = text
        /\ posts' = posts \union {r}
    BY <2>2
  <2> HIDE DEF r
  <2>5. r \notin OnWay
    BY <1>1, <2>4
  <2>6. posts' # posts /\ posts' \ posts = {r}
    BY <2>4, <2>5 DEF OnWay
  <2>7. (CHOOSE q \in posts' \ posts : TRUE) = r
    BY <2>6
  <2>8. journal' = [journal EXCEPT ![n] = Append(@, r.text)]
    BY <2>6, <2>7 DEF NodeMain
  <2>9. pc[n] = "send" /\ sent' = [sent EXCEPT ![n] = @ + 1]
    BY <1>3 DEF Node!SendReading
  <2> QED BY <1>3, <2>3, <2>4, <2>5, <2>8, <2>9
<1>4. CASE Node!SendReading(n) /\ UNCHANGED posts
  BY <1>2, <1>4 DEF Node!SendReading
<1>5. CASE ~Node!SendReading(n)
  <2>1. posts' = posts /\ sent' = sent
    BY <1>5 DEF NodeMain, Node!MainStep, Node!StartClient, Node!SendFails,
       Node!PollReturns, Node!ReceiveReply, Node!ReceiveFails, Node!WakeUp
  <2> QED BY <1>2, <2>1
<1> QED BY <1>3, <1>4, <1>5 DEF Node!SendReading

\* The steps of the hub and of the network put requests elsewhere: each stays
\* the one it was, but for the number of the copy.
OtherThanNode == Hub \/ HubRestart \/ Arrives \/ Misbehaves \/ UNCHANGED vars

LEMMA OnWayStep ==
    ASSUME HomeInv, OtherThanNode
    PROVE  /\ UNCHANGED <<journal, sent, pc>>
           /\ \A r \in OnWay' : \E q \in OnWay :
                r.node = q.node /\ r.id = q.id /\ r.text = q.text
<1> USE DEF OtherThanNode
<1>0. UNCHANGED <<journal, sent, pc>>
  BY DEF Hub, Receives, HubReceives, HubSubmits, HubAnswers, HubRestart, HubWorks,
     HubBoots, HubStores, HubUnchanged, nodeVars, seenVars, Arrives, Misbehaves,
     Node!LoseDatagram, Node!DuplicateDatagram, Node!DeliverReply, vars
<1> SUFFICES \A r \in OnWay' : \E q \in OnWay :
                r.node = q.node /\ r.id = q.id /\ r.text = q.text
  BY <1>0
<1>1. CASE UNCHANGED <<posts, inHand>>
  BY <1>1 DEF OnWay
<1>2. ASSUME NEW r \in posts, HubReceives(r) PROVE OnWay' \subseteq OnWay
  BY <1>2 DEF HubReceives, OnWay
<1>3. CASE HubAnswers
  BY <1>3 DEF HubAnswers, OnWay
<1>4. CASE HubRestart
  BY <1>4 DEF HubRestart, OnWay
<1>5. CASE Misbehaves
  <2>1. ASSUME NEW r \in posts'
        PROVE  \E q \in posts : r.node = q.node /\ r.id = q.id /\ r.text = q.text
    <3>1. CASE r \in posts
      BY <3>1
    <3>2. CASE r \notin posts
      <4>1. PICK q \in posts : r = [q EXCEPT !.copy = faults'["duplicated"]]
        BY <1>5, <2>1, <3>2 DEF Misbehaves, Node!LoseDatagram, Node!DuplicateDatagram
      <4>2. q \in Node!Request
        BY SameNode DEF HomeInv, ViewP!NodeInv, ViewP!TypeOK, OnWay
      <4>3. r.node = q.node /\ r.id = q.id /\ r.text = q.text
        BY <4>1, <4>2 DEF Node!Request
      <4> QED BY <4>3
    <3> QED BY <3>1, <3>2
  <2> QED BY <1>5, <2>1 DEF Misbehaves, OnWay
<1> QED BY <1>1, <1>2, <1>3, <1>4, <1>5 DEF Hub, Receives, HubSubmits,
        HubWorks, HubBoots, HubStores, HubUnchanged, nodeVars, Arrives,
        Node!DeliverReply, vars

LEMMA NodesKept ==
    ASSUME HomeInv, [HomeNext]_vars
    PROVE  /\ ViewP!NodeInv'
           /\ faults["duplicated"] \in Nat /\ faults["pollError"] \in Nat
           /\ faults'["duplicated"] \in Nat /\ faults'["pollError"] \in Nat
           /\ faults'["duplicated"] >= faults["duplicated"]
           /\ faults'["pollError"] >= faults["pollError"]
           /\ OnWay \subseteq Node!Request /\ OnWay' \subseteq Node!Request
           /\ NoRequest \notin OnWay /\ NoRequest \notin OnWay'
<1>1. ViewP!NodeInv' /\ [ViewP!Next]_(ViewP!vars)
  BY ViewStep, SameNode DEF HomeInv
<1>2. ASSUME NEW g \in ViewP!Faults
      PROVE  faults[g] \in Nat /\ faults'[g] \in Nat /\ faults'[g] >= faults[g]
  <2>1. ViewP!TypeOK
    BY DEF HomeInv, ViewP!NodeInv
  <2>2. faults'[g] \in Nat /\ faults'[g] >= faults[g]
    BY <1>1, <2>1, HomeComponents, SameNode, ViewP!FaultsGrow
  <2> QED BY <2>1, <2>2 DEF ViewP!TypeOK
<1>3. "duplicated" \in ViewP!Faults /\ "pollError" \in ViewP!Faults
  BY DEF ViewP!Faults
<1>4. OnWay \subseteq Node!Request /\ OnWay' \subseteq Node!Request
  BY <1>1, SameNode DEF HomeInv, ViewP!NodeInv, ViewP!TypeOK
<1> QED BY <1>1, <1>2, <1>3, <1>4, HomeAssumption

LEMMA SentCounts ==
    ASSUME HomeInv, [HomeNext]_vars
    PROVE  /\ sent \in [Nodes -> Nat] /\ sent' \in [Nodes -> Nat]
           /\ \A n \in Nodes : sent'[n] >= sent[n]
<1>1. sent \in [Nodes -> Nat] /\ sent' \in [Nodes -> Nat]
  BY NodesKept, HomeComponents DEF HomeInv, ViewP!NodeInv, ViewP!TypeOK,
     Node!NodeAssumption
<1>2. ASSUME NEW m \in Nodes, NodeMain(m), NEW n \in Nodes PROVE sent'[n] >= sent[n]
  BY <1>1, <1>2, SendEffect
<1>3. CASE OtherThanNode
  BY <1>1, <1>3, OnWayStep
<1> QED BY <1>1, <1>2, <1>3 DEF HomeNext, OtherThanNode

LEMMA FreshStep ==
    ASSUME HomeInv, [HomeNext]_vars
    PROVE  Fresh'
<1>1. \A r \in OnWay : r.copy <= faults["duplicated"] /\ r.id <= sent[r.node]
  BY DEF HomeInv, Fresh
<1>2. \A r \in Node!Request : r.copy \in Int /\ r.id \in Int /\ r.node \in Nodes
  BY HomeComponents DEF Node!Request, Node!Ids, Node!Copy
<1>3. inHand \notin posts
  BY DEF HomeInv, Fresh
<1>4. \A r \in OnWay : r.copy <= faults'["duplicated"] /\ r.id <= sent'[r.node]
  BY <1>1, <1>2, SentCounts, NodesKept
<1>5. CASE UNCHANGED <<posts, inHand>>
  BY <1>3, <1>4, <1>5 DEF Fresh, OnWay
<1>6. ASSUME NEW n \in Nodes, NodeMain(n), NEW r, r.node = n, r.id = sent[n] + 1,
             r.copy = 0, r \notin OnWay, posts' = posts \union {r},
             sent' = [sent EXCEPT ![n] = @ + 1]
      PROVE  Fresh'
  <2>1. inHand' = inHand
    BY <1>6 DEF NodeMain
  <2>2. r # NoRequest
    BY <1>6, NodesKept DEF OnWay
  <2>3. inHand' \notin posts'
    BY <1>3, <1>6, <2>1, <2>2 DEF OnWay
  <2>4. r.copy <= faults'["duplicated"] /\ r.id <= sent'[r.node]
    BY <1>6, SentCounts, NodesKept
  <2>5. \A q \in OnWay' : q \in OnWay \/ q = r
    BY <1>6, <2>1 DEF OnWay
  <2> QED BY <1>4, <2>3, <2>4, <2>5 DEF Fresh
<1>7. ASSUME NEW r \in posts, HubReceives(r) PROVE Fresh'
  <2>1. inHand' \notin posts' /\ OnWay' \subseteq OnWay
    BY <1>7 DEF HubReceives, OnWay
  <2> QED BY <1>4, <2>1 DEF Fresh
<1>8. CASE HubAnswers \/ HubRestart
  <2>1. OnWay' \subseteq OnWay /\ inHand' = NoRequest /\ posts' = posts
    BY <1>8 DEF HubAnswers, HubRestart, OnWay
  <2>2. inHand' \notin posts'
    BY <2>1, NodesKept DEF OnWay
  <2> QED BY <1>4, <2>1, <2>2 DEF Fresh
<1>9. CASE Misbehaves /\ Node!LoseDatagram
  <2>1. posts' \subseteq posts /\ inHand' = inHand
    BY <1>9 DEF Misbehaves, Node!LoseDatagram
  <2> QED BY <1>3, <1>4, <2>1 DEF Fresh, OnWay
<1>10. CASE Misbehaves /\ Node!DuplicateDatagram
  <2>1. inHand' = inHand /\ sent' = sent
    BY <1>10 DEF Misbehaves, Node!DuplicateDatagram
  <2>2. faults'["duplicated"] = faults["duplicated"] + 1
    <3>1. faults \in [Node!Faults -> Nat] /\ "duplicated" \in Node!Faults
      BY SameNode DEF HomeInv, ViewP!NodeInv, ViewP!TypeOK, Node!Faults
    <3> QED BY <1>10, <3>1 DEF Node!DuplicateDatagram, Node!Fault
  <2>3. ASSUME NEW q \in posts
        PROVE  LET d == [q EXCEPT !.copy = faults'["duplicated"]]
               IN  /\ d.copy = faults'["duplicated"] /\ d.id = q.id /\ d.node = q.node
                   /\ d # inHand
    <3> DEFINE d == [q EXCEPT !.copy = faults'["duplicated"]]
    <3>1. q \in Node!Request /\ q \in OnWay
      BY NodesKept DEF OnWay
    <3>2. d.copy = faults'["duplicated"] /\ d.id = q.id /\ d.node = q.node
      BY <3>1 DEF Node!Request
    <3>3. faults'["duplicated"] \in Node!Copy
      <4>1. /\ faults'["duplicated"] \in Nat
            /\ faults'["duplicated"] <= MaxFaults["duplicated"]
            /\ MaxFaults["duplicated"] \in Nat
        BY NodesKept, HomeComponents DEF ViewP!NodeInv, ViewP!TypeOK, ViewP!Faults,
           Node!NodeAssumption, Node!Faults
      <4> QED BY <4>1 DEF Node!Copy
    <3>4. d \in Node!Request
      BY <3>1, <3>3 DEF Node!Request
    <3>5. d # inHand
      <4>1. CASE inHand = NoRequest
        BY <3>4, <4>1, HomeAssumption
      <4>2. CASE inHand # NoRequest
        <5>1. inHand \in OnWay
          BY <4>2 DEF OnWay
        <5>2. inHand.copy \in Int /\ inHand.copy <= faults["duplicated"]
          BY <1>1, <1>2, <5>1, NodesKept
        <5> HIDE DEF d
        <5>3. d.copy # inHand.copy
          BY <2>2, <3>2, <5>2, NodesKept
        <5> QED BY <5>3
      <4> QED BY <4>1, <4>2
    <3> QED BY <3>2, <3>5
  <2>4. \A r \in posts' \ posts : \E q \in posts :
          r = [q EXCEPT !.copy = faults'["duplicated"]]
    BY <1>10 DEF Node!DuplicateDatagram
  <2>5. inHand' \notin posts'
    BY <1>3, <2>1, <2>3, <2>4
  <2>6. ASSUME NEW r \in OnWay'
        PROVE  r.copy <= faults'["duplicated"] /\ r.id <= sent'[r.node]
    <3>1. CASE r \in OnWay
      BY <1>4, <3>1
    <3>2. CASE r \notin OnWay
      <4>1. r \in posts' \ posts
        BY <2>1, <3>2 DEF OnWay
      <4>2. PICK q \in posts : r = [q EXCEPT !.copy = faults'["duplicated"]]
        BY <2>4, <4>1
      <4>3. q \in OnWay
        BY DEF OnWay
      <4> QED BY <1>4, <2>3, <4>2, <4>3, NodesKept
    <3> QED BY <3>1, <3>2
  <2> QED BY <2>5, <2>6 DEF Fresh
<1>11. ASSUME NEW n \in Nodes, NodeMain(n) PROVE Fresh'
  <2>1. CASE posts' = posts
    BY <1>5, <1>11, <2>1 DEF NodeMain
  <2>2. CASE posts' # posts
    BY <1>6, <1>11, <2>2, SendEffect
  <2> QED BY <2>1, <2>2
<1> QED BY <1>5, <1>7, <1>8, <1>9, <1>10, <1>11 DEF HomeNext, Hub, Receives, HubSubmits,
        HubWorks, HubBoots, HubStores, HubUnchanged, nodeVars, Arrives,
        Node!DeliverReply, Misbehaves, vars

LEMMA JournaledStep ==
    ASSUME HomeInv, [HomeNext]_vars
    PROVE  Journaled'
<1>1. /\ journal \in [Nodes -> Seq(Node!Text)]
      /\ \A r \in OnWay : \E j \in 1..Len(journal[r.node]) : journal[r.node][j] = r.text
  BY DEF HomeInv, Journaled
<1>2. CASE OtherThanNode
  BY <1>1, <1>2, OnWayStep DEF Journaled
<1>3. ASSUME NEW n \in Nodes, NodeMain(n), posts' = posts, journal' = journal
      PROVE  Journaled'
  BY <1>1, <1>3 DEF Journaled, OnWay, NodeMain
<1>4. ASSUME NEW n \in Nodes, NodeMain(n), NEW r, r.node = n, r.text \in Node!Text,
             posts' = posts \union {r},
             journal' = [journal EXCEPT ![n] = Append(@, r.text)]
      PROVE  Journaled'
  <2>1. journal' \in [Nodes -> Seq(Node!Text)]
    BY <1>1, <1>4
  <2>2. /\ Len(journal'[n]) = Len(journal[n]) + 1 /\ Len(journal[n]) \in Nat
        /\ journal'[n][Len(journal[n]) + 1] = r.text
        /\ \A j \in 1..Len(journal[n]) : journal'[n][j] = journal[n][j]
    <3>1. journal[n] \in Seq(Node!Text) /\ journal'[n] = Append(journal[n], r.text)
      BY <1>1, <1>4
    <3> QED BY ONLY <3>1, <1>4
  <2>3. ASSUME NEW q \in OnWay', q \in OnWay
        PROVE  \E j \in 1..Len(journal'[q.node]) : journal'[q.node][j] = q.text
    <3>1. PICK j \in 1..Len(journal[q.node]) : journal[q.node][j] = q.text
      BY <1>1, <2>3
    <3>2. q.node \in Nodes
      BY <2>3, NodesKept DEF Node!Request
    <3>3. CASE q.node = n
      <4>1. j \in 1..Len(journal'[n])
        BY <2>2, <3>1, <3>3
      <4> QED BY <2>2, <3>1, <3>3, <4>1
    <3>4. CASE q.node # n
      BY <1>1, <1>4, <3>1, <3>2, <3>4
    <3> QED BY <3>3, <3>4
  <2>4. \E j \in 1..Len(journal'[r.node]) : journal'[r.node][j] = r.text
    <3>1. Len(journal[n]) + 1 \in 1..Len(journal'[n])
      BY <2>2
    <3> QED BY <1>4, <2>2, <3>1
  <2>5. \A q \in OnWay' : q \in OnWay \/ q = r
    BY <1>4 DEF OnWay, NodeMain
  <2> QED BY <2>1, <2>3, <2>4, <2>5 DEF Journaled
<1>5. ASSUME NEW n \in Nodes, NodeMain(n) PROVE Journaled'
  BY <1>3, <1>4, <1>5, SendEffect
<1> QED BY <1>2, <1>5 DEF HomeNext, OtherThanNode

\* The texts of a node only grow.
LEMMA JournalGrows ==
    ASSUME HomeInv, [HomeNext]_vars, NEW n \in Nodes
    PROVE  /\ journal[n] \in Seq(Node!Text) /\ journal'[n] \in Seq(Node!Text)
           /\ Len(journal'[n]) >= Len(journal[n])
           /\ \A j \in 1..Len(journal[n]) : journal'[n][j] = journal[n][j]
<1>1. journal \in [Nodes -> Seq(Node!Text)] /\ journal' \in [Nodes -> Seq(Node!Text)]
  BY JournaledStep DEF HomeInv, Journaled
<1>2. journal[n] \in Seq(Node!Text) /\ journal'[n] \in Seq(Node!Text)
  BY <1>1
<1>3. ASSUME journal'[n] = journal[n]
      PROVE  /\ Len(journal'[n]) >= Len(journal[n])
             /\ \A j \in 1..Len(journal[n]) : journal'[n][j] = journal[n][j]
  BY <1>2, <1>3
<1>4. ASSUME NEW text \in Node!Text, journal'[n] = Append(journal[n], text)
      PROVE  /\ Len(journal'[n]) >= Len(journal[n])
             /\ \A j \in 1..Len(journal[n]) : journal'[n][j] = journal[n][j]
  BY <1>2, <1>4
<1>5. ASSUME NEW m \in Nodes, NodeMain(m)
      PROVE  \/ journal'[n] = journal[n]
             \/ \E text \in Node!Text : journal'[n] = Append(journal[n], text)
  BY <1>1, <1>5, SendEffect
<1>6. OtherThanNode => journal'[n] = journal[n]
  BY OnWayStep
<1> QED BY <1>2, <1>3, <1>4, <1>5, <1>6 DEF HomeNext, OtherThanNode

LEMMA TypeStep ==
    ASSUME HomeInv, [HomeNext]_vars
    PROVE  TypeOK'
<1> USE DEF HubUnchanged, nodeVars, pathVars, tableVars, seenVars
<1>1. TypeOK /\ NoRequest \notin posts
  BY NodesKept DEF HomeInv, OnWay
<1>2. (inHand = NoRequest <=> coapPc = "idle")'
  <2>1. inHand = NoRequest <=> coapPc = "idle"
    BY <1>1 DEF TypeOK
  <2>2. CASE UNCHANGED <<inHand, coapPc>>
    BY <2>1, <2>2
  <2>3. ASSUME NEW r \in posts, HubReceives(r) PROVE inHand' # NoRequest /\ coapPc' # "idle"
    BY <1>1, <2>3 DEF HubReceives, Path!ReceivePostOf
  <2>4. CASE HubAnswers \/ HubRestart
    BY <2>4 DEF HubAnswers, HubRestart, Path!Respond
  <2>5. CASE HubSubmits
    <3>1. inHand' = inHand /\ coapPc # "idle" /\ coapPc' # "idle"
      BY <2>5 DEF HubSubmits, Path!SubmitStep, Path!RefuseNotReady, Path!StartScan,
         Path!SkipBusyItem, Path!PoolExhausted, Path!FindFreeItem, Path!CopyMsg,
         Path!SubmitToQueue, Path!Respond
    <3> QED BY <2>1, <3>1
  <2>6. CASE HubWorks \/ HubBoots \/ HubStores
    BY <2>2, <2>6 DEF HubWorks, HubBoots, HubStores, Path!WorkStep, Path!TakeItem,
       Path!EnqueueReading, Path!DropReading, Path!FinishItem, Path!BootStep,
       Path!InitItem, Path!InitDone, Path!GetReading, Path!coapVars
  <2>7. CASE (\E n \in Nodes : NodeMain(n)) \/ Arrives \/ Misbehaves \/ UNCHANGED vars
    BY <2>2, <2>7 DEF NodeMain, Arrives, Misbehaves, vars
  <2> QED BY <2>1, <2>3, <2>4, <2>5, <2>6, <2>7 DEF HomeNext, Hub, Receives
<1>3. (inHand # NoRequest =>
         inHand.node \in Nodes /\ inHand.id \in 1..sent[inHand.node])'
  <2> SUFFICES ASSUME inHand' # NoRequest
               PROVE  inHand'.node \in Nodes /\ inHand'.id \in 1..sent'[inHand'.node]
    OBVIOUS
  <2>1. inHand' \in OnWay'
    BY DEF OnWay
  <2>2. inHand'.node \in Nodes /\ inHand'.id \in 1..MaxRequests
    BY <2>1, NodesKept DEF Node!Request, Node!Ids
  <2>3. inHand'.id <= sent'[inHand'.node]
    BY <2>1, FreshStep DEF Fresh
  <2>4. sent'[inHand'.node] \in Nat
    BY <2>2, SentCounts
  <2> QED BY <2>2, <2>3, <2>4
<1>4. troubles' \in 0..MaxTroubles
  <2>1. troubles \in 0..MaxTroubles /\ MaxTroubles \in Nat
    BY <1>1, HomeAssumption DEF TypeOK
  <2>2. CASE UNCHANGED troubles
    BY <2>1, <2>2
  <2>3. ASSUME NEW b, Trouble(b) PROVE troubles' \in 0..MaxTroubles
    BY <2>1, <2>3 DEF Trouble
  <2> QED BY <2>2, <2>3 DEF HomeNext, NodeMain, Hub, Receives, HubReceives, HubSubmits,
             HubAnswers, HubWorks, HubBoots, HubStores, HubRestart, Arrives, Misbehaves,
             vars
<1>5. ASSUME NEW n \in Nodes PROVE Len(journal'[n]) <= sent'[n]
  <2>1. Len(journal[n]) <= sent[n] /\ Len(journal[n]) \in Nat
    BY <1>1, JournalGrows DEF TypeOK
  <2>2. CASE journal' = journal
    BY <2>1, <2>2, SentCounts
  <2>3. ASSUME NEW m \in Nodes, NEW text \in Node!Text,
               journal' = [journal EXCEPT ![m] = Append(@, text)],
               sent' = [sent EXCEPT ![m] = @ + 1]
        PROVE  Len(journal'[n]) <= sent'[n]
    <3>1. journal \in [Nodes -> Seq(Node!Text)]
      BY DEF HomeInv, Journaled
    <3>2. CASE n = m
      <4>1. journal'[n] = Append(journal[n], text) /\ sent'[n] = sent[n] + 1
        BY <2>3, <3>1, <3>2, SentCounts
      <4>2. Len(journal'[n]) = Len(journal[n]) + 1
        BY <3>1, <4>1
      <4> QED BY <2>1, <4>1, <4>2, SentCounts
    <3>3. CASE n # m
      <4>1. journal'[n] = journal[n] /\ sent'[n] = sent[n]
        BY <2>3, <3>1, <3>3, SentCounts
      <4> QED BY <2>1, <4>1
    <3> QED BY <3>2, <3>3
  <2>4. ASSUME NEW m \in Nodes, NodeMain(m) PROVE Len(journal'[n]) <= sent'[n]
    BY <2>2, <2>3, <2>4, SendEffect
  <2>5. OtherThanNode => journal' = journal
    BY OnWayStep
  <2> QED BY <2>2, <2>4, <2>5 DEF HomeNext, OtherThanNode
<1>6. hurried' \in BOOLEAN
  <2>1. hurried \in BOOLEAN
    BY <1>1 DEF TypeOK
  <2>2. CASE UNCHANGED hurried
    BY <2>1, <2>2
  <2>3. ASSUME NEW n \in Nodes, NodeMain(n) PROVE hurried' \in BOOLEAN
    BY <2>1, <2>3, Zenon DEF NodeMain
  <2> QED BY <2>2, <2>3 DEF HomeNext, Hub, Receives, HubReceives, HubSubmits,
             HubAnswers, HubWorks, HubBoots, HubStores, HubRestart, Arrives, Misbehaves,
             vars
<1> QED BY <1>2, <1>3, <1>4, <1>5, <1>6 DEF TypeOK

\* The reading the CoAP thread hands over is made of the request in its hand.
LEMMA HandOverStep ==
    ASSUME HomeInv, [HomeNext]_vars
    PROVE  HandOver'
<1> USE DEF HubUnchanged, nodeVars, pathVars, tableVars, seenVars
<1>1. HandOver
  BY DEF HomeInv
<1>2. CASE UNCHANGED <<inHand, coapPc, msg>>
  BY <1>1, <1>2 DEF HandOver
<1>3. ASSUME NEW r \in posts, HubReceives(r) PROVE HandOver'
  <2>1. r.node \in Nodes /\ r.text \in Node!Text
    BY NodesKept DEF OnWay, Node!Request
  <2>2. PathP!Posted(PostOf(r), now)
          = {[id |-> GetNodeId[r.node], temp |-> AtoF[r.text], time |-> now]}
    BY <2>1, PostedReading
  <2>3. Path!Posted(PostOf(r), now) = PathP!Posted(PostOf(r), now)
    BY DEF Path!Posted, PathP!Posted, Path!ExtractedIds, PathP!ExtractedIds,
       Path!ParsedTemps, PathP!ParsedTemps, Path!CopyLen, PathP!CopyLen,
       Path!HasQuery, PathP!HasQuery, Path!PrefixLen, PathP!PrefixLen
  <2>4. msg' = [id |-> GetNodeId[r.node], temp |-> AtoF[r.text], time |-> now]
        /\ inHand' = r
    BY <1>3, <2>2, <2>3 DEF HubReceives, Path!ReceivePostOf
  <2> QED BY <2>4 DEF HandOver
<1>4. CASE HubAnswers \/ HubRestart
  BY <1>4 DEF HubAnswers, HubRestart, Path!Respond, HandOver, BeforeQueue
<1>5. CASE HubSubmits
  <2>1. UNCHANGED <<inHand, msg>> /\ (coapPc' \in BeforeQueue => coapPc \in BeforeQueue)
    BY <1>5 DEF HubSubmits, Path!SubmitStep, Path!RefuseNotReady, Path!StartScan,
       Path!SkipBusyItem, Path!PoolExhausted, Path!FindFreeItem, Path!CopyMsg,
       Path!SubmitToQueue, Path!Respond, BeforeQueue
  <2> QED BY <1>1, <2>1 DEF HandOver
<1>6. CASE HubWorks \/ HubBoots \/ HubStores
  BY <1>2, <1>6 DEF HubWorks, HubBoots, HubStores, Path!WorkStep, Path!TakeItem,
     Path!EnqueueReading, Path!DropReading, Path!FinishItem, Path!BootStep,
     Path!InitItem, Path!InitDone, Path!GetReading, Path!coapVars
<1>7. CASE (\E n \in Nodes : NodeMain(n)) \/ Arrives \/ Misbehaves \/ UNCHANGED vars
  BY <1>2, <1>7 DEF NodeMain, Arrives, Misbehaves, vars, Path!coapVars
<1> QED BY <1>3, <1>4, <1>5, <1>6, <1>7 DEF HomeNext, Hub, Receives

-----------------------------------------------------------------------------
(* Sequences that lose elements.                                           *)

\* v is w without some of its elements.
Drawn(v, w) ==
    \E f \in [1..Len(v) -> 1..Len(w)] :
        \A k \in 1..Len(v) : /\ v[k] = w[f[k]]
                             /\ \A j \in 1..Len(v) : j < k => f[j] < f[k]

LEMMA ConcatAt ==
    ASSUME NEW S, NEW a \in Seq(S), NEW b \in Seq(S)
    PROVE  /\ a \o b \in Seq(S) /\ Len(a) \in Nat /\ Len(b) \in Nat
           /\ Len(a \o b) = Len(a) + Len(b)
           /\ \A k \in 1..Len(a) : (a \o b)[k] = a[k]
           /\ \A k \in 1..Len(b) : (a \o b)[Len(a) + k] = b[k]
<1>1. Len(a) \in Nat /\ Len(b) \in Nat
  OBVIOUS
<1>2. /\ a \o b \in Seq(S)
      /\ Len(a \o b) = Len(a) + Len(b)
      /\ \A i \in 1..(Len(a) + Len(b)) :
            (a \o b)[i] = IF i <= Len(a) THEN a[i] ELSE b[i - Len(a)]
  BY ConcatProperties
<1> HIDE <1>2
<1>3. ASSUME NEW k \in 1..Len(a) PROVE (a \o b)[k] = a[k]
  <2>1. k \in 1..(Len(a) + Len(b)) /\ k <= Len(a)
    BY ONLY <1>1, <1>3
  <2> QED BY ONLY <1>2, <2>1
<1>4. ASSUME NEW k \in 1..Len(b) PROVE (a \o b)[Len(a) + k] = b[k]
  <2>1. /\ Len(a) + k \in 1..(Len(a) + Len(b)) /\ ~(Len(a) + k <= Len(a))
        /\ (Len(a) + k) - Len(a) = k
    BY ONLY <1>1, <1>4
  <2> QED BY ONLY <1>2, <2>1
<1> QED BY ONLY <1>1, <1>2, <1>3, <1>4

LEMMA DrawnAll ==
    ASSUME NEW S, NEW w \in Seq(S)
    PROVE  Drawn(w, w)
<1> DEFINE f == [k \in 1..Len(w) |-> k]
<1>1. f \in [1..Len(w) -> 1..Len(w)]
  OBVIOUS
<1>2. \A k \in 1..Len(w) : w[k] = w[f[k]] /\ \A j \in 1..Len(w) : j < k => f[j] < f[k]
  OBVIOUS
<1> HIDE DEF f
<1> QED BY <1>1, <1>2 DEF Drawn

LEMMA DrawnNone ==
    ASSUME NEW v, NEW w, Len(v) = 0
    PROVE  Drawn(v, w)
<1> DEFINE f == [k \in 1..0 |-> 1]
<1>1. f \in [1..0 -> 1..Len(w)] /\ 1..Len(v) = 1..0 /\ \A k \in 1..0 : FALSE
  OBVIOUS
<1> HIDE DEF f
<1> QED BY <1>1 DEF Drawn

\* One element is taken out.
LEMMA DrawnWithout ==
    ASSUME NEW S, NEW v \in Seq(S), NEW w \in Seq(S), NEW i \in 1..Len(w),
           Len(v) = Len(w) - 1,
           \A k \in 1..Len(v) : v[k] = IF k < i THEN w[k] ELSE w[k + 1]
    PROVE  Drawn(v, w)
<1> DEFINE f == [k \in 1..Len(v) |-> IF k < i THEN k ELSE k + 1]
<1>1. Len(v) \in Nat /\ Len(w) \in Nat
  OBVIOUS
<1>2. f \in [1..Len(v) -> 1..Len(w)]
  BY <1>1
<1>3. ASSUME NEW k \in 1..Len(v), NEW j \in 1..Len(v), j < k PROVE f[j] < f[k]
  BY <1>1, <1>3
<1>4. \A k \in 1..Len(v) : v[k] = w[f[k]]
  OBVIOUS
<1> HIDE DEF f
<1> QED BY <1>2, <1>3, <1>4 DEF Drawn

LEMMA DrawnMiddle ==
    ASSUME NEW S, NEW a \in Seq(S), NEW d \in S, NEW b \in Seq(S)
    PROVE  Drawn(a \o b, a \o (<<d>> \o b))
<1> DEFINE v == a \o b
           c == <<d>> \o b
           w == a \o c
<1>1. <<d>> \in Seq(S) /\ Len(<<d>>) = 1
  OBVIOUS
<1>2. /\ c \in Seq(S) /\ Len(c) = 1 + Len(b) /\ Len(b) \in Nat
      /\ \A k \in 1..Len(b) : c[1 + k] = b[k]
  BY ONLY <1>1, ConcatAt, b \in Seq(S)
<1> HIDE DEF c
<1>3. /\ v \in Seq(S) /\ Len(v) = Len(a) + Len(b) /\ Len(a) \in Nat
      /\ \A k \in 1..Len(a) : v[k] = a[k]
      /\ \A k \in 1..Len(b) : v[Len(a) + k] = b[k]
  BY ONLY ConcatAt, a \in Seq(S), b \in Seq(S)
<1>4. /\ w \in Seq(S) /\ Len(w) = Len(a) + Len(c)
      /\ \A k \in 1..Len(a) : w[k] = a[k]
      /\ \A k \in 1..Len(c) : w[Len(a) + k] = c[k]
  <2>1. c \in Seq(S)
    BY <1>2
  <2> QED BY ONLY <2>1, ConcatAt, a \in Seq(S)
<1> HIDE DEF v, w
<1>5. Len(a) + 1 \in 1..Len(w) /\ Len(v) = Len(w) - 1
  BY ONLY <1>2, <1>3, <1>4
<1>6. ASSUME NEW k \in 1..Len(v)
      PROVE  v[k] = IF k < Len(a) + 1 THEN w[k] ELSE w[k + 1]
  <2>1. CASE k < Len(a) + 1
    <3>1. k \in 1..Len(a)
      BY ONLY <1>3, <1>6, <2>1
    <3> QED BY ONLY <1>3, <1>4, <2>1, <3>1
  <2>2. CASE ~(k < Len(a) + 1)
    <3> DEFINE j == k - Len(a)
    <3>1. /\ j \in 1..Len(b) /\ 1 + j \in 1..Len(c)
          /\ k = Len(a) + j /\ k + 1 = Len(a) + (1 + j)
      BY ONLY <1>2, <1>3, <1>6, <2>2
    <3> HIDE DEF j
    <3>2. v[k] = b[j]
      BY ONLY <1>3, <3>1
    <3>3. w[k + 1] = c[1 + j] /\ c[1 + j] = b[j]
      BY ONLY <1>2, <1>4, <3>1
    <3> QED BY ONLY <2>2, <3>2, <3>3
  <2> QED BY <2>1, <2>2
<1>7. Drawn(v, w)
  BY ONLY <1>3, <1>4, <1>5, <1>6, DrawnWithout
<1> QED BY <1>7 DEF v, w, c

-----------------------------------------------------------------------------
(* Readings in the order of the texts.                                     *)

LEMMA FitsDrawn ==
    ASSUME NEW S, NEW v \in Seq(S), NEW w \in Seq(S), Drawn(v, w),
           NEW id, NEW texts, NEW b, Fits(w, id, texts, b)
    PROVE  Fits(v, id, texts, b)
<1>1. PICK f \in [1..Len(v) -> 1..Len(w)] :
        \A k \in 1..Len(v) : /\ v[k] = w[f[k]]
                             /\ \A j \in 1..Len(v) : j < k => f[j] < f[k]
  BY DEF Drawn
<1>2. PICK p \in [1..Len(w) -> 0..Len(texts)] :
        \A k \in 1..Len(w) : w[k].id = id =>
            /\ p[k] \in 1..b
            /\ w[k].temp = AtoF[texts[p[k]]]
            /\ \A j \in 1..Len(w) : j < k /\ w[j].id = id => p[j] < p[k]
  BY DEF Fits
<1> DEFINE q == [k \in 1..Len(v) |-> p[f[k]]]
<1>3. q \in [1..Len(v) -> 0..Len(texts)]
  BY <1>1, <1>2
<1>4. ASSUME NEW k \in 1..Len(v), v[k].id = id
      PROVE  /\ q[k] \in 1..b
             /\ v[k].temp = AtoF[texts[q[k]]]
             /\ \A j \in 1..Len(v) : j < k /\ v[j].id = id => q[j] < q[k]
  <2>1. f[k] \in 1..Len(w) /\ v[k] = w[f[k]] /\ q[k] = p[f[k]]
    BY <1>1
  <2>2. q[k] \in 1..b /\ v[k].temp = AtoF[texts[q[k]]]
    BY <1>2, <1>4, <2>1
  <2>3. ASSUME NEW j \in 1..Len(v), j < k, v[j].id = id PROVE q[j] < q[k]
    <3>1. f[j] \in 1..Len(w) /\ v[j] = w[f[j]] /\ q[j] = p[f[j]] /\ f[j] < f[k]
      BY <1>1, <2>3
    <3> QED BY <1>2, <1>4, <2>1, <2>3, <3>1
  <2> QED BY <2>2, <2>3
<1> HIDE DEF q
<1> QED BY <1>3, <1>4 DEF Fits

\* There may be more texts.
LEMMA FitsMore ==
    ASSUME NEW S, NEW w \in Seq(S), NEW id, NEW T, NEW texts \in Seq(T),
           NEW more \in Seq(T), Len(more) >= Len(texts),
           \A j \in 1..Len(texts) : more[j] = texts[j],
           NEW b \in Int, NEW c \in Int, b <= c, b <= Len(texts),
           Fits(w, id, texts, b)
    PROVE  Fits(w, id, more, c)
<1>1. PICK p \in [1..Len(w) -> 0..Len(texts)] :
        \A k \in 1..Len(w) : w[k].id = id =>
            /\ p[k] \in 1..b
            /\ w[k].temp = AtoF[texts[p[k]]]
            /\ \A j \in 1..Len(w) : j < k /\ w[j].id = id => p[j] < p[k]
  BY DEF Fits
<1>2. Len(texts) \in Nat /\ Len(more) \in Nat
  OBVIOUS
<1>3. p \in [1..Len(w) -> 0..Len(more)]
  <2>1. 0..Len(texts) \subseteq 0..Len(more)
    BY <1>2
  <2> QED BY <2>1
<1>4. ASSUME NEW k \in 1..Len(w), w[k].id = id
      PROVE  p[k] \in 1..c /\ w[k].temp = AtoF[more[p[k]]]
  <2>1. p[k] \in 1..b /\ w[k].temp = AtoF[texts[p[k]]]
    BY <1>1, <1>4
  <2>2. p[k] \in 1..c /\ p[k] \in 1..Len(texts)
    BY <1>2, <2>1
  <2> QED BY <2>1, <2>2
<1> QED BY <1>1, <1>3, <1>4 DEF Fits

\* A reading of the next text may join at the end, and so may any reading of
\* another node.
LEMMA FitsAppend ==
    ASSUME NEW S, NEW w \in Seq(S), NEW m \in S, NEW id, NEW T, NEW texts \in Seq(T),
           NEW b \in Nat, NEW c \in Nat, b <= c, c <= Len(texts),
           Fits(w, id, texts, b),
           m.id = id => b + 1 = c /\ m.temp = AtoF[texts[c]]
    PROVE  Fits(Append(w, m), id, texts, c)
<1>1. PICK p \in [1..Len(w) -> 0..Len(texts)] :
        \A k \in 1..Len(w) : w[k].id = id =>
            /\ p[k] \in 1..b
            /\ w[k].temp = AtoF[texts[p[k]]]
            /\ \A j \in 1..Len(w) : j < k /\ w[j].id = id => p[j] < p[k]
  BY DEF Fits
<1> DEFINE u == Append(w, m)
           q == [k \in 1..Len(u) |-> IF k <= Len(w) THEN p[k] ELSE c]
<1>2. /\ Len(w) \in Nat /\ Len(texts) \in Nat /\ Len(u) = Len(w) + 1
      /\ \A k \in 1..Len(w) : u[k] = w[k]
      /\ u[Len(w) + 1] = m
  OBVIOUS
<1> HIDE DEF u
<1>3. q \in [1..Len(u) -> 0..Len(texts)]
  BY <1>1, <1>2
<1>4. /\ \A k \in 1..Len(w) : k \in 1..Len(u) /\ q[k] = p[k]
      /\ Len(w) + 1 \in 1..Len(u) /\ q[Len(w) + 1] = c
  BY <1>2
<1> HIDE DEF q
<1>5. ASSUME NEW k \in 1..Len(u), u[k].id = id
      PROVE  /\ q[k] \in 1..c
             /\ u[k].temp = AtoF[texts[q[k]]]
             /\ \A j \in 1..Len(u) : j < k /\ u[j].id = id => q[j] < q[k]
  <2>1. CASE k \in 1..Len(w)
    <3>1. u[k] = w[k] /\ q[k] = p[k] /\ p[k] \in 1..b
      BY <1>1, <1>2, <1>4, <1>5, <2>1
    <3>2. q[k] \in 1..c /\ u[k].temp = AtoF[texts[q[k]]]
      BY <1>1, <1>5, <2>1, <3>1
    <3>3. ASSUME NEW j \in 1..Len(u), j < k, u[j].id = id PROVE q[j] < q[k]
      <4>1. j \in 1..Len(w)
        BY <1>2, <2>1, <3>3
      <4>2. u[j] = w[j] /\ q[j] = p[j]
        BY <1>2, <1>4, <4>1
      <4> QED BY <1>1, <1>5, <2>1, <3>1, <3>3, <4>1, <4>2
    <3> QED BY <3>2, <3>3
  <2>2. CASE k = Len(w) + 1
    <3>1. u[k] = m /\ q[k] = c /\ b + 1 = c /\ m.temp = AtoF[texts[c]]
      BY <1>2, <1>4, <1>5, <2>2
    <3>2. ASSUME NEW j \in 1..Len(u), j < k, u[j].id = id PROVE q[j] < q[k]
      <4>1. j \in 1..Len(w)
        BY <1>2, <2>2, <3>2
      <4>2. q[j] \in 1..b
        BY <1>1, <1>2, <1>4, <3>2, <4>1
      <4> QED BY <3>1, <4>2
    <3>3. c \in 1..c
      BY <3>1
    <3> QED BY <3>1, <3>2, <3>3
  <2> QED BY <1>2, <2>1, <2>2
<1> QED BY <1>3, <1>5 DEF Fits, u

-----------------------------------------------------------------------------
(* What each step does to the readings under an id.                        *)

LEMMA MarkedAt ==
    ASSUME NEW id \in Path!NodeIds, NEW c \in Seq(TableP!Samples)
    PROVE  /\ Marked(id, c) \in Seq(PathP!Msgs)
           /\ Len(Marked(id, c)) = Len(c) /\ Len(c) \in Nat
           /\ \A k \in 1..Len(c) :
                Marked(id, c)[k] = [id |-> id, temp |-> c[k].temp, time |-> c[k].timestamp]
<1>1. Len(c) \in Nat /\ \A k \in 1..Len(c) : c[k] \in TableP!Samples
  BY ElementOfSeq
<1>2. \A k \in 1..Len(c) :
        [id |-> id, temp |-> c[k].temp, time |-> c[k].timestamp] \in PathP!Msgs
  BY <1>1, SamePath DEF TableP!Samples, PathP!Msgs
<1> QED BY <1>1, <1>2 DEF Marked

WellRead ==
    /\ PathP!InFlight \in Seq(PathP!Msgs)
    /\ \A id \in Path!NodeIds :
         /\ TableP!LogOf(id) \in Seq(TableP!Samples)
         /\ Len(TableP!LogOf(id)) <= HISTORY_SIZE
         /\ Readings(id) \in Seq(PathP!Msgs)

LEMMA ReadingsType == PathP!PathInv /\ TableP!TableInv => WellRead
<1> SUFFICES ASSUME PathP!PathInv, TableP!TableInv PROVE WellRead
  OBVIOUS
<1>1. PathP!InFlight \in Seq(PathP!Msgs)
  BY HomeComponents, PathP!InFlightType DEF PathP!WellWritten
<1>2. ASSUME NEW id \in Path!NodeIds
      PROVE  /\ TableP!LogOf(id) \in Seq(TableP!Samples)
             /\ Len(TableP!LogOf(id)) <= HISTORY_SIZE
  <2>1. TableP!LogsInSlots
    BY TableConstants, TableP!SlotsHoldLogs DEF Table!TableAssumption
  <2>2. CASE TableP!Known(id) = {}
    <3>1. TableP!LogOf(id) = <<>>
      BY <2>2 DEF TableP!LogOf
    <3> QED BY <3>1, HomeComponents
  <2>3. ASSUME NEW s \in TableP!Known(id)
        PROVE  /\ TableP!LogOf(id) \in Seq(TableP!Samples)
               /\ Len(TableP!LogOf(id)) <= HISTORY_SIZE
    <3>1. s \in TableP!Slots /\ TableP!LogOf(id) = TableP!Chronicle(nodes[s])
      BY <2>1, <2>3 DEF TableP!LogsInSlots, TableP!Known
    <3>2. /\ nodes[s] \in TableP!NodeInfo /\ TableP!WellShaped(nodes[s])
          /\ nodes[s].history_count \in 0..HISTORY_SIZE
      BY <3>1 DEF TableP!TableInv, TableP!TypeOK, TableP!RingWellFormed,
         TableP!WellShaped, TableP!NodeInfo
    <3>3. /\ TableP!Chronicle(nodes[s]) \in Seq(TableP!Samples)
          /\ Len(TableP!Chronicle(nodes[s])) = nodes[s].history_count
      BY <3>2, TableConstants, TableP!ChronicleEntries DEF Table!TableAssumption
    <3> QED BY <3>1, <3>2, <3>3
  <2> QED BY <2>2, <2>3
<1>3. ASSUME NEW id \in Path!NodeIds PROVE Readings(id) \in Seq(PathP!Msgs)
  <2>1. Marked(id, TableP!LogOf(id)) \in Seq(PathP!Msgs)
    BY <1>2, MarkedAt
  <2> QED BY <1>1, <2>1, ConcatAt DEF Readings
<1> QED BY <1>1, <1>2, <1>3 DEF WellRead

LEMMA ReadingsTypeNext == PathP!PathInv' /\ TableP!TableInv' => WellRead'
  BY ReadingsType, PTL

\* main moves the oldest reading from the queue to the history of its slot,
\* which may lose its oldest entry for it, or main forgets the reading.
LEMMA StoreDraws ==
    ASSUME HomeInv, HubStores, NEW id \in Path!NodeIds,
           PathP!PathInv', TableP!TableInv'
    PROVE  Drawn(Readings(id)', Readings(id))
<1> DEFINE h    == Head(msgq)
           rest == PathP!InFlight'
           log  == TableP!LogOf(id)
           M    == Marked(id, log)
<1>1. WellRead /\ WellRead'
  BY ReadingsType, ReadingsTypeNext DEF HomeInv
<1>2. h \in PathP!Msgs /\ rest \in Seq(PathP!Msgs) /\ PathP!InFlight = <<h>> \o rest
  <2>1. /\ PathP!InFlight # <<>> /\ got' = Head(PathP!InFlight)
        /\ PathP!InFlight' = Tail(PathP!InFlight)
    BY TakenIsMessage, HomeComponents, PathP!GetTakesOldest DEF HomeInv
  <2>2. got' = h
    BY TakenIsMessage DEF PathP!GetReading
  <2>3. PathP!InFlight \in Seq(PathP!Msgs)
    BY <1>1 DEF WellRead
  <2>4. \A s \in Seq(PathP!Msgs) : s # <<>> =>
           /\ Head(s) \in PathP!Msgs /\ Tail(s) \in Seq(PathP!Msgs)
           /\ s = <<Head(s)>> \o Tail(s)
    <3> SUFFICES ASSUME NEW s \in Seq(PathP!Msgs), s # <<>>
                 PROVE  /\ Head(s) \in PathP!Msgs /\ Tail(s) \in Seq(PathP!Msgs)
                        /\ s = <<Head(s)>> \o Tail(s)
      OBVIOUS
    <3>1. /\ Head(s) \in PathP!Msgs /\ Tail(s) \in Seq(PathP!Msgs)
          /\ Len(Tail(s)) = Len(s) - 1 /\ \A i \in 1..Len(Tail(s)) : Tail(s)[i] = s[i + 1]
      BY ONLY HeadTailProperties, s \in Seq(PathP!Msgs), s # <<>>
    <3>2. Len(s) > 0 /\ s[1] = Head(s)
      OBVIOUS
    <3>3. s = <<Head(s)>> \o Tail(s)
      BY <3>1, <3>2, HomeComponents, PathP!FirstAndRest
    <3> QED BY <3>1, <3>3
  <2> QED BY ONLY <2>1, <2>2, <2>3, <2>4
<1>3. log \in Seq(TableP!Samples) /\ Len(log) <= HISTORY_SIZE
      /\ TableP!LogOf(id)' \in Seq(TableP!Samples)
  BY <1>1 DEF WellRead
<1>4. M \in Seq(PathP!Msgs)
  BY <1>3, MarkedAt
<1>5. Readings(id) = M \o (<<h>> \o rest)
  BY <1>2 DEF Readings
<1>6. Readings(id)' = Marked(id, TableP!LogOf(id)') \o rest
  BY DEF Readings, Marked
<1>7. CASE TableP!LogOf(id)' = log
  <2>1. Drawn(M \o rest, M \o (<<h>> \o rest))
    BY ONLY <1>2, <1>4, DrawnMiddle
  <2> QED BY <1>5, <1>6, <1>7, <2>1
<1>8. CASE h.id = id /\ TableP!LogOf(id)' = TableP!Log!Latest(
                  Append(log, [temp |-> h.temp, timestamp |-> h.time]), HISTORY_SIZE)
  <2> DEFINE e == [temp |-> h.temp, timestamp |-> h.time]
             q == Append(log, e)
  <2>1. e \in TableP!Samples /\ h = [id |-> id, temp |-> e.temp, time |-> e.timestamp]
    BY <1>2, <1>8, SamePath DEF PathP!Msgs, TableP!Samples
  <2>2. /\ q \in Seq(TableP!Samples) /\ Len(q) = Len(log) + 1 /\ Len(log) \in Nat
        /\ \A k \in 1..Len(log) : q[k] = log[k]
        /\ q[Len(log) + 1] = e
    BY <1>3, <2>1, AppendProperties, LenProperties
  <2> HIDE DEF e, q
  <2>3. Marked(id, q) = M \o <<h>>
    <3>1. /\ Marked(id, q) \in Seq(PathP!Msgs) /\ Len(Marked(id, q)) = Len(log) + 1
          /\ \A k \in 1..Len(q) :
               Marked(id, q)[k] = [id |-> id, temp |-> q[k].temp, time |-> q[k].timestamp]
      BY <2>2, MarkedAt
    <3>2. /\ Len(M) = Len(log)
          /\ \A k \in 1..Len(log) :
               M[k] = [id |-> id, temp |-> log[k].temp, time |-> log[k].timestamp]
      BY <1>3, MarkedAt
    <3>3. /\ Append(M, h) \in Seq(PathP!Msgs) /\ Len(Append(M, h)) = Len(log) + 1
          /\ \A k \in 1..Len(log) : Append(M, h)[k] = M[k]
          /\ Append(M, h)[Len(log) + 1] = h
          /\ Append(M, h) = M \o <<h>>
      BY ONLY <1>2, <1>4, <3>2, AppendProperties, AppendIsConcat
    <3>4. ASSUME NEW k \in 1..(Len(log) + 1) PROVE Marked(id, q)[k] = Append(M, h)[k]
      <4>1. CASE k \in 1..Len(log)
        BY <2>2, <3>1, <3>2, <3>3, <4>1
      <4>2. CASE k = Len(log) + 1
        BY <2>1, <2>2, <3>1, <3>3, <4>2
      <4>3. k \in 1..Len(log) \/ k = Len(log) + 1
        <5>1. Len(log) \in Nat
          BY <2>2
        <5> QED BY ONLY <5>1, <3>4
      <4> QED BY <4>1, <4>2, <4>3
    <3>5. Marked(id, q) = Append(M, h)
      BY ONLY <3>1, <3>3, <3>4, SeqEqual
    <3> QED BY <3>3, <3>5
  <2>4. Readings(id) = Marked(id, q) \o rest
    <3>1. <<h>> \in Seq(PathP!Msgs)
      BY <1>2
    <3>2. (M \o <<h>>) \o rest = M \o (<<h>> \o rest)
      BY ONLY <1>2, <1>4, <3>1, ConcatAssociative
    <3> QED BY <1>5, <2>3, <3>2
  <2>5. CASE Len(q) <= HISTORY_SIZE
    <3>1. TableP!LogOf(id)' = q
      BY <1>8, <2>5 DEF TableP!Log!Latest, e, q
    <3>2. Readings(id)' = Readings(id)
      BY <1>6, <2>4, <3>1
    <3>3. Readings(id) \in Seq(PathP!Msgs)
      BY <1>1 DEF WellRead
    <3> QED BY <3>2, <3>3, DrawnAll
  <2>6. CASE Len(q) > HISTORY_SIZE
    <3> DEFINE v == Marked(id, TableP!LogOf(id)')
               u == Marked(id, q)
    <3>1. HISTORY_SIZE \in Nat \ {0} /\ Len(q) = HISTORY_SIZE + 1
      BY <1>3, <2>2, <2>6, HomeComponents
    <3>2. TableP!LogOf(id)' = SubSeq(q, 2, Len(q))
      <4>1. (Len(q) - HISTORY_SIZE) + 1 = 2
        BY <3>1
      <4>2. ~(Len(q) <= HISTORY_SIZE)
        BY <2>6, <3>1
      <4>3. TableP!LogOf(id)' = TableP!Log!Latest(q, HISTORY_SIZE)
        BY <1>8 DEF e, q
      <4> QED BY ONLY <4>1, <4>2, <4>3 DEF TableP!Log!Latest
    <3>3. /\ SubSeq(q, 2, Len(q)) \in Seq(TableP!Samples)
          /\ Len(SubSeq(q, 2, Len(q))) = HISTORY_SIZE
          /\ \A k \in 1..HISTORY_SIZE : SubSeq(q, 2, Len(q))[k] = q[k + 1]
      <4>1. q # <<>>
        BY <2>2
      <4>2. Tail(q) = SubSeq(q, 2, Len(q))
        BY ONLY <2>2, <4>1, TailIsSubSeq
      <4>3. /\ Tail(q) \in Seq(TableP!Samples) /\ Len(Tail(q)) = Len(q) - 1
            /\ \A i \in 1..Len(Tail(q)) : Tail(q)[i] = q[i + 1]
        BY ONLY <2>2, <4>1, HeadTailProperties
      <4>4. Len(q) - 1 = HISTORY_SIZE
        BY <3>1
      <4> QED BY ONLY <4>2, <4>3, <4>4
    <3>4. /\ v \in Seq(PathP!Msgs) /\ Len(v) = HISTORY_SIZE
          /\ u \in Seq(PathP!Msgs) /\ Len(u) = HISTORY_SIZE + 1
          /\ \A k \in 1..HISTORY_SIZE : v[k] = u[k + 1]
      <4>1. /\ v \in Seq(PathP!Msgs) /\ Len(v) = HISTORY_SIZE
            /\ \A k \in 1..HISTORY_SIZE :
                 v[k] = [id |-> id, temp |-> q[k + 1].temp, time |-> q[k + 1].timestamp]
        BY <3>2, <3>3, MarkedAt
      <4>2. /\ u \in Seq(PathP!Msgs) /\ Len(u) = HISTORY_SIZE + 1
            /\ \A k \in 1..(HISTORY_SIZE + 1) :
                 u[k] = [id |-> id, temp |-> q[k].temp, time |-> q[k].timestamp]
        BY <2>2, <3>1, MarkedAt
      <4>3. \A k \in 1..HISTORY_SIZE : k + 1 \in 1..(HISTORY_SIZE + 1)
        BY <3>1
      <4> QED BY <4>1, <4>2, <4>3
    <3> HIDE DEF v, u
    <3>5. /\ v \o rest \in Seq(PathP!Msgs) /\ Len(v \o rest) = HISTORY_SIZE + Len(rest)
          /\ Len(rest) \in Nat
          /\ \A k \in 1..HISTORY_SIZE : (v \o rest)[k] = v[k]
          /\ \A k \in 1..Len(rest) : (v \o rest)[HISTORY_SIZE + k] = rest[k]
      <4>1. v \in Seq(PathP!Msgs)
        BY <3>4
      <4>3. rest \in Seq(PathP!Msgs)
        BY <1>2
      <4>4. Len(v) = HISTORY_SIZE
        BY <3>4
      <4> HIDE DEF rest
      <4>2. /\ v \o rest \in Seq(PathP!Msgs) /\ Len(v \o rest) = Len(v) + Len(rest)
            /\ Len(rest) \in Nat
            /\ \A k \in 1..Len(v) : (v \o rest)[k] = v[k]
            /\ \A k \in 1..Len(rest) : (v \o rest)[Len(v) + k] = rest[k]
        BY ONLY <4>1, <4>3, ConcatAt
      <4> QED BY ONLY <4>2, <4>4
    <3>6. /\ u \o rest \in Seq(PathP!Msgs)
          /\ Len(u \o rest) = (HISTORY_SIZE + 1) + Len(rest)
          /\ \A k \in 1..(HISTORY_SIZE + 1) : (u \o rest)[k] = u[k]
          /\ \A k \in 1..Len(rest) : (u \o rest)[(HISTORY_SIZE + 1) + k] = rest[k]
      <4>1. u \in Seq(PathP!Msgs)
        BY <3>4
      <4>3. rest \in Seq(PathP!Msgs)
        BY <1>2
      <4>4. Len(u) = HISTORY_SIZE + 1
        BY <3>4
      <4> HIDE DEF rest
      <4>2. /\ u \o rest \in Seq(PathP!Msgs) /\ Len(u \o rest) = Len(u) + Len(rest)
            /\ Len(rest) \in Nat
            /\ \A k \in 1..Len(u) : (u \o rest)[k] = u[k]
            /\ \A k \in 1..Len(rest) : (u \o rest)[Len(u) + k] = rest[k]
        BY ONLY <4>1, <4>3, ConcatAt
      <4> QED BY ONLY <4>2, <4>4
    <3>7. ASSUME NEW k \in 1..Len(v \o rest)
          PROVE  (v \o rest)[k] = IF k < 1 THEN (u \o rest)[k] ELSE (u \o rest)[k + 1]
      <4>1. CASE k \in 1..HISTORY_SIZE
        <5>1. k + 1 \in 1..(HISTORY_SIZE + 1) /\ ~(k < 1)
          BY ONLY <3>1, <4>1
        <5> QED BY ONLY <3>4, <3>5, <3>6, <4>1, <5>1
      <4>2. CASE k \notin 1..HISTORY_SIZE
        <5> DEFINE j == k - HISTORY_SIZE
        <5>1. /\ j \in 1..Len(rest) /\ k = HISTORY_SIZE + j
              /\ k + 1 = (HISTORY_SIZE + 1) + j /\ ~(k < 1)
          BY ONLY <3>1, <3>5, <3>7, <4>2
        <5> HIDE DEF j
        <5>2. (v \o rest)[k] = rest[j] /\ (u \o rest)[k + 1] = rest[j]
          BY ONLY <3>5, <3>6, <5>1
        <5> QED BY ONLY <5>1, <5>2
      <4> QED BY <4>1, <4>2
    <3>8. 1 \in 1..Len(u \o rest) /\ Len(v \o rest) = Len(u \o rest) - 1
      BY ONLY <3>1, <3>5, <3>6
    <3>9. Drawn(v \o rest, u \o rest)
      BY ONLY <3>5, <3>6, <3>7, <3>8, DrawnWithout
    <3> QED BY <1>6, <2>4, <3>9 DEF v, u
  <2>7. Len(q) \in Int /\ HISTORY_SIZE \in Int
    BY <2>2, HomeComponents
  <2> QED BY <2>5, <2>6, <2>7
<1>9. \/ TableP!LogOf(id)' = log
      \/ h.id = id /\ TableP!LogOf(id)' = TableP!Log!Latest(
                  Append(log, [temp |-> h.temp, timestamp |-> h.time]), HISTORY_SIZE)
  <2>1. h \in TableP!Messages /\ TableP!StoreReading(h)
    BY TakenIsMessage
  <2>2. TableP!TableInv /\ id \in Path!NodeIds
    BY DEF HomeInv
  <2> HIDE DEF h
  <2> QED BY <2>1, <2>2, TableConstants, TableP!StoreLogs DEF Table!TableAssumption
<1> QED BY <1>7, <1>8, <1>9

\* A hub that has just started has no readings.
NothingRead == \A id \in Path!NodeIds : Len(Readings(id)) = 0

LEMMA NothingReadAtFirst == PathP!PathInit /\ TableP!TableInit => NothingRead
<1> SUFFICES ASSUME PathP!PathInit, TableP!TableInit, NEW id \in Path!NodeIds
             PROVE  Len(Readings(id)) = 0
  BY DEF NothingRead
<1>1. TableP!LogOf(id) = <<>>
  <2>1. TableP!Known(id) = {}
    BY DEF TableP!TableInit, TableP!ZeroedTable, TableP!Known
  <2> QED BY <2>1 DEF TableP!LogOf
<1>2. PathP!InFlight \in Seq(PathP!Msgs) /\ Len(PathP!InFlight) = 0
  <2>1. /\ PathP!WellWritten /\ msgq = <<>> /\ PathP!Called = <<>>
        /\ Len(PathP!Waiting) = 0
    BY HomeComponents, PathP!PathInitInv, PathP!InFlightType
    DEF PathP!PathInit, PathP!Called, PathP!WellWritten
  <2>2. /\ PathP!InFlight = (<<>> \o <<>>) \o PathP!Waiting
        /\ PathP!InFlight \in Seq(PathP!Msgs) /\ PathP!Waiting \in Seq(PathP!Msgs)
    BY <2>1 DEF PathP!WellWritten
  <2>3. <<>> \o <<>> = <<>>
    OBVIOUS
  <2>4. <<>> \o PathP!Waiting = PathP!Waiting
    BY ONLY <2>2, ConcatEmptySeq
  <2> QED BY <2>1, <2>2, <2>3, <2>4
<1>3. /\ Marked(id, <<>>) \in Seq(PathP!Msgs) /\ Len(Marked(id, <<>>)) = 0
  <2>1. <<>> \in Seq(TableP!Samples) /\ Len(<<>>) = 0
    OBVIOUS
  <2> QED BY <2>1, MarkedAt
<1>4. Len(Marked(id, <<>>) \o PathP!InFlight)
        = Len(Marked(id, <<>>)) + Len(PathP!InFlight)
  BY ONLY <1>2, <1>3, ConcatAt
<1> QED BY <1>1, <1>2, <1>3, <1>4 DEF Readings

LEMMA NothingReadNext == PathP!PathInit' /\ TableP!TableInit' => NothingRead'
  BY NothingReadAtFirst, PTL

\* Only the submission adds a reading, the one that the CoAP thread hands over,
\* and at the end; every other step leaves out readings at most.
LEMMA ReadingsStep ==
    ASSUME HomeInv, [HomeNext]_vars, NEW id \in Path!NodeIds
    PROVE  \/ Drawn(Readings(id)', Readings(id))
           \/ /\ HubSubmits /\ coapPc = "queue" /\ coapPc' = "respond"
              /\ msg \in PathP!Msgs
              /\ Readings(id)' = Append(Readings(id), msg)
<1> USE DEF HubUnchanged, nodeVars, pathVars, tableVars, seenVars
<1>1. WellRead /\ WellRead' /\ PathP!PathInv /\ PathP!PathInv' /\ TableP!TableInv'
  BY ReadingsType, ReadingsTypeNext, PathKept, TableKept DEF HomeInv
<1>2. ASSUME UNCHANGED nodes, PathP!InFlight' = PathP!InFlight
      PROVE  Drawn(Readings(id)', Readings(id))
  <2>1. Readings(id)' = Readings(id)
    BY <1>2 DEF Readings, Marked, TableP!LogOf, TableP!Known, TableP!Chronicle
  <2>2. Readings(id) \in Seq(PathP!Msgs)
    BY <1>1 DEF WellRead
  <2> QED BY <2>1, <2>2, DrawnAll
<1>3. ASSUME UNCHANGED nodes, PathP!OtherStep
      PROVE  Drawn(Readings(id)', Readings(id))
  BY <1>1, <1>2, <1>3, HomeComponents, PathP!OthersKeepInFlight
<1>4. ASSUME NEW r \in posts, HubReceives(r)
      PROVE  Drawn(Readings(id)', Readings(id))
  <2>1. UNCHANGED <<msgq, wqPc, wqItem, data, pending, nodes>>
    BY <1>4 DEF HubReceives, Path!ReceivePostOf, Path!poolVars, Path!wqVars, Path!outVars
  <2> QED BY <1>2, <2>1 DEF PathP!InFlight
<1>5. CASE HubSubmits /\ PathP!OtherStep
  BY <1>3, <1>5 DEF HubSubmits
<1>6. CASE HubSubmits /\ PathP!SubmitToQueue
  <2>1. /\ PathP!InFlight' = Append(PathP!InFlight, msg)
        /\ msg \in PathP!Msgs /\ coapPc = "queue" /\ coapPc' = "respond"
    BY <1>1, <1>6, HomeComponents, PathP!SubmitAppends
  <2> DEFINE M == Marked(id, TableP!LogOf(id))
  <2>2. M \in Seq(PathP!Msgs) /\ PathP!InFlight \in Seq(PathP!Msgs)
    BY <1>1, MarkedAt DEF WellRead
  <2>3. M \o Append(PathP!InFlight, msg) = Append(M \o PathP!InFlight, msg)
    BY <2>1, <2>2, HomeComponents, PathP!AppendToConcat
  <2>4. Readings(id)' = M \o PathP!InFlight'
    BY <1>6 DEF HubSubmits, Readings, Marked, TableP!LogOf, TableP!Known, TableP!Chronicle
  <2>5. Readings(id)' = Append(Readings(id), msg)
    BY <2>1, <2>3, <2>4 DEF Readings
  <2> QED BY <1>6, <2>1, <2>5
<1>7. CASE HubAnswers
  <2>1. UNCHANGED <<msgq, wqPc, wqItem, data, pending, nodes>>
    BY <1>7 DEF HubAnswers, Path!Respond, Path!poolVars, Path!wqVars, Path!outVars
  <2> QED BY <1>2, <2>1 DEF PathP!InFlight
<1>8. CASE HubWorks
  <2>1. UNCHANGED nodes
    BY <1>8 DEF HubWorks
  <2>2. CASE PathP!TakeItem \/ PathP!EnqueueReading
    BY <1>1, <1>2, <2>1, <2>2, HomeComponents, PathP!TakeKeepsInFlight,
       PathP!EnqueueKeepsInFlight
  <2>3. CASE PathP!FinishItem
    BY <1>3, <2>1, <2>3 DEF PathP!OtherStep
  <2>4. CASE PathP!DropReading
    <3> DEFINE M == Marked(id, TableP!LogOf(id))
    <3>1. PICK d \in PathP!Msgs :
             /\ PathP!InFlight = (msgq \o <<d>>) \o PathP!Waiting
             /\ PathP!InFlight' = msgq \o PathP!Waiting
      BY <1>1, <2>4, HomeComponents, PathP!DropRemoves
    <3>2. M \in Seq(PathP!Msgs)
      BY <1>1, MarkedAt DEF WellRead
    <3>3. msgq \in Seq(PathP!Msgs) /\ PathP!Waiting \in Seq(PathP!Msgs)
      BY <1>1, HomeComponents, PathP!InFlightType DEF PathP!WellWritten
    <3>4. <<d>> \in Seq(PathP!Msgs)
      OBVIOUS
    <3>5. <<d>> \o PathP!Waiting \in Seq(PathP!Msgs) /\ M \o msgq \in Seq(PathP!Msgs)
      BY ONLY <3>2, <3>3, <3>4, ConcatAt
    <3> HIDE DEF M
    <3>6. (msgq \o <<d>>) \o PathP!Waiting = msgq \o (<<d>> \o PathP!Waiting)
      BY ONLY <3>3, <3>4, ConcatAssociative
    <3>7. M \o (msgq \o (<<d>> \o PathP!Waiting)) = (M \o msgq) \o (<<d>> \o PathP!Waiting)
      BY ONLY <3>2, <3>3, <3>5, ConcatAssociative
    <3>8. M \o (msgq \o PathP!Waiting) = (M \o msgq) \o PathP!Waiting
      BY ONLY <3>2, <3>3, ConcatAssociative
    <3>9. Drawn((M \o msgq) \o PathP!Waiting, (M \o msgq) \o (<<d>> \o PathP!Waiting))
      BY ONLY <3>3, <3>5, d \in PathP!Msgs, DrawnMiddle
    <3>10. Readings(id) = (M \o msgq) \o (<<d>> \o PathP!Waiting)
      BY <3>1, <3>6, <3>7 DEF Readings, M
    <3>11. Readings(id)' = (M \o msgq) \o PathP!Waiting
      <4>1. Readings(id)' = M \o PathP!InFlight'
        BY <2>1 DEF Readings, Marked, TableP!LogOf, TableP!Known, TableP!Chronicle, M
      <4> QED BY <3>1, <3>8, <4>1
    <3> QED BY <3>9, <3>10, <3>11
  <2> QED BY <1>8, <2>2, <2>3, <2>4, SameWork DEF HubWorks
<1>9. CASE HubBoots
  BY <1>3, <1>9, SamePath DEF HubBoots
<1>10. CASE HubStores
  BY <1>1, <1>10, StoreDraws
<1>11. CASE HubRestart
  <2>1. PathP!PathInit' /\ TableP!TableInit'
    <3>1. Path!Items = PathP!Items
      BY DEF Path!Items, PathP!Items
    <3> QED BY <1>11, <3>1, SameTable DEF HubRestart, PathP!PathInit, TableP!TableInit
  <2> QED BY <2>1, NothingReadNext, DrawnNone DEF NothingRead
<1>12. CASE (\E n \in Nodes : NodeMain(n)) \/ Arrives \/ Misbehaves \/ UNCHANGED vars
  <2>1. UNCHANGED <<msgq, wqPc, wqItem, data, pending, nodes>>
    BY <1>12 DEF NodeMain, Arrives, Misbehaves, vars
  <2> QED BY <1>2, <2>1 DEF PathP!InFlight
<1>13. HubSubmits => PathP!SubmitToQueue \/ PathP!OtherStep
  BY SameSubmit DEF HubSubmits
<1> QED BY <1>4, <1>5, <1>6, <1>7, <1>8, <1>9, <1>10, <1>11, <1>12, <1>13
        DEF HomeNext, Hub, Receives

-----------------------------------------------------------------------------
(* Every reading is owned, and in its place.                               *)

LEMMA OwnedStep ==
    ASSUME HomeInv, [HomeNext]_vars
    PROVE  AllOwned'
<1>1. ASSUME NEW m, Owned(m) PROVE Owned(m)'
  <2>1. PICK n \in Nodes : /\ m.id = GetNodeId[n]
                           /\ \E j \in 1..Len(journal[n]) : m.temp = AtoF[journal[n][j]]
    BY <1>1 DEF Owned
  <2>2. PICK j \in 1..Len(journal[n]) : m.temp = AtoF[journal[n][j]]
    BY <2>1
  <2>3. j \in 1..Len(journal'[n]) /\ journal'[n][j] = journal[n][j]
    <3>1. /\ Len(journal[n]) \in Nat /\ Len(journal'[n]) \in Nat
          /\ Len(journal'[n]) >= Len(journal[n])
          /\ \A i \in 1..Len(journal[n]) : journal'[n][i] = journal[n][i]
      BY JournalGrows
    <3> QED BY <3>1
  <2> QED BY <2>1, <2>2, <2>3 DEF Owned
<1>2. ASSUME NEW id \in Path!NodeIds, NEW k \in 1..Len(Readings(id)'),
             NEW m, m = Readings(id)'[k]
      PROVE  Owned(m)'
  <2>1. \A i \in 1..Len(Readings(id)) : Owned(Readings(id)[i])
    BY DEF HomeInv, AllOwned
  <2>2. CASE Drawn(Readings(id)', Readings(id))
    <3>1. \E i \in 1..Len(Readings(id)) : m = Readings(id)[i]
      BY <1>2, <2>2 DEF Drawn
    <3>2. PICK i \in 1..Len(Readings(id)) : m = Readings(id)[i]
      BY <3>1
    <3>3. Owned(Readings(id)[i])
      BY <2>1
    <3> QED BY <1>1, <3>2, <3>3
  <2>3. CASE /\ HubSubmits /\ coapPc = "queue" /\ msg \in PathP!Msgs
             /\ Readings(id)' = Append(Readings(id), msg)
    <3>1. Owned(msg)
      <4>1. inHand \in OnWay
        BY <2>3 DEF HomeInv, TypeOK, OnWay
      <4>2. inHand.node \in Nodes
        BY <4>1, NodesKept DEF Node!Request
      <4>3. msg.id = GetNodeId[inHand.node] /\ msg.temp = AtoF[inHand.text]
        BY <2>3 DEF HomeInv, HandOver, BeforeQueue
      <4>4. \E j \in 1..Len(journal[inHand.node]) : journal[inHand.node][j] = inHand.text
        BY <4>1 DEF HomeInv, Journaled
      <4> QED BY <4>2, <4>3, <4>4 DEF Owned
    <3>2. Readings(id) \in Seq(PathP!Msgs)
      BY ReadingsType DEF HomeInv, WellRead
    <3>3. /\ Len(Readings(id)) \in Nat /\ Len(Readings(id)') = Len(Readings(id)) + 1
          /\ \A i \in 1..Len(Readings(id)) : Readings(id)'[i] = Readings(id)[i]
          /\ Readings(id)'[Len(Readings(id)) + 1] = msg
      <4>1. msg \in PathP!Msgs /\ Readings(id)' = Append(Readings(id), msg)
        BY <2>3
      <4> QED BY ONLY <3>2, <4>1, AppendProperties, LenProperties
    <3>4. CASE k \in 1..Len(Readings(id))
      BY <1>1, <1>2, <2>1, <3>3, <3>4
    <3>5. CASE k = Len(Readings(id)) + 1
      BY <1>1, <1>2, <3>1, <3>3, <3>5
    <3>6. k \in 1..Len(Readings(id)) \/ k = Len(Readings(id)) + 1
      BY ONLY <1>2, <3>3
    <3> QED BY <3>4, <3>5, <3>6
  <2> QED BY <2>2, <2>3, ReadingsStep
<1> QED BY <1>2 DEF AllOwned, Owned

\* TempNode counts with the same operators.
LEMMA SameCounting ==
    \A S : /\ ViewP!Cardinality(S) = Cardinality(S)
           /\ ViewP!IsFiniteSet(S) <=> IsFiniteSet(S)
  BY DEF ViewP!Cardinality, Cardinality, ViewP!IsFiniteSet, IsFiniteSet

\* Without duplicates and poll errors a node has one request on its way at most.
LEMMA OneRequest ==
    ASSUME HomeInv, Faultless, NEW n \in Nodes
    PROVE  /\ \A q, r \in OnWay : q.node = n /\ r.node = n => q = r
           /\ pc[n] = "send" => \A r \in OnWay : r.node # n
<1>1. /\ ViewP!TypeOK /\ ViewP!FinitelyMany /\ ViewP!Open(n) <= 1
      /\ pc[n] \in {"start", "send", "sleep"} => ViewP!RequestsOf(n) = {}
  BY DEF HomeInv, ViewP!NodeInv, ViewP!StopAndWait, ViewP!Open, Faultless
<1>2. ViewP!RequestsOf(n) # {} => Cardinality(ViewP!RequestsOf(n)) = 1
  BY <1>1, HomeComponents, SameNode, SameCounting, ViewP!OnlyOne
<1>3. IsFiniteSet(ViewP!RequestsOf(n))
  BY <1>1, HomeComponents, SameNode, SameCounting, ViewP!OpenCounts
<1>4. ASSUME NEW q \in OnWay, NEW r \in OnWay, q.node = n, r.node = n PROVE q = r
  <2>1. q \in ViewP!RequestsOf(n) /\ r \in ViewP!RequestsOf(n)
    BY <1>4 DEF ViewP!RequestsOf
  <2>2. Cardinality(ViewP!RequestsOf(n)) = 1
    BY <1>2, <2>1
  <2>3. PICK x : ViewP!RequestsOf(n) = {x}
    BY <1>3, <2>2, FS_Singleton
  <2> QED BY <2>1, <2>3
<1> QED BY <1>1, <1>4 DEF ViewP!RequestsOf

LEMMA FaultlessBefore ==
    ASSUME HomeInv, [HomeNext]_vars, Faultless'
    PROVE  Faultless
  BY NodesKept DEF Faultless

\* No request starts to come in but one that its node has just sent.
LEMMA ComingStep ==
    ASSUME HomeInv, [HomeNext]_vars, Faultless', NEW n \in Nodes
    PROVE  \/ Coming(n)' \subseteq Coming(n) /\ journal'[n] = journal[n]
           \/ \E r : /\ Coming(n) = {} /\ Coming(n)' \subseteq {r}
                     /\ Len(journal'[n]) = Len(journal[n]) + 1
                     /\ r.text = journal'[n][Len(journal'[n])]
<1> USE DEF HubUnchanged, nodeVars, pathVars, tableVars, seenVars
<1>1. /\ NoRequest \notin OnWay /\ NoRequest \notin OnWay'
      /\ inHand = NoRequest <=> coapPc = "idle"
      /\ journal \in [Nodes -> Seq(Node!Text)]
  BY NodesKept DEF HomeInv, TypeOK, Journaled
<1>2. CASE OtherThanNode
  <2>1. journal'[n] = journal[n]
    BY <1>2, OnWayStep
  <2> SUFFICES Coming(n)' \subseteq Coming(n)
    BY <2>1
  <2>2. ASSUME NEW r \in posts, HubReceives(r) PROVE Coming(n)' \subseteq Coming(n)
    <3>1. OnWay' \subseteq OnWay /\ inHand = NoRequest
      BY <1>1, <2>2 DEF HubReceives, OnWay, Path!ReceivePostOf
    <3> QED BY <1>1, <3>1 DEF Coming
  <2>3. CASE HubAnswers \/ HubRestart
    <3>1. OnWay' = posts /\ posts \subseteq OnWay /\ inHand \notin posts
      BY <1>1, <2>3 DEF HubAnswers, HubRestart, OnWay, HomeInv, Fresh
    <3> QED BY <3>1 DEF Coming
  <2>4. CASE HubSubmits
    <3>1. UNCHANGED <<posts, inHand>> /\ (coapPc' \in BeforeQueue => coapPc \in BeforeQueue)
      BY <2>4 DEF HubSubmits, Path!SubmitStep, Path!RefuseNotReady, Path!StartScan,
         Path!SkipBusyItem, Path!PoolExhausted, Path!FindFreeItem, Path!CopyMsg,
         Path!SubmitToQueue, Path!Respond, BeforeQueue
    <3> QED BY <3>1 DEF Coming, OnWay
  <2>5. CASE HubWorks \/ HubBoots \/ HubStores
    <3>1. UNCHANGED <<posts, inHand, coapPc>>
      BY <2>5 DEF HubWorks, HubBoots, HubStores, Path!WorkStep, Path!TakeItem,
         Path!EnqueueReading, Path!DropReading, Path!FinishItem, Path!BootStep,
         Path!InitItem, Path!InitDone, Path!GetReading, Path!coapVars
    <3> QED BY <3>1 DEF Coming, OnWay
  <2>6. CASE Arrives \/ UNCHANGED vars
    <3>1. UNCHANGED <<posts, inHand, coapPc>>
      BY <2>6 DEF Arrives, Node!DeliverReply, vars
    <3> QED BY <3>1 DEF Coming, OnWay
  <2>7. CASE Misbehaves
    <3>1. ~Node!DuplicateDatagram
      <4>1. SUFFICES ASSUME Node!DuplicateDatagram PROVE FALSE
        OBVIOUS
      <4>2. faults'["duplicated"] = faults["duplicated"] + 1
        <5>1. faults \in [Node!Faults -> Nat] /\ "duplicated" \in Node!Faults
          BY SameNode DEF HomeInv, ViewP!NodeInv, ViewP!TypeOK, Node!Faults
        <5> QED BY <4>1, <5>1 DEF Node!DuplicateDatagram, Node!Fault
      <4> QED BY <4>2, NodesKept DEF Faultless
    <3>2. posts' \subseteq posts /\ UNCHANGED <<inHand, coapPc>>
      BY <2>7, <3>1 DEF Misbehaves, Node!LoseDatagram
    <3> QED BY <3>2 DEF Coming, OnWay
  <2> QED BY <1>2, <2>2, <2>3, <2>4, <2>5, <2>6, <2>7 DEF OtherThanNode, Hub, Receives
<1>3. ASSUME NEW m \in Nodes, NodeMain(m), posts' = posts, journal' = journal
      PROVE  Coming(n)' \subseteq Coming(n) /\ journal'[n] = journal[n]
  BY <1>3 DEF NodeMain, Coming, OnWay
<1>4. ASSUME NEW m \in Nodes, NodeMain(m), pc[m] = "send",
             NEW r, r.node = m, r.text \in Node!Text, posts' = posts \union {r},
             journal' = [journal EXCEPT ![m] = Append(@, r.text)]
      PROVE  \/ Coming(n)' \subseteq Coming(n) /\ journal'[n] = journal[n]
             \/ /\ Coming(n) = {} /\ Coming(n)' \subseteq {r}
                /\ Len(journal'[n]) = Len(journal[n]) + 1
                /\ r.text = journal'[n][Len(journal'[n])]
  <2>1. UNCHANGED <<inHand, coapPc>> /\ \A q \in OnWay' : q \in OnWay \/ q = r
    BY <1>4 DEF NodeMain, OnWay
  <2>2. CASE n # m
    BY <1>1, <1>4, <2>1, <2>2 DEF Coming
  <2>3. CASE n = m
    <3>1. Coming(n) = {}
      BY <1>4, <2>3, OneRequest, FaultlessBefore DEF Coming
    <3>2. Coming(n)' \subseteq {r}
      BY <2>1, <3>1 DEF Coming
    <3>3. journal[n] \in Seq(Node!Text) /\ journal'[n] = Append(journal[n], r.text)
      BY <1>1, <1>4, <2>3
    <3>4. Len(journal'[n]) = Len(journal[n]) + 1 /\ r.text = journal'[n][Len(journal'[n])]
      <4>1. r.text \in Node!Text
        BY <1>4
      <4> QED BY ONLY <3>3, <4>1, AppendProperties, LenProperties
    <3> QED BY <3>1, <3>2, <3>4
  <2> QED BY <2>2, <2>3
<1>5. ASSUME NEW m \in Nodes, NodeMain(m)
      PROVE  \/ Coming(n)' \subseteq Coming(n) /\ journal'[n] = journal[n]
             \/ \E r : /\ Coming(n) = {} /\ Coming(n)' \subseteq {r}
                       /\ Len(journal'[n]) = Len(journal[n]) + 1
                       /\ r.text = journal'[n][Len(journal'[n])]
  <2>1. CASE posts' = posts /\ journal' = journal
    BY <1>3, <1>5, <2>1
  <2>2. CASE /\ pc[m] = "send"
             /\ \E r : /\ r.node = m /\ r.text \in Node!Text /\ posts' = posts \union {r}
                       /\ journal' = [journal EXCEPT ![m] = Append(@, r.text)]
    <3>1. PICK r : /\ r.node = m /\ r.text \in Node!Text /\ posts' = posts \union {r}
                   /\ journal' = [journal EXCEPT ![m] = Append(@, r.text)]
      BY <2>2
    <3> QED BY <1>4, <1>5, <2>2, <3>1
  <2> QED BY <1>5, <2>1, <2>2, SendEffect
<1> QED BY <1>2, <1>5 DEF HomeNext, OtherThanNode

LEMMA OlderBounds ==
    ASSUME HomeInv, [HomeNext]_vars, NEW n \in Nodes
    PROVE  /\ Len(journal[n]) \in Nat /\ Len(journal'[n]) \in Nat
           /\ Coming(n) = {} => Older(n) = Len(journal[n])
           /\ Coming(n) # {} => Older(n) = Len(journal[n]) - 1
           /\ Coming(n)' = {} => Older(n)' = Len(journal'[n])
           /\ Coming(n)' # {} => Older(n)' = Len(journal'[n]) - 1
<1>1. Len(journal[n]) \in Nat /\ Len(journal'[n]) \in Nat
  BY JournalGrows
<1>2. Coming(n) = {} => Older(n) = Len(journal[n]) - 0
  BY DEF Older
<1>3. Coming(n) # {} => Older(n) = Len(journal[n]) - 1
  BY DEF Older
<1>4. Coming(n)' = {} => Older(n)' = Len(journal'[n]) - 0
  BY DEF Older
<1>5. Coming(n)' # {} => Older(n)' = Len(journal'[n]) - 1
  BY DEF Older
<1>6. Len(journal[n]) - 0 = Len(journal[n]) /\ Len(journal'[n]) - 0 = Len(journal'[n])
  BY <1>1
<1> QED BY <1>1, <1>2, <1>3, <1>4, <1>5, <1>6

LEMMA OrderStep ==
    ASSUME HomeInv, [HomeNext]_vars
    PROVE  SentInOrder'
<1> SUFFICES ASSUME Faultless', NEW n \in Nodes
             PROVE  /\ Fits(Readings(GetNodeId[n])', GetNodeId[n], journal'[n], Older(n)')
                    /\ \A r \in Coming(n)' : /\ Len(journal'[n]) > 0
                                             /\ r.text = journal'[n][Len(journal'[n])]
  BY DEF SentInOrder, Fits
<1> DEFINE id == GetNodeId[n]
<1>1. Faultless /\ id \in Path!NodeIds
  BY FaultlessBefore, NodeIdType
<1>2. /\ Fits(Readings(id), id, journal[n], Older(n))
      /\ \A r \in Coming(n) : /\ Len(journal[n]) > 0
                              /\ r.text = journal[n][Len(journal[n])]
  BY <1>1 DEF HomeInv, SentInOrder
<1>3. /\ journal[n] \in Seq(Node!Text) /\ journal'[n] \in Seq(Node!Text)
      /\ Len(journal[n]) \in Nat /\ Len(journal'[n]) \in Nat
      /\ Len(journal'[n]) >= Len(journal[n])
      /\ \A j \in 1..Len(journal[n]) : journal'[n][j] = journal[n][j]
  BY JournalGrows
<1>4. ASSUME NEW r \in Coming(n)'
      PROVE  Len(journal'[n]) > 0 /\ r.text = journal'[n][Len(journal'[n])]
  BY <1>2, <1>3, <1>4, ComingStep
<1>5. /\ Older(n) \in Nat /\ Older(n)' \in Nat /\ Older(n) <= Older(n)'
      /\ Older(n) <= Len(journal[n]) /\ Older(n)' <= Len(journal'[n])
  <2>1. Coming(n) # {} => Len(journal[n]) > 0
    BY <1>2
  <2>2. Coming(n)' # {} => Len(journal'[n]) > 0
    BY <1>4
  <2>3. \/ (Coming(n)' # {} => Coming(n) # {})
        \/ Coming(n) = {} /\ Len(journal'[n]) = Len(journal[n]) + 1
    BY ComingStep
  <2>6. /\ Len(journal[n]) \in Nat /\ Len(journal'[n]) \in Nat
        /\ Len(journal'[n]) >= Len(journal[n])
    BY <1>3
  <2> QED BY <2>1, <2>2, <2>3, <2>6, OlderBounds
<1>6. Readings(id) \in Seq(PathP!Msgs) /\ Readings(id)' \in Seq(PathP!Msgs)
  BY <1>1, ReadingsType, ReadingsTypeNext, PathKept, TableKept DEF HomeInv, WellRead
<1>7. CASE Drawn(Readings(id)', Readings(id))
  <2>1. Fits(Readings(id)', id, journal[n], Older(n))
    BY <1>2, <1>6, <1>7, FitsDrawn
  <2>2. Fits(Readings(id)', id, journal'[n], Older(n)')
    BY <1>3, <1>5, <1>6, <2>1, FitsMore
  <2> QED BY <1>4, <2>2
<1>8. CASE /\ HubSubmits /\ coapPc = "queue" /\ coapPc' = "respond" /\ msg \in PathP!Msgs
           /\ Readings(id)' = Append(Readings(id), msg)
  <2>1. UNCHANGED <<posts, inHand, journal>> /\ coapPc' \notin BeforeQueue
    BY <1>8 DEF HubSubmits, HubUnchanged, nodeVars, seenVars, BeforeQueue
  <2>2. inHand \in OnWay /\ inHand.node \in Nodes
    <3>1. inHand \in OnWay
      BY <1>8 DEF HomeInv, TypeOK, OnWay
    <3> QED BY <3>1, NodesKept DEF Node!Request
  <2>3. msg.id = GetNodeId[inHand.node] /\ msg.temp = AtoF[inHand.text]
    BY <1>8 DEF HomeInv, HandOver, BeforeQueue
  <2>4. ASSUME msg.id = id
        PROVE  Older(n) + 1 = Older(n)' /\ msg.temp = AtoF[journal[n][Older(n)']]
    <3>1. inHand.node = n
      BY <2>2, <2>3, <2>4, NodeIdsDiffer
    <3>2. inHand \in Coming(n)
      BY <1>8, <2>2, <3>1 DEF Coming, BeforeQueue
    <3>3. Coming(n)' = {}
      BY <1>1, <2>1, <2>2, <3>1, OneRequest DEF Coming, OnWay
    <3>4. Older(n) = Len(journal[n]) - 1 /\ Older(n)' = Len(journal[n])
      <4>1. journal'[n] = journal[n] /\ Coming(n) # {}
        BY <2>1, <3>2
      <4> QED BY <3>3, <4>1, OlderBounds
    <3> QED BY <1>2, <1>3, <2>3, <3>2, <3>4
  <2>5. Fits(Append(Readings(id), msg), id, journal[n], Older(n)')
    <3>1. Older(n)' <= Len(journal[n])
      BY <1>5, <2>1
    <3>2. msg \in PathP!Msgs
      BY <1>8
    <3> HIDE DEF id
    <3> QED BY <1>2, <1>3, <1>5, <1>6, <2>4, <3>1, <3>2, FitsAppend
  <2> QED BY <1>4, <1>8, <2>1, <2>5
<1> QED BY <1>1, <1>7, <1>8, ReadingsStep

-----------------------------------------------------------------------------
(* Theorems.                                                               *)

LEMMA HomeInitInv == HomeInit => HomeInv
<1> SUFFICES ASSUME HomeInit PROVE HomeInv
  OBVIOUS
<1>1. ViewP!NodeInv
  BY ViewInit, SameNode
<1>2. PathP!PathInit /\ TableP!TableInit
  BY SamePath, SameTable DEF HomeInit
<1>3. PathP!PathInv /\ TableP!TableInv
  BY <1>2, HomeComponents, TableConstants, PathP!PathInitInv, TableP!TableInitInv
  DEF Table!TableAssumption
<1>4. OnWay = {} /\ inHand = NoRequest /\ coapPc = "idle" /\ posts = {}
  BY DEF HomeInit, OnWay, Node!Init, Path!PathInit
<1>5. TypeOK
  <2>1. \A n \in Nodes : Len(journal[n]) <= sent[n]
    <3>1. \A n \in Nodes : journal[n] = <<>> /\ sent[n] = 0
      BY DEF HomeInit, Node!Init
    <3>2. Len(<<>>) <= 0
      OBVIOUS
    <3> QED BY <3>1, <3>2
  <2>2. troubles \in 0..MaxTroubles
    BY HomeAssumption DEF HomeInit
  <2> QED BY <1>4, <2>1, <2>2 DEF HomeInit, TypeOK
<1>6. Fresh /\ Journaled /\ HandOver
  BY <1>4 DEF HomeInit, Fresh, Journaled, HandOver, BeforeQueue
<1>7. NothingRead
  BY <1>2, NothingReadAtFirst
<1>8. AllOwned
  BY <1>7 DEF NothingRead, AllOwned
<1>9. SentInOrder
  <2>1. ASSUME NEW n \in Nodes
        PROVE  Fits(Readings(GetNodeId[n]), GetNodeId[n], journal[n], Older(n))
    <3>1. Len(Readings(GetNodeId[n])) = 0
      BY <1>7, NodeIdType DEF NothingRead
    <3> DEFINE p == [k \in 1..0 |-> 0]
    <3>2. p \in [1..0 -> 0..Len(journal[n])] /\ \A k \in 1..0 : FALSE
      OBVIOUS
    <3> HIDE DEF p
    <3> QED BY <3>1, <3>2 DEF Fits
  <2> QED BY <1>4, <2>1 DEF SentInOrder, Coming
<1> QED BY <1>1, <1>3, <1>5, <1>6, <1>8, <1>9 DEF HomeInv

LEMMA HomeStepInv == HomeInv /\ [HomeNext]_vars => HomeInv'
<1> SUFFICES ASSUME HomeInv, [HomeNext]_vars PROVE HomeInv'
  OBVIOUS
<1> QED BY NodesKept, PathKept, TableKept, TypeStep, FreshStep, JournaledStep,
           HandOverStep, OwnedStep, OrderStep DEF HomeInv

\* In every reachable state the whole invariant holds.
THEOREM HomeInvariant == HomeSpec => []HomeInv
  BY HomeInitInv, HomeStepInv, PTL DEF HomeSpec

\* The CoAP thread has a request in hand exactly while it is not idle, and no
\* node's journal is ahead of its message ids.
THEOREM HomeTypeCorrect == HomeSpec => []TypeOK
<1>1. HomeInv => TypeOK
  BY DEF HomeInv
<1> QED BY <1>1, HomeInvariant, PTL

LEMMA SlotsAreOwned == HomeInv => OwnReadings
<1> SUFFICES ASSUME HomeInv, NEW s \in TableP!Slots, nodes[s].used
             PROVE  \E n \in Nodes :
                      /\ nodes[s].node_id = GetNodeId[n]
                      /\ \A k \in 1..nodes[s].history_count :
                           \E j \in 1..Len(journal[n]) :
                              TableP!Chronicle(nodes[s])[k].temp = AtoF[journal[n][j]]
  BY SameTable DEF OwnReadings
<1> DEFINE id == nodes[s].node_id
           c  == TableP!Chronicle(nodes[s])
           M  == Marked(id, TableP!LogOf(id))
<1>1. /\ nodes[s] \in TableP!NodeInfo /\ TableP!WellShaped(nodes[s])
      /\ nodes[s].history_count \in 1..HISTORY_SIZE
      /\ id \in Path!NodeIds /\ s \in TableP!Known(id)
  BY HomeComponents DEF HomeInv, TableP!TableInv, TableP!TypeOK, TableP!RingWellFormed,
     TableP!WellShaped, TableP!NodeInfo, TableP!Known
<1>2. c = TableP!LogOf(id) /\ Len(c) = nodes[s].history_count
  <2>1. TableP!LogsInSlots
    BY TableConstants, TableP!SlotsHoldLogs DEF Table!TableAssumption, HomeInv
  <2>2. Len(c) = nodes[s].history_count
    BY <1>1, TableConstants, TableP!ChronicleEntries DEF Table!TableAssumption
  <2> QED BY <1>1, <2>1, <2>2 DEF TableP!LogsInSlots
<1> HIDE DEF id, c
<1>3. ASSUME NEW k \in 1..nodes[s].history_count
      PROVE  \E n \in Nodes : /\ id = GetNodeId[n]
                              /\ \E j \in 1..Len(journal[n]) :
                                   c[k].temp = AtoF[journal[n][j]]
  <2>1. /\ Readings(id)[k] = [id |-> id, temp |-> c[k].temp, time |-> c[k].timestamp]
        /\ k \in 1..Len(Readings(id))
    <3>1. TableP!LogOf(id) \in Seq(TableP!Samples) /\ PathP!InFlight \in Seq(PathP!Msgs)
      BY <1>1, ReadingsType DEF HomeInv, WellRead
    <3>2. /\ M \in Seq(PathP!Msgs) /\ Len(M) = nodes[s].history_count
          /\ M[k] = [id |-> id, temp |-> c[k].temp, time |-> c[k].timestamp]
      BY <1>1, <1>2, <3>1, MarkedAt
    <3> HIDE DEF M
    <3>3. M \in Seq(PathP!Msgs)
      BY <3>2
    <3>4. /\ Len(M \o PathP!InFlight) = Len(M) + Len(PathP!InFlight)
          /\ Len(PathP!InFlight) \in Nat
          /\ \A i \in 1..Len(M) : (M \o PathP!InFlight)[i] = M[i]
      BY ONLY <3>1, <3>3, ConcatAt
    <3>5. Readings(id) = M \o PathP!InFlight
      BY DEF Readings, M
    <3>6. k \in 1..Len(M) /\ k \in 1..Len(M \o PathP!InFlight)
      BY <1>1, <3>2, <3>4
    <3> QED BY <3>2, <3>4, <3>5, <3>6
  <2>2. Owned(Readings(id)[k])
    BY <1>1, <2>1 DEF HomeInv, AllOwned
  <2> QED BY <2>1, <2>2 DEF Owned
<1>4. 1 \in 1..nodes[s].history_count
  BY <1>1
<1>5. PICK n \in Nodes : id = GetNodeId[n]
  BY <1>3, <1>4
<1>6. ASSUME NEW k \in 1..nodes[s].history_count
      PROVE  \E j \in 1..Len(journal[n]) : c[k].temp = AtoF[journal[n][j]]
  <2>1. PICK m \in Nodes : /\ id = GetNodeId[m]
                           /\ \E j \in 1..Len(journal[m]) :
                                c[k].temp = AtoF[journal[m][j]]
    BY <1>3
  <2>2. m = n
    BY <1>5, <2>1, NodeIdsDiffer
  <2> QED BY <2>1, <2>2
<1> QED BY <1>5, <1>6 DEF id, c

\* Whatever is lost, duplicated or restarted: the history in a slot holds only
\* texts that the node it is named after has sent (get_node_id, temp_node_post,
\* ui_update_submit, get_or_create_node and the drain loop of main together).
THEOREM HomeOwnReadings == HomeSpec => []OwnReadings
  BY HomeInvariant, SlotsAreOwned, PTL

\* Without duplicates and poll errors the history of a node is in the order in
\* which it sent its texts, and shows none of them twice: from
\* send_sensor_value_and_wait_for_reply through the CoAP thread, the work queue
\* and the message queue to the ring.
THEOREM HomeEndToEndOrder == HomeSpec => []EndToEndOrder
<1>1. HomeInv => EndToEndOrder
  <2> SUFFICES ASSUME HomeInv, Faultless, NEW n \in Nodes,
                      NEW s \in TableP!Known(GetNodeId[n])
               PROVE  LET c == TableP!Chronicle(nodes[s])
                      IN  \E f \in [1..Len(c) -> 1..Len(journal[n])] :
                            /\ \A j, k \in 1..Len(c) : j < k => f[j] < f[k]
                            /\ \A k \in 1..Len(c) : c[k].temp = AtoF[journal[n][f[k]]]
    BY SameTable DEF EndToEndOrder
  <2> DEFINE id == GetNodeId[n]
             c  == TableP!Chronicle(nodes[s])
             M  == Marked(id, TableP!LogOf(id))
             texts == journal[n]
  <2>1. id \in Path!NodeIds /\ s \in TableP!Known(id)
    BY NodeIdType
  <2>2. c = TableP!LogOf(id) /\ c \in Seq(TableP!Samples)
        /\ PathP!InFlight \in Seq(PathP!Msgs)
    <3>1. TableP!LogsInSlots
      BY TableConstants, TableP!SlotsHoldLogs DEF Table!TableAssumption, HomeInv
    <3>2. TableP!LogOf(id) \in Seq(TableP!Samples) /\ PathP!InFlight \in Seq(PathP!Msgs)
      BY <2>1, ReadingsType DEF HomeInv, WellRead
    <3> QED BY <2>1, <3>1, <3>2 DEF TableP!LogsInSlots
  <2>3. Fits(Readings(id), id, texts, Older(n))
    BY DEF HomeInv, SentInOrder
  <2> HIDE DEF id, c
  <2>4. /\ M \in Seq(PathP!Msgs) /\ Len(M) = Len(c) /\ Len(c) \in Nat
        /\ \A k \in 1..Len(c) :
             M[k] = [id |-> id, temp |-> c[k].temp, time |-> c[k].timestamp]
    BY <2>1, <2>2, MarkedAt
  <2> DEFINE w == Readings(id)
  <2>5. /\ Len(w) = Len(M) + Len(PathP!InFlight)
        /\ Len(PathP!InFlight) \in Nat
        /\ \A i \in 1..Len(M) : w[i] = M[i]
    <3> HIDE DEF M
    <3>1. M \in Seq(PathP!Msgs) /\ PathP!InFlight \in Seq(PathP!Msgs)
      BY <2>2, <2>4
    <3>2. w = M \o PathP!InFlight
      BY DEF Readings, M
    <3> QED BY ONLY <3>1, <3>2, ConcatAt
  <2> HIDE DEF w, M
  <2>6. PICK p \in [1..Len(w) -> 0..Len(texts)] :
          \A k \in 1..Len(w) : w[k].id = id =>
            /\ p[k] \in 1..Older(n)
            /\ w[k].temp = AtoF[texts[p[k]]]
            /\ \A j \in 1..Len(w) : j < k /\ w[j].id = id => p[j] < p[k]
    BY <2>3 DEF Fits, w
  <2>7. ASSUME NEW k \in 1..Len(c)
        PROVE  k \in 1..Len(w) /\ w[k].id = id /\ w[k].temp = c[k].temp
    <3>1. w[k] = [id |-> id, temp |-> c[k].temp, time |-> c[k].timestamp]
      BY <2>4, <2>5
    <3>2. k \in 1..Len(w)
      BY ONLY <2>4, <2>5, <2>7
    <3> QED BY <3>1, <3>2
  <2> DEFINE f == [k \in 1..Len(c) |-> p[k]]
  <2>8. ASSUME NEW k \in 1..Len(c) PROVE f[k] \in 1..Len(texts)
    <3>1. p[k] \in 0..Len(texts) /\ p[k] \in 1..Older(n)
      BY <2>6, <2>7
    <3>2. f[k] = p[k]
      OBVIOUS
    <3>3. Len(texts) \in Nat
      BY DEF HomeInv, Journaled
    <3> QED BY <3>1, <3>2, <3>3
  <2>9. f \in [1..Len(c) -> 1..Len(texts)]
    BY <2>8
  <2>10. \A j, k \in 1..Len(c) : j < k => f[j] < f[k]
    BY <2>6, <2>7
  <2>11. \A k \in 1..Len(c) : c[k].temp = AtoF[texts[f[k]]]
    BY <2>6, <2>7
  <2> HIDE DEF f
  <2> QED BY <2>9, <2>10, <2>11 DEF c
<1> QED BY <1>1, HomeInvariant, PTL

\* The view of HomeHub is the one that the proofs are about.
LEMMA SameView ==
    ASSUME [ViewP!Next]_(ViewP!vars)
    PROVE  [View!Next]_(View!vars)
<1> USE DEF OnWay, View!threadVars, ViewP!threadVars, View!GoTo, ViewP!GoTo, View!Hold,
       ViewP!Hold, View!Fault, ViewP!Fault
<1>1. ASSUME NEW n \in Nodes, ViewP!MainStep(n) PROVE View!MainStep(n)
  <2>1. ASSUME NEW k, ViewP!PrintAndSend(n, k) PROVE View!PrintAndSend(n, k)
    <3>1. \A v, w : ViewP!PrintedTexts(v, w) = View!PrintedTexts(v, w)
      BY DEF ViewP!PrintedTexts, View!PrintedTexts, ViewP!Printed, View!Printed,
         ViewP!Magnitude, View!Magnitude
    <3> QED BY <2>1, <3>1 DEF ViewP!PrintAndSend, View!PrintAndSend
  <2>2. ViewP!SendReading(n) => View!SendReading(n)
    BY <2>1 DEF ViewP!SendReading, View!SendReading
  <2> QED BY <1>1, <2>2 DEF ViewP!MainStep, View!MainStep, ViewP!StartClient,
             View!StartClient, ViewP!SendFails, View!SendFails, ViewP!PollReturns,
             View!PollReturns, ViewP!ReceiveReply, View!ReceiveReply,
             ViewP!ReceiveFails, View!ReceiveFails, ViewP!WakeUp, View!WakeUp
<1>2. ASSUME NEW n \in Nodes, ViewP!ReadSensor(n) \/ ViewP!SensorFails(n)
      PROVE  View!ReadSensor(n) \/ View!SensorFails(n)
  BY <1>2 DEF ViewP!ReadSensor, View!ReadSensor, ViewP!SensorFails, View!SensorFails
<1>3. ViewP!Exchange => View!Exchange
  BY DEF ViewP!Exchange, View!Exchange, ViewP!HubHandles, View!HubHandles,
     ViewP!DeliverReply, View!DeliverReply, ViewP!Show, View!Show, ViewP!ReadBack,
     View!ReadBack
<1>4. ViewP!LoseDatagram => View!LoseDatagram
  BY DEF ViewP!LoseDatagram, View!LoseDatagram
<1>5. ViewP!DuplicateDatagram => View!DuplicateDatagram
  BY DEF ViewP!DuplicateDatagram, View!DuplicateDatagram
<1>6. UNCHANGED ViewP!vars => UNCHANGED View!vars
  BY DEF ViewP!vars, View!vars
<1> QED BY <1>1, <1>2, <1>3, <1>4, <1>5, <1>6 DEF ViewP!Next, View!Next

\* For the nodes the CoAP thread, the pool, the queues and a restart make no
\* difference: what they see of the hub is what TempNode has it do in one step.
THEOREM HomeNodeViewRefined == HomeSpec => NodeViewRefined
<1>1. HomeInit => View!Init
  BY DEF HomeInit, Node!Init, View!Init, View!Nothing, Node!Nothing, View!Faults,
     Node!Faults
<1>2. HomeInv /\ [HomeNext]_vars => [View!Next]_(View!vars)
  BY ViewStep, SameView
<1> QED BY <1>1, <1>2, HomeInvariant, PTL DEF HomeSpec, NodeViewRefined, View!Spec

-----------------------------------------------------------------------------
(* Room for everybody.  As long as every node sleeps until its reading is  *)
(* in the table, each node has one reading inside the hub at most, so that *)
(* items, messages and slots can be counted by nodes.                      *)

\* Item i is in use, or was when ui_update_submit looked at it in this scan: it
\* holds the reading of a node that cannot have sent another one meanwhile.
Held(i) == flags[i] # {} \/ (coapPc = "scan" /\ i < slot)

\* The handler has not yet put the message of item i into the queue.
ToHandle(i) == "queued" \in flags[i] \/ (wqPc = "call" /\ wqItem = i)

Inside(id) == \/ \E i \in PathP!Items : Held(i) /\ data[i].id = id
              \/ \E k \in 1..Len(msgq) : msgq[k].id = id

\* A node that is about to send, or whose request is on its way, has nothing
\* in the hub.
Sends(n) == pc[n] \in {"start", "send"} \/ \E r \in posts : r.node = n
NothingBehind == \A n \in Nodes : Sends(n) => ~InHub(n)

\* The reading that the CoAP thread hands over is the only one of its node.
NewInside == coapPc \in BeforeQueue => ~Inside(GetNodeId[inHand.node])

\* No two items, and no two messages, are of the same node, and all are of some.
ItemsApart ==
    \A i, j \in PathP!Items : Held(i) /\ Held(j) /\ data[i].id = data[j].id => i = j
MessagesApart ==
    /\ \A j, k \in 1..Len(msgq) : msgq[j].id = msgq[k].id => j = k
    /\ \A i \in PathP!Items : ToHandle(i) =>
         \A k \in 1..Len(msgq) : msgq[k].id # data[i].id
IsNodeId(x) == \E n \in Nodes : x = GetNodeId[n]
AllNamed ==
    /\ \A i \in PathP!Items : Held(i) => IsNodeId(data[i].id)
    /\ \A k \in 1..Len(msgq) : IsNodeId(msgq[k].id)

OneEach == NothingBehind /\ NewInside /\ ItemsApart /\ MessagesApart /\ AllNamed

Patient == Faultless /\ ~hurried
RoomInv == HomeInv /\ (Patient => OneEach)

LEMMA PatientBefore ==
    ASSUME HomeInv, [HomeNext]_vars, Patient'
    PROVE  Patient
<1>1. hurried => hurried'
  BY DEF HomeNext, NodeMain, Hub, Receives, HubReceives, HubSubmits, HubAnswers, HubRestart,
     HubWorks, HubBoots, HubStores, HubUnchanged, seenVars, Arrives, Misbehaves, vars
<1> QED BY <1>1, FaultlessBefore DEF Patient

LEMMA HandledIsBusy ==
    ASSUME PathP!PathInv, NEW i \in PathP!Items, ToHandle(i)
    PROVE  flags[i] # {}
  BY DEF PathP!PathInv, PathP!PoolConsistent, ToHandle

\* The first d messages of the queue are taken.
MsgqShifted(d) ==
    /\ Len(msgq') \in Nat
    /\ \A k \in 1..Len(msgq') : k + d \in 1..Len(msgq) /\ msgq'[k] = msgq[k + d]

LEMMA SameMsgq ==
    ASSUME PathP!PathInv, msgq' = msgq
    PROVE  \E d \in Nat : MsgqShifted(d)
<1>1. Len(msgq) \in Nat
  BY DEF PathP!PathInv, PathP!TypeOK
<1>2. MsgqShifted(0)
  BY <1>1 DEF MsgqShifted
<1> QED BY <1>2, 0 \in Nat

\* A step that brings nothing new into the hub keeps readings apart.
LEMMA RoomFrame ==
    ASSUME OneEach,
           \A i \in PathP!Items : Held(i)' => Held(i) /\ data'[i] = data[i],
           \A i \in PathP!Items : ToHandle(i)' => ToHandle(i) /\ data'[i] = data[i],
           \A i \in PathP!Items : flags'[i] # {} => flags[i] # {},
           \E d \in Nat : MsgqShifted(d),
           coapPc' \in BeforeQueue => coapPc \in BeforeQueue /\ inHand' = inHand,
           inHand' = inHand \/ inHand' = NoRequest,
           \A n \in Nodes : Sends(n)' => Sends(n) \/ ~InHub(n)
    PROVE  OneEach'
<1> PICK d \in Nat : MsgqShifted(d)
  OBVIOUS
<1> USE DEF MsgqShifted
<1>0. Path!Items = PathP!Items
  BY DEF Path!Items, PathP!Items
<1>1. \A n \in Nodes : InHub(n)' => InHub(n)
  <2> SUFFICES ASSUME NEW n \in Nodes, InHub(n)' PROVE InHub(n)
    OBVIOUS
  <2>1. CASE inHand' # NoRequest /\ inHand'.node = n
    BY <2>1 DEF InHub
  <2>2. ASSUME NEW i \in PathP!Items, flags'[i] # {}, data'[i].id = GetNodeId[n]
        PROVE  InHub(n)
    <3>1. Held(i)'
      BY <2>2 DEF Held
    <3>2. flags[i] # {} /\ data[i].id = GetNodeId[n]
      BY <2>2, <3>1
    <3> QED BY <1>0, <3>2 DEF InHub, Path!IsBusy
  <2>3. ASSUME NEW k \in 1..Len(msgq'), msgq'[k].id = GetNodeId[n]
        PROVE  InHub(n)
    BY <2>3 DEF InHub
  <2> QED BY <1>0, <2>1, <2>2, <2>3 DEF InHub, Path!IsBusy
<1>2. NothingBehind'
  BY <1>1 DEF NothingBehind, OneEach
<1>3. \A id : Inside(id)' => Inside(id)
  BY DEF Inside
<1>4. NewInside'
  BY <1>3 DEF NewInside, OneEach
<1>5. ItemsApart'
  BY DEF ItemsApart, OneEach
<1>6. MessagesApart'
  <2>1. ASSUME NEW j \in 1..Len(msgq'), NEW k \in 1..Len(msgq'), msgq'[j].id = msgq'[k].id
        PROVE  j = k
    <3>1. j + d = k + d
      BY <2>1 DEF OneEach, MessagesApart
    <3> QED BY <3>1
  <2>2. ASSUME NEW i \in PathP!Items, ToHandle(i)', NEW k \in 1..Len(msgq')
        PROVE  msgq'[k].id # data'[i].id
    BY <2>2 DEF OneEach, MessagesApart
  <2> QED BY <2>1, <2>2 DEF MessagesApart
<1>7. AllNamed'
  BY DEF AllNamed, OneEach
<1> QED BY <1>2, <1>4, <1>5, <1>6, <1>7 DEF OneEach

\* The CoAP thread receives a request, whose node has nothing in the hub.
LEMMA RoomReceives ==
    ASSUME HomeInv, [HomeNext]_vars, Patient, OneEach, NEW r \in posts, HubReceives(r)
    PROVE  OneEach'
<1>0. Path!Items = PathP!Items
  BY DEF Path!Items, PathP!Items
<1>1. /\ coapPc = "idle" /\ coapPc' = "submit" /\ inHand' = r /\ posts' = posts \ {r}
      /\ UNCHANGED <<flags, data, msgq, slot, wqPc, wqItem, pc>>
  BY DEF HubReceives, Path!ReceivePostOf, Path!poolVars, Path!wqVars, Path!outVars
<1>2. inHand = NoRequest /\ r # NoRequest /\ r \in OnWay /\ r.node \in Nodes
  <2>1. r \in OnWay
    BY DEF OnWay
  <2>2. r \in Node!Request /\ r # NoRequest
    BY <2>1, NodesKept
  <2> QED BY <1>1, <2>1, <2>2 DEF HomeInv, TypeOK, Node!Request
<1>3. ~InHub(r.node)
  BY <1>2 DEF OneEach, NothingBehind, Sends
<1>4. \A i : (Held(i)' <=> Held(i)) /\ (ToHandle(i)' <=> ToHandle(i))
  BY <1>1 DEF Held, ToHandle
<1>5. ~Sends(r.node)'
  <2>1. \A q \in posts : q.node = r.node => q = r
    BY <1>2, OneRequest DEF Patient, OnWay
  <2>2. pc[r.node] \notin {"start", "send"}
    <3>1. pc[r.node] \in {"start", "send", "sleep"} => ViewP!RequestsOf(r.node) = {}
      BY <1>2 DEF HomeInv, ViewP!NodeInv, ViewP!StopAndWait, Patient, Faultless
    <3>2. r \in ViewP!RequestsOf(r.node)
      BY <1>2 DEF ViewP!RequestsOf
    <3> QED BY <3>1, <3>2
  <2> QED BY <1>1, <2>1, <2>2 DEF Sends
<1>6. ASSUME NEW n \in Nodes, Sends(n)' PROVE ~InHub(n)'
  <2>1. n # r.node /\ Sends(n)
    BY <1>1, <1>5, <1>6 DEF Sends
  <2>2. ~InHub(n)
    BY <2>1 DEF OneEach, NothingBehind
  <2> QED BY <1>0, <1>1, <2>1, <2>2 DEF InHub, Path!IsBusy
<1>7. ~Inside(GetNodeId[r.node])
  BY <1>0, <1>1, <1>3 DEF Inside, InHub, Held, Path!IsBusy
<1>8. NewInside'
  BY <1>1, <1>4, <1>7 DEF NewInside, Inside
<1>9. ItemsApart' /\ MessagesApart' /\ AllNamed'
  BY <1>1, <1>4 DEF OneEach, ItemsApart, MessagesApart, AllNamed
<1> QED BY <1>6, <1>8, <1>9 DEF OneEach, NothingBehind

\* The item that is submitted holds the only reading of its node.
LEMMA RoomSubmits ==
    ASSUME HomeInv, OneEach, HubSubmits, PathP!SubmitToQueue
    PROVE  OneEach'
<1> DEFINE n == inHand.node
<1>0. Path!Items = PathP!Items
  BY DEF Path!Items, PathP!Items
<1>1. /\ coapPc = "queue" /\ coapPc' = "respond"
      /\ flags' = [flags EXCEPT ![slot] = @ \union {"queued"}]
      /\ UNCHANGED <<data, msgq, slot, wqPc, wqItem, pc, posts, inHand>>
  BY DEF PathP!SubmitToQueue, HubSubmits, HubUnchanged, nodeVars, PathP!wqVars, PathP!outVars
<1>2. /\ n \in Nodes /\ inHand # NoRequest
      /\ slot \in PathP!Items /\ data[slot].id = GetNodeId[n]
      /\ flags \in [PathP!Items -> SUBSET {"queued", "running"}]
      /\ PathP!PathInv
  BY <1>1 DEF HomeInv, TypeOK, HandOver, BeforeQueue, PathP!PathInv, PathP!TypeOK,
     PathP!WrittenBeforeRead
<1>3. ~Inside(GetNodeId[n])
  BY <1>1 DEF OneEach, NewInside, BeforeQueue
<1> HIDE DEF n
<1>4. \A i \in PathP!Items : i # slot => flags'[i] = flags[i]
  BY <1>1, <1>2
<1>5. \A i \in PathP!Items : i # slot /\ Held(i)' => Held(i)
  BY <1>1, <1>4 DEF Held
<1>6. \A i \in PathP!Items : i # slot /\ Held(i)' => data[i].id # data[slot].id
  BY <1>2, <1>3, <1>5 DEF Inside
<1>7. ItemsApart'
  BY <1>1, <1>5, <1>6 DEF OneEach, ItemsApart
<1>8. \A k \in 1..Len(msgq) : msgq[k].id # data[slot].id
  BY <1>2, <1>3 DEF Inside
<1>9. \A i \in PathP!Items : i # slot /\ ToHandle(i)' => ToHandle(i)
  BY <1>1, <1>4 DEF ToHandle
<1>10. MessagesApart'
  BY <1>1, <1>8, <1>9 DEF OneEach, MessagesApart
<1>11. AllNamed'
  BY <1>1, <1>2, <1>5 DEF OneEach, AllNamed, IsNodeId
<1>12. \A m \in Nodes : Sends(m)' => Sends(m)
  BY <1>1 DEF Sends
<1>13. ASSUME NEW m \in Nodes, InHub(m)' PROVE InHub(m)
  <2>1. CASE inHand'.node = m /\ inHand' # NoRequest
    BY <1>1, <2>1 DEF InHub
  <2>2. ASSUME NEW i \in PathP!Items, flags'[i] # {}, data[i].id = GetNodeId[m]
        PROVE  InHub(m)
    <3>1. CASE i = slot
      <4>1. m = n
        BY <1>2, <2>2, <3>1, NodeIdsDiffer
      <4> QED BY <1>2, <4>1 DEF InHub, n
    <3>2. CASE i # slot
      BY <1>0, <1>4, <2>2, <3>2 DEF InHub, Path!IsBusy
    <3> QED BY <3>1, <3>2
  <2>3. CASE \E k \in 1..Len(msgq) : msgq[k].id = GetNodeId[m]
    BY <2>3 DEF InHub
  <2> QED BY <1>0, <1>1, <1>13, <2>1, <2>2, <2>3 DEF InHub, Path!IsBusy
<1>14. NothingBehind'
  BY <1>12, <1>13 DEF OneEach, NothingBehind
<1>15. NewInside'
  BY <1>1 DEF NewInside, BeforeQueue
<1> QED BY <1>7, <1>10, <1>11, <1>14, <1>15 DEF OneEach

\* The handler's message is the only one of its node in the queue.
LEMMA RoomWorks ==
    ASSUME HomeInv, OneEach, HubWorks, PathP!EnqueueReading
    PROVE  OneEach'
<1> DEFINE m == data[wqItem]
<1>0. Path!Items = PathP!Items
  BY DEF Path!Items, PathP!Items
<1>1. /\ wqPc = "call" /\ wqPc' = "done" /\ msgq' = Append(msgq, m)
      /\ UNCHANGED <<flags, data, slot, coapPc, wqItem, pc, posts, inHand>>
  BY DEF PathP!EnqueueReading, HubWorks, HubUnchanged, nodeVars, PathP!coapVars,
     PathP!poolVars
<1>2. /\ wqItem \in PathP!Items /\ "running" \in flags[wqItem]
      /\ "queued" \notin flags[wqItem]
      /\ msgq \in Seq(PathP!Msgs) /\ m \in PathP!Msgs
  <2>1. wqItem \in PathP!Items
    BY <1>1 DEF HomeInv, PathP!PathInv, PathP!TypeOK, PathP!PoolConsistent
  <2>2. /\ flags[wqItem] \subseteq {"queued", "running"} /\ "running" \in flags[wqItem]
        /\ flags[wqItem] # {"queued", "running"}
    BY <2>1 DEF HomeInv, PathP!PathInv, PathP!TypeOK, PathP!PoolConsistent
  <2>3. m \in PathP!Msgs
    BY <2>1, <2>2 DEF HomeInv, PathP!PathInv, PathP!WrittenBeforeRead, PathP!IsBusy
  <2> QED BY <2>1, <2>2, <2>3 DEF HomeInv, PathP!PathInv, PathP!TypeOK
<1>3. Held(wqItem) /\ ToHandle(wqItem)
  BY <1>1, <1>2 DEF Held, ToHandle
<1> HIDE DEF m
<1>4. /\ Len(msgq) \in Nat /\ Len(msgq') = Len(msgq) + 1
      /\ \A k \in 1..Len(msgq') :
           \/ k \in 1..Len(msgq) /\ msgq'[k] = msgq[k]
           \/ k = Len(msgq) + 1 /\ msgq'[k] = m
<2>1. msgq' = Append(msgq, m) /\ msgq \in Seq(PathP!Msgs) /\ m \in PathP!Msgs
    BY <1>1, <1>2
  <2>2. Len(msgq) \in Nat
    BY ONLY <2>1, LenProperties
  <2>3. Len(msgq') = Len(msgq) + 1
    BY ONLY <2>1, AppendProperties
  <2>4. ASSUME NEW k \in 1..Len(msgq')
        PROVE  \/ k \in 1..Len(msgq) /\ msgq'[k] = msgq[k]
               \/ k = Len(msgq) + 1 /\ msgq'[k] = m
    <3>1. k \in 1..Len(msgq) \/ k = Len(msgq) + 1
      BY ONLY <2>2, <2>3, k \in 1..Len(msgq')
    <3> QED BY ONLY <2>1, <3>1, AppendProperties
  <2> QED BY <2>2, <2>3, <2>4
<1>5. \A i : Held(i)' <=> Held(i)
  BY <1>1 DEF Held
<1>6. \A id : Inside(id)' => Inside(id)
  BY <1>1, <1>2, <1>3, <1>4, <1>5 DEF Inside, m
<1>7. NewInside'
  BY <1>1, <1>6 DEF OneEach, NewInside
<1>8. ItemsApart'
  BY <1>1, <1>5 DEF OneEach, ItemsApart
<1>9. \A k \in 1..Len(msgq) : msgq[k].id # m.id
  BY <1>2, <1>3 DEF OneEach, MessagesApart, m
<1>10. ASSUME NEW i \in PathP!Items, ToHandle(i)'
       PROVE  ToHandle(i) /\ data[i].id # m.id
  <2>1. i # wqItem /\ "queued" \in flags[i]
    BY <1>1, <1>2, <1>10 DEF ToHandle
  <2>2. Held(i)
    BY <2>1 DEF Held
  <2> QED BY <1>2, <1>3, <2>1, <2>2 DEF OneEach, ItemsApart, ToHandle, m
<1>11. MessagesApart'
  <2>1. ASSUME NEW j \in 1..Len(msgq'), NEW k \in 1..Len(msgq'), msgq'[j].id = msgq'[k].id
        PROVE  j = k
    BY <1>4, <1>9, <2>1 DEF OneEach, MessagesApart
  <2>2. ASSUME NEW i \in PathP!Items, ToHandle(i)', NEW k \in 1..Len(msgq')
        PROVE  msgq'[k].id # data'[i].id
    BY <1>1, <1>4, <1>10, <2>2 DEF OneEach, MessagesApart
  <2> QED BY <2>1, <2>2 DEF MessagesApart
<1>12. AllNamed'
  BY <1>1, <1>2, <1>3, <1>4, <1>5 DEF OneEach, AllNamed, m
<1>13. ASSUME NEW n \in Nodes, InHub(n)' PROVE InHub(n)
  <2>1. ASSUME NEW k \in 1..Len(msgq'), msgq'[k].id = GetNodeId[n] PROVE InHub(n)
    BY <1>0, <1>2, <1>4, <2>1 DEF InHub, Path!IsBusy, m
  <2> QED BY <1>0, <1>1, <1>13, <2>1 DEF InHub, Path!IsBusy
<1>14. NothingBehind'
  BY <1>1, <1>13 DEF OneEach, NothingBehind, Sends
<1> QED BY <1>7, <1>8, <1>11, <1>12, <1>14 DEF OneEach

\* Taking a message leaves the others in their order.
LEMMA TailShift ==
    ASSUME NEW S, NEW s \in Seq(S), s # <<>>
    PROVE  /\ Len(Tail(s)) \in Nat
           /\ \A k \in 1..Len(Tail(s)) : k + 1 \in 1..Len(s) /\ Tail(s)[k] = s[k + 1]
<1>1. /\ Len(s) \in Nat /\ Tail(s) \in Seq(S) /\ Len(Tail(s)) = Len(s) - 1
      /\ \A k \in 1..Len(Tail(s)) : Tail(s)[k] = s[k + 1]
  BY HeadTailProperties, LenProperties
<1>2. Len(Tail(s)) \in Nat
  BY ONLY <1>1, LenProperties
<1>3. \A k \in 1..Len(Tail(s)) : k + 1 \in 1..Len(s)
  BY ONLY <1>1, <1>2
<1> QED BY ONLY <1>1, <1>2, <1>3

\* Steps of the CoAP thread other than the submission: the scan lets go of no
\* item that was held, and the message is copied into one that is free.
LEMMA RoomScans ==
    ASSUME HomeInv, OneEach, HubSubmits, ~PathP!SubmitToQueue
    PROVE  OneEach'
<1> DEFINE Scans == \/ coapPc' # "scan"
                    \/ coapPc = "submit" /\ slot' = 0
                    \/ coapPc = "scan" /\ slot' = slot + 1 /\ flags[slot] # {}
           Copies == /\ data' = [data EXCEPT ![slot] = msg]
                     /\ coapPc' = "queue" /\ flags[slot] = {} /\ slot' = slot
<1>1. /\ UNCHANGED <<flags, msgq, wqPc, wqItem, pc, posts, inHand>>
      /\ coapPc' \in BeforeQueue => coapPc \in BeforeQueue
      /\ (data' = data /\ Scans) \/ Copies
  <2>1. PathP!SubmitStep /\ coapPc # "respond" /\ HubUnchanged
    BY SameSubmit DEF HubSubmits
  <2>2. CASE PathP!RefuseNotReady \/ PathP!StartScan \/ PathP!SkipBusyItem
             \/ PathP!PoolExhausted \/ PathP!FindFreeItem
    BY <2>1, <2>2 DEF HubUnchanged, nodeVars, PathP!RefuseNotReady, PathP!StartScan,
       PathP!SkipBusyItem, PathP!PoolExhausted, PathP!FindFreeItem, PathP!IsBusy,
       PathP!poolVars, PathP!wqVars, PathP!outVars, BeforeQueue
  <2>3. CASE PathP!CopyMsg
    BY <2>1, <2>3 DEF HubUnchanged, nodeVars, PathP!CopyMsg, PathP!wqVars, PathP!outVars,
       BeforeQueue, HomeInv, PathP!PathInv, PathP!WriterOwnsItem, PathP!IsBusy
  <2> QED BY <2>1, <2>2, <2>3 DEF PathP!SubmitStep, PathP!Respond
<1>2. ASSUME NEW i \in PathP!Items, Held(i)' PROVE Held(i) /\ data'[i] = data[i]
  <2>1. slot \in PathP!Items /\ PathP!Items \subseteq Int
    BY DEF HomeInv, PathP!PathInv, PathP!TypeOK, PathP!Items
  <2>2. CASE data' = data /\ Scans
    BY <1>1, <1>2, <2>1, <2>2 DEF Held, PathP!Items
  <2>3. CASE Copies
    BY <1>1, <1>2, <2>1, <2>3 DEF Held, HomeInv, PathP!PathInv, PathP!TypeOK
  <2> QED BY <1>1, <2>2, <2>3
<1>3. ASSUME NEW i \in PathP!Items, ToHandle(i)' PROVE ToHandle(i) /\ data'[i] = data[i]
  <2>1. ToHandle(i)
    BY <1>1, <1>3 DEF ToHandle
  <2>2. flags'[i] # {}
    BY <1>1, <2>1, HandledIsBusy DEF HomeInv
  <2> QED BY <1>2, <2>1, <2>2 DEF Held
<1>4. \A i \in PathP!Items : flags'[i] # {} => flags[i] # {}
  BY <1>1
<1>5. \E d \in Nat : MsgqShifted(d)
  BY <1>1, SameMsgq DEF HomeInv
<1>6. \A n \in Nodes : Sends(n)' => Sends(n)
  BY <1>1 DEF Sends
<1> QED BY <1>1, <1>2, <1>3, <1>4, <1>5, <1>6, RoomFrame

\* Steps of the hub that leave the CoAP thread alone.
LEMMA RoomElsewhere ==
    ASSUME HomeInv, OneEach,
           UNCHANGED <<coapPc, slot, data, pc, posts, inHand>>,
           \A i \in PathP!Items : flags'[i] # {} => flags[i] # {},
           \A i \in PathP!Items : ToHandle(i)' => ToHandle(i),
           \/ msgq' = msgq
           \/ msgq # <<>> /\ msgq' = Tail(msgq)
    PROVE  OneEach'
<1>1. \A i \in PathP!Items : Held(i)' => Held(i) /\ data'[i] = data[i]
  BY DEF Held
<1>2. \A n \in Nodes : Sends(n)' => Sends(n)
  BY DEF Sends
<1>3. \E d \in Nat : MsgqShifted(d)
  <2>1. msgq \in Seq(PathP!Msgs)
    BY DEF HomeInv, PathP!PathInv, PathP!TypeOK
  <2>2. CASE msgq' = msgq
    BY <2>2, SameMsgq DEF HomeInv
  <2>3. CASE msgq # <<>> /\ msgq' = Tail(msgq)
    <3>1. MsgqShifted(1)
      BY <2>1, <2>3, TailShift DEF MsgqShifted
    <3> QED BY <3>1, 1 \in Nat
  <2> QED BY <2>2, <2>3
<1> QED BY <1>1, <1>2, <1>3, RoomFrame

\* main's boot and drain loop, and the work queue thread but for the handler.
LEMMA RoomLeaves ==
    ASSUME HomeInv, OneEach, HubBoots \/ HubStores \/ HubWorks, ~PathP!EnqueueReading
    PROVE  OneEach'
<1>1. UNCHANGED <<pc, posts, inHand>>
  BY DEF HubBoots, HubStores, HubWorks, HubUnchanged, nodeVars
<1>2. flags \in [PathP!Items -> SUBSET {"queued", "running"}] /\ pending \in Seq(PathP!Items)
  BY DEF HomeInv, PathP!PathInv, PathP!TypeOK
<1>3. CASE HubStores
  BY <1>1, <1>3, TakenIsMessage, RoomElsewhere
     DEF PathP!GetReading, PathP!coapVars, PathP!poolVars, PathP!wqVars, ToHandle
<1>4. CASE HubBoots
  <2>1. \/ flags' = flags
        \/ flags' = [flags EXCEPT ![inited] = {}]
    BY <1>4 DEF HubBoots, Path!BootStep, Path!InitItem, Path!InitDone, Path!poolVars
  <2>2. UNCHANGED <<coapPc, slot, data, msgq, wqPc, wqItem>>
    BY <1>4 DEF HubBoots, Path!BootStep, Path!InitItem, Path!InitDone, Path!coapVars,
       Path!poolVars, Path!wqVars, Path!outVars
  <2>3. \A i \in PathP!Items : flags'[i] = flags[i] \/ flags'[i] = {}
    BY <1>2, <2>1
  <2>4. \A i \in PathP!Items : ToHandle(i)' => ToHandle(i)
    BY <2>2, <2>3 DEF ToHandle
  <2> QED BY <1>1, <2>2, <2>3, <2>4, RoomElsewhere
<1>5. CASE HubWorks /\ PathP!TakeItem
  <2> DEFINE i == Head(pending)
  <2>1. /\ i \in PathP!Items /\ "queued" \in flags[i]
    <3>1. pending # <<>>
      BY <1>5 DEF PathP!TakeItem
    <3>2. i \in PathP!Items /\ 1 \in 1..Len(pending) /\ pending[1] = i
      BY <1>2, <3>1
    <3> QED BY <3>2 DEF HomeInv, PathP!PathInv, PathP!PoolConsistent
  <2>2. /\ wqItem' = i /\ wqPc' = "call" /\ wqPc = "wait"
        /\ flags' = [flags EXCEPT ![i] = (@ \ {"queued"}) \union {"running"}]
        /\ UNCHANGED <<coapPc, slot, data, msgq>>
    BY <1>5 DEF PathP!TakeItem, PathP!coapVars, PathP!outVars
  <2> HIDE DEF i
  <2>3. \A j \in PathP!Items : j # i => flags'[j] = flags[j]
    BY <1>2, <2>2
  <2>4. \A j \in PathP!Items : ToHandle(j)' => ToHandle(j)
    BY <2>1, <2>2, <2>3 DEF ToHandle
  <2>5. \A j \in PathP!Items : flags'[j] # {} => flags[j] # {}
    BY <2>1, <2>3
  <2> QED BY <1>1, <2>2, <2>4, <2>5, RoomElsewhere
<1>6. CASE HubWorks /\ PathP!DropReading
  BY <1>1, <1>6, RoomElsewhere
     DEF PathP!DropReading, PathP!coapVars, PathP!poolVars, PathP!outVars, ToHandle
<1>7. CASE HubWorks /\ PathP!FinishItem
  <2>1. /\ wqPc' = "wait" /\ flags' = [flags EXCEPT ![wqItem] = @ \ {"running"}]
        /\ UNCHANGED <<coapPc, slot, data, msgq>>
    BY <1>7 DEF PathP!FinishItem, PathP!coapVars, PathP!outVars
  <2>2. \A i \in PathP!Items : flags'[i] \subseteq flags[i]
    BY <1>2, <2>1
  <2> QED BY <1>1, <2>1, <2>2, RoomElsewhere DEF ToHandle
<1> QED BY <1>3, <1>4, <1>5, <1>6, <1>7, SameWork DEF HubWorks

\* The nodes and the network: who sends next has nothing in the hub.
LEMMA RoomOutside ==
    ASSUME HomeInv, [HomeNext]_vars, Patient', OneEach,
           (\E n \in Nodes : NodeMain(n)) \/ Arrives \/ Misbehaves \/ UNCHANGED vars
    PROVE  OneEach'
<1>1. UNCHANGED <<coapPc, slot, data, flags, wqPc, wqItem, msgq, inHand>>
  BY DEF NodeMain, Arrives, Misbehaves, vars, pathVars
<1>2. ASSUME NEW n \in Nodes, NodeMain(n), NEW m \in Nodes, Sends(m)'
      PROVE  Sends(m) \/ ~InHub(m)
  <2>1. CASE pc'[m] \in {"start", "send"}
    <3>1. pc'[m] = pc[m] \/ m = n
      <4>1. pc \in [Nodes -> {"start", "send", "poll", "receive", "sleep", "quit"}]
        BY DEF HomeInv, ViewP!NodeInv, ViewP!TypeOK
      <4> QED BY <1>2, <4>1 DEF NodeMain, Node!MainStep, Node!StartClient, Node!SendReading,
              Node!SendFails, Node!PollReturns, Node!ReceiveReply, Node!ReceiveFails,
              Node!WakeUp, Node!GoTo
    <3>2. ASSUME m = n, pc[m] \notin {"start", "send"} PROVE Node!WakeUp(n)
      <4>1. pc \in [Nodes -> {"start", "send", "poll", "receive", "sleep", "quit"}]
        BY DEF HomeInv, ViewP!NodeInv, ViewP!TypeOK
      <4> QED BY <1>2, <2>1, <3>2, <4>1 DEF NodeMain, Node!MainStep, Node!StartClient,
              Node!SendReading, Node!SendFails, Node!PollReturns, Node!ReceiveReply,
              Node!ReceiveFails, Node!GoTo
    <3> QED BY <1>2, <2>1, <3>1, <3>2 DEF Sends, NodeMain, Patient
  <2>2. ASSUME NEW r \in posts', r.node = m
        PROVE  Sends(m)
    <3>1. CASE r \in posts
      BY <2>2, <3>1 DEF Sends
    <3>2. CASE r \notin posts
      <4>1. pc[n] = "send" /\ r.node = n
        BY <1>2, <2>2, <3>2, SendEffect
      <4> QED BY <2>2, <4>1 DEF Sends
    <3> QED BY <3>1, <3>2
  <2> QED BY <1>2, <2>1, <2>2 DEF Sends
<1>3. ASSUME Arrives \/ Misbehaves \/ UNCHANGED vars, NEW m \in Nodes, Sends(m)'
      PROVE  Sends(m)
  <2>1. pc' = pc
    BY <1>3 DEF Arrives, Misbehaves, Node!DeliverReply, Node!LoseDatagram,
       Node!DuplicateDatagram, vars, nodeVars
  <2>2. ASSUME NEW r \in posts' PROVE \E q \in posts : q.node = r.node
    <3>1. CASE Misbehaves /\ Node!DuplicateDatagram
      <4>1. r \in posts \/ \E q \in posts : r = [q EXCEPT !.copy = faults'["duplicated"]]
        BY <2>2, <3>1 DEF Node!DuplicateDatagram
      <4>2. \A q \in posts : q \in Node!Request
        BY NodesKept DEF OnWay
      <4> QED BY <4>1, <4>2 DEF Node!Request
    <3>2. CASE ~(Misbehaves /\ Node!DuplicateDatagram)
      <4>1. posts' \subseteq posts
        BY <1>3, <3>2 DEF Arrives, Misbehaves, Node!DeliverReply, Node!LoseDatagram,
           vars, nodeVars
      <4> QED BY <4>1
    <3> QED BY <3>1, <3>2
  <2> QED BY <1>3, <2>1, <2>2 DEF Sends
<1>4. \A m \in Nodes : Sends(m)' => Sends(m) \/ ~InHub(m)
  BY <1>2, <1>3
<1>5. /\ \A i \in PathP!Items : Held(i)' => Held(i) /\ data'[i] = data[i]
      /\ \A i \in PathP!Items : ToHandle(i)' => ToHandle(i) /\ data'[i] = data[i]
      /\ \A i \in PathP!Items : flags'[i] # {} => flags[i] # {}
  BY <1>1 DEF Held, ToHandle
<1>6. \E d \in Nat : MsgqShifted(d)
  BY <1>1, SameMsgq DEF HomeInv
<1> QED BY <1>1, <1>4, <1>5, <1>6, RoomFrame

\* After a restart there is nothing in the hub.
LEMMA RoomEmpty ==
    PathP!PathInit /\ inHand = NoRequest => OneEach
<1> SUFFICES ASSUME PathP!PathInit, inHand = NoRequest PROVE OneEach
  OBVIOUS
<1>1. /\ coapPc = "idle" /\ flags = [i \in PathP!Items |-> {}]
      /\ msgq = <<>> /\ wqPc = "wait"
  BY DEF PathP!PathInit
<1>2. \A i \in PathP!Items : flags[i] = {} /\ ~Held(i) /\ ~ToHandle(i)
  BY <1>1 DEF Held, ToHandle
<1>3. 1..Len(msgq) = {}
  BY <1>1
<1>4. \A n \in Nodes : ~InHub(n)
  <2>1. Path!Items = PathP!Items
    BY DEF Path!Items, PathP!Items
  <2> QED BY <1>2, <1>3, <2>1 DEF InHub, Path!IsBusy
<1> QED BY <1>1, <1>2, <1>3, <1>4 DEF OneEach, NothingBehind, NewInside, BeforeQueue,
        ItemsApart, MessagesApart, AllNamed

LEMMA RoomEmptyNext == PathP!PathInit' /\ (inHand = NoRequest)' => OneEach'
  BY RoomEmpty, PTL

LEMMA RoomStep ==
    ASSUME HomeInv, [HomeNext]_vars, Patient', Patient => OneEach
    PROVE  OneEach'
<1>1. Patient /\ OneEach
  BY PatientBefore
<1>2. CASE HubRestart
  <2>1. Path!Items = PathP!Items
    BY DEF Path!Items, PathP!Items
  <2> QED BY <1>2, <2>1, RoomEmptyNext DEF HubRestart, PathP!PathInit
<1>3. CASE HubAnswers
  <2>1. /\ UNCHANGED <<flags, data, msgq, slot, wqPc, wqItem, pc, posts>>
        /\ coapPc' = "idle" /\ inHand' = NoRequest
    BY <1>3 DEF HubAnswers, Path!Respond, Path!poolVars, Path!wqVars, Path!outVars
  <2>2. /\ \A i \in PathP!Items : Held(i)' => Held(i) /\ data'[i] = data[i]
        /\ \A i \in PathP!Items : ToHandle(i)' => ToHandle(i) /\ data'[i] = data[i]
        /\ \A i \in PathP!Items : flags'[i] # {} => flags[i] # {}
    BY <2>1 DEF Held, ToHandle
  <2>3. \E d \in Nat : MsgqShifted(d)
    BY <2>1, SameMsgq DEF HomeInv
  <2>4. coapPc' \notin BeforeQueue /\ \A n \in Nodes : Sends(n)' => Sends(n)
    BY <2>1 DEF BeforeQueue, Sends
  <2> QED BY <1>1, <2>1, <2>2, <2>3, <2>4, RoomFrame
<1>4. CASE HubSubmits
  BY <1>1, <1>4, RoomSubmits, RoomScans
<1>5. CASE HubWorks \/ HubBoots \/ HubStores
  <2>1. CASE PathP!EnqueueReading /\ HubWorks
    BY <1>1, <2>1, RoomWorks
  <2>2. CASE ~PathP!EnqueueReading
    BY <1>1, <1>5, <2>2, RoomLeaves
  <2>3. CASE PathP!EnqueueReading /\ (HubBoots \/ HubStores)
    <3>1. wqPc' = wqPc
      BY <2>3 DEF HubBoots, Path!BootStep, Path!InitItem, Path!InitDone, HubStores,
         Path!GetReading, Path!wqVars
    <3> QED BY <2>3, <3>1 DEF PathP!EnqueueReading
  <2> QED BY <1>5, <2>1, <2>2, <2>3
<1>6. CASE Receives
  BY <1>1, <1>6, RoomReceives DEF Receives
<1>7. CASE (\E n \in Nodes : NodeMain(n)) \/ Arrives \/ Misbehaves \/ UNCHANGED vars
  BY <1>1, <1>7, RoomOutside
<1> QED BY <1>2, <1>3, <1>4, <1>5, <1>6, <1>7 DEF HomeNext, Hub

-----------------------------------------------------------------------------
(* Counting by nodes.                                                      *)

\* The pool, the queue and the table are large enough for all nodes.
RoomForAll ==
    /\ IsFiniteSet(Nodes)
    /\ Cardinality(Nodes) <= UI_WORK_POOL_SIZE
    /\ Cardinality(Nodes) <= TEMP_MSG_QUEUE_SIZE
    /\ Cardinality(Nodes) <= MAX_NODES

\* One node too many: things that belong to different nodes, none of them n,
\* are fewer than the nodes.
LEMMA FewerThanNodes ==
    ASSUME IsFiniteSet(Nodes), NEW n \in Nodes, NEW S, IsFiniteSet(S),
           NEW id, \A x \in S : \E m \in Nodes : id[x] = GetNodeId[m] /\ m # n,
           \A x, y \in S : id[x] = id[y] => x = y
    PROVE  Cardinality(S) < Cardinality(Nodes)
<1> DEFINE others == Nodes \ {n}
           f == [x \in S |-> CHOOSE m \in others : id[x] = GetNodeId[m]]
<1>1. ASSUME NEW x \in S PROVE f[x] \in others /\ id[x] = GetNodeId[f[x]]
  <2>1. \E m \in others : id[x] = GetNodeId[m]
    OBVIOUS
  <2> QED BY <2>1
<1>2. f \in [S -> others]
  BY <1>1
<1>3. IsFiniteSet(others) /\ Cardinality(others) = Cardinality(Nodes) - 1
  BY FS_RemoveElement
<1>4. Cardinality(Nodes) \in Nat /\ Cardinality(S) \in Nat
  BY FS_CardinalityType
<1> HIDE DEF f, others
<1>5. ~ (Cardinality(others) < Cardinality(S))
  <2> SUFFICES ASSUME Cardinality(others) < Cardinality(S) PROVE FALSE
    OBVIOUS
  <2>1. \E x, y \in S : x # y /\ f[x] = f[y]
    BY <1>2, <1>3, FS_PigeonHole
  <2>2. PICK x \in S, y \in S : x # y /\ f[x] = f[y]
    BY <2>1
  <2>3. id[x] = id[y]
    BY <1>1, <2>2
  <2> QED BY <2>2, <2>3
<1> QED BY <1>3, <1>4, <1>5

\* The scan of ui_update_submit finds an item.
LEMMA PoolHasRoom ==
    ASSUME RoomForAll, HomeInv, OneEach, HubSubmits
    PROVE  ~(coapPc = "scan" /\ ret' = "ENOMEM" /\ coapPc' = "respond")
<1> SUFFICES ASSUME coapPc = "scan", coapPc' = "respond" PROVE FALSE
  OBVIOUS
<1> DEFINE n == inHand.node
           id == [i \in PathP!Items |-> data[i].id]
<1>1. flags[slot] # {} /\ slot + 1 = UI_WORK_POOL_SIZE
  BY DEF HubSubmits, Path!SubmitStep, Path!RefuseNotReady, Path!StartScan,
     Path!SkipBusyItem, Path!PoolExhausted, Path!FindFreeItem, Path!CopyMsg,
     Path!SubmitToQueue, Path!Respond, Path!IsBusy
<1>2. UI_WORK_POOL_SIZE \in Nat /\ slot \in PathP!Items
  BY HomeComponents DEF Path!PathAssumption, HomeInv, PathP!PathInv, PathP!TypeOK
<1>3. ASSUME NEW i \in PathP!Items PROVE Held(i)
  <2>1. i = slot \/ i < slot
    BY <1>1, <1>2 DEF PathP!Items
  <2> QED BY <1>1, <2>1 DEF Held
<1>4. n \in Nodes /\ ~Inside(GetNodeId[n])
  BY DEF HomeInv, TypeOK, OneEach, NewInside, BeforeQueue
<1>5. \A i \in PathP!Items : \E m \in Nodes : id[i] = GetNodeId[m] /\ m # n
  <2> SUFFICES ASSUME NEW i \in PathP!Items
               PROVE  \E m \in Nodes : id[i] = GetNodeId[m] /\ m # n
    OBVIOUS
  <2>1. PICK m \in Nodes : data[i].id = GetNodeId[m]
    BY <1>3 DEF OneEach, AllNamed, IsNodeId
  <2>2. m # n
    BY <1>3, <1>4, <2>1 DEF Inside
  <2> QED BY <2>1, <2>2
<1>6. \A i, j \in PathP!Items : id[i] = id[j] => i = j
  BY <1>3 DEF OneEach, ItemsApart
<1>7. IsFiniteSet(PathP!Items) /\ Cardinality(PathP!Items) = UI_WORK_POOL_SIZE
  BY <1>1, <1>2, FS_Interval DEF PathP!Items
<1> HIDE DEF n, id
<1>8. Cardinality(PathP!Items) < Cardinality(Nodes)
  BY <1>4, <1>5, <1>6, <1>7, FewerThanNodes DEF RoomForAll
<1>9. Cardinality(Nodes) \in Nat
  BY FS_CardinalityType DEF RoomForAll
<1> QED BY <1>2, <1>7, <1>8, <1>9 DEF RoomForAll

\* The handler finds room in the message queue.
LEMMA QueueHasRoom ==
    ASSUME RoomForAll, HomeInv, OneEach, HubWorks
    PROVE  ~(wqPc = "call" /\ wqPc' = "done" /\ msgq' = msgq)
<1> SUFFICES ASSUME wqPc = "call", wqPc' = "done", msgq' = msgq PROVE FALSE
  OBVIOUS
<1> DEFINE S == 1..Len(msgq)
           id == [k \in S |-> msgq[k].id]
<1>1. /\ msgq \in Seq(PathP!Msgs) /\ Len(msgq) \in Nat
      /\ wqItem \in PathP!Items /\ "running" \in flags[wqItem]
      /\ data[wqItem] \in PathP!Msgs
  <2>1. wqItem \in PathP!Items
    BY DEF HomeInv, PathP!PathInv, PathP!TypeOK, PathP!PoolConsistent
  <2>2. "running" \in flags[wqItem]
    BY <2>1 DEF HomeInv, PathP!PathInv, PathP!PoolConsistent
  <2> QED BY <2>1, <2>2 DEF HomeInv, PathP!PathInv, PathP!TypeOK,
             PathP!WrittenBeforeRead, PathP!IsBusy
<1>2. Len(msgq) >= TEMP_MSG_QUEUE_SIZE
  <2>1. PathP!EnqueueReading \/ PathP!DropReading
    BY SameWork DEF HubWorks, PathP!TakeItem, PathP!FinishItem
  <2>2. ~PathP!EnqueueReading
    <3> SUFFICES ASSUME PathP!EnqueueReading PROVE FALSE
      OBVIOUS
    <3>1. msgq = Append(msgq, data[wqItem])
      BY DEF PathP!EnqueueReading
    <3>2. Len(Append(msgq, data[wqItem])) = Len(msgq) + 1
      BY ONLY <1>1, AppendProperties
    <3> QED BY <1>1, <3>1, <3>2
  <2> QED BY <2>1, <2>2 DEF PathP!DropReading
<1>3. Held(wqItem) /\ ToHandle(wqItem)
  BY <1>1 DEF Held, ToHandle
<1>4. PICK n \in Nodes : data[wqItem].id = GetNodeId[n]
  BY <1>1, <1>3 DEF OneEach, AllNamed, IsNodeId
<1>5. \A k \in S : \E m \in Nodes : id[k] = GetNodeId[m] /\ m # n
  BY <1>1, <1>3, <1>4 DEF OneEach, AllNamed, IsNodeId, MessagesApart
<1>6. \A j, k \in S : id[j] = id[k] => j = k
  BY DEF OneEach, MessagesApart
<1>7. IsFiniteSet(S) /\ Cardinality(S) = Len(msgq)
  <2>1. ASSUME NEW k \in Nat PROVE IsFiniteSet(1..k) /\ Cardinality(1..k) = k
    <3>1. (IF 1 > k THEN 0 ELSE k - 1 + 1) = k
      OBVIOUS
    <3> QED BY <3>1, FS_Interval, 1 \in Int, k \in Int
  <2> QED BY <1>1, <2>1
<1> HIDE DEF S, id
<1>8. Cardinality(S) < Cardinality(Nodes)
  BY <1>4, <1>5, <1>6, <1>7, FewerThanNodes DEF RoomForAll
<1>9. Cardinality(Nodes) \in Nat /\ TEMP_MSG_QUEUE_SIZE \in Nat
  BY FS_CardinalityType, HomeComponents DEF RoomForAll, Path!PathAssumption
<1> QED BY <1>1, <1>2, <1>7, <1>8, <1>9 DEF RoomForAll

\* get_or_create_node finds a slot.
LEMMA TableHasRoom ==
    ASSUME RoomForAll, HomeInv, OneEach, HubStores
    PROVE  node' # NoNode
<1> SUFFICES ASSUME node' = NoNode PROVE FALSE
  OBVIOUS
<1> DEFINE h == Head(msgq)
           S == TableP!Slots
           id == [s \in S |-> nodes[s].node_id]
<1>1. TableP!StoreReading(h) /\ MAX_NODES \in Nat /\ NoNode \notin S
  BY TakenIsMessage, HomeComponents DEF TableP!Slots
<1>2. TableP!Known(h.id) = {} /\ TableP!Free = {}
  BY <1>1 DEF TableP!StoreReading, TableP!UpdateKnown, TableP!RegisterNew,
     TableP!DropTableFull
<1>3. PICK n \in Nodes : h.id = GetNodeId[n]
  <2>1. msgq \in Seq(PathP!Msgs) /\ msgq # <<>>
    BY DEF HomeInv, PathP!PathInv, PathP!TypeOK, HubStores, Path!GetReading
  <2>2. 1 \in 1..Len(msgq) /\ msgq[1] = h
    BY <2>1
  <2> QED BY <2>2 DEF OneEach, AllNamed, IsNodeId
<1> HIDE DEF h
<1>4. \A s \in S : nodes[s].used
  BY <1>2 DEF TableP!Free
<1>5. \A s \in S : \E m \in Nodes : id[s] = GetNodeId[m] /\ m # n
  <2> SUFFICES ASSUME NEW s \in S PROVE \E m \in Nodes : id[s] = GetNodeId[m] /\ m # n
    OBVIOUS
  <2>1. PICK m \in Nodes : nodes[s].node_id = GetNodeId[m]
    BY <1>4, SlotsAreOwned, SameTable DEF OwnReadings
  <2>2. m # n
    BY <1>2, <1>3, <1>4, <2>1 DEF TableP!Known
  <2> QED BY <2>1, <2>2
<1>6. \A s, t \in S : id[s] = id[t] => s = t
  BY <1>4 DEF HomeInv, TableP!TableInv, TableP!SlotsWellFormed
<1>7. IsFiniteSet(S) /\ Cardinality(S) = MAX_NODES
  BY <1>1, HomeComponents, FS_Interval DEF TableP!Slots
<1> HIDE DEF S, id
<1>8. Cardinality(S) < Cardinality(Nodes)
  BY <1>3, <1>5, <1>6, <1>7, FewerThanNodes DEF RoomForAll
<1>9. Cardinality(Nodes) \in Nat
  BY FS_CardinalityType DEF RoomForAll
<1> QED BY <1>1, <1>7, <1>8, <1>9 DEF RoomForAll

LEMMA RoomInit == HomeInit => OneEach
  BY RoomEmpty, SamePath DEF HomeInit

\* With room for all nodes everywhere, a hub that is ready refuses and drops no
\* reading of nodes that sleep long enough, and never runs out of slots.
THEOREM HomeNothingRefused ==
    ASSUME RoomForAll
    PROVE  HomeSpec => NothingRefused
<1> DEFINE Kept == Faultless /\ ~hurried =>
             /\ ~(coapPc = "scan" /\ ret' = "ENOMEM" /\ coapPc' = "respond")
             /\ ~(wqPc = "call" /\ wqPc' = "done" /\ msgq' = msgq)
             /\ ~(node # NoNode /\ node' = NoNode /\ troubles' = troubles)
<1>1. HomeInit => RoomInv
  BY HomeInitInv, RoomInit DEF RoomInv
<1>2. RoomInv /\ [HomeNext]_vars => RoomInv'
  <2> SUFFICES ASSUME RoomInv, [HomeNext]_vars PROVE RoomInv'
    OBVIOUS
  <2>1. HomeInv'
    BY HomeStepInv DEF RoomInv
  <2>2. Patient' => OneEach'
    BY RoomStep DEF RoomInv
  <2> QED BY <2>1, <2>2 DEF RoomInv
<1>3. ASSUME RoomInv, HomeNext PROVE Kept
  <2> SUFFICES ASSUME Patient, OneEach
               PROVE  /\ ~(coapPc = "scan" /\ ret' = "ENOMEM" /\ coapPc' = "respond")
                      /\ ~(wqPc = "call" /\ wqPc' = "done" /\ msgq' = msgq)
                      /\ ~(node # NoNode /\ node' = NoNode /\ troubles' = troubles)
    BY <1>3 DEF RoomInv, Patient
  <2>1. HomeInv
    BY <1>3 DEF RoomInv
  <2>2. CASE HubSubmits
    <3>1. UNCHANGED <<wqPc, node>>
      BY <2>2 DEF HubSubmits, Path!SubmitStep, Path!RefuseNotReady, Path!StartScan,
         Path!SkipBusyItem, Path!PoolExhausted, Path!FindFreeItem, Path!CopyMsg,
         Path!SubmitToQueue, Path!Respond, Path!wqVars, tableVars
    <3> QED BY <2>1, <2>2, <3>1, PoolHasRoom
  <2>3. CASE HubWorks
    <3>1. UNCHANGED <<coapPc, node>>
      BY <2>3 DEF HubWorks, Path!WorkStep, Path!TakeItem, Path!EnqueueReading,
         Path!DropReading, Path!FinishItem, Path!coapVars, tableVars
    <3> QED BY <2>1, <2>3, <3>1, QueueHasRoom
  <2>4. CASE HubStores
    <3>1. UNCHANGED <<coapPc, wqPc>>
      BY <2>4 DEF HubStores, Path!GetReading, Path!coapVars, Path!wqVars
    <3> QED BY <2>1, <2>4, <3>1, TableHasRoom
  <2>5. CASE HubRestart
    <3>1. coapPc' = "idle" /\ wqPc' = "wait" /\ troubles' # troubles
      <4>1. troubles \in Int
        BY <2>1, HomeAssumption DEF HomeInv, TypeOK
      <4> QED BY <2>5, <4>1 DEF HubRestart, Trouble
    <3> QED BY <3>1
  <2>6. CASE Receives \/ HubAnswers
    <3>1. UNCHANGED <<wqPc, node>> /\ coapPc # "scan"
      BY <2>6 DEF Receives, HubReceives, Path!ReceivePostOf, HubAnswers, Path!Respond,
         Path!wqVars, tableVars
    <3> QED BY <3>1
  <2>7. CASE HubBoots \/ (\E n \in Nodes : NodeMain(n)) \/ Arrives \/ Misbehaves
    <3>1. UNCHANGED <<coapPc, wqPc, node>>
      BY <2>7 DEF HubBoots, Path!BootStep, Path!InitItem, Path!InitDone, Path!coapVars,
         Path!wqVars, NodeMain, Arrives, Misbehaves, pathVars, tableVars
    <3> QED BY <3>1
  <2> QED BY <1>3, <2>2, <2>3, <2>4, <2>5, <2>6, <2>7 DEF HomeNext, Hub
<1>4. RoomInv /\ [HomeNext]_vars => [Kept]_vars
  BY <1>3
<1> HIDE DEF Kept
<1>5. HomeSpec => [][Kept]_vars
  BY <1>1, <1>2, <1>4, PTL DEF HomeSpec
<1> QED BY <1>5 DEF NothingRefused, Kept
=============================================================================
