------------------------------ MODULE HomeHub ------------------------------
(***************************************************************************)
(* The whole system: temperature nodes, the network and the hub, composed  *)
(* from TempNode, UiWorkPath and NodeTable.  Where TempNode has the hub    *)
(* handle a request in one step, here the request goes through the CoAP    *)
(* thread, the pool, the work queue and the message queue to the table.    *)
(* main is reduced to its boot and its drain loop, and all readings have   *)
(* one time stamp (module Hub has the rest).  The hub may restart at any   *)
(* moment.                                                                 *)
(***************************************************************************)
EXTENDS Integers, Sequences, FiniteSets

CONSTANTS
    Nodes, MaxRequests, MaxFaults,                         \* of TempNode
    NODE_ID_LEN, OPTION_VALUE_LEN, SIZE_MOD, NoQuery, NoPayload,
    UI_WORK_POOL_SIZE, TEMP_MSG_QUEUE_SIZE, NoMsg, NoItem,
    MAX_NODES, HISTORY_SIZE, NoNode,                       \* of NodeTable
    MaxReports,    \* bound: MaxReports[n] reports of node n
    Sensors,       \* the nodes with a sensor
    Measurable,    \* temperatures it may measure
    Mac,           \* Mac[n]: the six bytes of the link address of node n
    MaxTroubles,   \* bound: datagrams that go wrong, nodes that quit and restarts
                   \* of the hub, all together
    NoRequest      \* the CoAP thread has no request in hand

VARIABLES
    pc, alive, latest, held, sent, posts, replies, inbox, faults,
                                                            \* of TempNode; posts are its requests
    poolReady, inited, coapPc, msg, slot, ret, response,
    flags, data, pending, wqPc, wqItem, msgq, got, now,     \* of UiWorkPath
    nodes, node,                                            \* of NodeTable
    inHand,      \* the request that temp_node_post is working on
    troubles,    \* how many of these there were
    answered,    \* history: the request of each node answered last
    journal,     \* history: the texts each node has sent, in the order of their ids
    hurried      \* history: a node woke up with a reading still in the hub

nodeVars  == <<pc, alive, latest, held, sent, posts, replies, inbox, faults>>
pathVars  == <<poolReady, inited, coapPc, msg, slot, ret, response, flags, data,
               pending, wqPc, wqItem, msgq, got, now>>
tableVars == <<nodes, node>>
seenVars  == <<answered, journal, hurried>>
vars == <<nodeVars, pathVars, tableVars, inHand, troubles, seenVars>>

\* The nodes, and the nodes as they see the hub: for them a request is on its
\* way until it is answered.
Node == INSTANCE TempNode WITH
            Samples <- Measurable, requests <- posts, shown <- answered
View == INSTANCE TempNode WITH
            Samples <- Measurable,
            requests <- posts \union (IF inHand = NoRequest THEN {} ELSE {inHand}),
            shown <- answered

-----------------------------------------------------------------------------
(* What a node puts into a request.  Characters are numbers: the           *)
(* hexadecimal digits by their value, and the three of "id=".              *)

Chars  == 0..18
Prefix == <<16, 17, 18>>

\* A slip: the first four bytes, which one vendor's devices share.
GetNodeIdFirst == [n \in Nodes |-> [k \in 1..8 |->
    LET byte == Mac[n][(k + 1) \div 2]
    IN  IF k % 2 = 1 THEN byte \div 16 ELSE byte % 16]]

\* get_node_id: "%02X%02X%02X%02X" of the last four of six bytes.
GetNodeId == [n \in Nodes |-> [k \in 1..8 |->
    LET byte == Mac[n][2 + (k + 1) \div 2]
    IN  IF k % 2 = 1 THEN byte \div 16 ELSE byte % 16]]

PostOf(r) == [query |-> Prefix \o GetNodeId[r.node], payload |-> r.text]

AtoF  == [t \in Node!Text |-> Node!ReadBack(t)]
Temps == {AtoF[t] : t \in Node!Text}

Path == INSTANCE UiWorkPath WITH
            MaxTime <- 0, Texts <- Node!Text,
            Requests <- {PostOf(r) : r \in [node : Nodes, text : Node!Text]}
Table == INSTANCE NodeTable WITH
            Ids <- Path!NodeIds, Times <- Path!Times, EmptyId <- <<>>, ZeroTemp <- 0

\* Devices are told apart by the last four bytes of their addresses.
ASSUME HomeAssumption ==
    /\ Mac \in [Nodes -> [1..6 -> 0..255]]
    /\ \A m, n \in Nodes : (\A k \in 3..6 : Mac[m][k] = Mac[n][k]) => m = n
    /\ Sensors \subseteq Nodes
    /\ MaxReports \in [Nodes -> 0..MaxRequests]
    /\ MaxTroubles \in Nat
    /\ NoRequest \notin Node!Request

\* The constants are as the components want them, and an option and a node_id
\* buffer have room for what get_node_id makes.
ASSUME HomeComponents ==
    /\ Node!NodeAssumption /\ Path!PostAssumption /\ Path!PathAssumption
    /\ MAX_NODES \in Nat \ {0} /\ HISTORY_SIZE \in Nat \ {0} /\ NoNode \notin Nat
    /\ OPTION_VALUE_LEN >= 11 /\ NODE_ID_LEN > 8
    /\ \A n \in Nodes : NoQuery # Prefix \o GetNodeId[n]
    /\ NoMsg \notin Path!Msgs

\* The steps of a sensor appear only within a print: what it measures in
\* between is never seen.
HomeInit ==
    /\ Node!Init /\ alive = [n \in Nodes |-> n \in Sensors]
    /\ Path!PathInit
    /\ Table!TableInit
    /\ inHand = NoRequest
    /\ troubles = 0
    /\ journal = [n \in Nodes |-> <<>>]
    /\ hurried = FALSE

\* The variables that are added here; those of TempNode, UiWorkPath and NodeTable
\* have their type invariants there.
TypeOK ==
    /\ inHand = NoRequest <=> coapPc = "idle"
    /\ inHand # NoRequest =>
         inHand.node \in Nodes /\ inHand.id \in 1..sent[inHand.node]
    /\ troubles \in 0..MaxTroubles
    /\ \A n \in Nodes : Len(journal[n]) <= sent[n]
    /\ hurried \in BOOLEAN

-----------------------------------------------------------------------------
(* The nodes.                                                              *)

Trouble(happens) == /\ troubles' = troubles + (IF happens THEN 1 ELSE 0)
                    /\ troubles' <= MaxTroubles

\* A reading of n is in the CoAP thread, the pool or the message queue.
InHub(n) ==
    \/ inHand # NoRequest /\ inHand.node = n
    \/ \E i \in Path!Items : Path!IsBusy(i) /\ data[i].id = GetNodeId[n]
    \/ \E k \in 1..Len(msgq) : msgq[k].id = GetNodeId[n]

NodeMain(n) ==
    /\ Node!MainStep(n)
    /\ sent'[n] <= MaxReports[n]
    /\ journal' = [journal EXCEPT ![n] = IF posts' = posts THEN @
                     ELSE Append(@, (CHOOSE r \in posts' \ posts : TRUE).text)]
    /\ hurried' = (hurried \/ (Node!WakeUp(n) /\ InHub(n)))
    /\ Trouble(faults' # faults \/ pc'[n] = "quit")
    /\ UNCHANGED <<pathVars, tableVars, inHand>>

-----------------------------------------------------------------------------
(* The hub.                                                                *)

HubUnchanged == UNCHANGED <<nodeVars, inHand, troubles, seenVars>>

HubReceives(r) ==
    /\ Path!ReceivePostOf(PostOf(r))
    /\ posts' = posts \ {r}
    /\ inHand' = r
    /\ UNCHANGED <<pc, alive, latest, held, sent, replies, inbox, faults, tableVars,
                   troubles, seenVars>>

HubSubmits == Path!SubmitStep /\ coapPc # "respond" /\ UNCHANGED tableVars /\ HubUnchanged

\* A slip: a reading that was refused is not answered.
HubAnswersAccepted ==
    /\ Path!Respond
    /\ Node!Show(inHand)
    /\ replies' = IF ret # "OK" THEN replies
          ELSE replies \union {[node |-> inHand.node, id |-> inHand.id, copy |-> inHand.copy]}
    /\ inHand' = NoRequest
    /\ UNCHANGED <<pc, alive, latest, held, sent, posts, inbox, faults, tableVars,
                   troubles, journal, hurried>>

HubAnswers ==
    /\ Path!Respond
    /\ Node!Show(inHand)
    /\ replies' = replies \union
          {[node |-> inHand.node, id |-> inHand.id, copy |-> inHand.copy]}
    /\ inHand' = NoRequest
    /\ UNCHANGED <<pc, alive, latest, held, sent, posts, inbox, faults, tableVars,
                   troubles, journal, hurried>>

HubWorks == Path!WorkStep /\ UNCHANGED tableVars /\ HubUnchanged
HubBoots == Path!BootStep /\ UNCHANGED tableVars /\ HubUnchanged

\* main takes one message and stores it.
HubStores ==
    /\ Path!GetReading
    /\ Table!StoreReading(Head(msgq))
    /\ HubUnchanged

\* Power or the watchdog: nothing is persistent, and who sent the request in
\* hand gets no answer.
HubRestart ==
    /\ Trouble(TRUE)
    /\ IF inHand = NoRequest THEN UNCHANGED faults ELSE Node!Fault("lost")
    /\ inHand' = NoRequest
    /\ poolReady' = FALSE /\ inited' = 0
    /\ coapPc' = "idle" /\ msg' = NoMsg /\ slot' = 0 /\ ret' = "none" /\ response' = "none"
    /\ flags' = [i \in Path!Items |-> {}] /\ data' = [i \in Path!Items |-> NoMsg]
    /\ pending' = <<>> /\ wqPc' = "wait" /\ wqItem' = NoItem
    /\ msgq' = <<>> /\ got' = NoMsg /\ now' = 0
    /\ nodes' = Table!ZeroedTable /\ node' = NoNode
    /\ UNCHANGED <<pc, alive, latest, held, sent, posts, replies, inbox, seenVars>>

Receives == \E r \in posts : HubReceives(r)
Hub == Receives \/ HubSubmits \/ HubAnswers \/ HubWorks \/ HubBoots \/ HubStores

-----------------------------------------------------------------------------
(* The network.                                                            *)

Arrives ==
    /\ \E r \in replies : Node!DeliverReply(r)
    /\ UNCHANGED <<pathVars, tableVars, inHand, troubles, journal, hurried>>

Misbehaves ==
    /\ Node!LoseDatagram \/ Node!DuplicateDatagram
    /\ Trouble(TRUE)
    /\ UNCHANGED <<pathVars, tableVars, inHand, journal, hurried>>

HomeNext == \/ \E n \in Nodes : NodeMain(n)
            \/ Hub \/ HubRestart \/ Arrives \/ Misbehaves

HomeSpec == HomeInit /\ [][HomeNext]_vars

\* The threads of the hub run.  Nothing is promised of nodes and network.
HomeFairSpec == /\ HomeSpec
                /\ WF_vars(HubBoots) /\ WF_vars(HubSubmits \/ HubAnswers)
                /\ WF_vars(HubWorks) /\ WF_vars(HubStores)

-----------------------------------------------------------------------------
(* Safety.                                                                 *)

Faultless == faults["duplicated"] = 0 /\ faults["pollError"] = 0

\* The slots of a table hold what was measured by the node they are named
\* after: whatever is lost or restarted, every entry of a node's history is a
\* text that this node sent.
OwnReadings ==
    \A s \in Table!Slots : nodes[s].used =>
        \E n \in Nodes :
            /\ nodes[s].node_id = GetNodeId[n]
            /\ \A k \in 1..nodes[s].history_count :
                 \E j \in 1..Len(journal[n]) :
                    Table!Chronicle(nodes[s])[k].temp = AtoF[journal[n][j]]

\* If no datagram is duplicated and poll never fails, a history shows a node's
\* readings in the order in which they were sent, each at most once.
EndToEndOrder ==
    Faultless => \A n \in Nodes : \A s \in Table!Known(GetNodeId[n]) :
        LET c == Table!Chronicle(nodes[s])
        IN  \E f \in [1..Len(c) -> 1..Len(journal[n])] :
                /\ \A j, k \in 1..Len(c) : j < k => f[j] < f[k]
                /\ \A k \in 1..Len(c) : c[k].temp = AtoF[journal[n][f[k]]]

\* Pool, queue and table are large enough for the nodes they are made for
\* ("up to 6 simultaneous nodes", README.md:120): as long as every node sleeps
\* until its reading is in the table, a hub that is ready refuses none.
NothingRefused ==
    [][Faultless /\ ~hurried =>
         /\ ~(coapPc = "scan" /\ ret' = "ENOMEM" /\ coapPc' = "respond")
         /\ ~(wqPc = "call" /\ wqPc' = "done" /\ msgq' = msgq)
         /\ ~(node # NoNode /\ node' = NoNode /\ troubles' = troubles)]_vars

\* To the nodes the hub is what TempNode says it is: whatever becomes of a
\* reading, its request is answered once, and a restart looks like a loss.
NodeViewRefined == View!Spec

-----------------------------------------------------------------------------
(* Liveness.                                                               *)

\* "Node automatically appears in hub UI" (README.md:151): a request that finds
\* the hub ready, and after which no more goes wrong, gets its node registered,
\* unless a node did not sleep long enough.
Registered(n) == Table!Known(GetNodeId[n]) # {}
NodeAppears ==
    \A n \in Nodes :
        coapPc = "submit" /\ poolReady /\ inHand.node = n /\ troubles = MaxTroubles
            ~> Registered(n) \/ hurried
=============================================================================
