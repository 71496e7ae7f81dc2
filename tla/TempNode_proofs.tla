-------------------------- MODULE TempNode_proofs --------------------------
(***************************************************************************)
(* Proofs about TempNode, for any number of nodes, any integers as samples *)
(* and any fault budget.                                                   *)
(*                                                                         *)
(* NodeInv is inductive.  TypeOK alone is not: that "held" stays a natural *)
(* number when ReceiveReply frees a buffer needs BuffersReturned.          *)
(* StopAndWait needs that a node which is about to read its socket finds   *)
(* something in it (ReplyWaits), and TornReadingIsNear and                 *)
(* ReadingSurvivesText need that every text on its way was printed from    *)
(* the samples its request is labelled with (TextsPrinted).                *)
(***************************************************************************)
EXTENDS TempNode, SensorPayload_proofs, FiniteSetTheorems, SequenceTheorems

Unduplicated == faults["duplicated"] = 0 /\ faults["pollError"] = 0

\* Between poll and recv of a faultless exchange the reply is in the socket, and
\* the hub has shown nothing that is newer than the last request.
ReplyWaits ==
    Unduplicated =>
        \A n \in Nodes : /\ pc[n] = "receive" => inbox[n] # <<>>
                         /\ shown[n].id <= sent[n]

FinitelyMany == IsFiniteSet(requests) /\ IsFiniteSet(replies)

\* Every text and every temperature shown comes from the samples it is
\* labelled with.
TextsPrinted ==
    /\ \A r \in requests : \E v, w \in Measured :
          r.from = {v, w} /\ r.text \in PrintedTexts(v, w)
    /\ \A n \in Nodes : \E v, w \in Measured : \E text \in PrintedTexts(v, w) :
          shown[n].from = {v, w} /\ shown[n].temp = ReadBack(text)

NodeInv == /\ TypeOK
           /\ BuffersReturned
           /\ FinitelyMany
           /\ AnswerOnItsWay
           /\ StopAndWait
           /\ ReplyWaits
           /\ TextsPrinted

-----------------------------------------------------------------------------
(* Types and buffers.                                                      *)

LEMMA MeasuredInt == Measured \subseteq Int /\ 0 \in Measured
  BY NodeAssumption DEF Measured

LEMMA TextIsPrinted == Text \subseteq PrintedText
<1> SUFFICES ASSUME NEW text \in Text PROVE text \in PrintedText
  OBVIOUS
<1>1. PICK v \in Measured, w \in Measured : text \in PrintedTexts(v, w)
  BY DEF Text
<1> QED BY <1>1, MeasuredInt, PrintedTextType

LEMMA NodeInitType == Init => TypeOK /\ BuffersReturned /\ FinitelyMany
<1> SUFFICES ASSUME Init PROVE TypeOK /\ BuffersReturned /\ FinitelyMany
  OBVIOUS
<1>1. MaxRequests \in Nat /\ MaxFaults \in [Faults -> Nat]
  BY NodeAssumption
<1>2. TypeOK
  BY <1>1, MeasuredInt DEF Init, TypeOK, Nothing
<1>3. FinitelyMany
  BY FS_EmptySet DEF Init, FinitelyMany
<1> QED BY <1>2, <1>3 DEF Init, BuffersReturned

\* What SendReading adds is a request with the next message id, and its text
\* is printed from the samples it is labelled with.
LEMMA SentRequest ==
    ASSUME TypeOK, NEW n \in Nodes, SendReading(n)
    PROVE  \/ /\ faults' = faults
              /\ \E v, w \in Measured : \E text \in PrintedTexts(v, w) :
                   LET r == [node |-> n, id |-> sent[n] + 1, text |-> text,
                             from |-> {v, w}, copy |-> 0]
                   IN  /\ r \in Request
                       /\ requests' = requests \union {r}
                       /\ latest' \in [Nodes -> Measured]
           \/ /\ Fault("lost")
              /\ requests' = requests /\ latest' = latest
<1>1. CASE PrintAndSend(n, sent[n] + 1) /\ UNCHANGED faults
  <2>1. PICK next \in IF alive[n] THEN Samples \union {latest[n]} ELSE {latest[n]} :
          /\ latest' = [latest EXCEPT ![n] = next]
          /\ \E text \in PrintedTexts(latest[n], next) :
               requests' = requests \union
                 {[node |-> n, id |-> sent[n] + 1, text |-> text,
                   from |-> {latest[n], next}, copy |-> 0]}
    BY <1>1 DEF PrintAndSend
  <2>2. PICK text \in PrintedTexts(latest[n], next) :
          requests' = requests \union
            {[node |-> n, id |-> sent[n] + 1, text |-> text,
              from |-> {latest[n], next}, copy |-> 0]}
    BY <2>1
  <2>3. latest[n] \in Measured /\ next \in Measured
    BY DEF TypeOK, Measured
  <2>4. latest' \in [Nodes -> Measured]
    BY <2>1, <2>3 DEF TypeOK
  <2>5. sent[n] + 1 \in Ids
    BY NodeAssumption DEF SendReading, TypeOK, Ids
  <2>6. 0 \in Copy
    BY NodeAssumption DEF Copy, Faults
  <2>7. text \in Text
    BY <2>3 DEF Text
  <2>8. [node |-> n, id |-> sent[n] + 1, text |-> text, from |-> {latest[n], next},
         copy |-> 0] \in Request
    BY <2>3, <2>5, <2>6, <2>7 DEF Request
  <2> QED BY <1>1, <2>2, <2>3, <2>4, <2>8
<1>2. CASE Fault("lost") /\ UNCHANGED <<requests, latest>>
  BY <1>2
<1> QED BY <1>1, <1>2 DEF SendReading

LEMMA NodeStepType ==
    TypeOK /\ BuffersReturned /\ FinitelyMany /\ [Next]_vars
        => TypeOK' /\ BuffersReturned' /\ FinitelyMany'
<1> SUFFICES ASSUME TypeOK, BuffersReturned, FinitelyMany, [Next]_vars
             PROVE  TypeOK' /\ BuffersReturned' /\ FinitelyMany'
  OBVIOUS
<1>1. ASSUME NEW f \in Faults, Fault(f)
      PROVE  /\ faults' \in [Faults -> Nat]
             /\ \A g \in Faults : faults'[g] <= MaxFaults[g]
             /\ faults'[f] \in 0..MaxFaults[f]
  <2>1. faults[f] \in Nat /\ MaxFaults[f] \in Nat /\ faults[f] < MaxFaults[f]
    BY <1>1, NodeAssumption DEF TypeOK, Fault
  <2>2. \A g \in Faults : faults'[g] = IF g = f THEN faults[f] + 1 ELSE faults[g]
    BY <1>1 DEF TypeOK, Fault
  <2>3. faults' \in [Faults -> Nat]
    BY <1>1, <2>1 DEF TypeOK, Fault
  <2>4. ASSUME NEW g \in Faults PROVE faults'[g] <= MaxFaults[g]
    <3>1. faults[g] <= MaxFaults[g]
      BY DEF TypeOK
    <3>2. CASE g = f
      BY <2>1, <2>2, <3>2
    <3>3. CASE g # f
      BY <2>2, <3>1, <3>3
    <3> QED BY <3>2, <3>3
  <2>5. faults'[f] \in 0..MaxFaults[f]
    BY <2>1, <2>2
  <2> QED BY <2>3, <2>4, <2>5
<1>2. "lost" \in Faults /\ "duplicated" \in Faults /\ "pollError" \in Faults
  BY DEF Faults
<1>3. ASSUME NEW n \in Nodes, StartClient(n) \/ WakeUp(n)
      PROVE  TypeOK' /\ BuffersReturned' /\ FinitelyMany'
  BY <1>3 DEF TypeOK, BuffersReturned, FinitelyMany, StartClient, WakeUp, GoTo, threadVars
<1>4. ASSUME NEW n \in Nodes, SendReading(n)
      PROVE  TypeOK' /\ BuffersReturned' /\ FinitelyMany'
  <2>1. /\ pc[n] = "send" /\ sent[n] < MaxRequests
        /\ sent' = [sent EXCEPT ![n] = sent[n] + 1]
        /\ held' = [held EXCEPT ![n] = held[n] + 1]
        /\ pc' = [pc EXCEPT ![n] = "poll"]
        /\ UNCHANGED <<alive, replies, inbox, shown>>
    BY <1>4 DEF SendReading, Hold, GoTo
  <2>2. sent' \in [Nodes -> 0..MaxRequests]
    BY <2>1, NodeAssumption DEF TypeOK
  <2>3. held' \in [Nodes -> Nat] /\ BuffersReturned'
    BY <2>1 DEF TypeOK, BuffersReturned
  <2>4. /\ requests' \subseteq Request
        /\ latest' \in [Nodes -> Measured]
    BY <1>4, SentRequest DEF TypeOK
  <2>5. IsFiniteSet(requests')
    BY <1>4, SentRequest, FS_AddElement DEF FinitelyMany
  <2>6. faults' \in [Faults -> Nat] /\ \A f \in Faults : faults'[f] <= MaxFaults[f]
    BY <1>1, <1>2, <1>4, SentRequest DEF TypeOK
  <2>7. pc' \in [Nodes -> {"start", "send", "poll", "receive", "sleep", "quit"}]
    BY <2>1 DEF TypeOK
  <2> QED BY <2>1, <2>2, <2>3, <2>4, <2>5, <2>6, <2>7 DEF TypeOK, FinitelyMany
<1>5. ASSUME NEW n \in Nodes, SendFails(n) \/ ReceiveFails(n)
      PROVE  TypeOK' /\ BuffersReturned' /\ FinitelyMany'
  <2>1. /\ pc' = [pc EXCEPT ![n] = "quit"]
        /\ UNCHANGED <<alive, latest, sent, requests, replies, inbox, faults, shown>>
    BY <1>5 DEF SendFails, ReceiveFails, GoTo, threadVars
  <2>2. held' \in [Nodes -> Nat] /\ \A m \in Nodes : m # n => held'[m] = held[m]
    BY <1>5 DEF SendFails, ReceiveFails, Hold, TypeOK
  <2>3. BuffersReturned'
    BY <2>1, <2>2 DEF BuffersReturned, TypeOK
  <2>4. pc' \in [Nodes -> {"start", "send", "poll", "receive", "sleep", "quit"}]
    BY <2>1 DEF TypeOK
  <2> QED BY <2>1, <2>2, <2>3, <2>4 DEF TypeOK, FinitelyMany
<1>6. ASSUME NEW n \in Nodes, PollReturns(n)
      PROVE  TypeOK' /\ BuffersReturned' /\ FinitelyMany'
  <2>1. faults' \in [Faults -> Nat] /\ \A f \in Faults : faults'[f] <= MaxFaults[f]
    BY <1>1, <1>2, <1>6 DEF PollReturns, TypeOK
  <2> QED BY <1>6, <2>1 DEF TypeOK, BuffersReturned, FinitelyMany, PollReturns, GoTo,
       threadVars
<1>7. ASSUME NEW n \in Nodes, ReceiveReply(n)
      PROVE  TypeOK' /\ BuffersReturned' /\ FinitelyMany'
  <2>1. pc[n] = "receive" /\ held[n] = 1
    BY <1>7 DEF ReceiveReply, BuffersReturned
  <2>2. /\ held' = [held EXCEPT ![n] = 0]
        /\ pc' = [pc EXCEPT ![n] = "sleep"]
        /\ UNCHANGED <<alive, latest, sent, requests, replies, faults, shown>>
    BY <1>7, <2>1 DEF ReceiveReply, Hold, GoTo, threadVars
  <2>3. inbox' \in [Nodes -> Seq(Ids)]
    BY <1>7 DEF ReceiveReply, TypeOK
  <2> QED BY <2>1, <2>2, <2>3 DEF TypeOK, BuffersReturned, FinitelyMany
<1>8. ASSUME NEW n \in Nodes, ReadSensor(n) \/ SensorFails(n)
      PROVE  TypeOK' /\ BuffersReturned' /\ FinitelyMany'
  <2>1. latest' \in [Nodes -> Measured] /\ alive' \in [Nodes -> BOOLEAN]
    BY <1>8 DEF TypeOK, ReadSensor, SensorFails, Measured
  <2>2. UNCHANGED <<pc, held, sent, requests, replies, inbox, faults, shown>>
    BY <1>8 DEF ReadSensor, SensorFails
  <2> QED BY <2>1, <2>2 DEF TypeOK, BuffersReturned, FinitelyMany
<1>9. ASSUME NEW r \in requests, HubHandles(r)
      PROVE  TypeOK' /\ BuffersReturned' /\ FinitelyMany'
  <2>1. /\ r.node \in Nodes /\ r.id \in Ids /\ r.text \in PrintedText
        /\ r.from \in SUBSET Measured /\ r.copy \in Copy
    BY TextIsPrinted DEF TypeOK, Request
  <2>2. ReadBack(r.text) \in Int
    BY <2>1, ReadBackParts
  <2>3. shown' \in [Nodes -> [id : 0..MaxRequests, from : SUBSET Measured, temp : Int]]
    BY <1>9, <2>1, <2>2 DEF HubHandles, Show, TypeOK, Ids
  <2>4. replies' \subseteq Reply /\ requests' \subseteq Request
    BY <1>9, <2>1 DEF HubHandles, TypeOK, Reply
  <2>5. FinitelyMany'
    BY <1>9, FS_AddElement, FS_RemoveElement DEF HubHandles, FinitelyMany
  <2> QED BY <1>9, <2>3, <2>4, <2>5 DEF HubHandles, TypeOK, BuffersReturned, threadVars
<1>10. ASSUME NEW r \in replies, DeliverReply(r)
       PROVE  TypeOK' /\ BuffersReturned' /\ FinitelyMany'
  <2>1. r.node \in Nodes /\ r.id \in Ids
    BY DEF TypeOK, Reply
  <2>2. inbox' \in [Nodes -> Seq(Ids)]
    BY <1>10, <2>1 DEF DeliverReply, TypeOK
  <2>3. FinitelyMany'
    BY <1>10, FS_RemoveElement DEF DeliverReply, FinitelyMany
  <2> QED BY <1>10, <2>2, <2>3 DEF DeliverReply, TypeOK, BuffersReturned, threadVars
<1>11. CASE LoseDatagram
  <2>1. requests' \subseteq requests /\ replies' \subseteq replies
    BY <1>11 DEF LoseDatagram
  <2>2. FinitelyMany'
    BY <2>1, FS_Subset DEF FinitelyMany
  <2> QED BY <1>1, <1>2, <1>11, <2>1, <2>2 DEF LoseDatagram, TypeOK, BuffersReturned,
       threadVars
<1>12. CASE DuplicateDatagram
  <2>1. faults'["duplicated"] \in Copy
    BY <1>1, <1>2, <1>12 DEF DuplicateDatagram, Copy
  <2>2. requests' \subseteq Request /\ replies' \subseteq Reply
    BY <1>12, <2>1 DEF DuplicateDatagram, TypeOK, Request, Reply
  <2>3. FinitelyMany'
    BY <1>12, FS_AddElement DEF DuplicateDatagram, FinitelyMany
  <2> QED BY <1>1, <1>2, <1>12, <2>2, <2>3 DEF DuplicateDatagram, TypeOK, BuffersReturned,
       threadVars
<1>13. CASE UNCHANGED vars
  BY <1>13 DEF vars, threadVars, TypeOK, BuffersReturned, FinitelyMany
<1> QED BY <1>3, <1>4, <1>5, <1>6, <1>7, <1>8, <1>9, <1>10, <1>11, <1>12, <1>13
     DEF Next, MainStep, Exchange

-----------------------------------------------------------------------------
(* Waiting for the answer.                                                 *)

\* Faults are counted and never forgotten.
LEMMA FaultsGrow ==
    ASSUME TypeOK, [Next]_vars, NEW g \in Faults
    PROVE  faults'[g] \in Nat /\ faults'[g] >= faults[g]
<1>1. faults[g] \in Nat
  BY DEF TypeOK
<1>2. ASSUME NEW f \in Faults, Fault(f)
      PROVE  faults'[g] = faults[g] \/ faults'[g] = faults[g] + 1
  BY <1>2 DEF TypeOK, Fault
<1>3. faults' = faults \/ \E f \in Faults : Fault(f)
  BY DEF Next, MainStep, Exchange, StartClient, SendReading, SendFails, PollReturns,
     ReceiveReply, ReceiveFails, WakeUp, ReadSensor, SensorFails, HubHandles,
     DeliverReply, LoseDatagram, DuplicateDatagram, Faults, vars
<1> QED BY <1>1, <1>2, <1>3

LEMMA AnswerInit == Init => AnswerOnItsWay
  BY DEF Init, AnswerOnItsWay

LEMMA AnswerStep == TypeOK /\ AnswerOnItsWay /\ [Next]_vars => AnswerOnItsWay'
<1> DEFINE Coming(m) == RequestsOf(m) # {} \/ RepliesOf(m) # {} \/ inbox[m] # <<>>
<1> SUFFICES ASSUME TypeOK, AnswerOnItsWay, [Next]_vars, faults'["lost"] = 0,
                    NEW m \in Nodes, pc'[m] = "poll"
             PROVE  Coming(m)'
  BY DEF AnswerOnItsWay
<1>1. faults["lost"] = 0
  BY FaultsGrow DEF TypeOK, Faults
<1>2. ~Fault("lost")
  BY <1>1 DEF TypeOK, Fault, Faults
<1>3. pc[m] = "poll" => Coming(m)
  BY <1>1 DEF AnswerOnItsWay
<1>4. ASSUME NEW n \in Nodes, SendReading(n)
      PROVE  Coming(m)'
  <2>1. PICK r : r.node = n /\ requests' = requests \union {r}
    BY <1>2, <1>4, SentRequest
  <2>2. pc' = [pc EXCEPT ![n] = "poll"] /\ replies' = replies /\ inbox' = inbox
    BY <1>4 DEF SendReading, GoTo
  <2> QED BY <1>3, <2>1, <2>2 DEF RequestsOf, RepliesOf, TypeOK
<1>5. ASSUME NEW n \in Nodes,
             \/ StartClient(n) \/ SendFails(n) \/ PollReturns(n)
             \/ ReceiveFails(n) \/ WakeUp(n) \/ ReadSensor(n) \/ SensorFails(n)
      PROVE  Coming(m)'
  <2>1. UNCHANGED <<requests, replies, inbox>>
    BY <1>5 DEF StartClient, SendFails, PollReturns, ReceiveFails, WakeUp, ReadSensor,
       SensorFails, threadVars
  <2>2. pc' = pc \/ \E where \in {"send", "quit", "receive"} : GoTo(n, where)
    BY <1>5 DEF StartClient, SendFails, PollReturns, ReceiveFails, WakeUp, ReadSensor,
       SensorFails
  <2>3. pc[m] = "poll"
    BY <2>2 DEF GoTo, TypeOK
  <2> QED BY <1>3, <2>1, <2>3 DEF RequestsOf, RepliesOf
<1>6. ASSUME NEW n \in Nodes, ReceiveReply(n)
      PROVE  Coming(m)'
  <2>1. m # n /\ pc[m] = "poll" /\ inbox'[m] = inbox[m]
    BY <1>6 DEF ReceiveReply, GoTo, TypeOK
  <2> QED BY <1>3, <1>6, <2>1 DEF ReceiveReply, RequestsOf, RepliesOf
<1>7. ASSUME NEW r \in requests, HubHandles(r)
      PROVE  Coming(m)'
  <2>1. pc[m] = "poll" /\ inbox' = inbox
    BY <1>7 DEF HubHandles
  <2>2. CASE r.node = m
    <3> DEFINE reply == [node |-> r.node, id |-> r.id, copy |-> r.copy]
    <3>1. reply \in replies' /\ reply.node = m
      BY <1>7, <2>2 DEF HubHandles
    <3> QED BY <3>1 DEF RepliesOf
  <2>3. CASE r.node # m
    BY <1>3, <1>7, <2>1, <2>3 DEF HubHandles, RequestsOf, RepliesOf
  <2> QED BY <2>2, <2>3
<1>8. ASSUME NEW r \in replies, DeliverReply(r)
      PROVE  Coming(m)'
  <2>1. pc[m] = "poll" /\ requests' = requests /\ replies' = replies \ {r}
    BY <1>8 DEF DeliverReply
  <2>2. inbox[m] \in Seq(Ids) /\ r.id \in Ids
    BY DEF TypeOK, Reply
  <2>3. CASE r.node = m
    <3>1. inbox'[m] = Append(inbox[m], r.id)
      BY <1>8, <2>3 DEF DeliverReply, TypeOK
    <3> QED BY <2>2, <3>1
  <2>4. CASE r.node # m
    <3>1. inbox'[m] = inbox[m]
      BY <1>8, <2>4 DEF DeliverReply, TypeOK
    <3> QED BY <1>3, <2>1, <2>4, <3>1 DEF RequestsOf, RepliesOf
  <2> QED BY <2>3, <2>4
<1>9. CASE DuplicateDatagram
  <2>1. /\ requests \subseteq requests' /\ replies \subseteq replies'
        /\ pc' = pc /\ inbox' = inbox
    BY <1>9 DEF DuplicateDatagram
  <2> QED BY <1>3, <2>1 DEF RequestsOf, RepliesOf
<1>10. CASE UNCHANGED vars
  BY <1>3, <1>10 DEF vars, RequestsOf, RepliesOf
<1> QED BY <1>2, <1>4, <1>5, <1>6, <1>7, <1>8, <1>9, <1>10
     DEF Next, MainStep, Exchange, LoseDatagram

-----------------------------------------------------------------------------
(* Stop and wait.                                                          *)

\* How many datagrams of the exchange with node m are on their way.
Open(m) == Cardinality(RequestsOf(m)) + Cardinality(RepliesOf(m)) + Len(inbox[m])

LEMMA OpenCounts ==
    ASSUME TypeOK, FinitelyMany, NEW m \in Nodes
    PROVE  /\ IsFiniteSet(RequestsOf(m)) /\ Cardinality(RequestsOf(m)) \in Nat
           /\ IsFiniteSet(RepliesOf(m)) /\ Cardinality(RepliesOf(m)) \in Nat
           /\ inbox[m] \in Seq(Ids) /\ Len(inbox[m]) \in Nat
<1>1. RequestsOf(m) \in SUBSET requests /\ RepliesOf(m) \in SUBSET replies
  BY DEF RequestsOf, RepliesOf
<1>2. IsFiniteSet(RequestsOf(m)) /\ IsFiniteSet(RepliesOf(m))
  BY <1>1, FS_Subset DEF FinitelyMany
<1>3. Cardinality(RequestsOf(m)) \in Nat /\ Cardinality(RepliesOf(m)) \in Nat
  BY <1>2, FS_CardinalityType
<1> QED BY <1>2, <1>3 DEF TypeOK

\* When one datagram is all there is, finding it in one place rules out the
\* other two.
LEMMA OnlyOne ==
    ASSUME TypeOK, FinitelyMany, NEW m \in Nodes, Open(m) <= 1
    PROVE  /\ RequestsOf(m) # {} => /\ Cardinality(RequestsOf(m)) = 1
                                    /\ RepliesOf(m) = {} /\ inbox[m] = <<>>
           /\ RepliesOf(m) # {} => /\ Cardinality(RepliesOf(m)) = 1
                                   /\ RequestsOf(m) = {} /\ inbox[m] = <<>>
           /\ inbox[m] # <<>> => /\ Len(inbox[m]) = 1
                                 /\ RequestsOf(m) = {} /\ RepliesOf(m) = {}
<1>1. /\ IsFiniteSet(RequestsOf(m)) /\ Cardinality(RequestsOf(m)) \in Nat
      /\ IsFiniteSet(RepliesOf(m)) /\ Cardinality(RepliesOf(m)) \in Nat
      /\ inbox[m] \in Seq(Ids) /\ Len(inbox[m]) \in Nat
  BY OpenCounts
<1>2. /\ Cardinality(RequestsOf(m)) = 0 <=> RequestsOf(m) = {}
      /\ Cardinality(RepliesOf(m)) = 0 <=> RepliesOf(m) = {}
      /\ Len(inbox[m]) = 0 <=> inbox[m] = <<>>
  BY <1>1, FS_EmptySet
<1> DEFINE a == Cardinality(RequestsOf(m))
           b == Cardinality(RepliesOf(m))
           c == Len(inbox[m])
<1>3. a \in Nat /\ b \in Nat /\ c \in Nat /\ a + b + c <= 1
  BY <1>1 DEF Open
<1> HIDE DEF a, b, c
<1>4. /\ a # 0 => a = 1 /\ b = 0 /\ c = 0
      /\ b # 0 => b = 1 /\ a = 0 /\ c = 0
      /\ c # 0 => c = 1 /\ a = 0 /\ b = 0
  BY <1>3
<1> QED BY <1>2, <1>4 DEF a, b, c

\* What StopAndWait and ReplyWaits say of one node.
Waits(m) ==
    /\ Open(m) <= 1
    /\ \A r \in RequestsOf(m) \union RepliesOf(m) : r.id = sent[m]
    /\ \A k \in 1..Len(inbox[m]) : inbox[m][k] = sent[m]
    /\ pc[m] \in {"start", "send", "sleep"} =>
         RequestsOf(m) = {} /\ RepliesOf(m) = {} /\ inbox[m] = <<>>
    /\ pc[m] = "receive" => inbox[m] # <<>>
    /\ shown[m].id <= sent[m]

LEMMA WaitsIsBoth ==
    StopAndWait /\ ReplyWaits <=> (Unduplicated => \A m \in Nodes : Waits(m))
  BY DEF StopAndWait, ReplyWaits, Waits, Open, Unduplicated

LEMMA WaitsInit == Init => StopAndWait /\ ReplyWaits
<1> SUFFICES ASSUME Init, NEW m \in Nodes PROVE Waits(m)
  BY WaitsIsBoth
<1>1. /\ RequestsOf(m) = {} /\ RepliesOf(m) = {} /\ inbox[m] = <<>>
      /\ pc[m] = "start" /\ shown[m].id = 0 /\ sent[m] = 0
  BY DEF Init, RequestsOf, RepliesOf, Nothing
<1>2. Open(m) = 0
  BY <1>1, FS_EmptySet DEF Open
<1> QED BY <1>1, <1>2 DEF Waits

\* A step that leaves the exchange of node m alone leaves Waits(m) alone.
LEMMA WaitsFrame ==
    ASSUME NEW m \in Nodes, Waits(m),
           RequestsOf(m)' = RequestsOf(m), RepliesOf(m)' = RepliesOf(m),
           inbox'[m] = inbox[m], sent'[m] = sent[m], shown'[m] = shown[m],
           \/ pc'[m] = pc[m]
           \/ pc'[m] = "quit"
           \/ pc[m] \in {"start", "sleep"} /\ pc'[m] = "send"
           \/ pc'[m] = "receive" /\ inbox[m] # <<>>
    PROVE  Waits(m)'
<1>1. Open(m)' = Open(m)
  BY DEF Open
<1> QED BY <1>1 DEF Waits

LEMMA WaitsStep ==
    TypeOK /\ FinitelyMany /\ FinitelyMany' /\ StopAndWait /\ ReplyWaits /\ [Next]_vars
        => StopAndWait' /\ ReplyWaits'
<1> SUFFICES ASSUME TypeOK, FinitelyMany, FinitelyMany', StopAndWait, ReplyWaits,
                    [Next]_vars, Unduplicated', NEW m \in Nodes
             PROVE  Waits(m)'
  BY WaitsIsBoth DEF StopAndWait, ReplyWaits, Waits, Open, Unduplicated
<1>1. Unduplicated
  BY FaultsGrow DEF TypeOK, Faults, Unduplicated
<1>2. ~Fault("duplicated") /\ ~Fault("pollError")
  BY <1>1 DEF TypeOK, Fault, Faults, Unduplicated
<1>3. Waits(m)
  BY <1>1, WaitsIsBoth
<1>4. ASSUME NEW n \in Nodes, SendReading(n)
      PROVE  Waits(m)'
  <2>1. /\ pc[n] = "send" /\ sent' = [sent EXCEPT ![n] = sent[n] + 1]
        /\ pc' = [pc EXCEPT ![n] = "poll"]
        /\ UNCHANGED <<replies, inbox, shown>>
    BY <1>4 DEF SendReading, GoTo
  <2>2. RepliesOf(m)' = RepliesOf(m)
    BY <2>1 DEF RepliesOf
  <2>3. \/ requests' = requests
        \/ \E r : /\ r.node = n /\ r.id = sent[n] + 1
                  /\ requests' = requests \union {r}
    BY <1>4, SentRequest
  <2>4. CASE m # n
    <3>1. RequestsOf(m)' = RequestsOf(m)
      BY <2>3, <2>4 DEF RequestsOf
    <3>2. sent'[m] = sent[m] /\ pc'[m] = pc[m]
      BY <2>1, <2>4 DEF TypeOK
    <3> QED BY <1>3, <2>1, <2>2, <3>1, <3>2, WaitsFrame
  <2>5. CASE m = n
    <3>1. /\ RequestsOf(m) = {} /\ RepliesOf(m)' = {} /\ inbox'[m] = <<>>
          /\ sent'[m] = sent[m] + 1 /\ pc'[m] = "poll"
      BY <1>3, <2>1, <2>2, <2>5 DEF Waits, TypeOK
    <3>2. \/ RequestsOf(m)' = {}
          \/ \E r : r.id = sent'[m] /\ RequestsOf(m)' = {r}
      BY <2>3, <2>5, <3>1 DEF RequestsOf
    <3>3. Cardinality(RequestsOf(m)') \in {0, 1}
      BY <3>2, FS_Singleton, FS_EmptySet
    <3>4. Open(m)' <= 1
      BY <3>1, <3>3, FS_EmptySet DEF Open
    <3>5. \A r \in RequestsOf(m)' \union RepliesOf(m)' : r.id = sent'[m]
      BY <3>1, <3>2
    <3>6. shown'[m].id <= sent'[m]
      BY <1>3, <2>1, <3>1 DEF Waits, TypeOK
    <3> QED BY <3>1, <3>4, <3>5, <3>6 DEF Waits
  <2> QED BY <2>4, <2>5
<1>5. ASSUME NEW n \in Nodes,
             \/ StartClient(n) \/ SendFails(n) \/ PollReturns(n)
             \/ ReceiveFails(n) \/ WakeUp(n) \/ ReadSensor(n) \/ SensorFails(n)
      PROVE  Waits(m)'
  <2>1. UNCHANGED <<requests, replies, inbox, sent, shown>>
    BY <1>5 DEF StartClient, SendFails, PollReturns, ReceiveFails, WakeUp, ReadSensor,
       SensorFails, threadVars
  <2>2. \/ pc' = pc
        \/ pc' = [pc EXCEPT ![n] = "quit"]
        \/ pc[n] \in {"start", "sleep"} /\ pc' = [pc EXCEPT ![n] = "send"]
        \/ inbox[n] # <<>> /\ pc' = [pc EXCEPT ![n] = "receive"]
    BY <1>2, <1>5 DEF StartClient, SendFails, PollReturns, ReceiveFails, WakeUp,
       ReadSensor, SensorFails, GoTo
  <2>3. \/ pc'[m] = pc[m]
        \/ pc'[m] = "quit"
        \/ pc[m] \in {"start", "sleep"} /\ pc'[m] = "send"
        \/ pc'[m] = "receive" /\ inbox[m] # <<>>
    BY <2>2 DEF TypeOK
  <2>4. RequestsOf(m)' = RequestsOf(m) /\ RepliesOf(m)' = RepliesOf(m)
    BY <2>1 DEF RequestsOf, RepliesOf
  <2> QED BY <1>3, <2>1, <2>3, <2>4, WaitsFrame
<1>6. ASSUME NEW n \in Nodes, ReceiveReply(n)
      PROVE  Waits(m)'
  <2>1. /\ pc[n] = "receive" /\ pc' = [pc EXCEPT ![n] = "sleep"]
        /\ inbox' = [inbox EXCEPT ![n] = IF inbox[n] = <<>> THEN inbox[n]
                                         ELSE Tail(inbox[n])]
        /\ UNCHANGED <<requests, replies, sent, shown>>
    BY <1>6 DEF ReceiveReply, GoTo
  <2>2. RequestsOf(m)' = RequestsOf(m) /\ RepliesOf(m)' = RepliesOf(m)
    BY <2>1 DEF RequestsOf, RepliesOf
  <2>3. CASE m # n
    <3>1. pc'[m] = pc[m] /\ inbox'[m] = inbox[m]
      BY <2>1, <2>3 DEF TypeOK
    <3> QED BY <1>3, <2>1, <2>2, <3>1, WaitsFrame
  <2>4. CASE m = n
    <3>1. inbox[m] # <<>> /\ Open(m) <= 1
      BY <1>3, <2>1, <2>4 DEF Waits
    <3>2. Len(inbox[m]) = 1 /\ RequestsOf(m) = {} /\ RepliesOf(m) = {}
      BY <3>1, OnlyOne
    <3>3. inbox[m] \in Seq(Ids)
      BY DEF TypeOK
    <3>4. inbox'[m] = <<>> /\ pc'[m] = "sleep"
      <4>1. inbox'[m] = Tail(inbox[m]) /\ pc'[m] = "sleep"
        BY <2>1, <2>4, <3>1 DEF TypeOK
      <4>2. Tail(inbox[m]) = <<>>
        <5>1. Tail(inbox[m]) \in Seq(Ids) /\ Len(Tail(inbox[m])) = 0
          BY <3>1, <3>2, <3>3, HeadTailProperties
        <5>2. \A t \in Seq(Ids) : Len(t) = 0 => t = <<>>
          BY EmptySeq
        <5> QED BY <5>1, <5>2
      <4> QED BY <4>1, <4>2
    <3>5. Open(m)' = 0
      BY <2>2, <3>2, <3>4, FS_EmptySet DEF Open
    <3> QED BY <1>3, <2>1, <2>2, <3>2, <3>4, <3>5 DEF Waits
  <2> QED BY <2>3, <2>4
<1>7. ASSUME NEW q \in requests, HubHandles(q)
      PROVE  Waits(m)'
  <2> DEFINE reply == [node |-> q.node, id |-> q.id, copy |-> q.copy]
  <2>1. /\ requests' = requests \ {q} /\ replies' = replies \union {reply}
        /\ shown' = [shown EXCEPT ![q.node] = [id |-> q.id, from |-> q.from,
                                               temp |-> ReadBack(q.text)]]
        /\ UNCHANGED <<pc, sent, inbox>>
    BY <1>7 DEF HubHandles, Show
  <2>2. CASE q.node # m
    <3>1. RequestsOf(m)' = RequestsOf(m) /\ RepliesOf(m)' = RepliesOf(m)
      BY <2>1, <2>2 DEF RequestsOf, RepliesOf
    <3>2. shown'[m] = shown[m]
      BY <2>1, <2>2 DEF TypeOK
    <3> QED BY <1>3, <2>1, <3>1, <3>2, WaitsFrame
  <2>3. CASE q.node = m
    <3>1. q \in RequestsOf(m) /\ q.id = sent[m]
      BY <1>3, <2>3 DEF RequestsOf, Waits
    <3>2. Cardinality(RequestsOf(m)) = 1 /\ RepliesOf(m) = {} /\ inbox[m] = <<>>
      BY <1>3, <3>1, OnlyOne DEF Waits
    <3>3. RequestsOf(m) = {q}
      BY <3>1, <3>2, OpenCounts, FS_Singleton
    <3>4. RequestsOf(m)' = {} /\ RepliesOf(m)' = {reply}
      BY <2>1, <2>3, <3>2, <3>3 DEF RequestsOf, RepliesOf
    <3>5. Open(m)' = 1
      <4>1. Cardinality(RequestsOf(m)') = 0 /\ Cardinality(RepliesOf(m)') = 1
        BY <3>4, FS_EmptySet, FS_Singleton
      <4>2. Len(inbox'[m]) = 0
        BY <2>1, <3>2
      <4> QED BY <4>1, <4>2 DEF Open
    <3>6. reply.id = sent'[m] /\ shown'[m].id = sent'[m] /\ sent'[m] \in Nat
      BY <2>1, <2>3, <3>1, NodeAssumption DEF TypeOK
    <3>7. pc'[m] \notin {"start", "send", "sleep", "receive"}
      BY <1>3, <2>1, <3>1, <3>2 DEF Waits
    <3> QED BY <2>1, <3>2, <3>4, <3>5, <3>6, <3>7 DEF Waits
  <2> QED BY <2>2, <2>3
<1>8. ASSUME NEW q \in replies, DeliverReply(q)
      PROVE  Waits(m)'
  <2>1. /\ replies' = replies \ {q}
        /\ inbox' = [inbox EXCEPT ![q.node] = Append(inbox[q.node], q.id)]
        /\ UNCHANGED <<pc, requests, sent, shown>>
    BY <1>8 DEF DeliverReply
  <2>2. RequestsOf(m)' = RequestsOf(m)
    BY <2>1 DEF RequestsOf
  <2>3. CASE q.node # m
    <3>1. RepliesOf(m)' = RepliesOf(m) /\ inbox'[m] = inbox[m]
      BY <2>1, <2>3 DEF RepliesOf, TypeOK
    <3> QED BY <1>3, <2>1, <2>2, <3>1, WaitsFrame
  <2>4. CASE q.node = m
    <3>1. q \in RepliesOf(m) /\ q.id = sent[m]
      BY <1>3, <2>4 DEF RepliesOf, Waits
    <3>2. Cardinality(RepliesOf(m)) = 1 /\ RequestsOf(m) = {} /\ inbox[m] = <<>>
      BY <1>3, <3>1, OnlyOne DEF Waits
    <3>3. RepliesOf(m) = {q}
      BY <3>1, <3>2, OpenCounts, FS_Singleton
    <3>4. RepliesOf(m)' = {}
      BY <2>1, <2>4, <3>3 DEF RepliesOf
    <3>5. inbox'[m] = <<q.id>>
      BY <2>1, <2>4, <3>2 DEF TypeOK
    <3>6. Open(m)' = 1
      BY <2>2, <3>2, <3>4, <3>5, FS_EmptySet DEF Open
    <3>7. pc'[m] \notin {"start", "send", "sleep"}
      BY <1>3, <2>1, <3>1 DEF Waits
    <3> QED BY <1>3, <2>1, <2>2, <3>1, <3>2, <3>4, <3>5, <3>6, <3>7 DEF Waits
  <2> QED BY <2>3, <2>4
<1>9. CASE LoseDatagram
  <2>1. /\ requests' \subseteq requests /\ replies' \subseteq replies
        /\ UNCHANGED <<pc, sent, inbox, shown>>
    BY <1>9 DEF LoseDatagram
  <2>2. RequestsOf(m)' \subseteq RequestsOf(m) /\ RepliesOf(m)' \subseteq RepliesOf(m)
    BY <2>1 DEF RequestsOf, RepliesOf
  <2>3. /\ Cardinality(RequestsOf(m)') <= Cardinality(RequestsOf(m))
        /\ Cardinality(RepliesOf(m)') <= Cardinality(RepliesOf(m))
        /\ Cardinality(RequestsOf(m)) \in Nat /\ Cardinality(RequestsOf(m)') \in Nat
        /\ Cardinality(RepliesOf(m)) \in Nat /\ Cardinality(RepliesOf(m)') \in Nat
        /\ Len(inbox[m]) \in Nat
    BY <2>2, OpenCounts, FS_Subset, FS_CardinalityType
  <2>4. Open(m)' <= 1
    BY <1>3, <2>1, <2>3 DEF Open, Waits
  <2> QED BY <1>3, <2>1, <2>2, <2>4 DEF Waits
<1>10. CASE UNCHANGED vars
  <2>1. RequestsOf(m)' = RequestsOf(m) /\ RepliesOf(m)' = RepliesOf(m)
    BY <1>10 DEF RequestsOf, RepliesOf, vars
  <2> QED BY <1>3, <1>10, <2>1, WaitsFrame DEF vars
<1> QED BY <1>2, <1>4, <1>5, <1>6, <1>7, <1>8, <1>9, <1>10
     DEF Next, MainStep, Exchange, DuplicateDatagram

-----------------------------------------------------------------------------
(* What the hub shows.                                                     *)

LEMMA TextsInit == Init => TextsPrinted
<1> SUFFICES ASSUME Init PROVE TextsPrinted
  OBVIOUS
<1> DEFINE zero == [negative |-> Printed(0).negative, whole |-> Printed(0).whole,
                    decimals |-> Printed(0).decimals]
<1>1. zero \in PrintedTexts(0, 0)
  BY DEF PrintedTexts
<1>2. zero.whole = 0 /\ zero.decimals = 0
  <2>1. 0 \div 1000 = 0 /\ (0 % 1000) \div 10 = 0
    OBVIOUS
  <2> QED BY <2>1 DEF Printed, Magnitude
<1> HIDE DEF zero
<1>3. ReadBack(zero) = 0
  BY <1>2, ZeroText
<1>4. \A n \in Nodes : shown[n].from = {0, 0} /\ shown[n].temp = ReadBack(zero)
  BY <1>3 DEF Init, Nothing
<1> QED BY <1>1, <1>4, MeasuredInt DEF Init, TextsPrinted

LEMMA TextsStep == TypeOK /\ TextsPrinted /\ [Next]_vars => TextsPrinted'
<1> SUFFICES ASSUME TypeOK, TextsPrinted, [Next]_vars PROVE TextsPrinted'
  OBVIOUS
<1> DEFINE Labelled(r) == \E v, w \in Measured :
                             r.from = {v, w} /\ r.text \in PrintedTexts(v, w)
<1>1. \A r \in requests : Labelled(r)
  BY DEF TextsPrinted
<1>2. /\ \A r \in requests' : Labelled(r)
      /\ shown' = shown
      => TextsPrinted'
  BY DEF TextsPrinted
<1>3. ASSUME NEW n \in Nodes, SendReading(n)
      PROVE  TextsPrinted'
  <2>1. \/ requests' = requests
        \/ \E v, w \in Measured : \E text \in PrintedTexts(v, w) :
             requests' = requests \union
               {[node |-> n, id |-> sent[n] + 1, text |-> text, from |-> {v, w},
                 copy |-> 0]}
    BY <1>3, SentRequest
  <2>2. \A r \in requests' : Labelled(r)
    BY <1>1, <2>1
  <2> QED BY <1>2, <1>3, <2>2 DEF SendReading
<1>4. ASSUME NEW n \in Nodes,
             \/ StartClient(n) \/ SendFails(n) \/ PollReturns(n) \/ ReceiveReply(n)
             \/ ReceiveFails(n) \/ WakeUp(n) \/ ReadSensor(n) \/ SensorFails(n)
      PROVE  TextsPrinted'
  <2>1. UNCHANGED <<requests, shown>>
    BY <1>4 DEF StartClient, SendFails, PollReturns, ReceiveReply, ReceiveFails, WakeUp,
       ReadSensor, SensorFails, threadVars
  <2> QED BY <1>1, <1>2, <2>1
<1>5. ASSUME NEW q \in requests, HubHandles(q)
      PROVE  TextsPrinted'
  <2>1. /\ requests' = requests \ {q}
        /\ shown' = [shown EXCEPT ![q.node] = [id |-> q.id, from |-> q.from,
                                               temp |-> ReadBack(q.text)]]
    BY <1>5 DEF HubHandles, Show
  <2>2. \A r \in requests' : Labelled(r)
    BY <1>1, <2>1
  <2>3. ASSUME NEW n \in Nodes
        PROVE  \E v, w \in Measured : \E text \in PrintedTexts(v, w) :
                  shown'[n].from = {v, w} /\ shown'[n].temp = ReadBack(text)
    <3>1. CASE n = q.node
      <4>1. shown'[n].from = q.from /\ shown'[n].temp = ReadBack(q.text)
        BY <2>1, <3>1 DEF TypeOK
      <4> QED BY <1>1, <4>1
    <3>2. CASE n # q.node
      <4>1. shown'[n] = shown[n]
        BY <2>1, <3>2 DEF TypeOK
      <4> QED BY <4>1 DEF TextsPrinted
    <3> QED BY <3>1, <3>2
  <2> QED BY <2>2, <2>3 DEF TextsPrinted
<1>6. ASSUME NEW r \in replies, DeliverReply(r)
      PROVE  TextsPrinted'
  BY <1>1, <1>2, <1>6 DEF DeliverReply
<1>7. CASE LoseDatagram
  BY <1>1, <1>2, <1>7 DEF LoseDatagram
<1>8. CASE DuplicateDatagram
  <2> DEFINE c == faults'["duplicated"]
  <2>1. shown' = shown
    BY <1>8 DEF DuplicateDatagram
  <2>2. ASSUME NEW r \in requests PROVE Labelled([r EXCEPT !.copy = c])
    <3>1. /\ [r EXCEPT !.copy = c].from = r.from
          /\ [r EXCEPT !.copy = c].text = r.text
      BY DEF TypeOK, Request
    <3> QED BY <1>1, <3>1
  <2>3. requests' = requests \/ \E r \in requests :
                                  requests' = requests \union {[r EXCEPT !.copy = c]}
    BY <1>8 DEF DuplicateDatagram
  <2> HIDE DEF c, Labelled
  <2>4. \A r \in requests' : Labelled(r)
    BY <1>1, <2>2, <2>3
  <2> QED BY <1>2, <2>1, <2>4 DEF Labelled
<1>9. CASE UNCHANGED vars
  BY <1>1, <1>2, <1>9 DEF vars
<1> QED BY <1>3, <1>4, <1>5, <1>6, <1>7, <1>8, <1>9 DEF Next, MainStep, Exchange

-----------------------------------------------------------------------------
(* Theorems.                                                               *)

LEMMA NodeInitInv == Init => NodeInv
  BY NodeInitType, AnswerInit, WaitsInit, TextsInit DEF NodeInv

LEMMA NodeStepInv == NodeInv /\ [Next]_vars => NodeInv'
  BY NodeStepType, AnswerStep, WaitsStep, TextsStep DEF NodeInv

\* In every reachable state the whole invariant holds.
THEOREM NodeInvariant == Spec => []NodeInv
  BY NodeInitInv, NodeStepInv, PTL DEF Spec

\* Every variable of the nodes and of the network keeps its type.
THEOREM NodeTypeCorrect == Spec => []TypeOK
  BY NodeInvariant, PTL DEF NodeInv

\* send_sensor_value_and_wait_for_reply gives back the request's buffer before
\* main sleeps; none piles up in an exchange that goes on.
THEOREM NodeBuffersReturned == Spec => []BuffersReturned
  BY NodeInvariant, PTL DEF NodeInv

\* A node blocked in poll (it has no timeout) is waiting for a datagram that
\* is on its way, unless one was lost.
THEOREM NodeAnswerOnItsWay == Spec => []AnswerOnItsWay
  BY NodeInvariant, PTL DEF NodeInv

\* process_simple_coap_reply takes any reply for the right one, and it is, as
\* long as nothing was duplicated and poll did not fail.
THEOREM NodeStopAndWait == Spec => []StopAndWait
  BY NodeInvariant, PTL DEF NodeInv

\* Under the same condition the hub never shows an older reading of a node
\* after a newer one.
THEOREM NodeHubGoesForward == Spec => HubGoesForward
<1>1. NodeInv /\ [Next]_vars
        => [faults'["duplicated"] = 0 /\ faults'["pollError"] = 0 =>
              \A n \in Nodes : shown'[n].id >= shown[n].id]_vars
  <2> SUFFICES ASSUME NodeInv, Next, Unduplicated', NEW n \in Nodes
               PROVE  shown'[n].id >= shown[n].id
    BY DEF Unduplicated
  <2>1. TypeOK /\ Waits(n)
    <3>1. TypeOK /\ StopAndWait /\ ReplyWaits
      BY DEF NodeInv
    <3>2. Unduplicated
      BY <3>1, FaultsGrow DEF TypeOK, Faults, Unduplicated
    <3> QED BY <3>1, <3>2, WaitsIsBoth
  <2>2. shown[n].id \in Nat /\ shown[n].id <= sent[n]
    BY <2>1, NodeAssumption DEF TypeOK, Waits
  <2>3. CASE shown'[n] = shown[n]
    BY <2>2, <2>3
  <2>4. CASE shown'[n] # shown[n]
    <3>1. PICK q \in requests : HubHandles(q)
      BY <2>4 DEF Next, MainStep, Exchange, StartClient, SendReading, SendFails,
         PollReturns, ReceiveReply, ReceiveFails, WakeUp, ReadSensor, SensorFails,
         DeliverReply, LoseDatagram, DuplicateDatagram
    <3>2. q.node = n /\ shown'[n].id = q.id
      BY <2>1, <2>4, <3>1 DEF HubHandles, Show, TypeOK
    <3>3. q.id = sent[n]
      BY <2>1, <3>2 DEF Waits, RequestsOf
    <3> QED BY <2>2, <3>2, <3>3
  <2> QED BY <2>3, <2>4
<1> QED BY <1>1, NodeInvariant, PTL DEF Spec, HubGoesForward

\* Sign, whole degrees and, from a tenth on, hundredths of a reading survive
\* "%s%d.%d" and atof, for every temperature an integer can be.
THEOREM NodeReadingSurvivesText == Spec => []ReadingSurvivesText
<1>1. NodeInv => ReadingSurvivesText
  <2> SUFFICES ASSUME NodeInv, NEW n \in Nodes
               PROVE  LET from == shown[n].from
                          t    == shown[n].temp
                      IN  /\ \E v \in from : Magnitude(t) \div 1000 = Magnitude(v) \div 1000
                          /\ (\A v \in from : v < 0) => t <= 0
                          /\ (\A v \in from : v > 0) => t >= 0
                          /\ \A v \in from : from = {v} /\ (Magnitude(v) % 1000) >= 100 =>
                               Magnitude(t) = 10 * (Magnitude(v) \div 10)
    BY DEF ReadingSurvivesText
  <2>1. PICK v \in Measured, w \in Measured : \E text \in PrintedTexts(v, w) :
          shown[n].from = {v, w} /\ shown[n].temp = ReadBack(text)
    BY DEF NodeInv, TextsPrinted
  <2>2. PICK text \in PrintedTexts(v, w) :
          shown[n].from = {v, w} /\ shown[n].temp = ReadBack(text)
    BY <2>1
  <2>3. v \in Int /\ w \in Int
    BY MeasuredInt
  <2>4. ASSUME NEW u \in {v, w}, {v, w} = {u}, (Magnitude(u) % 1000) >= 100
        PROVE  Magnitude(ReadBack(text)) = 10 * (Magnitude(u) \div 10)
    <3>1. v = u /\ w = u
      BY <2>4
    <3> QED BY <2>3, <2>4, <3>1, UndisturbedText
  <2>5. LET t == ReadBack(text)
        IN  /\ \E y \in {v, w} : Magnitude(t) \div 1000 = Magnitude(y) \div 1000
            /\ (\A y \in {v, w} : y < 0) => t <= 0
            /\ (\A y \in {v, w} : y > 0) => t >= 0
    BY <2>3, TextKeepsParts
  <2> QED BY <2>2, <2>4, <2>5
<1> QED BY <1>1, NodeInvariant, PTL

\* A text torn between two samples less than a degree apart is shown less than
\* two degrees off either of them, whatever they are.
THEOREM NodeTornReadingIsNear == Spec => []TornReadingIsNear
<1>1. NodeInv => TornReadingIsNear
  <2> SUFFICES ASSUME NodeInv, NEW n \in Nodes, NEW v \in shown[n].from,
                      NEW w \in shown[n].from, shown[n].from = {v, w},
                      Magnitude(v - w) < 1000
               PROVE  Magnitude(shown[n].temp - v) < 2000
    BY DEF TornReadingIsNear
  <2>1. PICK a \in Measured, b \in Measured : \E text \in PrintedTexts(a, b) :
          shown[n].from = {a, b} /\ shown[n].temp = ReadBack(text)
    BY DEF NodeInv, TextsPrinted
  <2>2. PICK text \in PrintedTexts(a, b) :
          shown[n].from = {a, b} /\ shown[n].temp = ReadBack(text)
    BY <2>1
  <2>3. a \in Int /\ b \in Int /\ {a, b} = {v, w}
    BY <2>2, MeasuredInt
  <2>4. (a = v /\ b = w) \/ (a = w /\ b = v)
    BY <2>3
  <2>5. Magnitude(a - b) < 1000
    BY <2>3, <2>4 DEF Magnitude
  <2>6. Magnitude(ReadBack(text) - a) < 2000 /\ Magnitude(ReadBack(text) - b) < 2000
    BY <2>3, <2>5, TornTextIsNear
  <2> QED BY <2>2, <2>4, <2>6
<1> QED BY <1>1, NodeInvariant, PTL
=============================================================================
