------------------------------ MODULE TempNode ------------------------------
(***************************************************************************)
(* The temperature nodes (apps/nodes/temperature_node) and their exchange  *)
(* with the hub over UDP.  A node has two threads: read_sensor_values      *)
(* samples the sensor, main sends the latest sample as a confirmable CoAP  *)
(* POST, waits for a datagram without a timeout, sleeps and starts again.  *)
(* Nothing is retransmitted and the reply is not compared with the         *)
(* request.  The hub answers every request (temp_node_post).  The network  *)
(* may lose, duplicate and reorder datagrams.                              *)
(***************************************************************************)
EXTENDS SensorPayload, Sequences, FiniteSets

CONSTANTS
    Nodes,
    Samples,      \* what a sampling may store: the temperatures a sensor measures,
                  \* and 0 if what it read cannot be decoded
    MaxRequests,  \* bound: requests a node sends
    MaxFaults     \* bound: how often each kind of fault happens

Faults == {"lost", "duplicated", "pollError"}

ASSUME NodeAssumption ==
    /\ Samples \subseteq Int
    /\ MaxRequests \in Nat
    /\ MaxFaults \in [Faults -> Nat]

VARIABLES
    pc,         \* pc[n]: where main of node n is
    alive,      \* alive[n]: the sensor thread of n is running
    latest,     \* latest[n]: sensor_last_value, static and so 0 at first
    held,       \* held[n]: message buffers n has on its heap
    sent,       \* sent[n]: requests n has made; the last one's message id
    requests,   \* requests on their way to the hub
    replies,    \* replies on their way to a node
    inbox,      \* inbox[n]: replies waiting in the socket of n
    faults,     \* how often each kind of fault has happened
    shown       \* shown[n]: the request of n that the hub handled last

threadVars == <<alive, latest>>
vars == <<pc, threadVars, held, sent, requests, replies, inbox, faults, shown>>

Ids      == 1..MaxRequests
Copy     == 0..MaxFaults["duplicated"]
Measured == Samples \union {0}
Text     == UNION {PrintedTexts(v, w) : v, w \in Measured}
\* A request's "from" holds the samples that its text was printed from.
Request  == [node : Nodes, id : Ids, text : Text, from : SUBSET Measured, copy : Copy]
Reply    == [node : Nodes, id : Ids, copy : Copy]
Nothing  == [id |-> 0, from |-> {0}, temp |-> 0]

TypeOK ==
    /\ pc \in [Nodes -> {"start", "send", "poll", "receive", "sleep", "quit"}]
    /\ alive \in [Nodes -> BOOLEAN]
    /\ latest \in [Nodes -> Measured]
    /\ held \in [Nodes -> Nat]
    /\ sent \in [Nodes -> 0..MaxRequests]
    /\ requests \subseteq Request
    /\ replies \subseteq Reply
    /\ inbox \in [Nodes -> Seq(Ids)]
    /\ faults \in [Faults -> Nat]
    /\ \A f \in Faults : faults[f] <= MaxFaults[f]
    /\ shown \in [Nodes -> [id : 0..MaxRequests, from : SUBSET Measured, temp : Int]]

\* setup_sensor starts the thread only if the sensor is there and ready; main
\* goes on in either case.
Init ==
    /\ pc = [n \in Nodes |-> "start"]
    /\ alive \in [Nodes -> BOOLEAN]
    /\ latest = [n \in Nodes |-> 0]
    /\ held = [n \in Nodes |-> 0]
    /\ sent = [n \in Nodes |-> 0]
    /\ requests = {} /\ replies = {}
    /\ inbox = [n \in Nodes |-> <<>>]
    /\ faults = [f \in Faults |-> 0]
    /\ shown = [n \in Nodes |-> Nothing]

GoTo(n, where) == pc' = [pc EXCEPT ![n] = where]
Hold(n, count) == held' = [held EXCEPT ![n] = count]
Fault(f) == /\ faults[f] < MaxFaults[f]
            /\ faults' = [faults EXCEPT ![f] = @ + 1]

-----------------------------------------------------------------------------
(* Sensor thread.                                                          *)

\* The result of decode is not looked at: a sample that cannot be decoded is
\* stored as the 0 that temp_data was initialised with.
ReadSensor(n) ==
    /\ alive[n]
    /\ \E t \in Samples : latest' = [latest EXCEPT ![n] = t]
    /\ UNCHANGED <<pc, alive, held, sent, requests, replies, inbox, faults, shown>>

\* One failed sensor_read or sensor_get_decoder ends the thread.
SensorFails(n) ==
    /\ alive[n]
    /\ alive' = [alive EXCEPT ![n] = FALSE]
    /\ UNCHANGED <<pc, latest, held, sent, requests, replies, inbox, faults, shown>>

-----------------------------------------------------------------------------
(* main: start_coap_client once; then send_sensor_value_and_wait_for_reply *)
(* and ten seconds of sleep, again and again.                              *)

\* socket and connect of start_coap_client; main gives up on an error.
StartClient(n) ==
    /\ pc[n] = "start"
    /\ GoTo(n, "send") \/ GoTo(n, "quit")
    /\ UNCHANGED <<threadVars, held, sent, requests, replies, inbox, faults, shown>>

\* What main sends as request number "id", and the sensor thread may do
\* meanwhile: it has the higher priority, but a period far longer than a sprintf.
PrintAndSend(n, id) ==
    \E next \in IF alive[n] THEN Samples \union {latest[n]} ELSE {latest[n]} :
        /\ latest' = [latest EXCEPT ![n] = next]
        /\ \E text \in PrintedTexts(latest[n], next) :
              requests' = requests \union
                 {[node |-> n, id |-> id, text |-> text, from |-> {latest[n], next},
                   copy |-> 0]}

\* A slip: the message id is read before it is counted up.
SendReadingOldId(n) ==
    /\ pc[n] = "send"
    /\ sent[n] < MaxRequests
    /\ sent' = [sent EXCEPT ![n] = @ + 1]
    /\ Hold(n, held[n] + 1)
    /\ PrintAndSend(n, sent[n])
    /\ GoTo(n, "poll")
    /\ UNCHANGED <<alive, replies, inbox, faults, shown>>

\* The request buffer is held until the reply was processed.  The result of
\* send() is overwritten, so a request that never left the node is waited for
\* like any other.
SendReading(n) ==
    /\ pc[n] = "send"
    /\ sent[n] < MaxRequests
    /\ sent' = [sent EXCEPT ![n] = @ + 1]
    /\ Hold(n, held[n] + 1)
    /\ \/ PrintAndSend(n, sent[n] + 1) /\ UNCHANGED faults
       \/ Fault("lost") /\ UNCHANGED <<requests, latest>>
    /\ GoTo(n, "poll")
    /\ UNCHANGED <<alive, replies, inbox, shown>>

\* No link address, no memory, or no room in the message: the buffer is freed,
\* but not when it is the query option that does not fit.
SendFails(n) ==
    /\ pc[n] = "send"
    /\ Hold(n, held[n]) \/ Hold(n, held[n] + 1)
    /\ GoTo(n, "quit")
    /\ UNCHANGED <<threadVars, sent, requests, replies, inbox, faults, shown>>

\* A slip: poll has a timeout, after which the node goes on.
PollTimesOut(n) ==
    /\ pc[n] = "poll"
    /\ GoTo(n, "receive")
    /\ UNCHANGED <<threadVars, held, sent, requests, replies, inbox, faults, shown>>

\* wait(): poll returns when there is a datagram, or fails and is ignored.
PollReturns(n) ==
    /\ pc[n] = "poll"
    /\ \/ inbox[n] # <<>> /\ UNCHANGED faults
       \/ Fault("pollError")
    /\ GoTo(n, "receive")
    /\ UNCHANGED <<threadVars, held, sent, requests, replies, inbox, shown>>

\* A slip: an empty socket ends the exchange without freeing the request.
ReceiveReplyLeaking(n) ==
    /\ pc[n] = "receive"
    /\ inbox' = [inbox EXCEPT ![n] = IF @ = <<>> THEN @ ELSE Tail(@)]
    /\ Hold(n, IF inbox[n] = <<>> THEN held[n] ELSE held[n] - 1)
    /\ GoTo(n, "sleep")
    /\ UNCHANGED <<threadVars, sent, requests, replies, faults, shown>>

\* process_simple_coap_reply takes any CoAP packet for the answer, and an
\* empty socket (EAGAIN) for a success.  Its own buffer is always freed.
ReceiveReply(n) ==
    /\ pc[n] = "receive"
    /\ inbox' = [inbox EXCEPT ![n] = IF @ = <<>> THEN @ ELSE Tail(@)]
    /\ Hold(n, held[n] - 1)
    /\ GoTo(n, "sleep")
    /\ UNCHANGED <<threadVars, sent, requests, replies, faults, shown>>

\* No memory for the reply, or recv fails: one error ends the application, and
\* the request's buffer is not freed.
ReceiveFails(n) ==
    /\ pc[n] = "receive"
    /\ GoTo(n, "quit")
    /\ UNCHANGED <<threadVars, held, sent, requests, replies, inbox, faults, shown>>

WakeUp(n) ==
    /\ pc[n] = "sleep"
    /\ GoTo(n, "send")
    /\ UNCHANGED <<threadVars, held, sent, requests, replies, inbox, faults, shown>>

-----------------------------------------------------------------------------
(* The hub: temp_node_post, which shows what atof reads and always answers. *)

Show(r) == shown' = [shown EXCEPT ![r.node] =
                        [id |-> r.id, from |-> r.from, temp |-> ReadBack(r.text)]]

\* A slip: a reading of zero is taken for none and not answered.
HubIgnoresZero(r) ==
    /\ requests' = requests \ {r}
    /\ Show(r)
    /\ replies' = IF ReadBack(r.text) = 0 THEN replies
                  ELSE replies \union {[node |-> r.node, id |-> r.id, copy |-> r.copy]}
    /\ UNCHANGED <<pc, threadVars, held, sent, inbox, faults>>

HubHandles(r) ==
    /\ requests' = requests \ {r}
    /\ Show(r)
    /\ replies' = replies \union {[node |-> r.node, id |-> r.id, copy |-> r.copy]}
    /\ UNCHANGED <<pc, threadVars, held, sent, inbox, faults>>

-----------------------------------------------------------------------------
(* The network.                                                            *)

DeliverReply(r) ==
    /\ replies' = replies \ {r}
    /\ inbox' = [inbox EXCEPT ![r.node] = Append(@, r.id)]
    /\ UNCHANGED <<pc, threadVars, held, sent, requests, faults, shown>>

LoseDatagram ==
    /\ Fault("lost")
    /\ \/ \E r \in requests : requests' = requests \ {r} /\ UNCHANGED replies
       \/ \E r \in replies : replies' = replies \ {r} /\ UNCHANGED requests
    /\ UNCHANGED <<pc, threadVars, held, sent, inbox, shown>>

DuplicateDatagram ==
    /\ Fault("duplicated")
    /\ \/ /\ \E r \in requests :
               requests' = requests \union {[r EXCEPT !.copy = faults'["duplicated"]]}
          /\ UNCHANGED replies
       \/ /\ \E r \in replies :
               replies' = replies \union {[r EXCEPT !.copy = faults'["duplicated"]]}
          /\ UNCHANGED requests
    /\ UNCHANGED <<pc, threadVars, held, sent, inbox, shown>>

MainStep(n) == \/ StartClient(n) \/ SendReading(n) \/ SendFails(n) \/ PollReturns(n)
               \/ ReceiveReply(n) \/ ReceiveFails(n) \/ WakeUp(n)
Exchange == \/ \E r \in requests : HubHandles(r)
            \/ \E r \in replies : DeliverReply(r)

Next == \/ \E n \in Nodes : MainStep(n) \/ ReadSensor(n) \/ SensorFails(n)
        \/ Exchange \/ LoseDatagram \/ DuplicateDatagram

Spec == Init /\ [][Next]_vars

\* main runs, the hub answers and what is not lost arrives; no fault has to happen.
FairSpec == /\ Spec
            /\ \A n \in Nodes : WF_vars(MainStep(n) /\ UNCHANGED faults)
            /\ WF_vars(Exchange)

-----------------------------------------------------------------------------
(* Safety.                                                                 *)

RequestsOf(n) == {r \in requests : r.node = n}
RepliesOf(n)  == {r \in replies : r.node = n}

\* While nothing was lost, a node that waits is waiting for something: its
\* request, the reply or a copy of one is on its way.  Without a timeout this
\* is all that keeps the node going.
AnswerOnItsWay ==
    faults["lost"] = 0 =>
        \A n \in Nodes :
            pc[n] = "poll" => \/ RequestsOf(n) # {} \/ RepliesOf(n) # {}
                              \/ inbox[n] # <<>>

\* While nothing was duplicated and poll never failed, a node has at most one
\* exchange open, it is that of its last request, and only while it waits:
\* the reply it takes without looking at it is then the right one.
StopAndWait ==
    faults["duplicated"] = 0 /\ faults["pollError"] = 0 =>
        \A n \in Nodes :
            /\ Cardinality(RequestsOf(n)) + Cardinality(RepliesOf(n)) + Len(inbox[n]) <= 1
            /\ \A r \in RequestsOf(n) \union RepliesOf(n) : r.id = sent[n]
            /\ \A k \in 1..Len(inbox[n]) : inbox[n][k] = sent[n]
            /\ pc[n] \in {"start", "send", "sleep"} =>
                 RequestsOf(n) = {} /\ RepliesOf(n) = {} /\ inbox[n] = <<>>

\* Under the same condition the hub never goes back to an older reading, and
\* loss alone cannot change that.
HubGoesForward ==
    [][faults'["duplicated"] = 0 /\ faults'["pollError"] = 0 =>
           \A n \in Nodes : shown'[n].id >= shown[n].id]_vars

\* The sign and the whole degrees of a reading survive the text, and all of it
\* does when it has a tenth: the printed decimals have no leading zero then.
\* When the sample changed under the print, each is that of one of the two.
ReadingSurvivesText ==
    \A n \in Nodes :
        LET from == shown[n].from
            t    == shown[n].temp
        IN  /\ \E v \in from : Magnitude(t) \div 1000 = Magnitude(v) \div 1000
            /\ (\A v \in from : v < 0) => t <= 0
            /\ (\A v \in from : v > 0) => t >= 0
            /\ \A v \in from : from = {v} /\ (Magnitude(v) % 1000) >= 100 =>
                   Magnitude(t) = 10 * (Magnitude(v) \div 10)

\* How wrong a text can be that mixes two samples: if they are less than a
\* degree apart, the hub shows less than two degrees off either of them.
TornReadingIsNear ==
    \A n \in Nodes : \A v, w \in shown[n].from :
        shown[n].from = {v, w} /\ Magnitude(v - w) < 1000 =>
            Magnitude(shown[n].temp - v) < 2000

\* No exchange that goes on leaves a buffer behind: a node holds one while it
\* waits for its reply, and none between two exchanges.
BuffersReturned ==
    \A n \in Nodes :
        /\ pc[n] \in {"poll", "receive"} => held[n] = 1
        /\ pc[n] \in {"start", "send", "sleep"} => held[n] = 0

-----------------------------------------------------------------------------
(* Liveness.                                                               *)

\* If nothing is ever lost, a node makes all its reports unless an error ends
\* it, whatever is duplicated or reordered.
KeepsReporting ==
    [](faults["lost"] = 0) =>
        \A n \in Nodes : <>(sent[n] = MaxRequests \/ pc[n] = "quit")
=============================================================================
