--------------------------- MODULE NetBoot_proofs ---------------------------
(***************************************************************************)
(* Proofs about NetBoot, for every set of builds and number of events.     *)
(*                                                                         *)
(* The invariant.  That a link which is up gives sem_wifi needs more than  *)
(* an event on its way: no disconnection may come after it, or the one     *)
(* callback would undo the other (LinkAnnounced).  The events reach the    *)
(* callbacks only once these are registered; for the time before, the      *)
(* network must be known to be silent (Quiet).  What the settings panel    *)
(* shows needs a chain on top of it (LeaseInv): the address is there       *)
(* before its event, the event before the semaphore, and the semaphore     *)
(* before main goes on.  That no wake-up is stale needs the converse of    *)
(* LinkAnnounced, as long as no loss was reported with a reason            *)
(* (EndAnnounced).                                                         *)
(***************************************************************************)
EXTENDS NetBoot, TLAPS

\* Until the callbacks are registered nothing has happened.
Quiet ==
    /\ bootPc = "init" => ~callbacks
    /\ ~callbacks =>
         /\ bootPc = "init"
         /\ events = <<>>
         /\ wifiRet = "none"
         /\ ~dhcpStarted
         /\ sem_wifi = 0 /\ sem_ipv4 = 0
         /\ link # "connecting"
         /\ ~address
         /\ IsWifi => link = "down"
    /\ IsWifi /\ bootPc \in {"init", "connect"} => wifiRet = "none" /\ link = "down"

IsUp(e)  == e.kind = "connect" /\ e.ok
IsEnd(e) == e.kind = "disconnect"

\* No disconnection is to be delivered after event number k.
LastWord(k) == \A j \in 1..Len(events) : j > k => ~IsEnd(events[j])

\* What the callbacks know of a link that is up, or are about to hear: that it
\* is, and nothing else after it.
LinkAnnounced ==
    IsWifi /\ bootPc \in {"init", "connect", "dhcp", "waitWifi"} /\ link = "up" =>
        \/ sem_wifi = 1 /\ LastWord(0)
        \/ \E k \in 1..Len(events) : IsUp(events[k]) /\ LastWord(k)

AddressAnnounced ==
    bootPc \notin {"up", "gui"} /\ address => sem_ipv4 = 1 \/ Pending("ipv4")

BootInv == /\ TypeOK
           /\ Quiet
           /\ LinkAnnounced
           /\ AddressAnnounced

-----------------------------------------------------------------------------

LEMMA BootInitInv == Init => BootInv
<1> SUFFICES ASSUME Init PROVE BootInv
  OBVIOUS
<1>1. <<>> \in Seq(EventSet) /\ 0 \in 0..MaxEvents
  BY NetAssumption
<1>2. link \in {"down", "connecting", "up"}
  BY DEF Init
<1>3. TypeOK
  BY <1>1, <1>2 DEF Init, TypeOK
<1>4. Quiet
  BY DEF Init, Quiet, IsWifi
<1>5. LinkAnnounced /\ AddressAnnounced
  BY DEF Init, IsWifi, LinkAnnounced, AddressAnnounced
<1> QED BY <1>3, <1>4, <1>5 DEF BootInv

\* The steps of main.
LEMMA MainInv == BootInv /\ MainStep => BootInv'
<1> SUFFICES ASSUME BootInv, MainStep PROVE BootInv'
  OBVIOUS
<1>0. UNCHANGED <<build, events, address, unicast, raised, history>>
  BY DEF MainStep, NetworkInit, RequestConnect, StartDhcp, WifiConnected, WaitForIpAddr,
     InitGui, netVars
<1>1. TypeOK' /\ Quiet'
  <2> USE DEF BootInv, TypeOK, Quiet, IsWifi, netVars, history
  <2>1. CASE NetworkInit
    BY <2>1, NetAssumption DEF NetworkInit, AfterInit
  <2>2. CASE RequestConnect
    BY <2>2 DEF RequestConnect
  <2>3. CASE StartDhcp
    BY <2>3 DEF StartDhcp
  <2>4. CASE WifiConnected
    BY <2>4 DEF WifiConnected
  <2>5. CASE WaitForIpAddr
    BY <2>5 DEF WaitForIpAddr
  <2>6. CASE InitGui
    BY <2>6 DEF InitGui, GetIpAddress
  <2> QED BY <2>1, <2>2, <2>3, <2>4, <2>5, <2>6 DEF MainStep
<1>2. LinkAnnounced'
  <2>1. ASSUME IsWifi', bootPc' \in {"init", "connect", "dhcp", "waitWifi"}, link' = "up"
        PROVE  /\ IsWifi /\ bootPc \in {"init", "connect", "dhcp", "waitWifi"} /\ link = "up"
               /\ sem_wifi' = sem_wifi
    BY <1>0, <2>1 DEF MainStep, NetworkInit, RequestConnect, StartDhcp, WifiConnected,
       WaitForIpAddr, InitGui, netVars, IsWifi, BootInv, Quiet
  <2>2. \A k : LastWord(k)' <=> LastWord(k)
    BY <1>0 DEF LastWord, IsEnd
  <2> QED BY <1>0, <2>1, <2>2 DEF LinkAnnounced, BootInv, IsUp
<1>3. AddressAnnounced'
  BY <1>0 DEF MainStep, NetworkInit, RequestConnect, StartDhcp, WifiConnected,
     WaitForIpAddr, InitGui, AddressAnnounced, Pending, BootInv
<1> QED BY <1>1, <1>2, <1>3 DEF BootInv

\* Delivering the oldest event leaves the others in their order.
LEMMA Delivered ==
    ASSUME TypeOK, events # <<>>, events' = Tail(events)
    PROVE  /\ Head(events) = events[1] /\ events[1] \in EventSet /\ 1 \in 1..Len(events)
           /\ events' \in Seq(EventSet)
           /\ \A k \in 1..Len(events') : k + 1 \in 1..Len(events) /\ events'[k] = events[k + 1]
           /\ \A k \in 1..Len(events) : k # 1 => k - 1 \in 1..Len(events')
           /\ \A k \in 0..Len(events) : LastWord(k + 1) => LastWord(k)'
  BY DEF TypeOK, LastWord

\* The net_mgmt thread delivers an event.
LEMMA DeliverInv == BootInv /\ Deliver => BootInv'
<1> SUFFICES ASSUME BootInv, Deliver PROVE BootInv'
  OBVIOUS
<1> DEFINE e == events[1]
<1>1. callbacks /\ bootPc # "init"
  BY DEF BootInv, Quiet, Deliver
<1>2. /\ Head(events) = e /\ e \in EventSet /\ 1 \in 1..Len(events)
      /\ events' \in Seq(EventSet)
      /\ \A k \in 1..Len(events) : k # 1 => k - 1 \in 1..Len(events')
                                             /\ events'[k - 1] = events[k]
      /\ \A k \in 0..Len(events) : LastWord(k + 1) => LastWord(k)'
  BY Delivered DEF BootInv, Deliver
<1>3. e.kind \in {"connect", "disconnect", "ipv4"} /\ e.ok \in BOOLEAN
  BY <1>2 DEF EventSet
<1>4. UNCHANGED <<build, bootPc, callbacks, wifiRet, dhcpStarted, panel, link, address,
                  unicast, raised>>
  BY DEF Deliver
<1>5. /\ IF IsWifi THEN OnWifiConnectionEvent(e) ELSE UNCHANGED sem_wifi
      /\ OnIpv4Obtained(e)
      /\ attemptFailed' = IF e.kind = "connect" THEN ~e.ok ELSE attemptFailed
  BY <1>1, <1>2 DEF Deliver
<1>6. /\ sem_ipv4' = IF e.kind = "ipv4" THEN 1 ELSE sem_ipv4
      /\ IsWifi => sem_wifi' = IF IsUp(e) THEN 1
                               ELSE IF IsEnd(e) /\ e.ok THEN 0
                               ELSE sem_wifi
      /\ ~IsWifi => sem_wifi' = sem_wifi
  BY <1>5 DEF OnIpv4Obtained, OnWifiConnectionEvent, IsUp, IsEnd
<1> HIDE DEF e
<1>7. TypeOK'
  <2>1. attemptFailed' \in BOOLEAN /\ reasonGiven' \in BOOLEAN
    BY <1>3, <1>5 DEF BootInv, TypeOK, Deliver
  <2>2. sem_wifi' \in {0, 1} /\ sem_ipv4' \in {0, 1}
    BY <1>6 DEF BootInv, TypeOK
  <2> QED BY <1>2, <1>4, <2>1, <2>2 DEF BootInv, TypeOK
<1>8. Quiet'
  BY <1>1, <1>4 DEF BootInv, Quiet, IsWifi
<1>9. LinkAnnounced'
  <2> SUFFICES ASSUME IsWifi', bootPc' \in {"init", "connect", "dhcp", "waitWifi"}, link' = "up"
               PROVE  \/ sem_wifi' = 1 /\ LastWord(0)'
                      \/ \E k \in 1..Len(events') : IsUp(events'[k]) /\ LastWord(k)'
    BY DEF LinkAnnounced
  <2>0. IsWifi /\ Len(events) \in Nat
    BY <1>4 DEF IsWifi, BootInv, TypeOK
  <2>1. CASE sem_wifi = 1 /\ LastWord(0)
    <3>1. ~IsEnd(e) /\ LastWord(1)
      BY <1>2, <2>0, <2>1 DEF LastWord, e
    <3> QED BY <1>2, <1>6, <2>0, <2>1, <3>1
  <2>2. CASE \E k \in 1..Len(events) : IsUp(events[k]) /\ LastWord(k)
    <3>1. PICK k \in 1..Len(events) : IsUp(events[k]) /\ LastWord(k)
      BY <2>2
    <3>2. CASE k = 1
      BY <1>2, <1>6, <2>0, <3>1, <3>2 DEF e
    <3>3. CASE k # 1
      BY <1>2, <2>0, <3>1, <3>3
    <3> QED BY <3>2, <3>3
  <2> QED BY <1>4, <2>0, <2>1, <2>2 DEF BootInv, LinkAnnounced
<1>10. AddressAnnounced'
  <2>1. CASE e.kind = "ipv4"
    BY <1>6, <2>1 DEF AddressAnnounced
  <2>2. CASE e.kind # "ipv4"
    BY <1>2, <1>4, <1>6, <2>2 DEF BootInv, AddressAnnounced, Pending, e
  <2> QED BY <2>1, <2>2
<1> QED BY <1>7, <1>8, <1>9, <1>10 DEF BootInv

\* Raising an event puts it behind the others.
LEMMA Raised ==
    ASSUME TypeOK, NEW e \in EventSet, Raise(e)
    PROVE  /\ events' \in Seq(EventSet) /\ raised' \in 0..MaxEvents
           /\ Len(events') = Len(events) + 1 /\ Len(events) \in Nat
           /\ events'[Len(events) + 1] = e
           /\ \A k \in 1..Len(events) : k \in 1..Len(events') /\ events'[k] = events[k]
  BY NetAssumption DEF TypeOK, Raise

LEMMA EventsTyped ==
    \A k \in {"connect", "disconnect", "ipv4"}, ok \in BOOLEAN :
        /\ Event(k, ok) \in EventSet
        /\ Event(k, ok).kind = k /\ Event(k, ok).ok = ok
  BY DEF Event, EventSet

\* The network: before the callbacks are registered it can only plug a cable.
LEMMA NetworkInv == BootInv /\ Network => BootInv'
<1> SUFFICES ASSUME BootInv, Network PROVE BootInv'
  OBVIOUS
<1>0. /\ UNCHANGED <<build, bootPc, callbacks, sem_wifi, sem_ipv4, wifiRet, dhcpStarted,
                     panel, attemptFailed>>
      /\ reasonGiven' \in BOOLEAN
  BY DEF Network, ConnectResult, LoseLink, RestoreLink, DhcpBound, bootVars, history,
     BootInv, TypeOK
<1>1. CASE ConnectResult
  <2>1. PICK ok \in BOOLEAN : /\ link' = IF ok THEN "up" ELSE "down"
                              /\ Raise(Event("connect", ok))
    BY <1>1 DEF ConnectResult
  <2> DEFINE n == Len(events) + 1
  <2>2. /\ events' \in Seq(EventSet) /\ raised' \in 0..MaxEvents
        /\ Len(events') = n /\ Len(events) \in Nat
        /\ events'[n].kind = "connect" /\ events'[n].ok = ok
        /\ \A k \in 1..Len(events) : k \in 1..Len(events') /\ events'[k] = events[k]
    BY <2>1, Raised, EventsTyped DEF BootInv
  <2>3. callbacks /\ ~(IsWifi /\ bootPc \in {"init", "connect"})
    BY <1>1 DEF ConnectResult, BootInv, Quiet
  <2>4. UNCHANGED <<address, unicast>>
    BY <1>1 DEF ConnectResult
  <2>5. TypeOK' /\ Quiet'
    BY <1>0, <2>1, <2>2, <2>3, <2>4 DEF BootInv, TypeOK, Quiet, IsWifi
  <2>6. LinkAnnounced'
    BY <2>1, <2>2 DEF LinkAnnounced, LastWord, IsUp
  <2>7. AddressAnnounced'
    BY <1>0, <2>2, <2>4 DEF BootInv, AddressAnnounced, Pending
  <2> QED BY <2>5, <2>6, <2>7 DEF BootInv
<1>2. CASE LoseLink
  <2>1. /\ link' = "down" /\ address' = FALSE /\ unicast' = unicast
        /\ ~IsWifi => UNCHANGED <<events, raised>>
        /\ IsWifi => callbacks /\ bootPc \notin {"init", "connect"}
    BY <1>2 DEF LoseLink, BootInv, Quiet
  <2>2. events' \in Seq(EventSet) /\ raised' \in 0..MaxEvents
    <3>1. CASE IsWifi
      BY <1>2, <3>1, Raised, EventsTyped DEF LoseLink, BootInv
    <3>2. CASE ~IsWifi
      BY <2>1, <3>2 DEF BootInv, TypeOK
    <3> QED BY <3>1, <3>2
  <2>3. TypeOK' /\ Quiet'
    BY <1>0, <2>1, <2>2 DEF BootInv, TypeOK, Quiet, IsWifi
  <2> QED BY <2>1, <2>3 DEF BootInv, LinkAnnounced, AddressAnnounced
<1>3. CASE RestoreLink
  <2>1. /\ IF IsWifi THEN wifiRet = "ok" /\ link' = "connecting" ELSE link' = "up"
        /\ UNCHANGED <<address, unicast, events, raised>>
    BY <1>3 DEF RestoreLink
  <2>2. TypeOK' /\ Quiet' /\ LinkAnnounced'
    BY <1>0, <2>1 DEF BootInv, TypeOK, Quiet, LinkAnnounced, IsWifi
  <2>3. AddressAnnounced'
    BY <1>0, <2>1 DEF BootInv, AddressAnnounced, Pending
  <2> QED BY <2>2, <2>3 DEF BootInv
<1>4. CASE DhcpBound
  <2>1. /\ callbacks /\ link' = link /\ link = "up"
        /\ address' = TRUE /\ unicast' \in Addresses
        /\ Raise(Event("ipv4", TRUE))
    BY <1>4 DEF DhcpBound, BootInv, Quiet
  <2> DEFINE n == Len(events) + 1
  <2>2. /\ events' \in Seq(EventSet) /\ raised' \in 0..MaxEvents
        /\ Len(events') = n /\ Len(events) \in Nat
        /\ events'[n].kind = "ipv4"
        /\ \A k \in 1..Len(events) : k \in 1..Len(events') /\ events'[k] = events[k]
    BY <2>1, Raised, EventsTyped DEF BootInv
  <2>3. TypeOK' /\ Quiet'
    BY <1>0, <2>1, <2>2 DEF BootInv, TypeOK, Quiet, IsWifi
  <2>4. \A k : LastWord(k) => LastWord(k)'
    BY <2>2 DEF LastWord, IsEnd
  <2>5. LinkAnnounced'
    BY <1>0, <2>1, <2>2, <2>4 DEF BootInv, LinkAnnounced, IsWifi
  <2>6. AddressAnnounced'
    BY <2>2 DEF AddressAnnounced, Pending
  <2> QED BY <2>3, <2>5, <2>6 DEF BootInv
<1> QED BY <1>1, <1>2, <1>3, <1>4 DEF Network

LEMMA BootStepInv == BootInv /\ [Next]_vars => BootInv'
<1>1. BootInv /\ UNCHANGED vars => BootInv'
  BY DEF BootInv, TypeOK, Quiet, LinkAnnounced, AddressAnnounced, LastWord, IsUp, IsEnd,
     Pending, IsWifi, vars, bootVars, netVars, history
<1> QED BY <1>1, MainInv, DeliverInv, NetworkInv DEF Next

-----------------------------------------------------------------------------
(* The settings panel.                                                     *)

\* As long as unicast[0] is empty no event says otherwise, and main waits.
LeaseInv ==
    /\ unicast = NoAddress =>
         /\ sem_ipv4 = 0
         /\ bootPc \notin {"up", "gui"}
         /\ \A k \in 1..Len(events) : events[k].kind # "ipv4"
    /\ PanelShowsLease

LEMMA LeaseInit == Init => LeaseInv
  BY DEF Init, LeaseInv, PanelShowsLease

LEMMA LeaseMain == BootInv /\ LeaseInv /\ MainStep => LeaseInv'
<1> SUFFICES ASSUME BootInv, LeaseInv, MainStep PROVE LeaseInv'
  OBVIOUS
<1> USE DEF LeaseInv, PanelShowsLease, netVars
<1>1. CASE NetworkInit
  BY <1>1 DEF NetworkInit, AfterInit
<1>2. CASE RequestConnect
  BY <1>2 DEF RequestConnect
<1>3. CASE StartDhcp
  BY <1>3 DEF StartDhcp
<1>4. CASE WifiConnected
  BY <1>4 DEF WifiConnected
<1>5. CASE WaitForIpAddr
  BY <1>5 DEF WaitForIpAddr
<1>6. CASE InitGui
  BY <1>6 DEF InitGui, GetIpAddress, BootInv, TypeOK
<1> QED BY <1>1, <1>2, <1>3, <1>4, <1>5, <1>6 DEF MainStep

LEMMA LeaseDeliver == BootInv /\ LeaseInv /\ Deliver => LeaseInv'
<1> SUFFICES ASSUME BootInv, LeaseInv, Deliver PROVE LeaseInv'
  OBVIOUS
<1>1. /\ sem_ipv4' \in {sem_ipv4, IF events[1].kind = "ipv4" THEN 1 ELSE sem_ipv4}
      /\ UNCHANGED <<bootPc, unicast, panel>>
  BY Delivered DEF Deliver, OnIpv4Obtained, BootInv
<1>2. /\ 1 \in 1..Len(events)
      /\ \A k \in 1..Len(events') : k + 1 \in 1..Len(events) /\ events'[k] = events[k + 1]
  BY Delivered DEF Deliver, BootInv
<1> QED BY <1>1, <1>2 DEF LeaseInv, PanelShowsLease

LEMMA LeaseNetwork == BootInv /\ LeaseInv /\ Network => LeaseInv'
<1> SUFFICES ASSUME BootInv, LeaseInv, Network PROVE LeaseInv'
  OBVIOUS
<1>1. UNCHANGED <<bootPc, panel, sem_ipv4>>
  BY DEF Network, ConnectResult, LoseLink, RestoreLink, DhcpBound, bootVars
<1>2. CASE DhcpBound
  BY <1>1, <1>2, NetAssumption DEF DhcpBound, LeaseInv, PanelShowsLease
<1>3. CASE RestoreLink
  BY <1>1, <1>3 DEF RestoreLink, LeaseInv, PanelShowsLease
<1>4. CASE ConnectResult \/ LoseLink
  <2>1. unicast' = unicast
    BY <1>4 DEF ConnectResult, LoseLink
  <2>2. \/ events' = events
        \/ \E e \in EventSet : e.kind # "ipv4" /\ events' = Append(events, e)
    <3>1. CASE ConnectResult
      BY <3>1, EventsTyped DEF ConnectResult, Raise
    <3>2. CASE LoseLink
      BY <3>2, EventsTyped DEF LoseLink, Raise
    <3> QED BY <1>4, <3>1, <3>2
  <2>3. events \in Seq(EventSet)
    BY DEF BootInv, TypeOK
  <2>4. ASSUME unicast = NoAddress
        PROVE  \A k \in 1..Len(events') : events'[k].kind # "ipv4"
    <3>1. CASE events' = events
      BY <2>4, <3>1 DEF LeaseInv
    <3>2. CASE events' # events
      <4>1. PICK e \in EventSet : e.kind # "ipv4" /\ events' = Append(events, e)
        BY <2>2, <3>2
      <4> QED BY <2>3, <2>4, <4>1 DEF LeaseInv
    <3> QED BY <3>1, <3>2
  <2> QED BY <1>1, <2>1, <2>4 DEF LeaseInv, PanelShowsLease
<1> QED BY <1>2, <1>3, <1>4 DEF Network

LEMMA LeaseStep == BootInv /\ LeaseInv /\ [Next]_vars => LeaseInv'
<1>1. LeaseInv /\ UNCHANGED vars => LeaseInv'
  BY DEF LeaseInv, PanelShowsLease, vars, bootVars, netVars
<1> QED BY <1>1, LeaseMain, LeaseDeliver, LeaseNetwork DEF Next

-----------------------------------------------------------------------------
(* Stale wake-ups.                                                         *)

\* Every report of a connection is true or followed by that of its end, and the
\* ends are reported with status 0.
EndsReported ==
    /\ \A k \in 1..Len(events) : IsWifi /\ IsEnd(events[k]) => events[k].ok
    /\ \A k \in 1..Len(events) : IsWifi /\ IsUp(events[k]) => link = "up" \/ ~LastWord(k)
    /\ IsWifi /\ sem_wifi = 1 => link = "up" \/ ~LastWord(0)

EndAnnounced == ~reasonGiven => EndsReported

LEMMA EndInit == Init => EndAnnounced
  BY DEF Init, EndAnnounced, EndsReported

LEMMA EndMain == BootInv /\ EndsReported /\ MainStep => EndsReported'
<1> SUFFICES ASSUME BootInv, EndsReported, MainStep PROVE EndsReported'
  OBVIOUS
<1>1. /\ UNCHANGED <<build, events>>
      /\ sem_wifi' = 1 => sem_wifi = 1
      /\ IsWifi /\ link = "up" => link' = "up"
  BY DEF MainStep, NetworkInit, RequestConnect, StartDhcp, WifiConnected, WaitForIpAddr,
     InitGui, netVars, BootInv, Quiet
<1>2. \A k : LastWord(k)' <=> LastWord(k)
  BY <1>1 DEF LastWord, IsEnd
<1> QED BY <1>1, <1>2 DEF EndsReported, IsWifi, IsUp, IsEnd

LEMMA EndDeliver == BootInv /\ EndsReported /\ Deliver => EndsReported'
<1> SUFFICES ASSUME BootInv, EndsReported, Deliver PROVE EndsReported'
  OBVIOUS
<1>0. IsWifi' <=> IsWifi
  BY DEF Deliver, IsWifi
<1> SUFFICES ASSUME IsWifi PROVE EndsReported'
  BY <1>0 DEF EndsReported
<1>1. /\ UNCHANGED <<build, link>> /\ events' = Tail(events) /\ events # <<>>
      /\ OnWifiConnectionEvent(Head(events))
  BY DEF Deliver, BootInv, Quiet
<1>2. /\ Head(events) = events[1] /\ 1 \in 1..Len(events) /\ events \in Seq(EventSet)
      /\ \A k \in 1..Len(events') : k + 1 \in 1..Len(events) /\ events'[k] = events[k + 1]
      /\ \A k \in 1..Len(events) : k # 1 => k - 1 \in 1..Len(events')
                                             /\ events'[k - 1] = events[k]
  BY <1>1, Delivered DEF BootInv, TypeOK
<1>3. sem_wifi' = IF IsUp(events[1]) THEN 1
                  ELSE IF IsEnd(events[1]) /\ events[1].ok THEN 0 ELSE sem_wifi
  BY <1>1, <1>2 DEF OnWifiConnectionEvent, IsUp, IsEnd
<1>4. ASSUME NEW k \in 0..Len(events), ~LastWord(k + 1) PROVE ~LastWord(k)'
  <2>1. PICK j \in 1..Len(events) : j > k + 1 /\ IsEnd(events[j])
    BY <1>4 DEF LastWord
  <2>2. j - 1 \in 1..Len(events') /\ events'[j - 1] = events[j] /\ j - 1 > k
    BY <1>2, <2>1
  <2> QED BY <2>1, <2>2 DEF LastWord, IsEnd
<1>5. /\ \A k \in 1..Len(events') : IsEnd(events'[k]) => events'[k].ok
      /\ \A k \in 1..Len(events') : IsUp(events'[k]) => link = "up" \/ ~LastWord(k)'
  BY <1>2, <1>4 DEF EndsReported
<1>6. sem_wifi' = 1 => link = "up" \/ ~LastWord(0)'
  <2>1. CASE IsUp(events[1])
    BY <1>2, <1>4, <2>1 DEF EndsReported
  <2>2. CASE ~IsUp(events[1])
    <3>1. ASSUME sem_wifi' = 1, link # "up" PROVE ~LastWord(1)
      <4>1. ~IsEnd(events[1]) /\ sem_wifi = 1
        BY <1>2, <1>3, <2>2, <3>1 DEF EndsReported
      <4>2. PICK j \in 1..Len(events) : j > 0 /\ IsEnd(events[j])
        BY <3>1, <4>1 DEF EndsReported, LastWord
      <4>3. j # 1
        BY <4>1, <4>2
      <4> QED BY <4>2, <4>3 DEF LastWord
    <3> QED BY <1>2, <1>4, <3>1
  <2> QED BY <2>1, <2>2
<1> QED BY <1>0, <1>1, <1>5, <1>6 DEF EndsReported, IsUp, IsEnd

LEMMA EndNetwork ==
    ASSUME BootInv, EndsReported, Network, ~reasonGiven'
    PROVE  EndsReported'
<1>0. UNCHANGED <<build, sem_wifi>>
  BY DEF Network, ConnectResult, LoseLink, RestoreLink, DhcpBound, bootVars
<1> SUFFICES ASSUME IsWifi PROVE EndsReported'
  BY <1>0 DEF EndsReported, IsWifi
<1>1. CASE RestoreLink
  BY <1>0, <1>1 DEF RestoreLink, EndsReported, LastWord, IsEnd, IsUp
<1>2. CASE ConnectResult \/ LoseLink \/ DhcpBound
  <2>1. PICK e \in EventSet :
          /\ Raise(e)
          /\ IsEnd(e) => e.ok
          /\ IsUp(e) => link' = "up"
          /\ link = "up" => link' = "up" \/ IsEnd(e)
    <3>1. CASE ConnectResult
      <4>1. PICK ok \in BOOLEAN : /\ link' = IF ok THEN "up" ELSE "down"
                                  /\ Raise(Event("connect", ok))
        BY <3>1 DEF ConnectResult
      <4> QED BY <3>1, <4>1, EventsTyped DEF ConnectResult, IsEnd, IsUp
    <3>2. CASE LoseLink
      <4>1. Raise(Event("disconnect", TRUE))
        BY <3>2, EventsTyped DEF LoseLink
      <4> QED BY <4>1, EventsTyped DEF IsEnd, IsUp
    <3>3. CASE DhcpBound
      BY <3>3, EventsTyped DEF DhcpBound, IsEnd, IsUp
    <3> QED BY <1>2, <3>1, <3>2, <3>3
  <2>2. /\ Len(events') = Len(events) + 1 /\ Len(events) \in Nat
        /\ events'[Len(events) + 1] = e
        /\ \A k \in 1..Len(events) : k \in 1..Len(events') /\ events'[k] = events[k]
    BY <2>1, Raised DEF BootInv
  <2>3. ASSUME NEW k \in 0..Len(events), link = "up" \/ ~LastWord(k)
        PROVE  link' = "up" \/ ~LastWord(k)'
    <3>1. CASE ~LastWord(k)
      BY <2>2, <3>1 DEF LastWord, IsEnd
    <3>2. CASE link = "up"
      BY <2>1, <2>2, <3>2 DEF LastWord
    <3> QED BY <2>3, <3>1, <3>2
  <2>4. \A k \in 1..Len(events') : k \in 1..Len(events) \/ k = Len(events) + 1
    BY <2>2
  <2> QED BY <1>0, <2>1, <2>2, <2>3, <2>4 DEF EndsReported
<1> QED BY <1>1, <1>2 DEF Network

LEMMA EndStep == BootInv /\ EndAnnounced /\ [Next]_vars => EndAnnounced'
<1> SUFFICES ASSUME BootInv, EndAnnounced, [Next]_vars, ~reasonGiven' PROVE EndsReported'
  BY DEF EndAnnounced
<1>1. ~reasonGiven
  BY DEF Next, MainStep, NetworkInit, RequestConnect, StartDhcp, WifiConnected, WaitForIpAddr,
     InitGui, Deliver, Network, ConnectResult, LoseLink, RestoreLink, DhcpBound, history, vars
<1>2. EndsReported
  BY <1>1 DEF EndAnnounced
<1>3. CASE UNCHANGED vars
  BY <1>2, <1>3 DEF EndsReported, LastWord, IsUp, IsEnd, IsWifi, vars, bootVars, netVars
<1> QED BY <1>2, <1>3, EndMain, EndDeliver, EndNetwork DEF Next

-----------------------------------------------------------------------------
(* The theorems.                                                           *)

\* The inductive invariant of the network start.
THEOREM BootInvariant == Spec => []BootInv
  BY BootInitInv, BootStepInv, PTL DEF Spec

\* Every variable keeps its type; in particular both semaphores stay binary.
THEOREM BootTypeCorrect == Spec => []TypeOK
<1>1. BootInv => TypeOK
  BY DEF BootInv
<1> QED BY <1>1, BootInvariant, PTL

\* No wake-up of main is lost: a link that is up and an address that is there have
\* given their semaphores, or the event that does is on its way, in whatever order
\* the network, the net_mgmt thread and main take their steps.
THEOREM BootWakeUpsArrive == Spec => []WakeUpsArrive
<1>1. BootInv => WakeUpsArrive
  BY DEF BootInv, LinkAnnounced, AddressAnnounced, WakeUpsArrive, Pending, IsUp
<1> QED BY <1>1, BootInvariant, PTL

\* As long as no lost link was reported with a reason, sem_wifi never outlives the
\* connection it was given for, unless its end is still to be delivered.
THEOREM BootNoStaleWakeUp == Spec => []NoStaleWakeUp
<1>1. EndAnnounced => NoStaleWakeUp
  BY DEF EndAnnounced, EndsReported, NoStaleWakeUp, LastWord, Pending, IsEnd
<1> QED BY <1>1, EndStep, EndInit, BootInvariant, PTL DEF Spec

\* Nothing is raised before network_init has registered the callbacks.
THEOREM BootNoEventBeforeCallbacks == Spec => []NoEventBeforeCallbacks
<1>1. BootInv => NoEventBeforeCallbacks
  BY DEF BootInv, Quiet, NoEventBeforeCallbacks
<1> QED BY <1>1, BootInvariant, PTL

\* The settings panel, which is printed once and without a look at whether the
\* interface has an address, never shows 0.0.0.0.
THEOREM BootPanelShowsLease == Spec => []PanelShowsLease
<1>1. LeaseInv => PanelShowsLease
  BY DEF LeaseInv
<1> QED BY <1>1, LeaseInit, LeaseStep, BootInvariant, PTL DEF Spec
=============================================================================
