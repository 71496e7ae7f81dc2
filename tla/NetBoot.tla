------------------------------ MODULE NetBoot ------------------------------
(***************************************************************************)
(* How each application gets on the network (config_network.c and the      *)
(* first lines of each main): callbacks run by the net_mgmt thread give    *)
(* two binary semaphores, on which main waits without a timeout.  One      *)
(* module for the three builds, which share that file:                     *)
(*   "hub"           network_init, network_connect, wait_for_ip_addr       *)
(*   "wifiNode"      network_init, wifi_connect, wait_for_ip_addr          *)
(*   "ethernetNode"  a node without CONFIG_WIFI: network_init,             *)
(*                   wait_for_ip_addr                                      *)
(* The WiFi driver, the link, the DHCP client and the queue of net_mgmt    *)
(* events are Zephyr's: they are modelled from how this code uses them.    *)
(***************************************************************************)
EXTENDS Naturals, Sequences

CONSTANTS Builds,      \* the builds to start
          MaxEvents,   \* bound: events the network may raise
          Addresses,   \* addresses the DHCP server gives
          NoAddress    \* 0.0.0.0

ASSUME NetAssumption ==
    /\ Builds \subseteq {"hub", "wifiNode", "ethernetNode"}
    /\ MaxEvents \in Nat
    /\ NoAddress \notin Addresses

VARIABLES
    build,       \* which application this is
    bootPc,      \* where main is
    callbacks,   \* the callbacks are registered
    sem_wifi,    \* counts of the two semaphores
    sem_ipv4,
    wifiRet,     \* what the connect request of wifi_connect returned
    dhcpStarted,
    link,        \* state of the interface
    address,     \* the interface has an IPv4 address
    unicast,     \* unicast[0] of the interface, which stays when the address goes
    panel,       \* the address on the settings panel of the hub
    events,      \* events raised and not yet delivered, oldest first
    raised,      \* how many were raised so far
    attemptFailed, \* history: the last connection attempt heard of had failed
    reasonGiven    \* history: a lost link was reported with a reason, which is a
                   \* status other than 0

bootVars == <<build, bootPc, callbacks, sem_wifi, sem_ipv4, wifiRet, dhcpStarted, panel>>
netVars  == <<link, address, unicast, events, raised>>
history  == <<attemptFailed, reasonGiven>>
vars     == <<bootVars, netVars, history>>

Event(kind, ok) == [kind |-> kind, ok |-> ok]
EventSet == [kind : {"connect", "disconnect", "ipv4"}, ok : BOOLEAN]

TypeOK ==
    /\ build \in Builds
    /\ bootPc \in {"init", "connect", "dhcp", "waitWifi", "waitIp", "up", "gui",
                   "failed"}
    /\ callbacks \in BOOLEAN
    /\ sem_wifi \in {0, 1} /\ sem_ipv4 \in {0, 1}
    /\ wifiRet \in {"none", "ok", "error"}
    /\ dhcpStarted \in BOOLEAN
    /\ link \in {"down", "connecting", "up"}
    /\ address \in BOOLEAN
    /\ unicast \in Addresses \union {NoAddress}
    /\ panel \in Addresses \union {NoAddress}
    /\ events \in Seq(EventSet)
    /\ raised \in 0..MaxEvents
    /\ attemptFailed \in BOOLEAN /\ reasonGiven \in BOOLEAN

IsWifi == build = "wifiNode"

Init ==
    /\ build \in Builds
    /\ bootPc = "init" /\ callbacks = FALSE
    /\ sem_wifi = 0 /\ sem_ipv4 = 0
    /\ wifiRet = "none" /\ dhcpStarted = FALSE
    /\ link \in IF build = "wifiNode" THEN {"down"} ELSE {"down", "up"}
    /\ address = FALSE /\ unicast = NoAddress /\ panel = NoAddress
    /\ events = <<>> /\ raised = 0
    /\ attemptFailed = FALSE /\ reasonGiven = FALSE

-----------------------------------------------------------------------------
(* main.                                                                   *)

AfterInit == IF IsWifi THEN "connect" ELSE IF build = "hub" THEN "dhcp" ELSE "waitIp"

\* A slip: the callbacks are prepared but not added.
NetworkInitUnregistered ==
    /\ bootPc = "init"
    /\ bootPc' = AfterInit
    /\ UNCHANGED <<build, callbacks, sem_wifi, sem_ipv4, wifiRet, dhcpStarted, netVars,
                   history, panel>>

NetworkInit ==
    /\ bootPc = "init"
    /\ callbacks' = TRUE
    /\ bootPc' = AfterInit
    /\ UNCHANGED <<build, sem_wifi, sem_ipv4, wifiRet, dhcpStarted, netVars, history, panel>>

\* wifi_connect: the request is accepted, or refused at once.
RequestConnect ==
    /\ bootPc = "connect"
    /\ \/ wifiRet' = "ok" /\ link' = "connecting"
       \/ wifiRet' = "error" /\ UNCHANGED link
    /\ bootPc' = "dhcp"
    /\ UNCHANGED <<build, callbacks, sem_wifi, sem_ipv4, dhcpStarted, address, unicast,
                   events, raised, history, panel>>

\* net_dhcpv4_start, in wifi_connect and in network_connect.
StartDhcp ==
    /\ bootPc = "dhcp"
    /\ dhcpStarted' = TRUE
    /\ bootPc' = IF IsWifi THEN "waitWifi" ELSE "waitIp"
    /\ UNCHANGED <<build, callbacks, sem_wifi, sem_ipv4, wifiRet, netVars, history, panel>>

\* wifi_connect gets its semaphore and returns; main gives up on an error.  At
\* "waitWifi" main is about to call k_sem_take or waits in it; a main that waits is
\* handed the semaphore at once, which is Deliver with this step right after it.
WifiConnected ==
    /\ bootPc = "waitWifi"
    /\ sem_wifi = 1
    /\ sem_wifi' = 0
    /\ bootPc' = IF wifiRet = "error" THEN "failed" ELSE "waitIp"
    /\ UNCHANGED <<build, callbacks, sem_ipv4, wifiRet, dhcpStarted, netVars, history, panel>>

\* A slip: the wait for the address has a timeout.
WaitForIpAddrTimesOut ==
    /\ bootPc = "waitIp"
    /\ sem_ipv4' = 0
    /\ bootPc' = "up"
    /\ UNCHANGED <<build, callbacks, sem_wifi, wifiRet, dhcpStarted, netVars, history, panel>>

WaitForIpAddr ==
    /\ bootPc = "waitIp"
    /\ sem_ipv4 = 1
    /\ sem_ipv4' = 0
    /\ bootPc' = "up"
    /\ UNCHANGED <<build, callbacks, sem_wifi, wifiRet, dhcpStarted, netVars, history, panel>>

\* get_ip_address: what is in unicast[0], used or not.
GetIpAddress == unicast

\* init_gui of the hub: create_settings_network_panel, which is never repeated.
InitGui ==
    /\ bootPc = "up"
    /\ build = "hub"
    /\ panel' = GetIpAddress
    /\ bootPc' = "gui"
    /\ UNCHANGED <<build, callbacks, sem_wifi, sem_ipv4, wifiRet, dhcpStarted, netVars,
                   history>>

-----------------------------------------------------------------------------
(* The net_mgmt thread: it delivers one event to the registered callbacks. *)

\* A slip: sem_wifi is a counting semaphore.
OnWifiConnectionCounted(e) ==
    sem_wifi' = IF e.kind = "connect" /\ e.ok THEN sem_wifi + 1
                ELSE IF e.kind = "disconnect" /\ e.ok THEN 0
                ELSE sem_wifi

\* A slip: the test of the status is the wrong way round.
OnWifiConnectionInverted(e) ==
    sem_wifi' = IF e.kind = "connect" /\ ~e.ok THEN 1
                ELSE IF e.kind = "disconnect" /\ e.ok THEN 0
                ELSE sem_wifi

\* A slip: a disconnection does not take the semaphore back.
OnWifiConnectionKept(e) ==
    sem_wifi' = IF e.kind = "connect" /\ e.ok THEN 1 ELSE sem_wifi

\* on_wifi_connection_event: what it leaves in sem_wifi.  A disconnection with a
\* status is taken for a request to disconnect that failed.
OnWifiConnectionEvent(e) ==
    sem_wifi' = IF e.kind = "connect" /\ e.ok THEN 1
                ELSE IF e.kind = "disconnect" /\ e.ok THEN 0
                ELSE sem_wifi

\* A slip: the callback takes the end of the connection for the address.
OnIpv4ObtainedWrong(e) == sem_ipv4' = IF e.kind = "connect" THEN 1 ELSE sem_ipv4

\* on_ipv4_obtained.
OnIpv4Obtained(e) == sem_ipv4' = IF e.kind = "ipv4" THEN 1 ELSE sem_ipv4

Deliver ==
    /\ events # <<>>
    /\ events' = Tail(events)
    /\ LET e == Head(events)
       IN  /\ IF callbacks /\ IsWifi THEN OnWifiConnectionEvent(e) ELSE UNCHANGED sem_wifi
           /\ IF callbacks THEN OnIpv4Obtained(e) ELSE UNCHANGED sem_ipv4
           /\ attemptFailed' = IF e.kind = "connect" THEN ~e.ok ELSE attemptFailed
    /\ UNCHANGED <<build, bootPc, callbacks, wifiRet, dhcpStarted, panel, link, address,
                   unicast, raised, reasonGiven>>

-----------------------------------------------------------------------------
(* The network.                                                            *)

Raise(e) == /\ raised < MaxEvents
            /\ events' = Append(events, e)
            /\ raised' = raised + 1

\* The access point answers a pending connection attempt.
ConnectResult ==
    /\ link = "connecting"
    /\ \E ok \in BOOLEAN : /\ link' = IF ok THEN "up" ELSE "down"
                           /\ Raise(Event("connect", ok))
    /\ UNCHANGED <<bootVars, history, address, unicast>>

\* The link goes down, and nobody has asked for it: wifi_disconnect is called by
\* nobody.  A WiFi driver reports it, with status 0 or with a reason.
LoseLink ==
    /\ link = "up"
    /\ link' = "down"
    /\ address' = FALSE
    /\ IF IsWifi
       THEN \E ok \in BOOLEAN : /\ Raise(Event("disconnect", ok))
                               /\ reasonGiven' = (reasonGiven \/ ~ok)
       ELSE UNCHANGED <<events, raised, reasonGiven>>
    /\ UNCHANGED <<bootVars, attemptFailed, unicast>>

\* The driver tries again, or the cable is plugged in.
RestoreLink ==
    /\ link = "down"
    /\ IF IsWifi THEN wifiRet = "ok" /\ link' = "connecting" ELSE link' = "up"
    /\ UNCHANGED <<bootVars, history, address, unicast, events, raised>>

DhcpBound ==
    /\ dhcpStarted
    /\ link = "up"
    /\ ~address
    /\ address' = TRUE
    /\ unicast' \in Addresses
    /\ Raise(Event("ipv4", TRUE))
    /\ UNCHANGED <<bootVars, history, link>>

MainStep == \/ NetworkInit \/ RequestConnect \/ StartDhcp
            \/ WifiConnected \/ WaitForIpAddr \/ InitGui
Network  == ConnectResult \/ LoseLink \/ RestoreLink \/ DhcpBound

Next == MainStep \/ Deliver \/ Network

Spec == Init /\ [][Next]_vars

\* main and the net_mgmt thread run; nothing is promised of the network but
\* that a DHCP server answers a link that stays up.
FairSpec == Spec /\ WF_vars(MainStep) /\ WF_vars(Deliver) /\ WF_vars(DhcpBound)

-----------------------------------------------------------------------------
(* Safety.                                                                 *)

Pending(kind) == \E k \in 1..Len(events) : events[k].kind = kind

\* No wake-up is lost: as long as main has still to take a semaphore, a link that
\* is up and an address that is there have given it, or the net_mgmt thread has
\* still to deliver the event that does; also when an earlier connection was
\* undone meanwhile, and whatever main has reached.
WakeUpsArrive ==
    /\ IsWifi /\ bootPc \in {"init", "connect", "dhcp", "waitWifi"} /\ link = "up" =>
         sem_wifi = 1 \/ Pending("connect")
    /\ bootPc \notin {"up", "gui"} /\ address => sem_ipv4 = 1 \/ Pending("ipv4")

\* No wake-up outlives its connection, unless a lost link was ever reported with
\* a reason, which the callback takes for something else: a semaphore that is
\* given stands for a link that is up, or for one whose end the net_mgmt thread
\* has still to deliver.
NoStaleWakeUp ==
    IsWifi /\ ~reasonGiven /\ sem_wifi = 1 => link = "up" \/ Pending("disconnect")

\* No event is delivered to nobody: what main waits for can only happen after
\* it has registered its callbacks.
NoEventBeforeCallbacks == ~callbacks => events = <<>>

\* The settings panel shows an address that the interface was given, although
\* it reads it without looking whether there is one, and only once: main has
\* waited for an address before it calls init_gui.
PanelShowsLease == bootPc = "gui" => panel \in Addresses

-----------------------------------------------------------------------------
(* Liveness.                                                               *)

\* When the network settles, main gets through: an interface that keeps its
\* address leaves nobody waiting.
AddressEndsBoot == <>[]address => <>(bootPc = "up")

-----------------------------------------------------------------------------
(* What the repository's documents say.                                    *)

\* wifi_connect: "@return 0 on success, negative on error"
\* (apps/hub/src/config_network.c:194): a connection that failed ends the call.
WifiConnectReturns ==
    bootPc = "waitWifi" /\ (wifiRet = "error" \/ attemptFailed)
        ~> bootPc # "waitWifi"

\* The same sentence: when wifi_connect returns 0 the node is connected, as far as
\* the net_mgmt thread can have told it.
WifiConnectSucceeds ==
    [][WifiConnected /\ wifiRet = "ok" => link = "up" \/ Pending("disconnect")]_vars

\* "The node supports both WiFi and Ethernet connections with automatic IP
\* address configuration via DHCP" (apps/nodes/wifi_based_node/README.md:5): a
\* node with a cable that stays plugged in gets its address.
CableEndsBoot == <>[](link = "up") => <>(bootPc = "up")
=============================================================================
