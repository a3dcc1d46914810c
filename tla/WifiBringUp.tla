----------------------------- MODULE WifiBringUp ------------------------------
(***************************************************************************)
(* The start of the control task: wait_for_wifi_exec() walks devState from *)
(* STATE_NEW to STATE_OTA_COMPLETE and then runs ex_main().  event_cb(),   *)
(* called by the event task, writes the same volatile state and flags.     *)
(* Both test devState and store into it in separate steps.                 *)
(***************************************************************************)
EXTENDS Integers, Sequences

CONSTANT MaxEvents  \* events that may wait for the event task

ASSUME EventsAssumption == MaxEvents \in Nat \ {0}

VARIABLES
    devState, gotIpAddr, gotIp6Addr,
    ctlAt,    \* where the control task is,
    ctlSaw,   \* and the devState its switch statement found
    evtAt,    \* where the event task is: between events, or about to store
    evtPuts,  \* the devState that event_cb() is about to store
    queue,    \* events not yet delivered
    linked,   \* the station is associated,
    address,  \* and has an address
    met       \* History: event_cb() has seen WIFI_EVENT_STA_CONNECTED

flags == <<gotIpAddr, gotIp6Addr>>
ctlState == <<ctlAt, ctlSaw>>
evtState == <<evtAt, evtPuts, met>>
network == <<queue, linked, address>>
wifiVars == <<devState, flags, ctlState, evtState, network>>

(* devState_t                                                              *)
STATE_NEW == 0
STATE_PHY_CONNECTED == 1
STATE_WAIT_IPADDR == 2
STATE_GOT_IPADDR == 3
STATE_OTA_UPDATING == 4
STATE_OTA_COMPLETE == 5

Events == {"connected", "disconnected", "ip4", "ip6", "lostIp"}

WifiTypeOK ==
    /\ devState \in STATE_NEW .. STATE_OTA_COMPLETE
    /\ gotIpAddr \in BOOLEAN /\ gotIp6Addr \in BOOLEAN
    /\ ctlAt \in {"join", "begin", "look", "act", "check", "expired", "exec"}
    /\ ctlSaw \in STATE_NEW .. STATE_OTA_COMPLETE
    /\ evtAt \in {"idle", "store", "storeRejoin", "rejoin"}
    /\ evtPuts \in {STATE_NEW, STATE_PHY_CONNECTED}
    /\ queue \in Seq(Events) /\ Len(queue) <= MaxEvents
    /\ linked \in BOOLEAN /\ address \in BOOLEAN
    /\ met \in BOOLEAN

(* setup() has registered event_cb() and started the control task.         *)
WifiInit ==
    /\ devState = STATE_NEW /\ gotIpAddr = FALSE /\ gotIp6Addr = FALSE
    /\ ctlAt = "join" /\ ctlSaw = STATE_NEW
    /\ evtAt = "idle" /\ evtPuts = STATE_NEW /\ met = FALSE
    /\ queue = <<>> /\ linked = FALSE /\ address = FALSE

-----------------------------------------------------------------------------
(* wifiMulti.run() returns, connected or not.                              *)
Join ==
    /\ ctlAt = "join"
    /\ ctlAt' = "begin"
    /\ UNCHANGED <<devState, flags, ctlSaw, evtState, network>>

(* wait_for_wifi_exec() begins by clearing the flags: an address that the  *)
(* event task has already reported is forgotten.                           *)
Begin ==
    /\ ctlAt = "begin"
    /\ gotIpAddr' = FALSE /\ gotIp6Addr' = FALSE
    /\ ctlAt' = "look"
    /\ UNCHANGED <<devState, ctlSaw, evtState, network>>

(* switch (devState); a delay in STATE_NEW.                                *)
Look ==
    /\ ctlAt = "look"
    /\ ctlSaw' = devState
    /\ ctlAt' = IF devState = STATE_NEW THEN "look"
                ELSE IF devState = STATE_OTA_COMPLETE THEN "exec" ELSE "act"
    /\ UNCHANGED <<devState, flags, evtState, network>>

(* Faulty variant: STATE_WAIT_IPADDR is left only with an IPv6 address.    *)
ActAwaitsAddress ==
    /\ ctlAt = "act"
    /\ devState' = IF ctlSaw = STATE_WAIT_IPADDR THEN devState ELSE ctlSaw + 1
    /\ ctlAt' = IF ctlSaw = STATE_WAIT_IPADDR THEN "check" ELSE "look"
    /\ UNCHANGED <<flags, ctlSaw, evtState, network>>

(* Each case stores the next state, whatever devState is by now;           *)
(* STATE_WAIT_IPADDR does so before it looks at the flags.                 *)
Act ==
    /\ ctlAt = "act"
    /\ devState' = ctlSaw + 1
    /\ ctlAt' = IF ctlSaw = STATE_WAIT_IPADDR THEN "check" ELSE "look"
    /\ UNCHANGED <<flags, ctlSaw, evtState, network>>

(* if (gotIp6Addr) ... else: a delay, or the tick counter says that the    *)
(* time is over (it wraps, so it may say so early).                        *)
CheckAddress ==
    /\ ctlAt = "check"
    /\ \/ gotIp6Addr /\ devState' = STATE_GOT_IPADDR /\ ctlAt' = "look"
       \/ ~gotIp6Addr /\ ctlAt' \in {"look", "expired"} /\ UNCHANGED devState
    /\ UNCHANGED <<flags, ctlSaw, evtState, network>>

(* "Timeout waiting for all IP addresses"                                  *)
Expire ==
    /\ ctlAt = "expired"
    /\ devState' = IF gotIpAddr \/ gotIp6Addr THEN STATE_GOT_IPADDR ELSE STATE_NEW
    /\ ctlAt' = "look"
    /\ UNCHANGED <<flags, ctlSaw, evtState, network>>

BringUp == Join \/ Begin \/ Look \/ Act \/ CheckAddress \/ Expire

-----------------------------------------------------------------------------
Consume == queue' = Tail(queue) /\ UNCHANGED <<linked, address>>

(* WIFI_EVENT_STA_CONNECTED: if (devState < STATE_PHY_CONNECTED) ...       *)
OnConnected ==
    /\ evtAt = "idle" /\ queue # <<>> /\ Head(queue) = "connected"
    /\ Consume
    /\ met' = TRUE
    /\ evtAt' = IF devState < STATE_PHY_CONNECTED THEN "store" ELSE "idle"
    /\ evtPuts' = STATE_PHY_CONNECTED
    /\ UNCHANGED <<devState, flags, ctlState>>

(* Faulty variant: the state of the branch above.                          *)
OnDisconnectedCopied ==
    /\ evtAt = "idle" /\ queue # <<>> /\ Head(queue) = "disconnected"
    /\ Consume
    /\ evtAt' = IF devState < STATE_WAIT_IPADDR THEN "storeRejoin" ELSE "rejoin"
    /\ evtPuts' = STATE_PHY_CONNECTED
    /\ UNCHANGED <<devState, flags, ctlState, met>>

(* WIFI_EVENT_STA_DISCONNECTED: if (devState < STATE_WAIT_IPADDR) ...      *)
OnDisconnected ==
    /\ evtAt = "idle" /\ queue # <<>> /\ Head(queue) = "disconnected"
    /\ Consume
    /\ evtAt' = IF devState < STATE_WAIT_IPADDR THEN "storeRejoin" ELSE "rejoin"
    /\ evtPuts' = STATE_NEW
    /\ UNCHANGED <<devState, flags, ctlState, met>>

Store ==
    /\ evtAt \in {"store", "storeRejoin"}
    /\ devState' = evtPuts
    /\ evtAt' = IF evtAt = "store" THEN "idle" ELSE "rejoin"
    /\ UNCHANGED <<flags, ctlState, evtPuts, met, network>>

(* Faulty variant: the callback returns only with an association.          *)
RejoinUntilLinked ==
    /\ evtAt = "rejoin" /\ linked
    /\ evtAt' = "idle"
    /\ UNCHANGED <<devState, flags, ctlState, evtPuts, met, network>>

(* wifiMulti.run(), inside the callback: no event is handled meanwhile.    *)
Rejoin ==
    /\ evtAt = "rejoin"
    /\ evtAt' = "idle"
    /\ UNCHANGED <<devState, flags, ctlState, evtPuts, met, network>>

(* IP_EVENT_STA_GOT_IP, IP_EVENT_GOT_IP6, IP_EVENT_STA_LOST_IP; a          *)
(* link-local IPv6 address changes nothing and is not among the events.    *)
OnAddress ==
    /\ evtAt = "idle" /\ queue # <<>> /\ Head(queue) \in {"ip4", "ip6", "lostIp"}
    /\ Consume
    /\ gotIpAddr' = (gotIpAddr \/ Head(queue) = "ip4")
    /\ gotIp6Addr' = (gotIp6Addr \/ Head(queue) = "ip6")
    /\ UNCHANGED <<devState, ctlState, evtState>>

EventTask == OnConnected \/ OnDisconnected \/ Store \/ Rejoin \/ OnAddress

-----------------------------------------------------------------------------
(* The network: associations, addresses and their loss, each reported by   *)
(* an event.  A failed attempt to associate also reports "disconnected".   *)
Report(event) == Len(queue) < MaxEvents /\ queue' = Append(queue, event)

Network ==
    /\ \/ ~linked /\ linked' = TRUE /\ UNCHANGED address /\ Report("connected")
       \/ linked' = FALSE /\ address' = FALSE /\ Report("disconnected")
       \/ /\ linked /\ UNCHANGED linked
          /\ \/ ~address /\ address' = TRUE /\ Report("ip4")
             \/ address /\ UNCHANGED address /\ Report("ip6")
             \/ address /\ address' = FALSE /\ Report("lostIp")
    /\ UNCHANGED <<devState, flags, ctlState, evtState>>
===============================================================================
