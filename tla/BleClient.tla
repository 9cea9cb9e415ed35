-------------------------------- MODULE BleClient --------------------------------
(***************************************************************************)
(* The GATT client of bluedroid/ble_client1p.c with the scanning of        *)
(* btcomm.c: it lists the devices it hears, opens one, looks for the       *)
(* service and asks for its notifications.  The peer is external.          *)
(***************************************************************************)
EXTENDS Bluetooth

CONSTANTS Devices,     \* that can be heard
          Servers,     \* those of them with the service 0x8e00
          MaxDevices,  \* MAX_BLE_DEVICES
          ScanInConnection   \* bound: may a scan be started in a connection?

NoDevice == "none"
ASSUME ClientConstants ==
  /\ Servers \subseteq Devices /\ NoDevice \notin Devices
  /\ MaxDevices \in Nat \ {0} /\ ScanInConnection \in BOOLEAN

VARIABLES
  cli,     \* the variables of ble_client1p.c and the scan list
  air      \* the stack: scans, connected device, requests, the peer's setting

FreshClient ==
  [connected |-> FALSE,     \* conn_id and handles: of the last link, used unchecked
   ble_dev |-> [i \in 1..MaxDevices |-> NoDevice], n_scan_results |-> 0]
Requests == {"discovery", "mtu", "search", "register", "descr"}
Nothing == [r \in Requests |-> 0]     \* requests without an answer yet
FreshAir == [scanning |-> FALSE, device |-> NoDevice, asked |-> Nothing, cccd |-> FALSE]

client == <<cli, air>>
radio == <<build, stack, link>>

Listed(c) == {c.ble_dev[i] : i \in 1..c.n_scan_results}

-------------------------------------------------------------------------------
(* Scanning.                                                                *)

\* "bt scan": the parameters first; their answer starts the scan.
StartScan ==
  /\ app = Idle /\ stack = "on" /\ (link = 0 \/ ScanInConnection)
  /\ Room(gap) /\ gap' = Append(gap, Ev("params"))
  /\ UNCHANGED <<radio, gatt, faults, client, shared, app>>
NewList(c) == [c EXCEPT !.n_scan_results = 0]
ScanParamSetEvt ==
  /\ Handler /\ gap # <<>> /\ Head(gap).kind = "params" /\ gap' = Tail(gap)
  /\ cli' = NewList(cli)
  /\ air' = [air EXCEPT !.scanning = TRUE]
  /\ UNCHANGED <<radio, gatt, faults, shared, app>>
\* The stack hears a device, again and again, or stops after scan_d seconds.
Heard ==
  /\ air.scanning /\ gap = <<>>
  /\ \E d \in Devices : gap' = Append(gap, EvOf("result", d))
  /\ UNCHANGED <<radio, gatt, faults, client, shared, app>>
ScanEnds ==
  /\ air.scanning /\ air' = [air EXCEPT !.scanning = FALSE]
  /\ UNCHANGED <<radio, gatt, gap, faults, cli, shared, app>>

AddBleDev(c, d) ==
  IF d \in Listed(c) \/ c.n_scan_results = MaxDevices THEN c
  ELSE [c EXCEPT !.ble_dev[c.n_scan_results + 1] = d, !.n_scan_results = @ + 1]
ScanResultEvt ==
  /\ Handler /\ gap # <<>> /\ Head(gap).kind = "result" /\ gap' = Tail(gap)
  /\ cli' = AddBleDev(cli, Head(gap).arg)
  /\ UNCHANGED <<radio, gatt, faults, air, shared, app>>
ClientGapTurn == ScanParamSetEvt \/ ScanResultEvt

-------------------------------------------------------------------------------
(* Connecting: the entry is looked for, then what stands there is opened;    *)
(* in between the stack's task may have begun a new list.                    *)

Connect2BleDevice ==
  /\ app = Idle /\ stack = "on"
  /\ \E i \in 1..cli.n_scan_results : app' = [pc |-> "open", v |-> {i}]
  /\ UNCHANGED <<radio, gatt, gap, faults, client, shared>>
OpenDevice ==
  /\ app.pc = "open" /\ app' = Idle
  /\ IF stack = "on" /\ link = 0 /\ Room(gatt)
     THEN \E i \in app.v, connects \in BOOLEAN :    \* the device may be gone
            /\ link' = IF connects THEN 1 ELSE 0
            /\ gatt' = gatt \o IF connects THEN <<EvOf("CONNECT", 1)>> ELSE <<>>
            /\ air' = IF ~connects THEN [air EXCEPT !.scanning = FALSE]
                      ELSE [air EXCEPT !.scanning = FALSE, !.device = cli.ble_dev[i],
                                       !.asked = [Nothing EXCEPT !["discovery"] = 1],
                                       !.cccd = FALSE]
     ELSE UNCHANGED <<link, gatt>> /\ air' = [air EXCEPT !.scanning = FALSE]
  /\ UNCHANGED <<build, stack, gap, faults, cli, shared>>

\* Either side ends it: what was asked for gets no answer.
LinkLost ==
  /\ link # 0 /\ Room(gatt) /\ link' = 0
  /\ gatt' = Append(gatt, Ev("DISCONNECT"))
  /\ air' = [air EXCEPT !.device = NoDevice, !.asked = Nothing, !.cccd = FALSE]
  /\ UNCHANGED <<build, stack, gap, faults, cli, shared, app>>

\* The stack answers a request, well or with an error; a search waits for
\* the discovery of the services to end.
Answers(request, ok) ==
  CASE request = "discovery" -> <<EvOf("DIS_SRVC_CMPL", ok)>>
    [] request = "mtu" -> <<EvOf("CFG_MTU", ok)>>
    [] request = "search" ->
         (IF ok /\ air.device \in Servers THEN <<Ev("SEARCH_RES")>> ELSE <<>>)
         \o <<EvOf("SEARCH_CMPL", ok)>>
    [] request = "register" -> <<EvOf("REG_FOR_NOTIFY", ok)>>
    [] OTHER -> <<>>
StackAnswers ==
  /\ Room(gatt)
  /\ \E request \in Requests, ok \in BOOLEAN :
       /\ air.asked[request] > 0 /\ Fails(~ok)
       /\ request = "search" => air.asked["discovery"] = 0
       /\ gatt' = gatt \o Answers(request, ok)
       /\ air' = [air EXCEPT !.asked[request] = @ - 1,
                             !.cccd = @ \/ (request = "descr" /\ ok)]
  /\ UNCHANGED <<radio, gap, cli, shared, app>>

\* A request on a connection that is no more is refused.
Asks(request) ==
  air' = IF link # 0 THEN [air EXCEPT !.asked[request] = @ + 1] ELSE air

-------------------------------------------------------------------------------
(* gattc_profile_event_handler, event by event.                             *)

ClientConnectEvt ==
  /\ TakeGatt("CONNECT") /\ gatt' = Tail(gatt)
  /\ \/ Asks("mtu") /\ NoFault
     \/ Fault /\ UNCHANGED air           \* esp_ble_gattc_send_mtu_req fails
  /\ UNCHANGED <<radio, gap, cli, shared, app>>

SearchAfterDiscovery_Not == UNCHANGED air
SearchAfterDiscovery == IF Head(gatt).arg THEN Asks("search") ELSE UNCHANGED air
DisSrvcCmplEvt ==
  /\ TakeGatt("DIS_SRVC_CMPL") /\ gatt' = Tail(gatt) /\ SearchAfterDiscovery
  /\ UNCHANGED <<radio, gap, faults, cli, shared, app>>

CfgMtuEvt ==
  /\ TakeGatt("CFG_MTU") /\ gatt' = Tail(gatt) /\ Asks("search")
  /\ UNCHANGED <<radio, gap, faults, cli, shared, app>>

SearchResEvt ==
  /\ TakeGatt("SEARCH_RES") /\ gatt' = Tail(gatt)
  /\ cli' = [cli EXCEPT !.connected = TRUE]
  /\ UNCHANGED <<radio, gap, faults, air, shared, app>>

\* With the service found, its characteristic; the lookups may fail.
SearchCmplEvt ==
  /\ TakeGatt("SEARCH_CMPL") /\ gatt' = Tail(gatt)
  /\ IF Head(gatt).arg /\ cli.connected /\ air.device \in Servers
     THEN \/ Asks("register") /\ NoFault
          \/ Fault /\ UNCHANGED air
     ELSE UNCHANGED <<air, faults>>
  /\ UNCHANGED <<radio, gap, cli, shared, app>>

RegForNotifyEvt ==
  /\ TakeGatt("REG_FOR_NOTIFY") /\ gatt' = Tail(gatt)
  /\ IF Head(gatt).arg
     THEN \/ Asks("descr") /\ NoFault
          \/ Fault /\ UNCHANGED air
     ELSE UNCHANGED <<air, faults>>
  /\ UNCHANGED <<radio, gap, cli, shared, app>>

NotifyEvt ==
  /\ TakeGatt("NOTIFY") /\ Enqueue(Head(gatt).arg) /\ gatt' = Tail(gatt)
  /\ UNCHANGED <<radio, gap, faults, client, bt, app>>

ClientDisconnectEvt ==
  /\ TakeGatt("DISCONNECT") /\ gatt' = Tail(gatt)
  /\ cli' = [cli EXCEPT !.connected = FALSE]
  /\ UNCHANGED <<radio, gap, faults, air, shared, app>>

ClientGattTurn ==
  \/ ClientConnectEvt \/ DisSrvcCmplEvt \/ CfgMtuEvt \/ SearchResEvt
  \/ SearchCmplEvt \/ RegForNotifyEvt \/ NotifyEvt \/ ClientDisconnectEvt

PeerNotifies ==
  /\ link # 0 /\ air.cccd /\ Arrives("NOTIFY")
  /\ UNCHANGED <<radio, gap, faults, client, bt, recv, blocked, app>>
=============================================================================
