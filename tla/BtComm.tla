--------------------------------- MODULE BtComm ---------------------------------
(***************************************************************************)
(* Bluetooth of bluedroid/: starting and stopping the stack with its       *)
(* queues and tasks (btcomm_init, do_bt), and the server or the client     *)
(* on it.  Which of the two is a matter of the build (BT_ROLE).            *)
(***************************************************************************)
EXTENDS BleServer, BleClient

events == <<gatt, gap, link>>
vars == <<build, stack, events, faults, shared, app, server, client>>

Init ==
  /\ build \in Builds
  /\ stack = "off" /\ gatt = <<>> /\ gap = <<>> /\ link = 0 /\ faults = 0
  /\ bt = FreshBt /\ recv = <<>> /\ blocked = <<>>
  /\ app = Idle
  /\ srv = FreshServer /\ db = <<>> /\ advertising = FALSE
  /\ cli = FreshClient /\ air = FreshAir

\* Everything that is in memory is lost.
Reboot ==
  /\ stack' = "off" /\ gatt' = <<>> /\ gap' = <<>> /\ link' = 0
  /\ bt' = FreshBt /\ recv' = <<>> /\ blocked' = <<>>
  /\ app' = Idle
  /\ srv' = FreshServer /\ db' = <<>> /\ advertising' = FALSE
  /\ cli' = FreshClient /\ air' = FreshAir
  /\ UNCHANGED <<build, faults>>

-------------------------------------------------------------------------------
(* btcomm_init, from start_bt and "bt start".                               *)

\* btConnected = 0 comes first, whatever happens then.
Begun == [srv EXCEPT !.btConnected = FALSE]

\* ESP_ERROR_CHECK of esp_bt_controller_mem_release, which some chips refuse
\* the second time.
InitAborts == (stack # "off" \/ bt.queues # "none") /\ Reboot

\* esp_bt_controller_init refuses while the controller is there.
InitRefused ==
  /\ stack # "off"
  /\ srv' = IF build = "server" THEN [Begun EXCEPT !.repeated = link # 0] ELSE Begun
  /\ UNCHANGED <<build, stack, events, faults, shared, app, db, advertising, client>>

\* A later step fails: what came before it stays.
InitFails ==
  /\ stack = "off" /\ Fault /\ stack' = "part" /\ srv' = Begun
  /\ \E made \in {bt.queues, "made"} : bt' = [bt EXCEPT !.queues = made]
  /\ UNCHANGED <<build, events, recv, blocked, app, db, advertising, client>>

\* create_service_info: a new table without handles.
ServiceInfo_KeepsHandles(s) == s
ServiceInfo(s) ==
  [s EXCEPT !.char_handle = FreshServer.char_handle,
            !.descr_handle = FreshServer.descr_handle]
\* New queues, new tasks, a new table, and the application registered.  What
\* comes after that (profile B, the MTU) may still fail: btEnabled stays.
InitSucceeds ==
  /\ stack = "off" /\ stack' = "on"
  /\ recv' = <<>>
  /\ \E enabled \in BOOLEAN :
       /\ Fails(~enabled)
       /\ bt' = [bt EXCEPT !.btEnabled = @ \/ enabled, !.queues = "made"]
  /\ srv' = IF build = "server" THEN [ServiceInfo(Begun) EXCEPT !.refused = FALSE,
                                           !.repeated = FALSE, !.late = FALSE,
                                           !.halted = FALSE]
            ELSE Begun
  /\ gatt' = IF build = "server" THEN <<Ev("REG")>> ELSE <<>>
  /\ UNCHANGED <<build, gap, link, blocked, app, db, advertising, client>>
BtcommInit == InitAborts \/ InitRefused \/ InitFails \/ InitSucceeds

\* "bt stop": Bluedroid lets its task finish the handler it is in; the end
\* of the connection may still be handled.  Tasks and queues are deleted.
BtStop ==
  /\ bt.btEnabled /\ Handler
  /\ stack' = "off" /\ gatt' = <<>> /\ gap' = <<>> /\ link' = 0
  /\ bt' = [bt EXCEPT !.btEnabled = FALSE, !.queues = "deleted"]
  /\ recv' = <<>>
  /\ db' = <<>> /\ advertising' = FALSE /\ air' = FreshAir
  /\ \E handled \in BOOLEAN :
       /\ srv' = IF handled THEN Disconnected(srv) ELSE srv
       /\ cli' = IF handled THEN [cli EXCEPT !.connected = FALSE] ELSE cli
  /\ UNCHANGED <<build, blocked, faults, app>>

\* "bt notify", or the program's own messages.  A queue that was not made
\* trips an assertion; using one that was deleted can do that, or nothing.
\* (What bt_notify_task does with a message changes nothing here.)
SendMessage == bt.queues # "made" /\ Reboot

\* process_message_task, client_process_message_task; then the task of the
\* stack, if it waits, has room.
ProcessMessage ==
  /\ recv # <<>>
  /\ recv' = Tail(recv) \o blocked /\ blocked' = <<>>
  /\ UNCHANGED <<build, stack, events, faults, bt, app, server, client>>

-------------------------------------------------------------------------------
GattTurn ==
  IF build = "server" THEN ServerGattTurn /\ UNCHANGED client
  ELSE ClientGattTurn /\ UNCHANGED server
GapTurn ==
  IF build = "server" THEN ServerGapTurn /\ UNCHANGED client
  ELSE ClientGapTurn /\ UNCHANGED server
ServerApp ==
  /\ build = "server" /\ (StartAdv \/ StartAdvNext \/ StartAdvEnds)
  /\ UNCHANGED client
ClientApp ==
  /\ build = "client" /\ (StartScan \/ Connect2BleDevice \/ OpenDevice)
  /\ UNCHANGED server
Air ==
  \/ build = "server" /\ ServerPeer /\ UNCHANGED client
  \/ /\ build = "client" /\ (Heard \/ ScanEnds \/ LinkLost \/ PeerNotifies)
     /\ UNCHANGED server
Answer == build = "client" /\ StackAnswers /\ UNCHANGED server

Next ==
  \/ BtcommInit \/ BtStop \/ SendMessage \/ ProcessMessage
  \/ GattTurn \/ GapTurn \/ ServerApp \/ ClientApp \/ Air \/ Answer

Spec == Init /\ [][Next]_vars
\* The tasks run and the stack answers.  Its task takes GATT and GAP events
\* from one queue, so that neither kind can keep the other waiting for ever,
\* also when the task has to wait for room in recv between them.
FairSpec ==
  /\ Spec /\ WF_vars(ProcessMessage) /\ SF_vars(GattTurn) /\ SF_vars(GapTurn)
  /\ SF_vars(Answer) /\ WF_vars(ServerApp /\ app # Idle)
-------------------------------------------------------------------------------
(* Properties.                                                              *)

Holds(kinds) == \E i \in DOMAIN gatt : gatt[i].kind \in kinds

\* ble_server.c 450-483: with no begin or end of a connection to handle, btConnected says
\* whether there is one, and conn_id which; a "bt start" in a connection is
\* the exception until the next one.
FlagFollowsLink ==
  build = "server" /\ stack = "on" /\ ~Holds({"CONNECT", "DISCONNECT"}) /\ ~srv.repeated
  => /\ srv.btConnected = (link # 0)
     /\ link # 0 => srv.conn_id = link

\* ble_server.c 364-393, btcomm.c 101-114: a message that has arrived is
\* processed after those before it and is never
\* left out, through full queues and lost connections, until the stack stops.
MessagesInOrder ==
  [][ \/ OnTheirWay' = OnTheirWay
      \/ OnTheirWay' = Append(OnTheirWay, Number)
      \/ recv # <<>> /\ OnTheirWay' = Tail(OnTheirWay)
      \/ stack' = "off" ]_vars

\* ble_server.c 238-351: when the stack has answered, the table has the handles of
\* this registration and no others, each characteristic with its descriptor behind
\* it, also when the stack was stopped in the middle of an earlier one; and all
\* characteristics are there, unless the stack refused to add one.
ServiceBuilt ==
  build = "server" /\ stack = "on"
  /\ ~Holds({"REG", "CREATE", "ADD_CHAR", "ADD_CHAR_DESCR"})
  => \A i \in Chars :
       LET c == srv.char_handle[i]
           d == srv.descr_handle[i]
       IN  /\ c # 0 => c \in DOMAIN db /\ db[c] = <<"char", i>>
           /\ d # 0 => c # 0 /\ d = c + 1 /\ d \in DOMAIN db /\ db[d] = <<"descr", i>>
           /\ d # 0 \/ srv.halted

\* ble_server.c 469-483: a running server that is not connected advertises, again and again; unless
\* the stack refused the advertising data or start_adv set a flag too late.
AdvertisesAgain ==
  []<>(build = "server" /\ stack = "on"
       => advertising \/ link # 0 \/ srv.refused \/ srv.late)

\* ble_client1p.c 117-317: one failure on the way does not keep the client from the notifications of
\* a device that has the service, as long as the connection lasts.
Subscribes ==
  (link # 0 /\ air.device \in Servers) ~> (air.cccd \/ link = 0)

=============================================================================
