-------------------------------- MODULE BleServer --------------------------------
(***************************************************************************)
(* The GATT server of bluedroid/ble_server.c: it builds its service step   *)
(* by step from the stack's answers, keeps btConnected and                 *)
(* adv_config_done, and puts what a peer writes into bt_receive_queue.     *)
(***************************************************************************)
EXTENDS Bluetooth

CONSTANTS NumChars,    \* GATTS_NUM_CHAR_A
          Conns        \* numbers the stack gives connections

ASSUME ServerConstants ==
  NumChars \in Nat \ {0} /\ Conns \subseteq Nat \ {0} /\ Conns # {}

VARIABLES
  srv,          \* the variables of ble_server.c and btcomm.c
  db,           \* the attributes in the stack's database; a handle is a place
  advertising   \* the stack advertises

Chars == 1..NumChars

FreshServer ==
  [btConnected |-> FALSE, conn_id |-> 0, adv_config_done |-> {},
   char_handle |-> [i \in Chars |-> 0], descr_handle |-> [i \in Chars |-> 0],
   refused |-> FALSE,      \* history: of the last configuration the first call was
                           \* refused, or a flag set before will get no answer
   repeated |-> FALSE,     \* history: "bt start" in a connection
   late |-> FALSE,         \* history: start_adv set a flag after its answer
   halted |-> FALSE]       \* history: the stack refused to add to the service

server == <<srv, db, advertising>>
stacked == <<build, stack, link>>

-------------------------------------------------------------------------------
(* Advertising data: two calls, each with an answer that takes its time.    *)

\* What the two calls leave pending: the first or the second may be refused.
Accepted == {{}, {"adv"}, {"adv", "rsp"}}
Configure(s, accepted) ==
  /\ Len(gap) + 2 <= 2 * MaxEvents
  /\ gap' = gap \o (IF "adv" \in accepted THEN <<Ev("adv")>> ELSE <<>>)
                \o (IF "rsp" \in accepted THEN <<Ev("rsp")>> ELSE <<>>)
  /\ srv' = [s EXCEPT !.adv_config_done = @ \cup accepted,
                      !.refused = "adv" \notin accepted
                                  \/ ~(s.adv_config_done \subseteq accepted)]

\* ..._DATA_SET_COMPLETE_EVT in gap_event_handler.
DataSet_KeepsFlag(kind) == srv.adv_config_done \ {"rsp"}
DataSet(kind) == srv.adv_config_done \ {kind}
DataSetCompleteEvt(kind) ==
  /\ Handler /\ gap # <<>> /\ Head(gap).kind = kind /\ gap' = Tail(gap)
  /\ srv' = [srv EXCEPT !.adv_config_done = DataSet(kind),
                        !.late = @ /\ DataSet(kind) # {}]
  /\ advertising' = (advertising \/ srv'.adv_config_done = {})
  /\ UNCHANGED <<stacked, gatt, db, faults, shared, app>>

\* start_adv, from a task of the program: each flag is set after the call, when
\* the stack's task may have handled the answer.
StartAdv ==
  /\ app = Idle /\ stack = "on" /\ Room(gap) /\ Fault
  /\ gap' = Append(gap, Ev("adv")) /\ app' = [pc |-> "set adv", v |-> {}]
  /\ UNCHANGED <<stacked, gatt, server, shared>>
SetFlag(flag) ==
  srv' = [srv EXCEPT !.adv_config_done = @ \cup {flag},
                     !.late = @ \/ ~\E i \in DOMAIN gap : gap[i].kind = flag]
StartAdvNext ==
  /\ app.pc = "set adv" /\ SetFlag("adv")
  /\ IF stack = "on"
     THEN gap' = Append(gap, Ev("rsp")) /\ app' = [pc |-> "set rsp", v |-> {}]
     ELSE app' = Idle /\ UNCHANGED gap
  /\ UNCHANGED <<stacked, gatt, faults, db, advertising, shared>>
StartAdvEnds ==
  /\ app.pc = "set rsp" /\ SetFlag("rsp") /\ app' = Idle
  /\ UNCHANGED <<stacked, gatt, gap, faults, db, advertising, shared>>

-------------------------------------------------------------------------------
(* gatts_profile_a_event_handler, event by event.                           *)

\* The stack is to add an attribute.  Its handle, which comes with the answer, is
\* its place; a call that is refused is only logged, and no answer comes.
Halted(s) == [s EXCEPT !.halted = TRUE]
Adds(s, q, attribute, event) ==
  \/ /\ NoFault /\ srv' = s
     /\ db' = Append(db, attribute) /\ gatt' = Append(q, EvOf(event, Len(db) + 1))
  \/ Fault /\ srv' = Halted(s) /\ gatt' = q /\ UNCHANGED db

RegEvt ==
  /\ TakeGatt("REG")
  /\ \E accepted \in Accepted, created \in BOOLEAN :
       /\ Fails(~created \/ accepted # {"adv", "rsp"})
       /\ Configure(IF created THEN srv ELSE Halted(srv), accepted)
       /\ gatt' = IF created THEN Append(Tail(gatt), Ev("CREATE")) ELSE Tail(gatt)
  /\ UNCHANGED <<stacked, db, advertising, shared, app>>

CreateEvt ==
  /\ TakeGatt("CREATE") /\ Adds(srv, Tail(gatt), <<"char", 1>>, "ADD_CHAR")
  /\ UNCHANGED <<stacked, gap, advertising, shared, app>>

AddCharEvt ==
  /\ TakeGatt("ADD_CHAR")
  /\ LET h == Head(gatt).arg
         i == db[h][2]
     IN  Adds([srv EXCEPT !.char_handle[i] = h], Tail(gatt), <<"descr", i>>,
              "ADD_CHAR_DESCR")
  /\ UNCHANGED <<stacked, gap, advertising, shared, app>>

\* The descriptor goes to the first characteristic that has none; then the
\* first characteristic that has no handle is added.
Lacking(handles) == {i \in Chars : handles[i] = 0}
First(S) == CHOOSE i \in S : \A j \in S : i <= j
WithDescr(h) ==
  IF Lacking(srv.descr_handle) = {} THEN srv
  ELSE [srv EXCEPT !.descr_handle[First(Lacking(srv.descr_handle))] = h]
AddDescrEvt ==
  /\ TakeGatt("ADD_CHAR_DESCR")
  /\ LET s == WithDescr(Head(gatt).arg)
     IN  IF Lacking(srv.char_handle) = {}
         THEN NoFault /\ srv' = s /\ gatt' = Tail(gatt) /\ UNCHANGED db
         ELSE Adds(s, Tail(gatt), <<"char", First(Lacking(srv.char_handle))>>,
                   "ADD_CHAR")
  /\ UNCHANGED <<stacked, gap, advertising, shared, app>>

\* A write to a characteristic.
WriteEvt ==
  /\ TakeGatt("WRITE") /\ Enqueue(Head(gatt).arg) /\ gatt' = Tail(gatt)
  /\ UNCHANGED <<stacked, gap, faults, server, bt, app>>

ConnectEvt ==
  /\ TakeGatt("CONNECT") /\ gatt' = Tail(gatt)
  /\ srv' = [srv EXCEPT !.conn_id = Head(gatt).arg, !.btConnected = TRUE,
                      !.repeated = FALSE]
  /\ UNCHANGED <<stacked, gap, faults, db, advertising, shared, app>>

Disconnected_KeepsFlag(s) == s
Disconnected(s) == [s EXCEPT !.btConnected = FALSE, !.repeated = FALSE]
DisconnectEvt ==
  /\ TakeGatt("DISCONNECT") /\ gatt' = Tail(gatt)
  /\ \E accepted \in Accepted :
       /\ Fails(accepted # {"adv", "rsp"})
       /\ Configure(Disconnected(srv), accepted)
  /\ UNCHANGED <<stacked, db, advertising, shared, app>>

ServerGattTurn ==
  \/ RegEvt \/ CreateEvt \/ AddCharEvt \/ AddDescrEvt
  \/ WriteEvt \/ ConnectEvt \/ DisconnectEvt
ServerGapTurn == \E kind \in {"adv", "rsp"} : DataSetCompleteEvt(kind)

-------------------------------------------------------------------------------
(* A peer (external): it connects while the server advertises.              *)

PeerConnects ==
  /\ stack = "on" /\ advertising /\ link = 0 /\ Room(gatt)
  /\ \E c \in Conns : link' = c /\ gatt' = Append(gatt, EvOf("CONNECT", c))
  /\ advertising' = FALSE
  /\ UNCHANGED <<build, stack, gap, faults, srv, db, shared, app>>
PeerDisconnects ==
  /\ link # 0 /\ Room(gatt)
  /\ link' = 0 /\ gatt' = Append(gatt, EvOf("DISCONNECT", link))
  /\ UNCHANGED <<build, stack, gap, faults, server, shared, app>>
PeerWrites ==
  /\ link # 0 /\ db # <<>> /\ Arrives("WRITE")
  /\ UNCHANGED <<stacked, gap, faults, server, bt, recv, blocked, app>>
ServerPeer == PeerConnects \/ PeerDisconnects \/ PeerWrites
=============================================================================
