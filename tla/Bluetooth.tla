-------------------------------- MODULE Bluetooth --------------------------------
(***************************************************************************)
(* What the BLE server and the BLE client share: the Bluetooth stack       *)
(* (external), the one task it calls the program's handlers on, and the    *)
(* queues between the handlers and the program's tasks (btcomm.c).         *)
(* The same variables stand for a build as server and a build as client:   *)
(* recv is bt_receive_queue or bt_client_receive_queue, and so on.         *)
(***************************************************************************)
EXTENDS Integers, Sequences, FiniteSets, SequencesExt

CONSTANTS Builds,      \* values of BT_ROLE: "server", "client"
          QueueSize,   \* TCP_QUEUE_SIZE
          MaxEvents,   \* GATT events and GAP events the stack has waiting
          MaxFaults    \* failures of the stack, and calls of start_adv

ASSUME BluetoothConstants ==
  /\ Builds \subseteq {"server", "client"} /\ Builds # {}
  /\ QueueSize \in Nat \ {0} /\ MaxEvents \in Nat \ {0, 1} /\ MaxFaults \in Nat

VARIABLES
  build,      \* BT_ROLE
  stack,      \* controller and Bluedroid: "off", "part" (an init failed), "on"
  gatt, gap,  \* GATT and GAP events posted to the stack's task, oldest first
  link,       \* the connection there is, 0 for none
  faults,     \* of MaxFaults
  bt,         \* btEnabled, and the queues: "none", "made" or "deleted"
  recv,       \* bt_receive_queue, bt_client_receive_queue
  blocked,    \* the message the stack's task waits with at a full recv
  app         \* a function of the program half done on another task

shared == <<bt, recv, blocked>>

FreshBt == [btEnabled |-> FALSE, queues |-> "none"]
Idle == [pc |-> "idle", v |-> {}]

Ev(kind) == [kind |-> kind, arg |-> 0]
EvOf(kind, arg) == [kind |-> kind, arg |-> arg]

Room(q) == Len(q) < MaxEvents
Fault == faults < MaxFaults /\ faults' = faults + 1
NoFault == UNCHANGED faults
Fails(failed) == IF failed THEN Fault ELSE NoFault

-------------------------------------------------------------------------------
(* Messages on their way to the program, in the order they arrived in.  They *)
(* are numbered 0, 1, 0, 1, ..., so that one that is left out shows.         *)

Content == {"WRITE", "NOTIFY"}
Payload(e) == IF e.kind \in Content THEN <<e.arg>> ELSE <<>>
MessagesIn(q) ==
  LET first[i \in 0..Len(q)] ==
        IF i = 0 THEN <<>> ELSE first[i - 1] \o Payload(q[i])
  IN  first[Len(q)]
OnTheirWay == recv \o blocked \o MessagesIn(gatt)
Number == IF OnTheirWay = <<>> THEN 0 ELSE 1 - Last(OnTheirWay)

Arrives(kind) == Room(gatt) /\ gatt' = Append(gatt, EvOf(kind, Number))

\* xQueueSend(..., portMAX_DELAY) in a handler: the stack's task waits.
Enqueue_NoWait(m) ==
  /\ recv' = IF Len(recv) < QueueSize THEN Append(recv, m) ELSE recv
  /\ UNCHANGED blocked
Enqueue(m) ==
  IF Len(recv) < QueueSize
  THEN recv' = Append(recv, m) /\ UNCHANGED blocked
  ELSE blocked' = <<m>> /\ UNCHANGED recv

Handler == blocked = <<>>     \* the stack's task can take an event
TakeGatt(kind) ==
  /\ Handler /\ gatt # <<>> /\ Head(gatt).kind = kind
=============================================================================
