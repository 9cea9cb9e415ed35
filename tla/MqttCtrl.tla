------------------------------- MODULE MqttCtrl --------------------------------
(***************************************************************************)
(* The MQTT client of tcp/mqtt_ctrl.c: mqtt_client_handle, the             *)
(* MQTT_CONNECTED_BIT, the count of failed connections that ends in a      *)
(* restart, and the receive queue with its task.                           *)
(*                                                                         *)
(* Actors: the client's own task (esp-mqtt, external), which runs          *)
(* mqtt_event_handler; mqtt_rx_task; the tasks that publish; and the owner *)
(* of the client, which starts it with mqtt_start and, in ota.c, destroys  *)
(* it.  Below them is the network as NetState.tla describes it.            *)
(***************************************************************************)
EXTENDS Naturals, NetState

CONSTANTS Publishers,    \* tasks that call publish_topic
          FailAttempts,  \* MQTT_FAILATTEMPTS
          FailReboot,    \* ENABLE_MQTT_FAIL_REBOOT
          QueueCap,      \* length of mqtt_rx_queue
          MaxHeap,       \* bound: received messages not freed
          MaxFails,      \* bound: connect_fail_count
          StartErrors    \* may a step of mqtt_start fail?

ASSUME MqttConstants ==
  /\ FailAttempts \in Nat \ {0} /\ MaxFails \in Nat /\ FailAttempts <= MaxFails
  /\ FailReboot \in BOOLEAN /\ StartErrors \in BOOLEAN
  /\ QueueCap \in Nat \ {0} /\ MaxHeap \in Nat /\ QueueCap < MaxHeap

VARIABLES
  broker,      \* environment: the broker accepts connections
  mqttBit,     \* MQTT_CONNECTED_BIT
  handle,      \* mqtt_client_handle is not NULL
  client,      \* esp-mqtt: "none", "stopped", "connecting", "connected", or
               \* "accepted", "lost": about to dispatch that event
  fail_count,  \* connect_fail_count
  rebooting,   \* the client's task is in RESTART, one second before the reset
  rxTask,      \* mqtt_rx_queue and mqtt_rx_task exist
  rxQueue,     \* messages in mqtt_rx_queue
  rxBusy,      \* mqtt_rx_task is processing a message
  heap,        \* received messages allocated and not freed
  pub          \* per publisher: where it is and which client it uses

mqttVars == <<broker, mqttBit, handle, client, fail_count, rebooting, rxTask,
              rxQueue, rxBusy, heap, pub>>
vars == <<net, mqttVars>>

rx == <<rxTask, rxQueue, rxBusy, heap>>
PubStates == {"idle", "checked", "live", "freed"}

MqttInit ==
  /\ broker \in BOOLEAN
  /\ mqttBit = FALSE /\ handle = FALSE /\ client = "none"
  /\ fail_count = 0 /\ rebooting = FALSE
  /\ rxTask = FALSE /\ rxQueue = 0 /\ rxBusy = FALSE /\ heap = 0
  /\ pub = [p \in Publishers |-> "idle"]

Init == NetInit /\ MqttInit

-------------------------------------------------------------------------------
(* The environment.                                                        *)

NetChanges == NetNext /\ UNCHANGED mqttVars

BrokerChanges == /\ broker' = ~broker
                 /\ UNCHANGED <<net, mqttBit, handle, client, fail_count,
                                rebooting, rx, pub>>

-------------------------------------------------------------------------------
(* The client's task (external) up to the event it dispatches; the client   *)
(* connects again by itself (disable_auto_reconnect = false).              *)

\* The broker accepts: MQTT_EVENT_CONNECTED is next.
Accepted ==
  /\ client = "connecting" /\ broker /\ net = "online"
  /\ client' = "accepted"
  /\ UNCHANGED <<net, broker, mqttBit, handle, fail_count, rebooting, rx, pub>>

\* An attempt fails, or the connection is lost: MQTT_EVENT_DISCONNECTED is next.
Lost ==
  /\ \/ client = "connecting" /\ ~(broker /\ net = "online")
     \/ client = "connected"
  /\ client' = "lost"
  /\ UNCHANGED <<net, broker, mqttBit, handle, fail_count, rebooting, rx, pub>>

\* The client's task is not inside a handler.
Dispatching == client \in {"accepted", "lost"}

-------------------------------------------------------------------------------
(* mqtt_event_handler, in the client's task.                               *)

\* The two subscriptions and the status message are the library's business.
Connected ==
  /\ client = "accepted" /\ client' = "connected"
  /\ mqttBit' = TRUE
  /\ fail_count' = 0
  /\ UNCHANGED <<net, broker, handle, rebooting, rx, pub>>

\* Mutant: the test of the address is the wrong way round.
NextFailCount_Offline == IF net = "online" THEN fail_count ELSE fail_count + 1

\* The counter after one more DISCONNECTED event: without an address it is not
\* the broker's fault, and the address is looked at now, not when it failed.
NextFailCount == IF net = "online" THEN fail_count + 1 ELSE fail_count

\* With the reboot enabled the task stays in RESTART when the counter is full.
Disconnected ==
  /\ client = "lost" /\ ~rebooting
  /\ NextFailCount <= MaxFails
  /\ mqttBit' = FALSE
  /\ fail_count' = NextFailCount
  /\ rebooting' = (FailReboot /\ NextFailCount >= FailAttempts)
  /\ client' = IF rebooting' THEN "lost" ELSE "connecting"
  /\ UNCHANGED <<net, broker, handle, rx, pub>>

\* MQTT_EVENT_DATA: the message is allocated; nobody looks at what xQueueSend
\* returns when the queue stays full.
Data ==
  /\ client = "connected" /\ heap < MaxHeap
  /\ heap' = heap + 1
  /\ rxQueue' = IF rxQueue < QueueCap THEN rxQueue + 1 ELSE rxQueue
  /\ UNCHANGED <<net, broker, mqttBit, handle, client, fail_count, rebooting,
                 rxTask, rxBusy, pub>>

ClientStep == Accepted \/ Lost \/ Connected \/ Disconnected \/ Data

-------------------------------------------------------------------------------
(* mqtt_rx_task: take a message, process it, free it.                      *)

RxTake ==
  /\ rxTask /\ ~rxBusy /\ rxQueue > 0
  /\ rxQueue' = rxQueue - 1 /\ rxBusy' = TRUE
  /\ UNCHANGED <<net, broker, mqttBit, handle, client, fail_count, rebooting,
                 rxTask, heap, pub>>

RxDone ==
  /\ rxBusy /\ rxBusy' = FALSE /\ heap' = heap - 1
  /\ UNCHANGED <<net, broker, mqttBit, handle, client, fail_count, rebooting,
                 rxTask, rxQueue, pub>>

-------------------------------------------------------------------------------
(* publish_topic: the handle is tested, the message is built, the handle   *)
(* is read again and the library works on that client.                     *)

SetPub(p, s) == pub' = [pub EXCEPT ![p] = s]

PubCheck(p) ==
  /\ pub[p] = "idle" /\ handle /\ SetPub(p, "checked")
  /\ UNCHANGED <<net, broker, mqttBit, handle, client, fail_count, rebooting, rx>>

\* The library refuses a NULL client.
PubCall(p) ==
  /\ pub[p] = "checked"
  /\ SetPub(p, IF ~handle THEN "idle" ELSE IF client = "none" THEN "freed"
                                      ELSE "live")
  /\ UNCHANGED <<net, broker, mqttBit, handle, client, fail_count, rebooting, rx>>

PubReturn(p) ==
  /\ pub[p] \in {"live", "freed"} /\ SetPub(p, "idle")
  /\ UNCHANGED <<net, broker, mqttBit, handle, client, fail_count, rebooting, rx>>

Publish(p) == PubCheck(p) \/ PubCall(p) \/ PubReturn(p)

-------------------------------------------------------------------------------
(* The client's owner.                                                     *)

\* Mutant: mqtt_start does not clear MQTT_CONNECTED_BIT.
MqttStart_KeepsBit ==
  /\ client = "none" /\ ~handle
  /\ handle' = TRUE /\ client' = "connecting" /\ rxTask' = TRUE
  /\ UNCHANGED <<net, broker, mqttBit, fail_count, rebooting, rxQueue, rxBusy,
                 heap, pub>>

\* mqtt_start fails before or after it has a client, or it starts the client.
\* The queue and the task are created once; without the task the queue goes.
MqttStart ==
  /\ client = "none" /\ ~handle
  /\ mqttBit' = FALSE
  /\ \/ /\ StartErrors
        /\ UNCHANGED <<handle, client, rx>>
     \/ /\ StartErrors /\ handle' = TRUE /\ client' = "stopped"
        /\ (rxTask' = TRUE \/ UNCHANGED rxTask)
        /\ UNCHANGED <<rxQueue, rxBusy, heap>>
     \/ /\ handle' = TRUE /\ client' = "connecting"
        /\ rxTask' = TRUE
        /\ UNCHANGED <<rxQueue, rxBusy, heap>>
  /\ UNCHANGED <<net, broker, fail_count, rebooting, pub>>

\* esp_mqtt_client_destroy waits for the client's task to leave its handler,
\* and posts no event.  A publisher inside the library is left with a client
\* that is gone.
DestroyClient ==
  /\ handle /\ client # "none" /\ ~Dispatching
  /\ client' = "none"
  /\ pub' = [p \in Publishers |-> IF pub[p] = "live" THEN "freed" ELSE pub[p]]
  /\ UNCHANGED <<net, broker, mqttBit, handle, fail_count, rebooting, rx>>

\* mqtt_client_handle = NULL.
ForgetClient ==
  /\ handle /\ client = "none" /\ handle' = FALSE
  /\ UNCHANGED <<net, broker, mqttBit, client, fail_count, rebooting, rx, pub>>

\* The reset at the end of RESTART.
MqttReset ==
  /\ net' = "offline"
  /\ mqttBit' = FALSE /\ handle' = FALSE /\ client' = "none"
  /\ fail_count' = 0 /\ rebooting' = FALSE
  /\ rxTask' = FALSE /\ rxQueue' = 0 /\ rxBusy' = FALSE /\ heap' = 0
  /\ pub' = [p \in Publishers |-> "idle"]
  /\ UNCHANGED broker

Reset == rebooting /\ MqttReset

\* What happens without the owner: the steps MqttOta.tla leaves as they are.
MqttOwn ==
  \/ NetChanges \/ BrokerChanges
  \/ ClientStep
  \/ RxTake \/ RxDone
  \/ \E p \in Publishers : Publish(p)

Next == MqttOwn \/ MqttStart \/ DestroyClient \/ ForgetClient \/ Reset

Spec == Init /\ [][Next]_vars
-------------------------------------------------------------------------------
MqttTypeOK ==
  /\ net \in NetStates
  /\ broker \in BOOLEAN /\ mqttBit \in BOOLEAN /\ handle \in BOOLEAN
  /\ client \in {"none", "stopped", "connecting", "accepted", "connected", "lost"}
  /\ fail_count \in 0..MaxFails
  /\ rebooting \in BOOLEAN
  /\ rxTask \in BOOLEAN /\ rxBusy \in BOOLEAN
  /\ rxQueue \in 0..QueueCap
  /\ heap \in 0..MaxHeap
  /\ pub \in [Publishers -> PubStates]

(* mqtt_ctrl.c 101-113, 216: while there is a client, MQTT_CONNECTED_BIT    *)
(* says whether it is connected, also for a client that replaces one that   *)
(* was destroyed with the bit set.                                          *)
BitMatchesClient ==
  /\ client = "connected" => mqttBit
  /\ client \in {"stopped", "connecting", "accepted"} => ~mqttBit

(* mqtt_ctrl.c 110-127: with the reboot enabled, a client that cannot reach *)
(* its broker although the network is there ends in a restart.              *)
StuckBrokerReboots ==
  (FailReboot /\ client = "connecting" /\ net = "online" /\ ~broker)
    ~> (rebooting \/ broker \/ net # "online" \/ client = "none")

(* ota.c 100-101: clearing the handle prevents dangling pointers: no task   *)
(* is ever at work on a client that was destroyed.                          *)
NoDanglingClient == \A p \in Publishers : pub[p] # "freed"

===============================================================================
