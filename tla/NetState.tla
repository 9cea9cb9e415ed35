------------------------------- MODULE NetState -------------------------------
(***************************************************************************)
(* What the rest of the firmware may rely on when it reads the             *)
(* connectivity bits of comm_event_group (common_defines.h, cmd_wifi.h):   *)
(* the station is offline, associated or online; it becomes online only by *)
(* way of an association, and an outage takes it all the way back to       *)
(* offline.  WifiSta.tla implements this specification; MqttCtrl.tla uses  *)
(* it as the network below the MQTT client.                                *)
(***************************************************************************)

VARIABLE net      \* "offline", "associated" or "online"

NetStates == {"offline", "associated", "online"}

NetInit == net = "offline"

\* WIFI_CONNECTED_BIT is set.
Associate == net = "offline" /\ net' = "associated"

\* IP_CONNECTED_BIT is set on top of it.
Address == net = "associated" /\ net' = "online"

\* Only the address is lost.
LoseAddress == net = "online" /\ net' = "associated"

\* Both bits go in one step: nobody ever sees an address without a link.
GoOffline == net # "offline" /\ net' = "offline"

NetNext == Associate \/ Address \/ LoseAddress \/ GoOffline

NetSpec == NetInit /\ [][NetNext]_net
===============================================================================
