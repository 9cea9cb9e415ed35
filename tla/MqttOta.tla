-------------------------------- MODULE MqttOta --------------------------------
(***************************************************************************)
(* A firmware update and the MQTT client together.  ota_task (ota.c)       *)
(* destroys the client to have its memory, downloads, and calls            *)
(* mqtt_start(NULL) at the end if there was a client.  The application     *)
(* starts the client once, at boot.  One update runs at a time.            *)
(*                                                                         *)
(* The steps of MqttCtrl and Ota interleave; those of ota_task that touch  *)
(* the client are steps of both, and so is a restart.                      *)
(***************************************************************************)
EXTENDS MqttCtrl, Ota

VARIABLE startedOnce   \* the application has called mqtt_start since the boot

sysVars == <<vars, otaVars, startedOnce>>

SysInit == Init /\ OtaInit /\ startedOnce = FALSE

\* The application's own call of mqtt_start, when Wi-Fi is up.
AppStartsMqtt ==
  /\ ~startedOnce /\ startedOnce' = TRUE
  /\ MqttStart /\ UNCHANGED otaVars

\* Mutant: the client is left running.
LooksAtClient_Spares ==
  /\ At("mqtt") /\ mqtt_on' = handle /\ Goto("http")
  /\ UNCHANGED <<disk, target, http, feed, upd, ret_val, vars, startedOnce>>

\* ota.c 94-96: if(mqtt_client_handle).
LooksAtClient == OtaLook(handle) /\ UNCHANGED <<vars, startedOnce>>

\* ota.c 100.
DestroysClient == OtaDestroy /\ DestroyClient /\ UNCHANGED startedOnce

\* Mutant: the handle is not cleared.
ForgetsClient_Keeps == OtaForget /\ UNCHANGED <<vars, startedOnce>>

\* ota.c 101.
ForgetsClient == OtaForget /\ ForgetClient /\ UNCHANGED startedOnce

\* Mutant: the client is started again only after a successful download.
Returns_OnSuccess ==
  /\ OtaReturn
  /\ IF mqtt_on /\ ret_val = "ok" THEN MqttStart ELSE UNCHANGED vars
  /\ UNCHANGED startedOnce

\* ota.c 242-243.
Returns ==
  /\ OtaReturn
  /\ IF mqtt_on THEN MqttStart ELSE UNCHANGED vars
  /\ UNCHANGED startedOnce

\* RESTART by the MQTT handler, or a loss of power.
Restarts == OtaReset /\ MqttReset /\ startedOnce' = FALSE

MqttRestart == rebooting /\ Restarts

SysNext ==
  \/ MqttOwn /\ UNCHANGED <<otaVars, startedOnce>>
  \/ OtaOwn /\ UNCHANGED <<vars, startedOnce>>
  \/ AppStartsMqtt
  \/ LooksAtClient \/ DestroysClient \/ ForgetsClient \/ Returns
  \/ Restarts

SysSpec == SysInit /\ [][SysNext]_sysVars

\* The tasks of both parts run, and a restart that was asked for happens.
SysFairSpec ==
  /\ SysSpec
  /\ WF_sysVars(Transfer /\ UNCHANGED <<vars, startedOnce>>)
  /\ WF_sysVars(LooksAtClient \/ ForgetsClient \/ Returns)
  /\ SF_sysVars(DestroysClient)
  /\ WF_sysVars((Connected \/ Disconnected) /\ UNCHANGED <<otaVars, startedOnce>>)
  /\ WF_sysVars(MqttRestart)
-------------------------------------------------------------------------------
(* ota.c 94-106 with mqtt_ctrl.c 110-127: an update that took the client    *)
(* away is not cut off, once it writes the flash, by the restart the MQTT   *)
(* handler asks for.  (An update that began before the application started  *)
(* its client has no such protection.)                                      *)
NoRestartWhileFlashing == rebooting /\ mqtt_on => ~updOpen

(* ota.c 92-106, 240-244: the memory of the MQTT client is free as long as  *)
(* the HTTP client lives, and afterwards the client is back.                *)
ClientsTakeTurns == http /\ mqtt_on => client = "none" /\ ~handle

(* ota.c 94-96, 242-243: an update that took the MQTT client away gives it  *)
(* back, however the download ends (mqtt_start itself succeeding).          *)
MqttComesBack ==
  (mqtt_on /\ client = "none")
    ~> (client # "none" \/ (otaPc = "idle" /\ ~startedOnce))
===============================================================================
