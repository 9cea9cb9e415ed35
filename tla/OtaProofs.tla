------------------------------- MODULE OtaProofs -------------------------------
(***************************************************************************)
(* The firmware update, for any set of partitions and any image size: by   *)
(* itself, together with the MQTT client whose memory it takes, and with   *)
(* crashes and the check at boot, which may switch to the recovery image.  *)
(* OtaInv (Ota.tla) and BootInv (CrashBoot.tla) are inductive; MqttInv and *)
(* SysInv below add to them what the two clients know of each other.       *)
(***************************************************************************)
EXTENDS MqttOta, CrashBoot, TLAPS

USE OtaConstants DEF OtaConstants

-------------------------------------------------------------------------------
(* The update by itself.                                                   *)

LEMMA OtaInitInv == OtaInit => OtaInv
<1> SUFFICES ASSUME OtaInit PROVE OtaTypeOK /\ OtaCore
    BY DEF OtaInv
<1> USE DEF OtaInit, OtaFresh
<1>1. OtaTypeOK
  <2>1. flash \in [Parts -> Contents]
        BY DEF Contents
  <2>2. len \in 0..MaxLen /\ binary_read \in 0..PartSize
        OBVIOUS
  <2>3. otaPc \in Steps /\ body \in Bodies
        BY DEF Steps, Bodies
  <2> QED
      BY <2>1, <2>2, <2>3 DEF OtaTypeOK
<1>2. OtaCore
      BY DEF OtaCore, RunningIsIntact, Bootable
<1> QED
      BY <1>1, <1>2

\* Each step keeps the types; the length bounds come from OtaCore.
LEMMA OtaStepTypes == OtaInv /\ [OtaNext]_otaVars => OtaTypeOK'
<1> SUFFICES ASSUME OtaInv, [OtaNext]_otaVars PROVE OtaTypeOK'
    OBVIOUS
<1> USE DEF OtaInv, OtaTypeOK, OtaCore, Contents, Bodies, Steps
<1> USE DEF At, Goto, disk, upd, feed
<1>1. ASSUME NEW p \in Parts \cup {NoPart}, OtaFind(p) PROVE OtaTypeOK'
  <2>1. len' \in 0..MaxLen /\ binary_read' \in 0..PartSize
        BY <1>1 DEF OtaFind, Updateable
  <2>2. /\ otaPc' \in Steps /\ ret_val' \in {"none", "busy", "ok", "fail"}
        /\ target' \in Parts \cup {NoPart} /\ body' \in Bodies
        BY <1>1 DEF OtaFind, Updateable
  <2> QED
      BY <1>1, <2>1, <2>2 DEF OtaFind, Updateable
<1>2. ASSUME NEW on \in BOOLEAN, OtaLook(on) PROVE OtaTypeOK'
      BY <1>2 DEF OtaLook
<1>3. CASE OtaDestroy
      BY <1>3 DEF OtaDestroy
<1>4. CASE OtaForget
      BY <1>4 DEF OtaForget
<1>5. CASE OtaHttp
      BY <1>5 DEF OtaHttp
<1>6. CASE OtaOpen
      BY <1>6 DEF OtaOpen
<1>7. CASE OtaHeaders
      BY <1>7 DEF OtaHeaders
<1>8. CASE OtaBegin
      BY <1>8 DEF OtaBegin
<1>9. CASE OtaChunk
      BY <1>9 DEF OtaChunk
<1>10. CASE OtaEof
      BY <1>10 DEF OtaEof
<1>11. CASE OtaReadError
      BY <1>11 DEF OtaReadError
<1>12. CASE OtaEnd
      BY <1>12 DEF OtaEnd
<1>13. CASE OtaAbort
      BY <1>13 DEF OtaAbort
<1>14. CASE OtaCleanup
      BY <1>14 DEF OtaCleanup
<1>15. CASE OtaReturn
      BY <1>15 DEF OtaReturn
<1>16. ASSUME NEW p \in Parts, BootFrom(p) PROVE OtaTypeOK'
      BY <1>16 DEF BootFrom
<1>17. CASE OtaReset
  <2>1. len' \in 0..MaxLen /\ binary_read' \in 0..PartSize
        BY <1>17 DEF OtaReset, Starts
  <2>2. /\ otaPc' \in Steps /\ ret_val' \in {"none", "busy", "ok", "fail"}
        /\ target' \in Parts \cup {NoPart} /\ body' \in Bodies
        BY <1>17 DEF OtaReset, Starts
  <2> QED
      BY <1>17, <2>1, <2>2 DEF OtaReset, Starts
<1>18. CASE UNCHANGED otaVars
      BY <1>18 DEF otaVars
<1> QED
      BY <1>1, <1>2, <1>3, <1>4, <1>5, <1>6, <1>7, <1>8, <1>9,
         <1>10, <1>11, <1>12, <1>13, <1>14, <1>15, <1>16, <1>17, <1>18
      DEF OtaNext, OtaOwn, Transfer

\* Each step keeps what ota_task knows.
LEMMA OtaStepCore == OtaInv /\ [OtaNext]_otaVars => OtaCore'
<1> SUFFICES ASSUME OtaInv, [OtaNext]_otaVars PROVE OtaCore'
    OBVIOUS
<1> USE DEF OtaInv, OtaTypeOK, OtaCore, Contents, RunningIsIntact, Bootable
<1> USE DEF At, Goto, disk, upd, feed
<1>1. ASSUME NEW p \in Parts \cup {NoPart}, OtaFind(p) PROVE OtaCore'
      BY <1>1 DEF OtaFind, Updateable
<1>2. ASSUME NEW on \in BOOLEAN, OtaLook(on) PROVE OtaCore'
      BY <1>2 DEF OtaLook
<1>3. CASE OtaDestroy
      BY <1>3 DEF OtaDestroy
<1>4. CASE OtaForget
      BY <1>4 DEF OtaForget
<1>5. CASE OtaHttp
      BY <1>5 DEF OtaHttp
<1>6. CASE OtaOpen
      BY <1>6 DEF OtaOpen
<1>7. CASE OtaHeaders
      BY <1>7 DEF OtaHeaders
<1>8. CASE OtaBegin
      BY <1>8 DEF OtaBegin
<1>9. CASE OtaChunk
      BY <1>9 DEF OtaChunk
<1>10. CASE OtaEof
      BY <1>10 DEF OtaEof
<1>11. CASE OtaReadError
      BY <1>11 DEF OtaReadError
<1>12. CASE OtaEnd
      BY <1>12 DEF OtaEnd
<1>13. CASE OtaAbort
      BY <1>13 DEF OtaAbort
<1>14. CASE OtaCleanup
      BY <1>14 DEF OtaCleanup
<1>15. CASE OtaReturn
      BY <1>15 DEF OtaReturn
<1>16. ASSUME NEW p \in Parts, BootFrom(p) PROVE OtaCore'
      BY <1>16 DEF BootFrom
<1>17. CASE OtaReset
      BY <1>17 DEF OtaReset, Starts
<1>18. CASE UNCHANGED otaVars
      BY <1>18 DEF otaVars
<1> QED
      BY <1>1, <1>2, <1>3, <1>4, <1>5, <1>6, <1>7, <1>8, <1>9,
         <1>10, <1>11, <1>12, <1>13, <1>14, <1>15, <1>16, <1>17, <1>18
      DEF OtaNext, OtaOwn, Transfer

LEMMA OtaInvariant == OtaSpec => []OtaInv
  <1>1. OtaInv /\ [OtaNext]_otaVars => OtaInv'
      BY OtaStepTypes, OtaStepCore DEF OtaInv
<1> QED
      BY <1>1, OtaInitInv, PTL DEF OtaSpec

(* Type correctness; in particular no more is written than fits in the      *)
(* partition (ota.c 146-204).                                               *)
THEOREM OtaTypes == OtaSpec => []OtaTypeOK
  BY OtaInvariant, PTL DEF OtaInv

(* Whatever happens, the running partition holds a whole image (ota.c       *)
(* 41-65 and the boot command).                                             *)
THEOREM OtaNeverBricks == OtaSpec => []RunningIsIntact
  BY OtaInvariant, PTL DEF OtaInv, OtaCore

(* A reported success is a verified image in the partition that was named.  *)
THEOREM OtaSuccessIsReal == OtaSpec => []OkMeansNewImage
<1>1. OtaInv => OkMeansNewImage
      BY DEF OtaInv, OtaCore, OkMeansNewImage, At
<1> QED
      BY <1>1, OtaInvariant, PTL

(* The update handle and the HTTP client are released exactly once.         *)
THEOREM OtaReleases == OtaSpec => []HandlesReleased
<1>1. OtaInv => HandlesReleased
      BY DEF OtaInv, OtaCore, HandlesReleased, At
<1> QED
      BY <1>1, OtaInvariant, PTL

-------------------------------------------------------------------------------
(* The MQTT client by itself, and with an update.                           *)

USE MqttConstants DEF MqttConstants

\* What the client's task knows about its own state.
MqttCore ==
  /\ BitMatchesClient
  /\ client = "connecting" => ~rebooting
  /\ rebooting => client = "lost"
  /\ client # "none" => handle
  /\ rxQueue <= heap /\ (rxBusy => rxQueue < heap)

MqttInv == MqttTypeOK /\ MqttCore

LEMMA MqttInitInv == Init => MqttInv
<1> SUFFICES ASSUME Init PROVE MqttTypeOK /\ MqttCore
    BY DEF MqttInv
<1> USE DEF Init, MqttInit, NetInit
<1>1. fail_count \in 0..MaxFails /\ rxQueue \in 0..QueueCap /\ heap \in 0..MaxHeap
      OBVIOUS
<1>2. net \in NetStates /\ pub \in [Publishers -> PubStates]
      BY DEF NetStates, PubStates
<1>3. MqttTypeOK
      BY <1>1, <1>2 DEF MqttTypeOK
<1>4. MqttCore
      BY DEF MqttCore, BitMatchesClient
<1> QED
      BY <1>3, <1>4

\* A step of the MQTT client, or a reset at any time, keeps the types.
LEMMA MqttStepTypes == MqttInv /\ [Next \/ MqttReset]_vars => MqttTypeOK'
<1> SUFFICES ASSUME MqttInv, [Next \/ MqttReset]_vars PROVE MqttTypeOK'
    OBVIOUS
<1> USE DEF MqttInv, MqttTypeOK, MqttCore, NetStates, PubStates, mqttVars, rx
<1>1. CASE NetChanges
      BY <1>1 DEF NetChanges, NetNext, Associate, Address, LoseAddress, GoOffline
<1>2. CASE BrokerChanges
      BY <1>2 DEF BrokerChanges
<1>3. CASE Accepted \/ Lost
      BY <1>3 DEF Accepted, Lost
<1>14. CASE Connected
  <2>1. fail_count' \in 0..MaxFails /\ mqttBit' = TRUE
        BY <1>14 DEF Connected
  <2> QED
      BY <1>14, <2>1 DEF Connected
<1>4. CASE Disconnected
  <2>1. fail_count' \in 0..MaxFails
        BY <1>4 DEF Disconnected, NextFailCount
  <2>2. rebooting' \in BOOLEAN /\ client' \in {"lost", "connecting"}
        BY <1>4 DEF Disconnected
  <2>3. UNCHANGED <<net, broker, handle, rx, pub>> /\ mqttBit' = FALSE
        BY <1>4 DEF Disconnected
  <2> QED
      BY <2>1, <2>2, <2>3
<1>5. CASE Data
  <2>1. heap' \in 0..MaxHeap /\ rxQueue' \in 0..QueueCap
        BY <1>5 DEF Data
  <2> QED
      BY <1>5, <2>1 DEF Data
<1>6. CASE RxTake
      BY <1>6 DEF RxTake
<1>7. CASE RxDone
  <2>1. heap' \in 0..MaxHeap
        BY <1>7 DEF RxDone
  <2> QED
      BY <1>7, <2>1 DEF RxDone
<1>8. ASSUME NEW p \in Publishers, Publish(p) PROVE MqttTypeOK'
      BY <1>8 DEF Publish, PubCheck, PubCall, PubReturn, SetPub
<1>9. CASE MqttStart
      BY <1>9 DEF MqttStart
<1>10. CASE DestroyClient
      BY <1>10 DEF DestroyClient
<1>11. CASE ForgetClient
      BY <1>11 DEF ForgetClient
<1>12. CASE MqttReset
  <2>1. /\ fail_count' \in 0..MaxFails
        /\ rxQueue' \in 0..QueueCap /\ heap' \in 0..MaxHeap
        BY <1>12 DEF MqttReset
  <2>2. pub' \in [Publishers -> PubStates]
        BY <1>12 DEF MqttReset
  <2> QED
      BY <1>12, <2>1, <2>2 DEF MqttReset
<1>13. CASE UNCHANGED vars
      BY <1>13 DEF vars
<1> QED
      BY <1>1, <1>2, <1>3, <1>4, <1>5, <1>6, <1>7, <1>8, <1>9, <1>10, <1>11,
         <1>12, <1>13, <1>14 DEF Next, MqttOwn, ClientStep, Reset

\* A step of the MQTT client, or a reset at any time, keeps MqttCore.
LEMMA MqttStepCore == MqttInv /\ [Next \/ MqttReset]_vars => MqttCore'
<1> SUFFICES ASSUME MqttInv, [Next \/ MqttReset]_vars PROVE MqttCore'
    OBVIOUS
<1> USE DEF MqttInv, MqttTypeOK, MqttCore, BitMatchesClient, mqttVars, rx
<1>1. CASE NetChanges
      BY <1>1 DEF NetChanges
<1>2. CASE BrokerChanges
      BY <1>2 DEF BrokerChanges
<1>3. CASE Accepted \/ Lost \/ Connected
      BY <1>3 DEF Accepted, Lost, Connected
<1>4. CASE Disconnected
  <2>1. client' \in {"lost", "connecting"} /\ mqttBit' = FALSE
        BY <1>4 DEF Disconnected
  <2>2. (rebooting' => client' = "lost") /\ (client' = "connecting" => ~rebooting')
        BY <1>4 DEF Disconnected
  <2>3. UNCHANGED <<handle, rxTask, rxQueue, rxBusy, heap>> /\ handle
        BY <1>4 DEF Disconnected
  <2> QED
      BY <2>1, <2>2, <2>3
<1>5. CASE Data
      BY <1>5 DEF Data
<1>6. CASE RxTake
      BY <1>6 DEF RxTake
<1>7. CASE RxDone
      BY <1>7 DEF RxDone
<1>8. ASSUME NEW p \in Publishers, Publish(p) PROVE MqttCore'
      BY <1>8 DEF Publish, PubCheck, PubCall, PubReturn
<1>9. CASE MqttStart
  <2>1. mqttBit' = FALSE /\ UNCHANGED rebooting /\ ~rebooting
        BY <1>9 DEF MqttStart
  <2>2. /\ client' \in {"none", "stopped", "connecting"}
        /\ client' # "none" => handle'
        BY <1>9 DEF MqttStart
  <2>3. UNCHANGED <<rxQueue, rxBusy, heap>>
        BY <1>9 DEF MqttStart
  <2> QED
      BY <2>1, <2>2, <2>3
<1>10. CASE DestroyClient
      BY <1>10 DEF DestroyClient, Dispatching
<1>11. CASE ForgetClient
      BY <1>11 DEF ForgetClient
<1>12. CASE MqttReset
      BY <1>12 DEF MqttReset
<1>13. CASE UNCHANGED vars
      BY <1>13 DEF vars
<1> QED
      BY <1>1, <1>2, <1>3, <1>4, <1>5, <1>6, <1>7, <1>8, <1>9, <1>10, <1>11,
         <1>12, <1>13 DEF Next, MqttOwn, ClientStep, Reset

LEMMA MqttStepInv == MqttInv /\ [Next \/ MqttReset]_vars => MqttInv'
  BY MqttStepTypes, MqttStepCore DEF MqttInv

(* Type correctness of the MQTT client.                                     *)
THEOREM MqttTypes == Spec => []MqttTypeOK
<1>1. MqttInv /\ [Next]_vars => MqttInv'
      BY MqttStepInv
<1> QED
      BY <1>1, MqttInitInv, PTL DEF Spec, MqttInv

(* MQTT_CONNECTED_BIT follows the client, across reconnections, restarts of  *)
(* the client and failures of mqtt_start.                                   *)
THEOREM MqttBitFollowsClient == Spec => []BitMatchesClient
<1>1. MqttInv /\ [Next]_vars => MqttInv'
      BY MqttStepInv
<1> QED
      BY <1>1, MqttInitInv, PTL DEF Spec, MqttInv, MqttCore

-------------------------------------------------------------------------------
\* The steps of ota_task during which an MQTT client it destroyed is away.
Away == {"http", "open", "headers", "begin", "read", "end", "abort", "cleanup",
         "restart"}

\* Who has the client: ota_task, from destroying it to starting it again.
SysCore ==
  /\ handle => startedOnce
  /\ mqtt_on => startedOnce
  /\ otaPc = "mqtt" => ~mqtt_on
  /\ mqtt_on /\ otaPc = "forget" => client = "none"
  /\ mqtt_on /\ otaPc \in Away => client = "none" /\ ~handle

SysInv == MqttInv /\ OtaInv /\ SysCore

\* A composed step is a step, or a stutter, of each part.
LEMMA SysStepProjects ==
  ASSUME MqttInv, [SysNext]_sysVars
  PROVE  [Next \/ MqttReset]_vars /\ [OtaNext]_otaVars
<1>1. handle \in BOOLEAN
      BY DEF MqttInv, MqttTypeOK
<1>2. [Next \/ MqttReset]_vars
      BY DEF SysNext, sysVars, Next, AppStartsMqtt, LooksAtClient,
             DestroysClient, ForgetsClient, Returns, Restarts
<1>3. [OtaNext]_otaVars
      BY <1>1 DEF SysNext, sysVars, OtaNext, AppStartsMqtt, LooksAtClient,
             DestroysClient, ForgetsClient, Returns, Restarts
<1> QED
      BY <1>2, <1>3

\* Without its owner the client neither comes nor goes.
LEMMA OwnStepsKeepClient ==
  ASSUME MqttOwn
  PROVE  UNCHANGED handle /\ (client = "none" => client' = "none")
<1> USE DEF mqttVars
<1>1. CASE NetChanges \/ BrokerChanges
      BY <1>1 DEF NetChanges, BrokerChanges
<1>2. CASE ClientStep
      BY <1>2 DEF ClientStep, Accepted, Lost, Connected, Disconnected, Data
<1>3. CASE RxTake \/ RxDone
      BY <1>3 DEF RxTake, RxDone
<1>4. ASSUME NEW p \in Publishers, Publish(p)
      PROVE  UNCHANGED handle /\ (client = "none" => client' = "none")
      BY <1>4 DEF Publish, PubCheck, PubCall, PubReturn
<1> QED
      BY <1>1, <1>2, <1>3, <1>4 DEF MqttOwn

\* The steps of the download stay away from the client and end in "restart".
LEMMA TransferStaysAway ==
  ASSUME Transfer PROVE otaPc \in Away /\ otaPc' \in Away /\ UNCHANGED mqtt_on
  BY DEF Transfer, Away, OtaHttp, OtaOpen, OtaHeaders, OtaBegin, OtaChunk,
         OtaEof, OtaReadError, OtaEnd, OtaAbort, OtaCleanup, At, Goto, disk,
         upd, feed

LEMMA SysStepCore == SysInv /\ [SysNext]_sysVars => SysCore'
<1> SUFFICES ASSUME SysInv, [SysNext]_sysVars PROVE SysCore'
    OBVIOUS
<1> USE DEF SysInv, SysCore, Away, At, Goto
<1>1. CASE MqttOwn /\ UNCHANGED <<otaVars, startedOnce>>
      BY <1>1, OwnStepsKeepClient DEF otaVars
<1>2. CASE OtaOwn /\ UNCHANGED <<vars, startedOnce>>
  <2>1. UNCHANGED <<handle, client, startedOnce>>
        BY <1>2 DEF vars, mqttVars
  <2>2. CASE Transfer
        BY <2>1, <2>2, TransferStaysAway
  <2>3. ASSUME NEW p \in Parts \cup {NoPart}, OtaFind(p) PROVE SysCore'
        BY <2>1, <2>3 DEF OtaFind
  <2>4. ASSUME NEW p \in Parts, BootFrom(p) PROVE SysCore'
        BY <2>1, <2>4 DEF BootFrom
  <2> QED
      BY <1>2, <2>2, <2>3, <2>4 DEF OtaOwn
<1>3. CASE AppStartsMqtt
      BY <1>3 DEF AppStartsMqtt, otaVars
<1>4. CASE LooksAtClient
      BY <1>4 DEF LooksAtClient, OtaLook, vars, mqttVars
<1>5. CASE DestroysClient
      BY <1>5 DEF DestroysClient, OtaDestroy, DestroyClient
<1>6. CASE ForgetsClient
      BY <1>6 DEF ForgetsClient, OtaForget, ForgetClient
<1>7. CASE Returns
  <2>1. otaPc' = "idle" /\ UNCHANGED <<mqtt_on, startedOnce>>
        BY <1>7 DEF Returns, OtaReturn
  <2>2. handle' => startedOnce'
        BY <1>7 DEF Returns, OtaReturn, vars, mqttVars
  <2> QED
      BY <2>1, <2>2
<1>8. CASE Restarts
      BY <1>8 DEF Restarts, OtaReset, MqttReset
<1>9. CASE UNCHANGED sysVars
      BY <1>9 DEF sysVars, vars, mqttVars, otaVars
<1> QED
      BY <1>1, <1>2, <1>3, <1>4, <1>5, <1>6, <1>7, <1>8, <1>9 DEF SysNext

LEMMA SysInvariant == SysSpec => []SysInv
<1>1. SysInit => SysInv
  <2> SUFFICES ASSUME SysInit PROVE MqttInv /\ OtaInv /\ SysCore
      BY DEF SysInv
  <2>1. SysCore
        BY DEF SysInit, Init, MqttInit, OtaInit, OtaFresh, SysCore, Away
  <2> QED
      BY <2>1, MqttInitInv, OtaInitInv DEF SysInit
<1>2. SysInv /\ [SysNext]_sysVars => SysInv'
      BY SysStepProjects, SysStepCore, MqttStepInv, OtaStepTypes, OtaStepCore
      DEF SysInv, OtaInv
<1> QED
      BY <1>1, <1>2, PTL DEF SysSpec

(* An update that took the MQTT client away is not cut off by the restart   *)
(* that the MQTT handler asks for.                                          *)
THEOREM UpdateIsNotCutOff == SysSpec => []NoRestartWhileFlashing
<1>1. SysInv => NoRestartWhileFlashing
      BY DEF SysInv, MqttInv, MqttCore, OtaInv, OtaCore, SysCore, Away,
             NoRestartWhileFlashing
<1> QED
      BY <1>1, SysInvariant, PTL

(* The MQTT client and the HTTP client of an update never exist together.   *)
THEOREM ClientsAreExclusive == SysSpec => []ClientsTakeTurns
<1>1. SysInv => ClientsTakeTurns
      BY DEF SysInv, OtaInv, OtaCore, SysCore, Away, ClientsTakeTurns
<1> QED
      BY <1>1, SysInvariant, PTL

(* The guarantees of the update hold in the composed system as well.        *)
THEOREM SystemNeverBricks == SysSpec => []RunningIsIntact
<1>1. SysInv => RunningIsIntact
      BY DEF SysInv, OtaInv, OtaCore
<1> QED
      BY <1>1, SysInvariant, PTL

-------------------------------------------------------------------------------
(* Crash handling: the check at boot takes only steps the firmware update  *)
(* allows, so that the results about the update hold here as well; BootInv *)
(* leans on that.                                                          *)

USE CrashConstants DEF CrashConstants

LEMMA ResetsAreResets == ASSUME NEW why, ResetsFor(why) PROVE OtaNext
  BY DEF ResetsFor, OtaNext

LEMMA BootStepIsOtaStep == [BootNext]_bootVars => [OtaNext]_otaVars
<1> SUFFICES ASSUME [BootNext]_bootVars PROVE OtaNext \/ UNCHANGED otaVars
    OBVIOUS
<1>1. CASE StartsApp \/ ClearsCount \/ CountsBoot \/ BootTick
      BY <1>1 DEF StartsApp, ClearsCount, CountsBoot, BootTick
<1>2. CASE SwitchesToRecovery
      BY <1>2 DEF SwitchesToRecovery, OtaNext, OtaOwn
<1>3. ASSUME NEW p \in Parts, ChoosesBoot(p) PROVE OtaNext
      BY <1>3 DEF ChoosesBoot, OtaNext, OtaOwn
<1>4. CASE Updates
      BY <1>4 DEF Updates, OtaProgress, OtaNext, OtaOwn
<1>5. CASE SwRestarts \/ Panics \/ LosesPower
      BY <1>5, ResetsAreResets DEF SwRestarts, Panics, LosesPower
<1>6. CASE UNCHANGED bootVars
      BY <1>6 DEF bootVars
<1> QED
    BY <1>1, <1>2, <1>3, <1>4, <1>5, <1>6 DEF BootNext

(* crash_handler.c 124-151 with ota.c: the check at boot does nothing to    *)
(* the partitions that the boot command could not do.                       *)
THEOREM CrashBootImplementsOta == BootSpec => OtaSpec
<1>1. BootInit => OtaInit
      BY DEF BootInit
<1> QED
    BY <1>1, BootStepIsOtaStep, PTL DEF BootSpec, OtaSpec

(* Whatever crashes, however often, there is an image to start.             *)
THEOREM CrashesNeverBrick == BootSpec => []RunningIsIntact
  BY CrashBootImplementsOta, OtaNeverBricks, PTL

-------------------------------------------------------------------------------
LEMMA BootInitInv == BootInit => BootInv
  BY DEF BootInit, OtaInit, OtaFresh, BootInv, BootTypeOK, BootCore

LEMMA BootStepTypes == BootTypeOK /\ [BootNext]_bootVars => BootTypeOK'
<1> SUFFICES ASSUME BootTypeOK, [BootNext]_bootVars PROVE BootTypeOK'
    OBVIOUS
<1> USE DEF BootTypeOK, crashVars, record
<1>0. InitCount \in 0..MaxCount
      BY DEF InitCount
<1>1. CASE StartsApp
      BY <1>0, <1>1 DEF StartsApp, Checks
<1>2. CASE SwitchesToRecovery
      BY <1>0, <1>2 DEF SwitchesToRecovery, Checks
<1>3. CASE ClearsCount
      BY <1>3 DEF ClearsCount, Checks
<1>4. CASE CountsBoot
      BY <1>4 DEF CountsBoot
<1>5. CASE BootTick
      BY <1>5 DEF BootTick, ProvenGood
<1>6. ASSUME NEW p \in Parts, ChoosesBoot(p) PROVE BootTypeOK'
      BY <1>6 DEF ChoosesBoot
<1>7. CASE Updates
      BY <1>7 DEF Updates
<1>8. CASE SwRestarts
      BY <1>8 DEF SwRestarts, ResetsFor
<1>9. CASE Panics
      BY <1>9 DEF Panics, ResetsFor
<1>10. CASE LosesPower
       BY <1>10 DEF LosesPower, ResetsFor
<1>11. CASE UNCHANGED bootVars
       BY <1>11 DEF bootVars
<1> QED
    BY <1>1, <1>2, <1>3, <1>4, <1>5, <1>6, <1>7, <1>8, <1>9, <1>10, <1>11
    DEF BootNext

\* A reset starts the selected partition, or the one that ran before.
LEMMA ResetFacts ==
  ASSUME OtaInv, NEW why, ResetsFor(why)
  PROVE  /\ running' \in Parts /\ otaPc' = "idle" /\ phase' = "early"
         /\ boot' = boot /\ flash' = flash /\ reason' = why
         /\ Bootable(flash[boot]) => running' = boot
         /\ boot = running => running' = running
         /\ running' # running => running' = boot
<1>1. /\ running' \in Parts /\ otaPc' = "idle" /\ phase' = "early"
      /\ boot' = boot /\ flash' = flash /\ reason' = why
      BY DEF ResetsFor, OtaReset
<1>2. Starts(running')
      BY DEF ResetsFor, OtaReset
<1>3. Bootable(flash[running]) /\ running \in Parts /\ boot \in Parts
      BY DEF OtaInv, OtaTypeOK, OtaCore, RunningIsIntact
<1>4. Bootable(flash[boot]) => running' = boot
      BY <1>2 DEF Starts
<1>5. running' # running => running' = boot
  <2> SUFFICES ASSUME running' # running, running' # boot PROVE FALSE
      OBVIOUS
  <2>1. boot = running
        BY <1>1, <1>3
  <2> QED
      BY <2>1, <1>3, <1>4
<1> QED
    BY <1>1, <1>3, <1>4, <1>5

\* What an update leaves alone.
LEMMA UpdateFacts ==
  ASSUME OtaInv, Updates
  PROVE  /\ phase = "app" /\ UNCHANGED crashVars
         /\ running' = running /\ boot' = boot
  BY DEF Updates, OtaProgress, Transfer, disk, OtaFind, OtaLook, OtaDestroy, OtaForget,
     OtaReturn, OtaHttp, OtaOpen, OtaHeaders, OtaBegin, OtaChunk, OtaEof,
     OtaReadError, OtaEnd, OtaAbort, OtaCleanup

LEMMA BootStepCore ==
  OtaInv /\ BootInv /\ [BootNext]_bootVars => BootCore'
<1> SUFFICES ASSUME OtaInv, BootInv, [BootNext]_bootVars PROVE BootCore'
    OBVIOUS
<1> USE DEF BootInv, BootTypeOK, BootCore, crashVars, record
<1>0. running \in Parts /\ boot \in Parts
      BY DEF OtaInv, OtaTypeOK
<1>1. CASE StartsApp
      BY <1>0, <1>1 DEF StartsApp, Checks, InitCount, CrashedBefore, otaVars
<1>2. CASE SwitchesToRecovery
      BY <1>0, <1>2 DEF SwitchesToRecovery, Checks, InitCount, CrashedBefore,
         BootFrom
<1>3. CASE ClearsCount
      BY <1>0, <1>3 DEF ClearsCount, Checks, InitCount, CrashedBefore, otaVars
<1>4. CASE CountsBoot
      BY <1>0, <1>4 DEF CountsBoot, otaVars
<1>5. CASE BootTick
      BY <1>0, <1>5 DEF BootTick, ProvenGood, otaVars
<1>6. ASSUME NEW p \in Parts, ChoosesBoot(p) PROVE BootCore'
      BY <1>0, <1>6 DEF ChoosesBoot, BootFrom
<1>7. CASE Updates
      BY <1>0, <1>7, UpdateFacts
<1>8. CASE SwRestarts
  <2>1. ResetsFor("sw")
        BY <1>8 DEF SwRestarts
  <2>2. /\ running' \in Parts /\ otaPc' = "idle" /\ phase' = "early"
        /\ boot' = boot /\ flash' = flash /\ reason' = "sw"
        /\ Bootable(flash[boot]) => running' = boot
        /\ boot = running => running' = running
        /\ running' # running => running' = boot
        BY <2>1, ResetFacts
  <2> QED
      BY <1>0, <1>8, <2>2 DEF SwRestarts
<1>9. CASE Panics
  <2>1. ResetsFor("panic")
        BY <1>9 DEF Panics
  <2>2. /\ running' \in Parts /\ otaPc' = "idle" /\ phase' = "early"
        /\ boot' = boot /\ flash' = flash /\ reason' = "panic"
        /\ Bootable(flash[boot]) => running' = boot
        /\ boot = running => running' = running
        /\ running' # running => running' = boot
        BY <2>1, ResetFacts
  <2>3. magic => magic'
        BY <1>9, Zenon DEF Panics
  <2>4. /\ boot_count' = boot_count
        /\ verdict' = IF phase = "app" /\ verdict = "trial" /\ running = Production
                        THEN "bad" ELSE verdict
        BY <1>9 DEF Panics
  <2> QED
      BY <1>0, <2>2, <2>3, <2>4
<1>10. CASE LosesPower
  <2>1. ResetsFor("power")
        BY <1>10 DEF LosesPower
  <2>2. /\ running' \in Parts /\ otaPc' = "idle" /\ phase' = "early"
        /\ boot' = boot /\ flash' = flash /\ reason' = "power"
        /\ Bootable(flash[boot]) => running' = boot
        /\ boot = running => running' = running
        /\ running' # running => running' = boot
        BY <2>1, ResetFacts
  <2> QED
      BY <1>0, <1>10, <2>2 DEF LosesPower
<1>11. CASE UNCHANGED bootVars
       BY <1>11 DEF bootVars, otaVars
<1> QED
    BY <1>1, <1>2, <1>3, <1>4, <1>5, <1>6, <1>7, <1>8, <1>9, <1>10, <1>11
    DEF BootNext

LEMMA BootInvariant == BootSpec => []BootInv
<1>1. OtaInv /\ BootInv /\ [BootNext]_bootVars => BootInv'
      BY BootStepTypes, BootStepCore DEF BootInv
<1>2. BootSpec => []OtaInv
      BY CrashBootImplementsOta, OtaInvariant, PTL
<1> QED
    BY <1>1, <1>2, BootInitInv, PTL DEF BootSpec

(* Type correctness of the crash record and the boot phases.                *)
THEOREM CrashTypes == BootSpec => []BootTypeOK
  BY BootInvariant, PTL DEF BootInv

(* crash_handler.c 123-151: a production image that crashed before it was   *)
(* healthy stays out until it is selected again.                            *)
THEOREM CrashBadStaysOut == BootSpec => []BadStaysOut
<1>1. BootInv /\ OtaInv => BadStaysOut
      BY DEF BootInv, BootTypeOK, BootCore, BadStaysOut, OtaInv, OtaTypeOK
<1>2. BootSpec => []OtaInv
      BY CrashBootImplementsOta, OtaInvariant, PTL
<1> QED
    BY <1>1, <1>2, BootInvariant, PTL

(* crash_handler.c 96-101, 129: a production image that proved itself is    *)
(* started again after a crash.                                             *)
THEOREM CrashGoodStays == BootSpec => []GoodStays
<1>1. BootInv => GoodStays
      BY DEF BootInv, BootCore, GoodStays
<1> QED
    BY <1>1, BootInvariant, PTL
===============================================================================
