---------------------------------- MODULE Ota ----------------------------------
(***************************************************************************)
(* The firmware update of utils/ota.c (ota_task, run by the console command*)
(* "ota") and the choice of the boot partition ("boot", cmds/cmd_system.c),*)
(* with a loss of power or a restart at any point.                         *)
(*                                                                         *)
(* Outside src/: the HTTP server and client, the esp_ota_* calls, which    *)
(* keep one update open and verify an image when it is ended, and the boot *)
(* loader, which starts the selected partition or, if its image is broken, *)
(* another one.  MqttOta.tla joins this module with the MQTT client, whose *)
(* memory ota_task takes.                                                  *)
(***************************************************************************)
EXTENDS Naturals

CONSTANTS Parts,      \* application partitions
          NoPart,     \* no partition: a label nobody has
          PartSize,   \* chunks that fit in a partition
          MaxLen      \* largest length a server announces, in chunks

ASSUME OtaConstants ==
  /\ NoPart \notin Parts
  /\ PartSize \in Nat \ {0} /\ MaxLen \in Nat

VARIABLES
  running, boot,   \* the partition that runs; the one the boot loader is to start
  flash,           \* per partition: what is in it
  otaPc,           \* where ota_task is
  target,          \* update_partition
  mqtt_on,         \* the MQTT client was running
  http,            \* the HTTP client exists
  body,            \* what the server sends: a good image, a bad one, "not found"
  len,             \* the length it announced
  binary_read,     \* chunks written
  update_handle,   \* update_handle is not 0
  updOpen,         \* the update is open in the OTA library
  misuse,          \* the library was given a handle of no open update
  ret_val          \* result of the last ota_task

otaVars == <<running, boot, flash, otaPc, target, mqtt_on, http, body, len,
             binary_read, update_handle, updOpen, misuse, ret_val>>

disk == <<running, boot, flash>>
upd  == <<update_handle, updOpen, misuse>>
feed == <<body, len, binary_read>>

\* "old": the image before the update; "part": an unfinished update;
\* "new": an update the library verified.
Contents == {"old", "part", "new"}
Bootable(c) == c \in {"old", "new"}
Bodies == {"image", "badimage", "notfound"}
Steps == {"idle", "mqtt", "destroy", "forget", "http", "open", "headers",
          "begin", "read", "end", "abort", "cleanup", "restart"}

\* What a task finds in the variables of ota_task when it starts.
OtaFresh ==
  /\ otaPc = "idle" /\ target = NoPart /\ mqtt_on = FALSE
  /\ http = FALSE /\ body = "image" /\ len = 0 /\ binary_read = 0
  /\ update_handle = FALSE /\ updOpen = FALSE /\ misuse = FALSE
  /\ ret_val = "none"

OtaInit ==
  /\ running \in Parts /\ boot = running
  /\ flash = [p \in Parts |-> "old"]
  /\ OtaFresh

At(step) == otaPc = step
Goto(step) == otaPc' = step

-------------------------------------------------------------------------------
(* ota_task: the partition.                                                *)

\* Mutant: the running partition is not excluded.
Updateable_Any(p) == p \in Parts

\* get_updateable_partition: an application partition other than the running one.
Updateable(p) == p \in Parts /\ p # running

OtaFind(p) ==
  /\ At("idle")
  /\ target' = p
  /\ IF Updateable(p) THEN Goto("mqtt") /\ ret_val' = "busy"
                      ELSE Goto("idle") /\ ret_val' = "fail"
  /\ mqtt_on' = FALSE /\ update_handle' = FALSE
  /\ binary_read' = 0 /\ len' = 0
  /\ UNCHANGED <<disk, http, body, updOpen, misuse>>

\* Is there an MQTT client to destroy?
OtaLook(on) ==
  /\ At("mqtt") /\ mqtt_on' = on
  /\ Goto(IF on THEN "destroy" ELSE "http")
  /\ UNCHANGED <<disk, target, http, feed, upd, ret_val>>

OtaDestroy ==
  /\ At("destroy") /\ Goto("forget")
  /\ UNCHANGED <<disk, target, mqtt_on, http, feed, upd, ret_val>>

OtaForget ==
  /\ At("forget") /\ Goto("http")
  /\ UNCHANGED <<disk, target, mqtt_on, http, feed, upd, ret_val>>

-------------------------------------------------------------------------------
(* ota_task: the download.                                                 *)

OtaHttp ==
  /\ At("http") /\ ret_val' = "fail"
  /\ \/ http' = TRUE /\ Goto("open")
     \/ http' = FALSE /\ Goto("restart")
  /\ UNCHANGED <<disk, target, mqtt_on, feed, upd>>

OtaOpen ==
  /\ At("open") /\ (Goto("headers") \/ Goto("cleanup"))
  /\ body' \in Bodies
  /\ UNCHANGED <<disk, target, mqtt_on, http, len, binary_read, upd, ret_val>>

\* A server that does not say how long the image is gives 0.
OtaHeaders ==
  /\ At("headers") /\ len' \in 0..MaxLen
  /\ Goto(IF len' > 0 /\ len' <= PartSize THEN "begin" ELSE "cleanup")
  /\ UNCHANGED <<disk, target, mqtt_on, http, body, binary_read, upd, ret_val>>

\* esp_ota_begin erases the partition.
OtaBegin ==
  /\ At("begin")
  /\ \/ /\ Goto("read")
        /\ update_handle' = TRUE /\ updOpen' = TRUE
        /\ flash' = [flash EXCEPT ![target] = "part"]
     \/ /\ Goto("abort") /\ UNCHANGED <<update_handle, updOpen, flash>>
  /\ UNCHANGED <<running, boot, target, mqtt_on, http, feed, misuse, ret_val>>

\* The first chunk may hold the text of a "not found" page.
FirstChunkRefused == binary_read = 0 /\ body = "notfound"

\* A chunk arrives and is written, or the write fails.
OtaChunk ==
  /\ At("read") /\ binary_read < len
  /\ \/ ~FirstChunkRefused /\ binary_read' = binary_read + 1 /\ UNCHANGED otaPc
     \/ Goto("abort") /\ UNCHANGED binary_read
  /\ UNCHANGED <<disk, target, mqtt_on, http, body, len, upd, ret_val>>

\* Nothing more to read: the whole announced length, or a connection cut short.
OtaEof ==
  /\ At("read")
  /\ IF binary_read = len THEN ret_val' = "ok" /\ Goto("end")
                          ELSE UNCHANGED ret_val /\ Goto("abort")
  /\ UNCHANGED <<disk, target, mqtt_on, http, feed, upd>>

\* Mutant: a read error opens the connection again, any number of times.
OtaReadError_Reopens ==
  /\ At("read") /\ Goto("open")
  /\ UNCHANGED <<disk, target, mqtt_on, http, feed, upd, ret_val>>

\* esp_http_client_read reports an error.
OtaReadError ==
  /\ At("read") /\ Goto("abort")
  /\ UNCHANGED <<disk, target, mqtt_on, http, feed, upd, ret_val>>

\* Mutant: the result of esp_ota_end is not looked at.
OtaEnd_IgnoresResult ==
  /\ At("end") /\ Goto("abort")
  /\ updOpen' = FALSE /\ misuse' = (misuse \/ ~updOpen)
  /\ update_handle' = FALSE
  /\ flash' = IF body = "image" THEN [flash EXCEPT ![target] = "new"] ELSE flash
  /\ UNCHANGED <<running, boot, target, mqtt_on, http, feed, ret_val>>

\* Mutant: update_handle keeps its value, and esp_ota_abort is called as well.
OtaEnd_KeepsHandle ==
  /\ At("end") /\ Goto("abort")
  /\ updOpen' = FALSE /\ misuse' = (misuse \/ ~updOpen)
  /\ flash' = IF body = "image" THEN [flash EXCEPT ![target] = "new"] ELSE flash
  /\ ret_val' = IF body = "image" THEN "ok" ELSE "fail"
  /\ UNCHANGED <<running, boot, target, mqtt_on, http, feed, update_handle>>

\* esp_ota_end closes the update in any case and verifies the image.
OtaEnd ==
  /\ At("end") /\ Goto("abort")
  /\ updOpen' = FALSE /\ misuse' = (misuse \/ ~updOpen)
  /\ update_handle' = FALSE
  /\ IF body = "image"
       THEN /\ flash' = [flash EXCEPT ![target] = "new"]
            /\ UNCHANGED ret_val
       ELSE ret_val' = "fail" /\ UNCHANGED flash
  /\ UNCHANGED <<running, boot, target, mqtt_on, http, feed>>

\* esp_ota_abort, if the handle is still there.
OtaAbort ==
  /\ At("abort") /\ Goto("cleanup")
  /\ IF update_handle
       THEN /\ updOpen' = FALSE /\ misuse' = (misuse \/ ~updOpen)
            /\ update_handle' = FALSE
       ELSE UNCHANGED upd
  /\ UNCHANGED <<disk, target, mqtt_on, http, feed, ret_val>>

OtaCleanup ==
  /\ At("cleanup") /\ Goto("restart") /\ http' = FALSE
  /\ UNCHANGED <<disk, target, mqtt_on, feed, upd, ret_val>>

\* mqtt_start(NULL) if there was a client; its result is not looked at.
OtaReturn ==
  /\ At("restart") /\ Goto("idle")
  /\ UNCHANGED <<disk, target, mqtt_on, http, feed, upd, ret_val>>

-------------------------------------------------------------------------------
(* The console command "boot", in any task: esp_ota_set_boot_partition     *)
(* verifies the image first.                                               *)
BootFrom(p) ==
  /\ Bootable(flash[p]) /\ boot' = p
  /\ UNCHANGED <<running, flash, otaPc, target, mqtt_on, http, feed, upd, ret_val>>

\* The boot loader (external).
Starts(p) == IF Bootable(flash[boot]) THEN p = boot ELSE Bootable(flash[p])

\* A restart, a crash or a loss of power.
OtaReset ==
  /\ running' \in {p \in Parts : Starts(p)}
  /\ UNCHANGED <<boot, flash>>
  /\ otaPc' = "idle" /\ target' = NoPart /\ mqtt_on' = FALSE
  /\ http' = FALSE /\ body' = "image" /\ len' = 0 /\ binary_read' = 0
  /\ update_handle' = FALSE /\ updOpen' = FALSE /\ misuse' = FALSE
  /\ ret_val' = "none"

\* The steps of ota_task that do not touch the MQTT client.
Transfer ==
  \/ OtaHttp \/ OtaOpen \/ OtaHeaders \/ OtaBegin
  \/ OtaChunk \/ OtaEof \/ OtaReadError \/ OtaEnd \/ OtaAbort \/ OtaCleanup

OtaOwn ==
  \/ \E p \in Parts \cup {NoPart} : OtaFind(p)
  \/ Transfer
  \/ \E p \in Parts : BootFrom(p)

OtaNext ==
  \/ OtaOwn
  \/ \E on \in BOOLEAN : OtaLook(on)
  \/ OtaDestroy \/ OtaForget \/ OtaReturn
  \/ OtaReset

OtaSpec == OtaInit /\ [][OtaNext]_otaVars

\* Every call ota_task makes returns, after its timeout at the latest.
OtaProgress ==
  Transfer \/ (\E on \in BOOLEAN : OtaLook(on)) \/ OtaDestroy \/ OtaForget
           \/ OtaReturn

OtaFairSpec == OtaSpec /\ WF_otaVars(OtaProgress)
-------------------------------------------------------------------------------
OtaTypeOK ==
  /\ running \in Parts /\ boot \in Parts
  /\ flash \in [Parts -> Contents]
  /\ otaPc \in Steps
  /\ target \in Parts \cup {NoPart}
  /\ mqtt_on \in BOOLEAN /\ http \in BOOLEAN
  /\ body \in Bodies /\ len \in 0..MaxLen /\ binary_read \in 0..PartSize
  /\ update_handle \in BOOLEAN /\ updOpen \in BOOLEAN /\ misuse \in BOOLEAN
  /\ ret_val \in {"none", "busy", "ok", "fail"}

(* ota.c 41-64, cmd_system.c 1082-1135: wherever an update or the power     *)
(* stops, the partition that runs holds a whole image, so there is always   *)
(* one to start again.                                                      *)
RunningIsIntact == Bootable(flash[running])

(* ota.c 126-247: after an ota_task that reported success the partition     *)
(* holds the complete image, verified; until somebody overwrites it.        *)
OkMeansNewImage == At("idle") /\ ret_val = "ok" => flash[target] = "new"

(* ota.c 72-73, 137-138, 206-230, 237: the update handle and the HTTP       *)
(* client are released exactly once on every path out of the download.      *)
HandlesReleased ==
  /\ ~misuse
  /\ At("idle") => ~http /\ ~updOpen /\ ~update_handle

(* ota.c 146-204: the download ends, whatever the server does, unless it is *)
(* cut off by a reset.                                                      *)
OtaEnds == ~At("idle") ~> At("idle")

\* An inductive strengthening: what each step of ota_task knows.
OtaCore ==
  /\ RunningIsIntact
  /\ ~misuse
  /\ otaPc # "idle" => target \in Parts /\ target # running
  /\ http <=> otaPc \in {"open", "headers", "begin", "read", "end", "abort",
                         "cleanup"}
  /\ update_handle <=> updOpen
  /\ updOpen => otaPc \in {"read", "end", "abort"}
  /\ otaPc \in {"read", "end"} => updOpen
  /\ otaPc \in {"begin", "read", "end"} => len \in 1..PartSize /\ binary_read <= len
  /\ otaPc \notin {"read", "end", "abort", "cleanup", "restart", "idle"}
       => binary_read = 0
  /\ ret_val = "ok" => otaPc \in {"end", "abort", "cleanup", "restart", "idle"}
  /\ ret_val = "ok" /\ otaPc # "end"
       => ~updOpen /\ target \in Parts /\ flash[target] = "new"

OtaInv == OtaTypeOK /\ OtaCore
===============================================================================
