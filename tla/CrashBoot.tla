------------------------------- MODULE CrashBoot -------------------------------
(***************************************************************************)
(* Crash handling (utils/crash_handler.c) on top of the partitions of      *)
(* Ota.tla: a record in RTC memory that survives every restart but a loss  *)
(* of power, the check at boot that may select the recovery partition, and *)
(* the timer that declares a boot healthy.                                 *)
(*                                                                         *)
(* Outside src/: the application, which calls checkLastCrash first and     *)
(* counts its boot in boot_count once it runs (nothing in src/ increments  *)
(* it), the boot loader, and the chip, which keeps the reason of a reset.  *)
(* verdict is a history variable: what the program in the production       *)
(* partition has shown of itself.                                          *)
(***************************************************************************)
EXTENDS Ota

CONSTANTS Production, Recovery,   \* PRODUCTION_PART_NAME, RECOVERY_PART_NAME
          MaxCount                \* bound of boot_count

\* part_table*.csv: these are the application partitions there are.
ASSUME CrashConstants ==
  /\ Production # Recovery /\ Parts = {Production, Recovery}
  /\ MaxCount \in Nat \ {0}

VARIABLES
  magic,        \* g_crash->magic is CRASH_MAGIC
  boot_count,   \* g_crash->boot_count
  reason,       \* esp_reset_reason(): "power", "sw", or one of the crashes
  phase,        \* "early": before the check; "restarting": in its RESTART; "app"
  verdict       \* of the production image: "none", "trial", "good" or "bad"

record == <<magic, boot_count>>
crashVars == <<magic, boot_count, reason, phase, verdict>>
bootVars == <<otaVars, crashVars>>

BootInit ==
  /\ OtaInit
  /\ magic = FALSE /\ boot_count \in 0..MaxCount   \* memory after power on
  /\ reason = "power" /\ phase = "early" /\ verdict = "none"

-------------------------------------------------------------------------------
(* checkLastCrash, before any task of the application runs.                *)

\* Mutant: init_crash_info is forced, and clears a valid record too.
InitCount_Forced == 0

\* boot_count after init_crash_info(false).
InitCount == IF magic THEN boot_count ELSE 0

CrashedBefore == InitCount > 0 /\ reason = "panic"

Checks(next, count) ==
  /\ phase = "early" /\ phase' = next
  /\ magic' = TRUE /\ boot_count' = count /\ UNCHANGED reason

\* The health timer is started, and the application with it.
StartsApp ==
  /\ ~CrashedBefore /\ Checks("app", InitCount)
  /\ UNCHANGED <<verdict, otaVars>>

\* esp_ota_set_boot_partition succeeds: the count is kept.
SwitchesToRecovery ==
  /\ CrashedBefore /\ running = Production
  /\ Checks("restarting", InitCount)
  /\ BootFrom(Recovery) /\ UNCHANGED verdict

\* It crashed in recovery, or recovery cannot be selected: start the same again.
ClearsCount ==
  /\ CrashedBefore /\ Checks("restarting", 0)
  /\ verdict' = IF running = Production THEN "none" ELSE verdict
  /\ UNCHANGED otaVars

-------------------------------------------------------------------------------
(* The application runs.                                                   *)

\* The application counts its boot (external).
CountsBoot ==
  /\ phase = "app" /\ boot_count < MaxCount
  /\ boot_count' = boot_count + 1
  /\ verdict' = IF running = Production THEN "trial" ELSE verdict
  /\ UNCHANGED <<magic, reason, phase, otaVars>>

\* The production image has proved itself, unless another one was chosen meanwhile.
ProvenGood ==
  IF running # Production THEN verdict
  ELSE IF boot = Production THEN "good" ELSE "none"

\* Mutant: the timer updates the time and the heart beat only.
BootTick_KeepsCount ==
  /\ phase = "app" /\ verdict' = ProvenGood
  /\ UNCHANGED <<record, reason, phase, otaVars>>

\* boot_timer_callback, every HEALTH_BOOT_TIME; also clear_crash_info.
BootTick ==
  /\ phase = "app" /\ boot_count' = 0 /\ verdict' = ProvenGood
  /\ UNCHANGED <<magic, reason, phase, otaVars>>

\* The console command "boot": somebody decided what is to run.
ChoosesBoot(p) ==
  /\ phase = "app" /\ BootFrom(p) /\ verdict' = "none"
  /\ UNCHANGED <<record, reason, phase>>

\* ota_task.
Updates ==
  /\ phase = "app" /\ UNCHANGED crashVars
  /\ \/ \E p \in Parts \cup {NoPart} : OtaFind(p)
     \/ OtaProgress

-------------------------------------------------------------------------------
(* Resets: each goes through the boot loader and back to the check.        *)

ResetsFor(why) == OtaReset /\ reason' = why /\ phase' = "early"

\* RESTART and esp_restart.
SwRestarts ==
  /\ phase # "early" /\ ResetsFor("sw") /\ UNCHANGED <<record, verdict>>

\* The panic handler, a failed CRASH_ERROR_CHECK and the stack overflow hook
\* write the record; a reset by the RTC watchdog does not.
Panics ==
  /\ ResetsFor("panic")
  /\ magic' \in {TRUE, magic} /\ UNCHANGED boot_count
  /\ verdict' = IF phase = "app" /\ verdict = "trial" /\ running = Production
                  THEN "bad" ELSE verdict

\* A loss of power leaves anything in RTC memory but, by luck, the magic.  A
\* crash that was not looked at yet is forgotten.
LosesPower ==
  /\ ResetsFor("power") /\ magic' = FALSE /\ boot_count' \in 0..MaxCount
  /\ verdict' = IF verdict = "bad" /\ ~(phase = "early" /\ running = Production)
                  THEN "bad" ELSE "none"

BootNext ==
  \/ StartsApp \/ SwitchesToRecovery \/ ClearsCount
  \/ CountsBoot \/ BootTick \/ (\E p \in Parts : ChoosesBoot(p)) \/ Updates
  \/ SwRestarts \/ Panics \/ LosesPower

BootSpec == BootInit /\ [][BootNext]_bootVars

\* As in Ota.tla: the calls of ota_task return.
BootFairSpec == BootSpec /\ WF_bootVars(OtaProgress /\ UNCHANGED crashVars)
-------------------------------------------------------------------------------
BootTypeOK ==
  /\ magic \in BOOLEAN /\ boot_count \in 0..MaxCount
  /\ reason \in {"power", "sw", "panic"}
  /\ phase \in {"early", "restarting", "app"}
  /\ verdict \in {"none", "trial", "good", "bad"}

(* crash_handler.c 123-151: a production image that crashed before it was  *)
(* healthy for HEALTH_BOOT_TIME does not run again, through any number of  *)
(* resets, until somebody selects it, provided the recovery image could be *)
(* selected and the power did not fail before it was.                      *)
BadStaysOut == verdict = "bad" /\ phase = "app" => running = Recovery

(* crash_handler.c 96-101, 129: a production image that proved itself is   *)
(* started again after a crash, not exchanged for the recovery image.      *)
GoodStays == verdict = "good" /\ phase = "app" => running = Production

\* Inductive with OtaInv: where the record and the boot flag stand meanwhile.
BootCore ==
  /\ phase # "early" => magic
  /\ phase # "app" => otaPc = "idle"
  /\ verdict = "good" => running = Production /\ boot = Production
                         /\ magic /\ boot_count = 0
  /\ verdict \in {"trial", "bad"} /\ running = Recovery => boot = Recovery
  /\ verdict \in {"trial", "bad"} /\ running = Production => magic /\ boot_count > 0
  /\ verdict = "bad" /\ running = Production =>
       \/ phase = "early" /\ reason = "panic"
       \/ phase = "restarting" /\ boot = Recovery /\ Bootable(flash[Recovery])

BootInv == BootTypeOK /\ BootCore
===============================================================================
