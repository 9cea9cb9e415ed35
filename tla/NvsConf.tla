--------------------------------- MODULE NvsConf -------------------------------
(***************************************************************************)
(* The configuration of the device.  get_nvs_conf (utils/utils.c) reads it *)
(* key by key from the NVS at boot and writes the default where there is   *)
(* nothing it can use; the command nvsconf (cmds/cmd_system.c) stores a    *)
(* value and lists the store.  The power may fail at any time; a value set *)
(* and not committed then may or may not be there (NVS, external).         *)
(*                                                                         *)
(* Three keys stand for thirteen: a name, the console state, which nvsconf *)
(* also applies at once, and the friendly name, which nvsconf refuses.     *)
(***************************************************************************)
EXTENDS Naturals, Sequences

CONSTANT MaxNvsFaults   \* bound: writes the NVS refuses

ASSUME NvsConstants == MaxNvsFaults \in Nat

KeyOrder == <<"sta_ssid", "console", "friendlyName">>
NvsKeys == {KeyOrder[i] : i \in DOMAIN KeyOrder}
Accepted == NvsKeys \ {"friendlyName"}

\* A value is the default, one of the user's, or too long for its field (for
\* a key that has no field of its own, longer than 127 characters).
Usable == {"default", "user"}
Given == Usable \cup {"overlong"}
Stored == Given \cup {"none"}

VARIABLES
  nvs,         \* the store as the program sees it
  committed,   \* what of it is sure to survive
  dev_conf,    \* the configuration in use
  confAt,      \* get_nvs_conf: "read", "default"; nvsconf: "commit", "list"; "idle"
  confKey,     \* the place in KeyOrder of the key that is at work
  nvsFaults,
  saved        \* history: the usable value nvsconf committed last, per key

nvsVars == <<nvs, committed, dev_conf, confAt, confKey, nvsFaults, saved>>

Booting == /\ dev_conf' = [k \in NvsKeys |-> "default"]
           /\ confAt' = "read" /\ confKey' = 1

NvsStart ==
  /\ nvs \in [NvsKeys -> Stored \ {"default"}] /\ committed = nvs
  /\ dev_conf = [k \in NvsKeys |-> "default"] /\ confAt = "read" /\ confKey = 1
  /\ nvsFaults = 0 /\ saved = [k \in NvsKeys |-> "none"]

PowerFails ==
  /\ \E kept \in SUBSET NvsKeys :
       nvs' = [k \in NvsKeys |-> IF k \in kept THEN nvs[k] ELSE committed[k]]
  /\ committed' = nvs' /\ Booting
  /\ UNCHANGED <<nvsFaults, saved>>

Key == KeyOrder[confKey]
NvsSet(v) == nvs' = [nvs EXCEPT ![Key] = v]
NvsRefuses == nvsFaults < MaxNvsFaults /\ nvsFaults' = nvsFaults + 1

-------------------------------------------------------------------------------
(* get_nvs_conf.                                                            *)

NextKey == IF confKey = Len(KeyOrder) THEN confAt' = "idle" /\ UNCHANGED confKey
           ELSE confAt' = "read" /\ confKey' = confKey + 1

KeyRead ==
  /\ confAt = "read" /\ nvs[Key] \in Usable
  /\ dev_conf' = [dev_conf EXCEPT ![Key] = nvs[Key]]
  /\ NextKey
  /\ UNCHANGED <<nvs, committed, nvsFaults, saved>>

\* Mutant: the defaults are left to be committed at the end.
KeyDefault_NotCommitted ==
  /\ confAt = "read" /\ nvs[Key] \notin Usable
  /\ NvsSet("default") /\ NextKey
  /\ UNCHANGED <<committed, dev_conf, nvsFaults, saved>>

\* Nothing there, or too long for the field.
KeyDefault ==
  /\ confAt = "read" /\ nvs[Key] \notin Usable
  /\ NvsSet("default") /\ confAt' = "default"
  /\ UNCHANGED <<confKey, committed, dev_conf, nvsFaults, saved>>

KeyDefaultRefused ==
  /\ confAt = "read" /\ nvs[Key] \notin Usable
  /\ NvsRefuses /\ NextKey
  /\ UNCHANGED <<nvs, committed, dev_conf, saved>>

KeyDefaultCommitted ==
  /\ confAt = "default" /\ committed' = nvs /\ NextKey
  /\ UNCHANGED <<nvs, dev_conf, nvsFaults, saved>>

-------------------------------------------------------------------------------
(* nvsconf.                                                                 *)

\* nvs_set_str, for a key that is accepted.
ConfSet ==
  /\ confAt = "idle"
  /\ \E i \in DOMAIN KeyOrder, v \in Given :
       /\ KeyOrder[i] \in Accepted /\ confKey' = i
       /\ nvs' = [nvs EXCEPT ![KeyOrder[i]] = v]
       /\ saved' = [saved EXCEPT ![KeyOrder[i]] = "none"]
  /\ confAt' = "commit"
  /\ UNCHANGED <<committed, dev_conf, nvsFaults>>

\* No key given, a key that is not accepted, or a set that is refused: the
\* store is only listed.
ConfNotSet ==
  /\ confAt = "idle" /\ confAt' = "list"
  /\ NvsRefuses \/ UNCHANGED nvsFaults
  /\ UNCHANGED <<nvs, committed, dev_conf, confKey, saved>>

ConfCommitted ==
  /\ confAt = "commit" /\ confAt' = "list"
  /\ committed' = nvs
  /\ saved' = [saved EXCEPT ![Key] = IF nvs[Key] \in Usable THEN nvs[Key] ELSE "none"]
  /\ UNCHANGED <<nvs, dev_conf, confKey, nvsFaults>>

\* Of what is listed, a new console state is applied (tcp_log_init follows).
\* A value that does not fit b is not read.
Listed ==
  /\ confAt = "list" /\ confAt' = "idle"
  /\ dev_conf' = IF nvs["console"] \in Usable
                 THEN [dev_conf EXCEPT !["console"] = nvs["console"]] ELSE dev_conf
  /\ UNCHANGED <<nvs, committed, confKey, nvsFaults, saved>>

NvsNext ==
  \/ PowerFails
  \/ KeyRead \/ KeyDefault \/ KeyDefaultRefused \/ KeyDefaultCommitted
  \/ ConfSet \/ ConfNotSet \/ ConfCommitted \/ Listed

NvsSpec == NvsStart /\ [][NvsNext]_nvsVars
-------------------------------------------------------------------------------
(* cmd_system.c 1201-1203 and utils.c 271-281: a usable value that nvsconf  *)
(* committed is in use after every boot from then on, however often the     *)
(* power fails, in get_nvs_conf or in nvsconf for another key.              *)
SavedIsUsed ==
  [][(confAt \in {"read", "default"} /\ confAt' = "idle") =>
       \A k \in NvsKeys : saved[k] # "none" => dev_conf'[k] = saved[k]]_nvsVars

(* utils.c 245-448 and cmd_system.c 1196-1236: wherever the power fails, in *)
(* get_nvs_conf or in nvsconf, one key at most is changed and the others    *)
(* are whole, and after every boot the configuration in use is that of the  *)
(* store, with the default for what it holds no usable value of.            *)
Loaded == confAt \notin {"read", "default"}
Conf == INSTANCE ConfStore WITH
  Keys <- NvsKeys, Settable <- Accepted, Live <- {"console"}, Default <- "default",
  store <- committed, up <- Loaded,
  inUse <- IF Loaded THEN dev_conf ELSE [k \in NvsKeys |-> "default"]
StoreIsKept == Conf!StoreSpec
===============================================================================
