------------------------------ MODULE BoardProofs ------------------------------
(***************************************************************************)
(* The small parts of the board, for every bound: the AD7811 gives samples *)
(* of the channel asked for, a committed configuration is used after every *)
(* boot, the caller of adc_get_data gets its own samples, and the encoder  *)
(* reports each press once.  A behaviour of the board is one of each of    *)
(* its parts, so that all of this is about the board as well.              *)
(***************************************************************************)
EXTENDS Board, TLAPS

(* The parts.                                                              *)

(* Board.tla puts encoder, converters, LEDs and configuration side by      *)
(* side: each behaviour of the board is one of each of its parts.          *)
THEOREM BoardIsItsParts ==
  BoardSpec => Spec /\ AdcSpec /\ AdSpec /\ LedSpec /\ NvsSpec
<1>1. BoardInit => Init /\ AdcStart /\ AdStart /\ LedStart /\ NvsStart
  BY DEF BoardInit
<1>2. ASSUME [BoardNext]_boardVars
      PROVE  [Next]_vars /\ [AdcNext]_adcVars /\ [AdNext]_adVars
             /\ [LedNext]_ledVars /\ [NvsNext]_nvsVars
  <2>1. CASE UNCHANGED boardVars BY <2>1, Zenon DEF boardVars
  <2>2. CASE Encoder(Next) BY <2>2, Zenon DEF Encoder
  <2>3. CASE Converter(AdcNext) BY <2>3, Zenon DEF Converter
  <2>4. CASE External(AdNext) BY <2>4, Zenon DEF External
  <2>5. CASE Flasher(LedNext) BY <2>5, Zenon DEF Flasher
  <2>6. CASE Configuration(NvsNext) BY <2>6, Zenon DEF Configuration
  <2> QED BY <1>2, <2>1, <2>2, <2>3, <2>4, <2>5, <2>6, Zenon DEF BoardNext
<1> QED BY <1>1, <1>2, PTL DEF BoardSpec, Spec, AdcSpec, AdSpec, LedSpec, NvsSpec
-------------------------------------------------------------------------------
(* The AD7811.                                                             *)

AdTypes ==
  /\ selected \in AdChannels /\ s_channel \in AdChannels
  /\ ad_nr_samples \in Nat /\ samples \in Seq(AdChannels)
  /\ ad_queue \in Seq(Nat) /\ ad_timer \in BOOLEAN
  /\ adAt \in {"idle", "start", "wait"}

(* The timer runs for a caller that waits, and there is a message just     *)
(* when it has ended: the number of samples.                               *)
AdMessages ==
  /\ ad_timer => adAt = "wait" /\ ad_queue = <<>>
  /\ ad_queue # <<>> => adAt = "wait" /\ ad_queue = <<Len(samples)>>
  /\ adAt = "start" => samples = <<>>

(* From the transfer that selects the channel on, all are of that channel. *)
AdSelected ==
  adAt \in {"start", "wait"} =>
    selected = s_channel /\ \A i \in 1..Len(samples) : samples[i] = s_channel

AdInv == AdTypes /\ AdMessages /\ AdSelected /\ ChannelRead

LEMMA AdInvInit == AdStart => AdInv
<1> SUFFICES ASSUME AdStart PROVE AdInv
  OBVIOUS
<1>1. AdTypes
  <2>1. samples \in Seq(AdChannels) /\ ad_queue \in Seq(Nat) BY DEF AdStart
  <2>2. ad_timer \in BOOLEAN BY Zenon DEF AdStart
  <2>3. ad_nr_samples \in Nat BY DEF AdStart
  <2> QED BY <2>1, <2>2, <2>3, Zenon DEF AdStart, AdTypes
<1>2. AdMessages BY Zenon DEF AdStart, AdMessages
<1>3. AdSelected /\ ChannelRead BY DEF AdStart, AdSelected, ChannelRead
<1> QED BY <1>1, <1>2, <1>3 DEF AdInv

LEMMA AdInvNext == AdInv /\ [AdNext]_adVars => AdInv'
<1> SUFFICES ASSUME AdInv, [AdNext]_adVars PROVE AdInv'
  OBVIOUS
<1> USE Ad7811Constants DEF AdInv, AdTypes, AdMessages, AdSelected, ChannelRead
<1>1. CASE UNCHANGED adVars BY <1>1 DEF adVars
<1>2. CASE DummyRead BY <1>2 DEF DummyRead, AdSetVariables, SpiSelects
<1>3. CASE DummyReadFails BY <1>3 DEF DummyReadFails, AdSetVariables, SpiFails
<1>4. CASE AdTimerStarts BY <1>4 DEF AdTimerStarts
<1>5. CASE AdAlarmReads BY <1>5 DEF AdAlarmReads, SpiSelects
<1>6. CASE AdAlarmFails
  <2>1. ad_timer = TRUE /\ ad_queue = <<>> /\ adAt = "wait" BY <1>6 DEF AdAlarmFails
  <2>2. ad_queue' = <<Len(samples)>> BY <1>6, <2>1 DEF AdAlarmFails
  <2>3. AdTypes'
    <3>1. Len(samples) \in Nat OBVIOUS
    <3>2. ad_queue' \in Seq(Nat) BY <2>2, <3>1
    <3>3. ad_timer' \in BOOLEAN BY <1>6, Zenon DEF AdAlarmFails
    <3> QED BY <1>6, <3>2, <3>3, Zenon DEF AdAlarmFails, SpiFails
  <2>4. ad_timer' = FALSE /\ adAt' = "wait" /\ samples' = samples
    BY <1>6, <2>1 DEF AdAlarmFails
  <2>5. AdMessages' BY <2>2, <2>4
  <2>6. AdSelected' /\ ChannelRead' BY <1>6, <2>4 DEF AdAlarmFails, SpiFails
  <2> QED BY <2>3, <2>5, <2>6, Zenon
<1>7. CASE AdTold BY <1>7 DEF AdTold
<1> QED BY <1>1, <1>2, <1>3, <1>4, <1>5, <1>6, <1>7 DEF AdNext, AdAlarm

(* ad7811.c 168-169: a read that ends well has all its samples, each of    *)
(* the channel asked for, for any channels, numbers and failures.          *)
THEOREM AdChannelRead == AdSpec => []ChannelRead
<1>1. AdInv => ChannelRead BY DEF AdInv
<1> QED BY AdInvInit, AdInvNext, <1>1, PTL DEF AdSpec
-------------------------------------------------------------------------------
(* The configuration.                                                      *)

NvsTypes ==
  /\ nvs \in [NvsKeys -> Stored] /\ committed \in [NvsKeys -> Stored]
  /\ dev_conf \in [NvsKeys -> Usable] /\ saved \in [NvsKeys -> Usable \cup {"none"}]
  /\ confKey \in 1..3
  /\ confAt \in {"read", "default", "commit", "list", "idle"}

(* What was saved is in the store and committed; a key at work is not      *)
(* saved; the keys read so far are in use.                                 *)
SavedIsKept ==
  \A k \in NvsKeys : saved[k] # "none" => nvs[k] = saved[k] /\ committed[k] = saved[k]
AtWork == confAt \in {"commit", "default"} => saved[Key] = "none"
ReadSoFar ==
  confAt \in {"read", "default"} =>
    \A i \in 1..3 : i < confKey /\ saved[KeyOrder[i]] # "none"
                    => dev_conf[KeyOrder[i]] = saved[KeyOrder[i]]

NvsInv == NvsTypes /\ SavedIsKept /\ AtWork /\ ReadSoFar

LEMMA Keys ==
  /\ DOMAIN KeyOrder = 1..3 /\ Len(KeyOrder) = 3
  /\ \A i \in 1..3 : KeyOrder[i] \in NvsKeys
  /\ \A k \in NvsKeys : \E i \in 1..3 : KeyOrder[i] = k
<1>1. DOMAIN KeyOrder = 1..3 /\ Len(KeyOrder) = 3 BY DEF KeyOrder
<1> QED BY <1>1 DEF NvsKeys

LEMMA NvsInvInit == NvsStart => NvsInv
  BY Keys DEF NvsStart, NvsInv, NvsTypes, SavedIsKept, AtWork, ReadSoFar, Stored,
              Given, Usable

(* The end of a key, read or not: the next one, or all are in use.         *)
LEMMA KeyEnds ==
  ASSUME NvsInv, NextKey, confAt \in {"read", "default"},
         dev_conf' \in [NvsKeys -> Usable], UNCHANGED saved,
         \A k \in NvsKeys : saved[k] # "none" =>
           dev_conf'[k] = dev_conf[k] \/ dev_conf'[k] = saved[k],
         saved[Key] # "none" => dev_conf'[Key] = saved[Key]
  PROVE  /\ confKey' \in 1..3 /\ confAt' \in {"read", "idle"} /\ ReadSoFar'
         /\ confAt' = "idle" =>
              \A k \in NvsKeys : saved[k] # "none" => dev_conf'[k] = saved[k]
<1> USE Keys DEF NvsInv, NvsTypes
<1>1. confKey' \in 1..3 /\ confAt' \in {"read", "idle"} BY DEF NextKey
<1>2. ASSUME NEW i \in 1..3, i <= confKey, saved[KeyOrder[i]] # "none"
      PROVE  dev_conf'[KeyOrder[i]] = saved[KeyOrder[i]]
  <2>1. CASE i = confKey BY <1>2, <2>1 DEF Key
  <2>2. CASE i < confKey
    <3>1. dev_conf[KeyOrder[i]] = saved[KeyOrder[i]] BY <1>2, <2>2 DEF ReadSoFar
    <3> QED BY <1>2, <3>1
  <2> QED BY <1>2, <2>1, <2>2
<1>3. ReadSoFar'
  <2>1. confAt' = "read" => confKey' = confKey + 1 BY DEF NextKey
  <2>2. saved' = saved OBVIOUS
  <2> QED BY <1>1, <1>2, <2>1, <2>2 DEF ReadSoFar
<1>4. ASSUME confAt' = "idle", NEW k \in NvsKeys, saved[k] # "none"
      PROVE  dev_conf'[k] = saved[k]
  <2>1. confKey = 3 BY <1>4 DEF NextKey
  <2>2. PICK i \in 1..3 : KeyOrder[i] = k OBVIOUS
  <2> QED BY <1>2, <1>4, <2>1, <2>2
<1> QED BY <1>1, <1>3, <1>4

InUse == (confAt \in {"read", "default"} /\ confAt' = "idle") =>
           \A k \in NvsKeys : saved[k] # "none" => dev_conf'[k] = saved[k]

LEMMA NvsInvNext == NvsInv /\ [NvsNext]_nvsVars => NvsInv' /\ InUse
<1> SUFFICES ASSUME NvsInv, [NvsNext]_nvsVars PROVE NvsInv' /\ InUse
  OBVIOUS
<1> USE Keys DEF NvsInv, NvsTypes, Stored, Given, Usable, SavedIsKept
<1>0. Key \in NvsKeys BY DEF Key
<1>1. CASE UNCHANGED nvsVars
  BY <1>1 DEF nvsVars, AtWork, ReadSoFar, Key, InUse
<1>2. CASE PowerFails
  <2>1. \A k \in NvsKeys : nvs'[k] \in {nvs[k], committed[k]}
    BY <1>2 DEF PowerFails
  <2> QED BY <1>2, <2>1 DEF PowerFails, Booting, AtWork, ReadSoFar, InUse
<1>3. CASE KeyRead
  <2> USE <1>0, <1>3 DEF KeyRead
  <2>1. saved[Key] # "none" => dev_conf'[Key] = saved[Key] OBVIOUS
  <2>2. \A k \in NvsKeys : dev_conf'[k] = dev_conf[k] \/ k = Key OBVIOUS
  <2>3. dev_conf' \in [NvsKeys -> Usable] OBVIOUS
  <2>4. \A k \in NvsKeys : saved[k] # "none" =>
          dev_conf'[k] = dev_conf[k] \/ dev_conf'[k] = saved[k]
    BY <2>1, <2>2
  <2>5. /\ confKey' \in 1..3 /\ confAt' \in {"read", "idle"} /\ ReadSoFar'
        /\ InUse
    BY <2>1, <2>3, <2>4, KeyEnds DEF InUse
  <2>6. NvsTypes' /\ SavedIsKept' BY <2>3, <2>5
  <2>7. AtWork' BY <2>5 DEF AtWork
  <2> QED BY <2>5, <2>6, <2>7
<1>4. CASE KeyDefault
  <2> USE <1>0, <1>4 DEF KeyDefault, NvsSet
  <2>1. saved[Key] = "none" OBVIOUS
  <2>2. \A k \in NvsKeys : nvs'[k] = nvs[k] \/ k = Key OBVIOUS
  <2>3. NvsTypes' /\ SavedIsKept' BY <2>1, <2>2
  <2>4. AtWork' BY <2>1 DEF AtWork, Key
  <2>5. ReadSoFar' BY DEF ReadSoFar
  <2> QED BY <2>3, <2>4, <2>5 DEF InUse
<1>5. CASE KeyDefaultRefused
  <2> USE <1>0, <1>5 DEF KeyDefaultRefused
  <2>1. saved[Key] = "none" OBVIOUS
  <2>2. /\ confKey' \in 1..3 /\ confAt' \in {"read", "idle"} /\ ReadSoFar'
        /\ InUse
    BY <2>1, KeyEnds DEF InUse
  <2>3. NvsTypes' /\ SavedIsKept' BY <2>2
  <2>4. AtWork' BY <2>2 DEF AtWork
  <2> QED BY <2>2, <2>3, <2>4
<1>6. CASE KeyDefaultCommitted
  <2> USE <1>0, <1>6 DEF KeyDefaultCommitted
  <2>1. saved[Key] = "none" BY DEF AtWork
  <2>2. /\ confKey' \in 1..3 /\ confAt' \in {"read", "idle"} /\ ReadSoFar'
        /\ InUse
    BY <2>1, KeyEnds DEF InUse
  <2>3. NvsTypes' /\ SavedIsKept' BY <2>2
  <2>4. AtWork' BY <2>2 DEF AtWork
  <2> QED BY <2>2, <2>3, <2>4
<1>7. CASE ConfSet
  <2>1. PICK i \in 1..3, v \in Given :
          /\ confKey' = i /\ nvs' = [nvs EXCEPT ![KeyOrder[i]] = v]
          /\ saved' = [saved EXCEPT ![KeyOrder[i]] = "none"]
    BY <1>7 DEF ConfSet
  <2>2. confAt = "idle" /\ confAt' = "commit" /\ UNCHANGED <<committed, dev_conf>>
    BY <1>7 DEF ConfSet
  <2>3. NvsTypes' BY <2>1, <2>2
  <2>4. SavedIsKept' BY <2>1, <2>2
  <2>5. AtWork' BY <2>1 DEF AtWork, Key
  <2> QED BY <2>2, <2>3, <2>4, <2>5 DEF ReadSoFar, InUse
<1>8. CASE ConfNotSet
  BY <1>8 DEF ConfNotSet, AtWork, ReadSoFar, InUse
<1>9. CASE ConfCommitted
  <2> USE <1>0, <1>9 DEF ConfCommitted
  <2>1. \A k \in NvsKeys : saved'[k] = saved[k] \/ k = Key OBVIOUS
  <2>2. saved'[Key] \in {nvs[Key], "none"} OBVIOUS
  <2>3. saved' \in [NvsKeys -> Usable \cup {"none"}] OBVIOUS
  <2>4. NvsTypes' BY <2>3
  <2>5. SavedIsKept' BY <2>1, <2>2
  <2> QED BY <2>4, <2>5 DEF AtWork, ReadSoFar, InUse
<1>10. CASE Listed
  <2>1. dev_conf' \in [NvsKeys -> Usable] BY <1>10 DEF Listed
  <2> QED BY <1>10, <2>1 DEF Listed, AtWork, ReadSoFar, InUse
<1> QED BY <1>1, <1>2, <1>3, <1>4, <1>5, <1>6, <1>7, <1>8, <1>9, <1>10, Zenon DEF NvsNext

(* cmd_system.c 1201-1203, utils.c 271-281: a usable value that nvsconf    *)
(* committed is in use after every boot from then on, for any number of    *)
(* writes the store refuses and of power failures.                         *)
THEOREM NvsSavedIsUsed == NvsSpec => SavedIsUsed
<1>1. NvsInv /\ [NvsNext]_nvsVars => [InUse]_nvsVars BY NvsInvNext, Zenon
<1>2. NvsSpec => [][InUse]_nvsVars BY NvsInvInit, NvsInvNext, <1>1, PTL DEF NvsSpec
<1> QED BY <1>2 DEF SavedIsUsed, InUse

(* The store: what is written and not committed is one key, with the value *)
(* that ConfStore allows; the keys read so far are in use, or their        *)
(* defaults, and the others have theirs.                                   *)
Pending ==
  \/ confAt = "default" /\ nvs[Key] = "default" /\ committed[Key] \notin Usable
  \/ confAt = "commit" /\ Key \in Accepted /\ nvs[Key] \in Given
WrittenIsOne ==
  /\ \A k \in NvsKeys : nvs[k] # committed[k] => k = Key /\ Pending
  /\ confAt \in {"default", "commit"} => Pending
InUseSoFar ==
  ~Loaded =>
    \A i \in 1..3 : dev_conf[KeyOrder[i]] =
      IF i < confKey /\ committed[KeyOrder[i]] \in Usable
      THEN committed[KeyOrder[i]] ELSE "default"

StoreInv == NvsInv /\ WrittenIsOne /\ InUseSoFar

LEMMA KeysDiffer ==
  \A i \in 1..3 : \A j \in 1..3 : KeyOrder[i] = KeyOrder[j] => i = j
  BY DEF KeyOrder

LEMMA StoreInvInit == NvsStart => StoreInv
<1> SUFFICES ASSUME NvsStart PROVE StoreInv OBVIOUS
<1>1. NvsInv BY NvsInvInit
<1>2. WrittenIsOne BY DEF NvsStart, WrittenIsOne
<1>3. InUseSoFar BY Keys DEF NvsStart, InUseSoFar, Loaded
<1> QED BY <1>1, <1>2, <1>3 DEF StoreInv

\* The end of a key at boot, with what is in use then.
LEMMA StoreKeyEnds ==
  ASSUME NvsTypes, InUseSoFar, NextKey, ~Loaded, committed' \in [NvsKeys -> Stored],
         dev_conf' \in [NvsKeys -> Usable],
         \A k \in NvsKeys : k # Key => dev_conf'[k] = dev_conf[k]
                                       /\ committed'[k] = committed[k],
         dev_conf'[Key] = IF committed'[Key] \in Usable THEN committed'[Key]
                          ELSE "default"
  PROVE  /\ InUseSoFar'
         /\ confAt' \in {"read", "idle"}
         /\ Loaded' => dev_conf' = Conf!Effective(committed')
<1> USE Keys DEF NvsTypes
<1>1. confAt' \in {"read", "idle"} BY DEF NextKey
<1>2. ASSUME NEW i \in 1..3
      PROVE  dev_conf'[KeyOrder[i]] =
               IF i <= confKey /\ committed'[KeyOrder[i]] \in Usable
               THEN committed'[KeyOrder[i]] ELSE "default"
  <2>1. CASE i = confKey BY <2>1 DEF Key
  <2>2. CASE i # confKey
    <3>1. KeyOrder[i] # Key BY <2>2, KeysDiffer DEF Key
    <3>2. dev_conf[KeyOrder[i]] =
            IF i < confKey /\ committed[KeyOrder[i]] \in Usable
            THEN committed[KeyOrder[i]] ELSE "default"
      BY DEF InUseSoFar
    <3>3. i < confKey <=> i <= confKey BY <2>2
    <3> QED BY <3>1, <3>2, <3>3
  <2> QED BY <2>1, <2>2
<1>3. InUseSoFar'
  <2> SUFFICES ASSUME ~Loaded', NEW i \in 1..3
               PROVE  dev_conf'[KeyOrder[i]] =
                        IF i < confKey' /\ committed'[KeyOrder[i]] \in Usable
                        THEN committed'[KeyOrder[i]] ELSE "default"
    BY DEF InUseSoFar
  <2>1. confKey' = confKey + 1 BY DEF NextKey, Loaded
  <2>2. i < confKey' <=> i <= confKey BY <2>1
  <2> QED BY <1>2, <2>2
<1>4. ASSUME Loaded' PROVE dev_conf' = Conf!Effective(committed')
  <2>1. confKey = 3 BY <1>4 DEF NextKey, Loaded
  <2>2. ASSUME NEW k \in NvsKeys
        PROVE  dev_conf'[k] = IF committed'[k] \in Usable THEN committed'[k]
                              ELSE "default"
    <3>1. PICK i \in 1..3 : KeyOrder[i] = k OBVIOUS
    <3> QED BY <1>2, <2>1, <3>1
  <2> QED BY <2>2 DEF Conf!Effective
<1> QED BY <1>1, <1>3, <1>4

\* Losing what is not committed, or keeping it, changes one key at most.
LEMMA PowerIsCrash ==
  ASSUME StoreInv, PowerFails
  PROVE  /\ WrittenIsOne' /\ InUseSoFar'
         /\ Conf!Crash
<1> USE Keys DEF StoreInv, NvsInv, NvsTypes
<1>1. PICK kept \in SUBSET NvsKeys :
        nvs' = [k \in NvsKeys |-> IF k \in kept THEN nvs[k] ELSE committed[k]]
  BY DEF PowerFails
<1>2. /\ committed' = nvs' /\ confAt' = "read" /\ confKey' = 1
      /\ dev_conf' = [k \in NvsKeys |-> "default"]
  BY DEF PowerFails, Booting
<1>3. Key \in NvsKeys BY DEF Key
<1>4. WrittenIsOne' BY <1>2 DEF WrittenIsOne
<1>5. InUseSoFar' BY <1>2 DEF InUseSoFar
<1>6. ~Loaded' BY <1>2 DEF Loaded
<1>7. \A k \in NvsKeys : committed'[k] # committed[k] => k = Key /\ Pending
                                                        /\ committed'[k] = nvs[k]
  BY <1>1, <1>2 DEF WrittenIsOne
<1>8. Conf!SetByUser \/ Conf!Repair \/ UNCHANGED committed
  <2>0. committed' \in [NvsKeys -> Stored] BY <1>1, <1>2
  <2>1. CASE \A k \in NvsKeys : committed'[k] = committed[k] BY <2>0, <2>1
  <2>2. CASE \E k \in NvsKeys : committed'[k] # committed[k]
    <3>1. Pending /\ committed'[Key] = nvs[Key] BY <1>7, <2>2
    <3>2. committed' = [committed EXCEPT ![Key] = nvs[Key]] BY <1>3, <1>7, <2>0, <3>1
    <3>3. CASE confAt = "default"
      <4>1. ~Loaded /\ committed[Key] \notin Usable /\ nvs[Key] = "default"
        BY <3>1, <3>3 DEF Pending, Loaded
      <4> QED BY <1>3, <3>2, <4>1 DEF Conf!Repair
    <3>4. CASE confAt = "commit"
      <4>1. Loaded /\ Key \in Accepted /\ nvs[Key] \in Given
        BY <3>1, <3>4 DEF Pending, Loaded
      <4> QED BY <3>2, <4>1 DEF Conf!SetByUser
    <3> QED BY <3>1, <3>3, <3>4 DEF Pending
  <2> QED BY <2>1, <2>2
<1> QED BY <1>4, <1>5, <1>6, <1>8 DEF Conf!Crash, Conf!Defaults

ConfVars == <<committed, Loaded, IF Loaded THEN dev_conf ELSE [k \in NvsKeys |-> "default"]>>

LEMMA StoreStep ==
  StoreInv /\ [NvsNext]_nvsVars =>
    WrittenIsOne' /\ InUseSoFar' /\ [Conf!StoreNext]_ConfVars
<1> SUFFICES ASSUME StoreInv, [NvsNext]_nvsVars
             PROVE  WrittenIsOne' /\ InUseSoFar' /\ (Conf!StoreNext \/ UNCHANGED ConfVars)
  OBVIOUS
<1> USE Keys DEF StoreInv, NvsInv, NvsTypes
<1>0. Key \in NvsKeys BY DEF Key
<1>a. NvsTypes' BY NvsInvNext
<1>1. CASE UNCHANGED nvsVars
  BY <1>1 DEF nvsVars, ConfVars, WrittenIsOne, InUseSoFar, Loaded, Pending, Key
<1>2. CASE PowerFails
  BY <1>2, PowerIsCrash DEF Conf!StoreNext
<1>3. CASE KeyRead
  <2>1. /\ ~Loaded /\ nvs[Key] \in Usable /\ NextKey /\ UNCHANGED <<nvs, committed>>
        /\ dev_conf' = [dev_conf EXCEPT ![Key] = nvs[Key]] /\ confAt = "read"
    BY <1>3 DEF KeyRead, Loaded
  <2>2. nvs[Key] = committed[Key] BY <1>0, <2>1 DEF WrittenIsOne, Pending
  <2>3. /\ InUseSoFar' /\ confAt' \in {"read", "idle"}
        /\ Loaded' => dev_conf' = Conf!Effective(committed')
    BY <1>0, <1>a, <2>1, <2>2, StoreKeyEnds
  <2>4. WrittenIsOne'
    <3>1. \A k \in NvsKeys : nvs[k] = committed[k] BY <2>1 DEF WrittenIsOne, Pending
    <3> QED BY <2>1, <2>3, <3>1 DEF WrittenIsOne
  <2>5. CASE Loaded' BY <2>1, <2>3, <2>4, <2>5 DEF Conf!Load, Conf!StoreNext
  <2>6. CASE ~Loaded'
    <3>1. UNCHANGED ConfVars BY <2>1, <2>3, <2>6 DEF ConfVars, Loaded
    <3> QED BY <2>3, <2>4, <3>1
  <2> QED BY <2>5, <2>6
<1>4. CASE KeyDefault
  <2>1. /\ nvs[Key] \notin Usable /\ nvs' = [nvs EXCEPT ![Key] = "default"]
        /\ confAt = "read" /\ confAt' = "default"
        /\ UNCHANGED <<confKey, committed, dev_conf>>
    BY <1>4 DEF KeyDefault, NvsSet
  <2>2. \A k \in NvsKeys : nvs[k] = committed[k] BY <2>1 DEF WrittenIsOne, Pending
  <2>3. Key' = Key BY <2>1 DEF Key
  <2>4. Pending'
    <3>1. nvs'[Key] = "default" /\ committed'[Key] \notin Usable BY <1>0, <2>1, <2>2
    <3>2. nvs'[Key'] = "default" /\ committed'[Key'] \notin Usable BY <2>3, <3>1
    <3> QED BY <2>1, <3>2 DEF Pending
  <2>5. WrittenIsOne' BY <1>0, <2>1, <2>2, <2>3, <2>4 DEF WrittenIsOne
  <2>6. InUseSoFar' BY <2>1 DEF InUseSoFar, Loaded
  <2> QED BY <2>1, <2>5, <2>6 DEF ConfVars, Loaded
<1>5. CASE KeyDefaultRefused
  <2>1. /\ ~Loaded /\ nvs[Key] \notin Usable /\ NextKey
        /\ UNCHANGED <<nvs, committed, dev_conf>> /\ confAt = "read"
    BY <1>5 DEF KeyDefaultRefused, Loaded
  <2>2. nvs[Key] = committed[Key] BY <1>0, <2>1 DEF WrittenIsOne, Pending
  <2>7. dev_conf[Key] = "default" BY <2>1 DEF InUseSoFar, Key
  <2>3. /\ InUseSoFar' /\ confAt' \in {"read", "idle"}
        /\ Loaded' => dev_conf' = Conf!Effective(committed')
    BY <1>0, <1>a, <2>1, <2>2, <2>7, StoreKeyEnds
  <2>4. WrittenIsOne'
    <3>1. \A k \in NvsKeys : nvs[k] = committed[k] BY <2>1 DEF WrittenIsOne, Pending
    <3> QED BY <2>1, <2>3, <3>1 DEF WrittenIsOne
  <2>5. CASE Loaded' BY <2>1, <2>3, <2>4, <2>5 DEF Conf!Load, Conf!StoreNext
  <2>6. CASE ~Loaded'
    <3>1. UNCHANGED ConfVars BY <2>1, <2>3, <2>6 DEF ConfVars, Loaded
    <3> QED BY <2>3, <2>4, <3>1
  <2> QED BY <2>5, <2>6
<1>6. CASE KeyDefaultCommitted
  <2>1. /\ ~Loaded /\ NextKey /\ UNCHANGED <<nvs, dev_conf>> /\ committed' = nvs
        /\ confAt = "default"
    BY <1>6 DEF KeyDefaultCommitted, Loaded
  <2>2. /\ nvs[Key] = "default" /\ committed[Key] \notin Usable
        /\ \A k \in NvsKeys : k # Key => nvs[k] = committed[k]
    BY <2>1 DEF WrittenIsOne, Pending
  <2>7. dev_conf[Key] = "default" BY <2>1 DEF InUseSoFar, Key
  <2>8. "default" \in Usable BY DEF Usable
  <2>3. /\ InUseSoFar' /\ confAt' \in {"read", "idle"}
        /\ Loaded' => dev_conf' = Conf!Effective(committed')
    BY <1>0, <1>a, <2>1, <2>2, <2>7, <2>8, StoreKeyEnds
  <2>4. WrittenIsOne' BY <2>1, <2>3 DEF WrittenIsOne
  <2>9. Conf!Repair
    <3>1. committed' = [committed EXCEPT ![Key] = "default"] BY <1>0, <2>1, <2>2
    <3> QED BY <1>0, <2>1, <2>2, <3>1 DEF Conf!Repair
  <2>5. CASE Loaded' BY <2>1, <2>3, <2>4, <2>5, <2>9 DEF Conf!Load, Conf!StoreNext
  <2>6. CASE ~Loaded'
    <3>1. UNCHANGED <<Loaded, IF Loaded THEN dev_conf ELSE [k \in NvsKeys |-> "default"]>>
      BY <2>1, <2>6 DEF Loaded
    <3>2. Conf!Write BY <2>9, <3>1 DEF Conf!Write
    <3> QED BY <2>3, <2>4, <3>2 DEF Conf!StoreNext
  <2> QED BY <2>5, <2>6
<1>7. CASE ConfSet
  <2>1. PICK i \in 1..3 : \E v \in Given :
          /\ KeyOrder[i] \in Accepted /\ confKey' = i
          /\ nvs' = [nvs EXCEPT ![KeyOrder[i]] = v]
    BY <1>7 DEF ConfSet
  <2>2. PICK v \in Given :
          /\ KeyOrder[i] \in Accepted /\ confKey' = i
          /\ nvs' = [nvs EXCEPT ![KeyOrder[i]] = v]
    BY <2>1
  <2>3. confAt = "idle" /\ confAt' = "commit" /\ UNCHANGED <<committed, dev_conf>>
    BY <1>7 DEF ConfSet
  <2>4. \A k \in NvsKeys : nvs[k] = committed[k] BY <2>3 DEF WrittenIsOne, Pending
  <2>5. Key' = KeyOrder[i] BY <2>2 DEF Key
  <2>6. Pending' BY <2>2, <2>3, <2>5 DEF Pending
  <2>7. WrittenIsOne' BY <2>2, <2>3, <2>4, <2>5, <2>6 DEF WrittenIsOne
  <2> QED BY <2>3, <2>7 DEF InUseSoFar, Loaded, ConfVars
<1>8. CASE ConfNotSet
  <2>1. /\ confAt = "idle" /\ confAt' = "list"
        /\ UNCHANGED <<nvs, committed, dev_conf, confKey>>
    BY <1>8 DEF ConfNotSet
  <2>2. \A k \in NvsKeys : nvs[k] = committed[k] BY <2>1 DEF WrittenIsOne, Pending
  <2> QED BY <2>1, <2>2 DEF WrittenIsOne, InUseSoFar, Loaded, ConfVars
<1>9. CASE ConfCommitted
  <2>1. /\ confAt = "commit" /\ confAt' = "list" /\ committed' = nvs
        /\ UNCHANGED <<nvs, dev_conf, confKey>>
    BY <1>9 DEF ConfCommitted
  <2>2. /\ Key \in Accepted /\ nvs[Key] \in Given
        /\ \A k \in NvsKeys : k # Key => nvs[k] = committed[k]
    BY <2>1 DEF WrittenIsOne, Pending
  <2>3. committed' = [committed EXCEPT ![Key] = nvs[Key]] BY <1>0, <2>1, <2>2
  <2>4. Conf!SetByUser BY <2>1, <2>2, <2>3 DEF Conf!SetByUser, Loaded
  <2>5. Conf!Write BY <2>1, <2>4 DEF Conf!Write, Loaded
  <2> QED BY <2>1, <2>5 DEF WrittenIsOne, InUseSoFar, Loaded, Conf!StoreNext
<1>10. CASE Listed
  <2>1. /\ confAt = "list" /\ confAt' = "idle" /\ UNCHANGED <<nvs, committed, confKey>>
        /\ dev_conf' = IF nvs["console"] \in Usable
                       THEN [dev_conf EXCEPT !["console"] = nvs["console"]] ELSE dev_conf
    BY <1>10 DEF Listed
  <2>2. \A k \in NvsKeys : nvs[k] = committed[k] BY <2>1 DEF WrittenIsOne, Pending
  <2>3. WrittenIsOne' /\ InUseSoFar' /\ Loaded /\ Loaded'
    BY <2>1, <2>2 DEF WrittenIsOne, InUseSoFar, Loaded
  <2>4. "console" \in NvsKeys
    <3>1. KeyOrder[2] = "console" BY DEF KeyOrder
    <3> QED BY <3>1
  <2>5. CASE nvs["console"] \in Usable
    <3>1. committed["console"] \in Usable
          /\ dev_conf' = [dev_conf EXCEPT !["console"] = committed["console"]]
      BY <2>1, <2>2, <2>4, <2>5
    <3> QED BY <2>1, <2>3, <3>1 DEF Conf!Apply, Conf!StoreNext
  <2>6. CASE nvs["console"] \notin Usable BY <2>1, <2>3, <2>6 DEF ConfVars
  <2> QED BY <2>3, <2>5, <2>6
<1> QED BY <1>1, <1>2, <1>3, <1>4, <1>5, <1>6, <1>7, <1>8, <1>9, <1>10, Zenon DEF NvsNext

(* utils.c 245-448, cmd_system.c 1196-1236: NvsConf implements ConfStore.   *)
(* Wherever the power fails, at most the one key at work changes, and what  *)
(* is in use after a boot is what the store holds, with the defaults.       *)
THEOREM NvsImplementsStore == NvsSpec => StoreIsKept
<1>1. NvsStart => Conf!StoreInit
  BY DEF NvsStart, Conf!StoreInit, Conf!Defaults, Loaded
<1>2. StoreInv /\ [NvsNext]_nvsVars => StoreInv' /\ [Conf!StoreNext]_ConfVars
  BY StoreStep, NvsInvNext, Zenon DEF StoreInv
<1>3. NvsSpec => [][Conf!StoreNext]_ConfVars
  BY StoreInvInit, <1>2, PTL DEF NvsSpec
<1>4. NvsSpec => Conf!StoreInit BY <1>1, PTL DEF NvsSpec
<1> QED BY <1>3, <1>4 DEF StoreIsKept, Conf!StoreSpec, ConfVars

-------------------------------------------------------------------------------
(* The ADC of the chip: the caller of adc_get_data gets its own samples,   *)
(* and its vector is left alone once it has returned, for any number of    *)
(* callers and of samples.                                                 *)

Sites == {"idle", "mutex", "stop", "start", "wait", "convert", "late", "give"}
Holding == Sites \ {"idle", "mutex"}

AdcTypes ==
  /\ adc_init \in BOOLEAN /\ adc_timer \in BOOLEAN
  /\ adcval_mutex \in Samplers \cup {"none"} /\ adc_raw \in Samplers \cup {"none"}
  /\ sample_count \in Nat /\ nr_samples \in Nat
  /\ adc_evt_queue \in Seq(Nat)
  /\ adcAt \in [Samplers -> Sites]
  /\ nr_samp \in [Samplers -> 0..MaxSamples]
  /\ s_vect \in [Samplers -> [Cells -> {"old", "raw", "mV", "bad"}]]
  /\ adcRet \in [Samplers -> {"ok", "fail"}]

(* adcval_mutex: whoever is between take and give holds it.                *)
OneHolder == \A s \in Samplers : adcAt[s] \in Holding <=> adcval_mutex = s

(* The interrupt is on only while its caller waits or is giving up.        *)
TimerHasCaller == adc_timer => adc_raw \in Samplers /\ adcAt[adc_raw] \in {"wait", "late"}

(* While a caller waits, the variables of the interrupt are its own, the   *)
(* first sample_count cells are filled, and a message says that all are.   *)
Sampling(s) ==
  /\ adc_raw = s /\ nr_samples = nr_samp[s]
  /\ sample_count <= nr_samples
  /\ adc_timer => sample_count < nr_samples
  /\ \A i \in Cells : s_vect[s][i] = IF i < sample_count THEN "raw" ELSE "old"
SamplingInv ==
  \A s \in Samplers :
    /\ adcAt[s] \in {"wait", "convert", "late"} => Sampling(s)
    /\ adcAt[s] = "wait" /\ adc_evt_queue # <<>> => sample_count = nr_samples
    /\ adcAt[s] = "convert" => sample_count = nr_samples

(* Before its sampling a call has touched nothing, and only its end says   *)
(* ESP_OK.                                                                 *)
Untouched ==
  \A s \in Samplers :
    /\ adcAt[s] \in {"mutex", "stop", "start"} => \A i \in Cells : s_vect[s][i] = "old"
    /\ adcAt[s] \notin {"idle", "give"} => adcRet[s] = "fail" /\ nr_samp[s] > 0

AdcInv ==
  AdcTypes /\ OneHolder /\ TimerHasCaller /\ SamplingInv /\ Untouched /\ SamplesAreOwn

USE AdcConstants DEF Cells, Sites, Holding
-------------------------------------------------------------------------------
LEMMA AdcInvInit == AdcStart => AdcInv
<1> SUFFICES ASSUME AdcStart PROVE AdcInv
  OBVIOUS
<1> USE DEF AdcStart
<1>1. AdcTypes
  <2>1. Old \in [Cells -> {"old", "raw", "mV", "bad"}] BY DEF Old
  <2>2. s_vect \in [Samplers -> [Cells -> {"old", "raw", "mV", "bad"}]] BY <2>1
  <2>3. nr_samp \in [Samplers -> 0..MaxSamples] OBVIOUS
  <2>4. adcAt \in [Samplers -> Sites] /\ adcRet \in [Samplers -> {"ok", "fail"}] OBVIOUS
  <2>5. adc_init \in BOOLEAN /\ adc_timer \in BOOLEAN OBVIOUS
  <2>6. /\ adcval_mutex \in Samplers \cup {"none"} /\ adc_raw \in Samplers \cup {"none"}
        /\ sample_count \in Nat /\ nr_samples \in Nat /\ adc_evt_queue \in Seq(Nat)
    OBVIOUS
  <2> QED BY <2>2, <2>3, <2>4, <2>5, <2>6, Zenon DEF AdcTypes
<1>2. OneHolder /\ TimerHasCaller BY DEF OneHolder, TimerHasCaller
<1>3. SamplingInv /\ Untouched /\ SamplesAreOwn
  BY DEF SamplingInv, Untouched, SamplesAreOwn
<1> QED BY <1>1, <1>2, <1>3 DEF AdcInv

\* The steps of a caller that leave its vector and the interrupt alone.
LEMMA AdcInvQuiet ==
  ASSUME AdcInv, NEW s \in Samplers,
         MutexTaken(s) \/ MutexTimeout(s) \/ SamplesTold(s) \/ SamplesLate(s)
         \/ MutexGiven(s)
  PROVE  AdcInv'
<1> USE DEF AdcInv, AdcTypes, OneHolder, TimerHasCaller, SamplingInv, Sampling,
            Untouched, SamplesAreOwn, AdcGoto, adcShared, Old
<1>1. CASE MutexTaken(s) BY <1>1 DEF MutexTaken
<1>2. CASE MutexTimeout(s) BY <1>2 DEF MutexTimeout
<1>3. CASE SamplesTold(s) BY <1>3 DEF SamplesTold
<1>4. CASE SamplesLate(s) BY <1>4 DEF SamplesLate
<1>5. CASE MutexGiven(s) BY <1>5 DEF MutexGiven
<1> QED BY <1>1, <1>2, <1>3, <1>4, <1>5

\* The timer is stopped, before the sampling or after it was late.
LEMMA AdcInvStops ==
  ASSUME AdcInv, NEW s \in Samplers, TimerStopped(s) \/ LateStopped(s)
  PROVE  AdcInv'
<1> USE DEF AdcInv, TimerStopped, LateStopped, AdcGoto
<1>1. AdcTypes' BY DEF AdcTypes
<1>2. OneHolder' BY DEF AdcTypes, OneHolder
<1>3. ~adc_timer' /\ adcAt[s] \in {"stop", "late"} OBVIOUS
<1>4. TimerHasCaller' BY <1>3 DEF TimerHasCaller
<1>5. UNCHANGED <<adc_raw, sample_count, nr_samples, adc_evt_queue, nr_samp,
                  s_vect, adcRet>>
  OBVIOUS
<1>6. adcAt' = [adcAt EXCEPT ![s] = IF adcAt[s] = "stop" THEN "start" ELSE "give"]
  OBVIOUS
<1> HIDE DEF TimerStopped, LateStopped, AdcGoto
<1>7. ASSUME NEW t \in Samplers
      PROVE  /\ adcAt'[t] \in {"wait", "convert", "late"} => t # s /\ adcAt[t] = adcAt'[t]
             /\ adcAt'[t] \in {"mutex", "stop", "start"} => adcAt[t] \in {"mutex", "stop", "start"}
             /\ adcAt'[t] \notin {"idle", "give"} => adcAt[t] \notin {"idle", "give"}
             /\ adcAt'[t] \in {"idle", "give"} => (t = s /\ adcAt[t] = "late") \/ adcAt[t] = adcAt'[t]
  BY <1>3, <1>6 DEF AdcTypes
<1>8. SamplingInv' BY <1>3, <1>5, <1>7 DEF SamplingInv, Sampling
<1>9. Untouched' BY <1>5, <1>7 DEF Untouched
<1>10. SamplesAreOwn' BY <1>5, <1>7 DEF SamplesAreOwn, Untouched
<1> QED BY <1>1, <1>2, <1>4, <1>8, <1>9, <1>10

LEMMA AdcInvBegins ==
  ASSUME AdcInv, NEW s \in Samplers, AdcGetData(s)
  PROVE  AdcInv'
<1> USE DEF AdcInv, AdcGetData, AdcGoto, adcShared, Old
<1>1. AdcTypes' BY DEF AdcTypes
<1>2. OneHolder' BY DEF AdcTypes, OneHolder
<1>3. TimerHasCaller' BY DEF AdcTypes, TimerHasCaller
<1>4. SamplingInv' BY DEF AdcTypes, SamplingInv, Sampling
<1>5. Untouched' BY DEF AdcTypes, Untouched
<1>6. SamplesAreOwn' BY DEF AdcTypes, SamplesAreOwn
<1> QED BY <1>1, <1>2, <1>3, <1>4, <1>5, <1>6

LEMMA AdcInvStarts ==
  ASSUME AdcInv, NEW s \in Samplers, SamplingStarts(s)
  PROVE  AdcInv'
<1> USE DEF AdcInv, SamplingStarts, AdcGoto
<1>1. AdcTypes' BY DEF AdcTypes
<1>2. OneHolder' BY DEF AdcTypes, OneHolder
<1>3. TimerHasCaller' BY DEF AdcTypes, TimerHasCaller
<1>4. SamplingInv'
  <2> SUFFICES ASSUME NEW t \in Samplers, adcAt'[t] \in {"wait", "convert", "late"}
               PROVE  Sampling(t)' /\ adc_evt_queue' = <<>> /\ adcAt'[t] = "wait"
    BY DEF SamplingInv
  <2>1. t = s BY DEF AdcTypes, OneHolder
  <2>2. nr_samp[s] \in Nat /\ nr_samp[s] > 0
    <3>1. nr_samp[s] \in 0..MaxSamples BY DEF AdcTypes
    <3>2. adcAt[s] = "start" OBVIOUS
    <3>3. nr_samp[s] > 0 BY <3>2 DEF Untouched
    <3> QED BY <3>1, <3>3
  <2>3. \A i \in Cells : s_vect[s][i] = "old" BY DEF Untouched
  <2> QED BY <2>1, <2>2, <2>3 DEF AdcTypes, Sampling
<1>5. Untouched' BY DEF AdcTypes, Untouched
<1>6. SamplesAreOwn' BY DEF AdcTypes, SamplesAreOwn
<1> QED BY <1>1, <1>2, <1>3, <1>4, <1>5, <1>6

LEMMA AdcInvConverted ==
  ASSUME AdcInv, NEW s \in Samplers, Converted(s)
  PROVE  AdcInv'
<1> USE DEF AdcInv, Converted, AdcGoto, adcShared
<1>1. adc_raw = s /\ sample_count = nr_samp[s] /\ nr_samp[s] \in Nat
  BY DEF AdcTypes, SamplingInv, Sampling
<1>2. /\ \A i \in Cells : s_vect'[s][i] = IF i < nr_samp[s] THEN "mV" ELSE "old"
      /\ \A t \in Samplers \ {s} : s_vect'[t] = s_vect[t]
  BY <1>1 DEF AdcTypes, SamplingInv, Sampling
<1>3. AdcTypes'
  <2>1. s_vect' \in [Samplers -> [Cells -> {"old", "raw", "mV", "bad"}]]
    BY <1>1 DEF AdcTypes
  <2> QED BY <2>1 DEF AdcTypes
<1>4. OneHolder' BY DEF AdcTypes, OneHolder
<1>5. TimerHasCaller' BY <1>1 DEF AdcTypes, TimerHasCaller
<1>6. SamplingInv' BY <1>2 DEF AdcTypes, SamplingInv, Sampling
<1>7. Untouched' BY <1>2 DEF AdcTypes, Untouched
<1>8. SamplesAreOwn' BY <1>2 DEF AdcTypes, SamplesAreOwn
<1> QED BY <1>3, <1>4, <1>5, <1>6, <1>7, <1>8

\* The interrupt fills the next cell of the caller that waits.
LEMMA AdcInvAlarm ==
  ASSUME AdcInv, AdcAlarm
  PROVE  AdcInv'
<1> DEFINE s == adc_raw
<1> USE DEF AdcInv
<1>1. s \in Samplers /\ adcAt[s] \in {"wait", "late"} BY DEF AdcAlarm, TimerHasCaller
<1>2. Sampling(s) BY <1>1 DEF SamplingInv
<1>3. sample_count \in Cells /\ sample_count < nr_samples /\ nr_samples = nr_samp[s]
      /\ nr_samp[s] \in 0..MaxSamples
  BY <1>1, <1>2 DEF AdcAlarm, AdcTypes, Sampling
<1>4. /\ s_vect' = [s_vect EXCEPT ![s] = [s_vect[s] EXCEPT ![sample_count] = "raw"]]
      /\ sample_count' = sample_count + 1
      /\ adc_timer' => sample_count' < nr_samples
      /\ UNCHANGED <<adc_init, adcval_mutex, adc_raw, nr_samples, adcAt, nr_samp, adcRet>>
  BY DEF AdcAlarm
<1>5. adc_evt_queue' # <<>> => adc_evt_queue # <<>> \/ ~(sample_count' < nr_samples)
  BY DEF AdcAlarm
<1>6. AdcTypes'
  <2>1. s_vect' \in [Samplers -> [Cells -> {"old", "raw", "mV", "bad"}]]
    BY <1>3, <1>4 DEF AdcTypes
  <2>2. adc_timer' \in BOOLEAN
    <3>1. adc_timer' = (sample_count' < nr_samples) BY DEF AdcAlarm
    <3> QED BY <3>1
  <2>3. adc_evt_queue' \in Seq(Nat) /\ sample_count' \in Nat BY DEF AdcAlarm, AdcTypes
  <2> QED BY <1>4, <2>1, <2>2, <2>3, Zenon DEF AdcTypes
<1>7. OneHolder' BY <1>4 DEF OneHolder
<1>8. TimerHasCaller' BY <1>1, <1>4 DEF TimerHasCaller
<1>9. SamplingInv'
  <2>1. ASSUME NEW t \in Samplers, adcAt'[t] \in {"wait", "convert", "late"}
        PROVE  t = s /\ adcAt[t] \in {"wait", "late"}
    BY <1>1, <1>4, <2>1 DEF SamplingInv, Sampling
  <2>2. Sampling(s)'
    <3>1. sample_count' <= nr_samples' BY <1>3, <1>4 DEF AdcTypes
    <3>2. \A i \in Cells : s_vect'[s][i] = IF i < sample_count' THEN "raw" ELSE "old"
      <4>1. s_vect'[s] = [s_vect[s] EXCEPT ![sample_count] = "raw"]
        BY <1>1, <1>4 DEF AdcTypes
      <4>2. s_vect[s] \in [Cells -> {"old", "raw", "mV", "bad"}] BY <1>1 DEF AdcTypes
      <4>3. sample_count' = sample_count + 1 /\ sample_count \in Cells BY <1>3, <1>4
      <4> QED BY <1>2, <4>1, <4>2, <4>3 DEF Sampling
    <3> QED BY <1>3, <1>4, <3>1, <3>2 DEF Sampling
  <2>3. adcAt[s] = "wait" /\ adc_evt_queue' # <<>> => sample_count' = nr_samples
    BY <1>1, <1>3, <1>4, <1>5 DEF SamplingInv, AdcTypes
  <2> QED BY <1>4, <2>1, <2>2, <2>3 DEF SamplingInv, Sampling
<1>10. Untouched' BY <1>1, <1>4 DEF AdcTypes, Untouched
<1>11. SamplesAreOwn' BY <1>1, <1>4 DEF AdcTypes, SamplesAreOwn
<1> QED BY <1>6, <1>7, <1>8, <1>9, <1>10, <1>11

LEMMA AdcInvNext == AdcInv /\ [AdcNext]_adcVars => AdcInv'
<1> SUFFICES ASSUME AdcInv, [AdcNext]_adcVars PROVE AdcInv'
  OBVIOUS
<1>1. CASE UNCHANGED adcVars
  BY <1>1 DEF AdcInv, AdcTypes, OneHolder, TimerHasCaller, SamplingInv, Sampling,
              Untouched, SamplesAreOwn, adcVars, adcShared
<1>2. CASE AdcAlarm BY <1>2, AdcInvAlarm
<1>3. ASSUME NEW s \in Samplers, AdcGetData(s) PROVE AdcInv' BY <1>3, AdcInvBegins
<1>4. ASSUME NEW s \in Samplers, SamplingStarts(s) PROVE AdcInv' BY <1>4, AdcInvStarts
<1>5. ASSUME NEW s \in Samplers, Converted(s) PROVE AdcInv' BY <1>5, AdcInvConverted
<1>6. CASE AdcInit5
  BY <1>6 DEF AdcInv, AdcTypes, OneHolder, TimerHasCaller, SamplingInv, Sampling,
              Untouched, SamplesAreOwn, AdcInit5
<1>7. ASSUME NEW s \in Samplers,
             MutexTaken(s) \/ MutexTimeout(s) \/ SamplesTold(s) \/ SamplesLate(s)
             \/ MutexGiven(s)
      PROVE  AdcInv'
  BY <1>7, AdcInvQuiet
<1>8. ASSUME NEW s \in Samplers, TimerStopped(s) \/ LateStopped(s) PROVE AdcInv'
  BY <1>8, AdcInvStops
<1> QED BY <1>1, <1>2, <1>3, <1>4, <1>5, <1>6, <1>7, <1>8 DEF AdcNext

(* adc_op.c 264-279: ESP_OK means samples of this call, all of them, each  *)
(* converted once, for any number of callers and samples.                  *)
THEOREM AdcSamplesAreOwn == AdcSpec => []SamplesAreOwn
<1>1. AdcInv => SamplesAreOwn BY DEF AdcInv
<1> QED BY AdcInvInit, AdcInvNext, <1>1, PTL DEF AdcSpec

(* adc_op.c 281-285: the interrupt never writes into the vector of a       *)
(* caller that has returned.                                               *)
THEOREM AdcNoLateSample == AdcSpec => NoLateSample
<1> DEFINE Quiet == \A s \in Samplers :
       (adcAt[s] = "idle" /\ adcAt'[s] = "idle" /\ adc_init) => s_vect'[s] = s_vect[s]
<1>1. ASSUME AdcInv, [AdcNext]_adcVars PROVE [Quiet]_adcVars
  <2> SUFFICES ASSUME AdcNext, NEW s \in Samplers, adcAt[s] = "idle",
                      adcAt'[s] = "idle", adc_init
               PROVE  s_vect'[s] = s_vect[s]
    BY <1>1
  <2> USE <1>1 DEF AdcInv, AdcTypes, AdcGoto, adcShared
  <2>1. CASE AdcAlarm BY <2>1 DEF AdcAlarm, TimerHasCaller
  <2>2. ASSUME NEW t \in Samplers, Converted(t) PROVE s_vect'[s] = s_vect[s]
    BY <2>2 DEF Converted, SamplingInv, Sampling
  <2>3. ASSUME NEW t \in Samplers, AdcGetData(t) PROVE s_vect'[s] = s_vect[s]
    BY <2>3 DEF AdcGetData
  <2>4. CASE UNCHANGED s_vect BY <2>4
  <2> QED
    BY <2>1, <2>2, <2>3, <2>4
    DEF AdcNext, AdcInit5, MutexTaken, MutexTimeout, TimerStopped, SamplingStarts,
        SamplesTold, SamplesLate, LateStopped, MutexGiven
<1> QED BY AdcInvInit, AdcInvNext, <1>1, PTL DEF AdcSpec, NoLateSample

-------------------------------------------------------------------------------
(* The rotary encoder, for a command queue of any length and any limit of  *)
(* inactivity.  Four facts are inductive together: the types, PressInv,    *)
(* HeldKeyGoesOn and LastKeyIsLevel.  Each action changes the queue by one *)
(* message at one end, which the first two lemmas put into indices.        *)

USE RotConstants DEF RotConstants

\* Taking a message shifts the others by one.
LEMMA TakeFacts ==
  ASSUME TypeOK, NEW m, Take(m)
  PROVE  /\ q[1] = m /\ m \in Messages
         /\ q' \in Seq(Messages) /\ Len(q) \in Nat \ {0} /\ Len(q') = Len(q) - 1
         /\ \A i \in 1..Len(q') : q'[i] = q[i + 1]
BY DEF TypeOK, Take

\* Sending adds a message at the end, or nothing when the queue is full.
LEMMA SendFacts ==
  ASSUME TypeOK, NEW m \in Messages, Send(m)
  PROVE  /\ q' \in Seq(Messages) /\ Len(q) \in Nat /\ Len(q') <= QueueCap
         /\ \A i \in 1..Len(q) : q'[i] = q[i]
         /\ Full => q' = q
         /\ ~Full => Len(q') = Len(q) + 1 /\ q'[Len(q) + 1] = m
BY DEF TypeOK, Send, Full

\* A message stays in the queue until it is at its head and taken.
LEMMA QueuedSent ==
  ASSUME TypeOK, NEW m \in Messages, NEW n \in Messages, Send(m)
  PROVE  /\ Queued(n) => Queued(n)'
         /\ Queued(n)' => Queued(n) \/ n = m
         /\ ~Full => Queued(m)'
BY SendFacts DEF Queued

LEMMA QueuedTaken ==
  ASSUME TypeOK, NEW m, NEW n \in Messages, Take(m)
  PROVE  /\ Queued(n)' => Queued(n)
         /\ Queued(n) /\ n # m => Queued(n)'
<1>1. Queued(n)' => Queued(n)
      BY TakeFacts DEF Queued
<1>2. ASSUME Queued(n), n # m PROVE Queued(n)'
  <2>1. PICK i \in 1..Len(q) : q[i] = n
        BY <1>2 DEF Queued
  <2>2. i # 1 /\ i - 1 \in 1..Len(q')
        BY <1>2, <2>1, TakeFacts
  <2>3. q'[i - 1] = n
        BY <2>1, <2>2, TakeFacts
  <2> QED
        BY <2>2, <2>3 DEF Queued
<1> QED
      BY <1>1, <1>2

-------------------------------------------------------------------------------
(* What the last message of the key says.                                  *)

LEMMA LastKeySent ==
  ASSUME TypeOK, NEW m \in Messages \ Positions, Send(m), key_state' = key_state,
         NEW p \in Positions, LastKey(p)
  PROVE  LastKey(p)'
<1>1. CASE Full
      BY <1>1, SendFacts DEF LastKey, KeyAt
<1>2. CASE ~Full
  <2>1. \A i \in 1..Len(q') : i \in 1..Len(q) \/ q'[i] \notin Positions
        BY <1>2, SendFacts
  <2>2. ASSUME NEW i \in 1..Len(q), KeyAt(i), q[i] = p PROVE LastKey(p)'
    <3>1. i \in 1..Len(q') /\ q'[i] = p
          BY <1>2, <2>2, SendFacts
    <3>2. \A j \in i + 1..Len(q') : q'[j] \notin Positions
          BY <1>2, <2>1, <2>2, SendFacts DEF KeyAt
    <3> QED
          BY <3>1, <3>2 DEF LastKey, KeyAt
  <2>3. ASSUME \A i \in 1..Len(q) : q[i] \notin Positions, key_state = p
        PROVE  LastKey(p)'
        BY <2>1, <2>3, SendFacts DEF LastKey
  <2> QED
        BY <2>2, <2>3 DEF LastKey
<1> QED
      BY <1>1, <1>2

\* The interrupt of the key sends the level itself.
LEMMA LastKeyNew ==
  ASSUME TypeOK, NEW p \in Positions, Send(p), ~Full
  PROVE  LastKey(p)'
<1>1. Len(q) + 1 \in 1..Len(q') /\ q'[Len(q) + 1] = p
      BY SendFacts DEF Messages
<1>2. \A j \in (Len(q) + 1) + 1..Len(q') : q'[j] \notin Positions
      BY SendFacts DEF Messages
<1> QED
      BY <1>1, <1>2 DEF LastKey, KeyAt

\* A message of the key becomes what the task knows; others pass.
LEMMA LastKeyTaken ==
  ASSUME TypeOK, NEW m, Take(m), NEW p \in Positions, LastKey(p),
         key_state' = IF m \in Positions THEN m ELSE key_state
  PROVE  LastKey(p)'
<1>1. ASSUME NEW i \in 1..Len(q), KeyAt(i), q[i] = p PROVE LastKey(p)'
  <2>1. CASE i = 1
    <3>1. \A j \in 1..Len(q') : q'[j] \notin Positions
          BY <1>1, <2>1, TakeFacts DEF KeyAt
    <3>2. key_state' = p
          BY <1>1, <2>1, TakeFacts
    <3> QED
          BY <3>1, <3>2 DEF LastKey
  <2>2. CASE i # 1
    <3>1. i - 1 \in 1..Len(q') /\ q'[i - 1] = p
          BY <1>1, <2>2, TakeFacts
    <3>2. \A j \in (i - 1) + 1..Len(q') : q'[j] \notin Positions
      <4> SUFFICES ASSUME NEW j \in (i - 1) + 1..Len(q') PROVE q'[j] \notin Positions
          OBVIOUS
      <4>1. j + 1 \in i + 1..Len(q) /\ j \in 1..Len(q')
            BY TakeFacts
      <4> QED
            BY <4>1, <1>1, TakeFacts DEF KeyAt
    <3> QED
          BY <3>1, <3>2 DEF LastKey, KeyAt
  <2> QED
        BY <2>1, <2>2
<1>2. ASSUME \A i \in 1..Len(q) : q[i] \notin Positions, key_state = p
      PROVE  LastKey(p)'
  <2>1. \A i \in 1..Len(q') : q'[i] \notin Positions
        BY <1>2, TakeFacts
  <2>2. key_state' = p
        BY <1>2, TakeFacts
  <2> QED
        BY <2>1, <2>2 DEF LastKey
<1> QED
      BY <1>1, <1>2 DEF LastKey

-------------------------------------------------------------------------------
(* The inductive invariant.                                                *)

RotInv == TypeOK /\ PressInv /\ HeldKeyGoesOn /\ LastKeyIsLevel

LEMMA InitRotInv == Init => RotInv
<1> SUFFICES ASSUME Init PROVE RotInv
    OBVIOUS
<1> USE DEF Init, Positions, Presses, Messages
<1>1. TypeOK
  <2>1. q \in Seq(Messages) /\ Len(q) <= QueueCap /\ stale \in 0..QueueCap
        OBVIOUS
  <2>2. idle \in 0..MaxIdle + 1 /\ tick \in 0..MaxIdle + 1
        OBVIOUS
  <2> QED
        BY <2>1, <2>2 DEF TypeOK
<1>2. PressInv /\ HeldKeyGoesOn
      BY DEF PressInv, HeldKeyGoesOn, Queued
<1>3. LastKeyIsLevel
      BY DEF LastKeyIsLevel, LastKey
<1> QED
      BY <1>1, <1>2, <1>3 DEF RotInv

\* What every step of the task does to the queue and to the count of older
\* messages.
LEMMA TaskTypes ==
  ASSUME TypeOK, NEW m, Take(m), OneOlder
  PROVE  /\ m \in Messages /\ q' \in Seq(Messages) /\ Len(q') <= QueueCap
         /\ stale' \in 0..QueueCap
         /\ level' \in Positions /\ isr' \in BOOLEAN /\ away' \in BOOLEAN
<1>1. m \in Messages /\ q' \in Seq(Messages) /\ Len(q') <= QueueCap
      BY TakeFacts DEF TypeOK
<1>2. stale' \in 0..QueueCap
      BY DEF OneOlder, TypeOK
<1>3. level' \in Positions /\ isr' \in BOOLEAN /\ away' \in BOOLEAN
      BY DEF Take, TypeOK
<1> QED
      BY <1>1, <1>2, <1>3

LEMMA StepTypes == TypeOK /\ [Next]_vars => TypeOK'
<1> SUFFICES ASSUME TypeOK, [Next]_vars PROVE TypeOK'
    OBVIOUS
<1>1. CASE Edge
      BY <1>1 DEF Edge, TypeOK, keyVars, idleVars
<1>2. CASE KeyIsr
  <2>1. q' \in Seq(Messages) /\ Len(q') <= QueueCap
        BY <1>2, SendFacts DEF KeyIsr, TypeOK, Messages
  <2> QED
        BY <1>2, <2>1 DEF KeyIsr, TypeOK, keyVars, idleVars
<1>3. CASE KnobIsr
  <2>1. q' \in Seq(Messages) /\ Len(q') <= QueueCap
        BY <1>3, SendFacts DEF KnobIsr, Messages
  <2> QED
        BY <1>3, <2>1 DEF KnobIsr, TypeOK, keyVars, idleVars
<1>4. CASE Alarm
  <2>1. q' \in Seq(Messages) /\ Len(q') <= QueueCap
        BY <1>4, SendFacts DEF Alarm, Messages
  <2> QED
        BY <1>4, <2>1 DEF Alarm, TypeOK, keyVars, idleVars
<1>5. CASE TickRead
      BY <1>5 DEF TickRead, TypeOK, keyVars
<1>6a. CASE TickWrite
      BY <1>6a DEF TickWrite, TypeOK, keyVars
<1>6. CASE TickCompare
  <2>1. q' \in Seq(Messages) /\ Len(q') <= QueueCap
        BY <1>6, SendFacts DEF TickCompare, TypeOK, Messages
  <2>2. counted' = FALSE /\ tick' = 0
        BY <1>6, Zenon DEF TickCompare
  <2>3. UNCHANGED <<level, isr, keyVars, idle, active, awake, away, lost>>
        BY <1>6, Zenon DEF TickCompare
  <2>4. tick' \in 0..MaxIdle + 1
        BY <2>2, RotConstants
  <2>5. counted' \in BOOLEAN
        BY <2>2, Zenon
  <2> QED
        BY <2>1, <2>3, <2>4, <2>5 DEF TypeOK, keyVars
<1>7. CASE UserGoes
      BY <1>7 DEF UserGoes, TypeOK, keyVars, idleVars
<1>8. CASE TakeRot
      BY <1>8, TaskTypes DEF TakeRot, Activity, TypeOK
<1>9. CASE TakeRelease
  <2>1. stale' \in 0..QueueCap
        BY <1>9 DEF TakeRelease, Take, OneOlder, TypeOK
  <2>2. q' \in Seq(Messages) /\ Len(q') <= QueueCap
        BY <1>9, TakeFacts DEF TakeRelease, TypeOK
  <2> QED
        BY <1>9, <2>1, <2>2 DEF TakeRelease, Take, Activity, OneOlder, TypeOK, Positions
<1>10. CASE TakePress
  <2>1. /\ key_state' \in Positions /\ press_time' \in Presses
        /\ timer' \in {"stopped", "armed", "fired"}
        /\ told' \in {"up", "down"} \cup Presses
        /\ lost' \in SUBSET {"key", "timer"}
        BY <1>10 DEF TakePress, TypeOK, Positions, Presses
  <2> QED
        BY <1>10, <2>1, TaskTypes DEF TakePress, Activity, TypeOK
<1>11. CASE TakeTimer
      BY <1>11, TaskTypes DEF TakeTimer, NextPress, idleVars, TypeOK, Presses
<1>12. CASE TakeInactive
      BY <1>12, TaskTypes DEF TakeInactive, TypeOK
<1>13. CASE UNCHANGED vars
      BY <1>13 DEF vars, keyVars, idleVars, TypeOK
<1> QED
      BY <1>1, <1>2, <1>3, <1>4, <1>5, <1>6a, <1>6, <1>7, <1>8, <1>9, <1>10, <1>11,
         <1>12, <1>13 DEF Next, Task

\* The timer messages in the queue, for PressInv and HeldKeyGoesOn.
LEMMA StepPress == RotInv /\ [Next]_vars => PressInv' /\ HeldKeyGoesOn'
<1> SUFFICES ASSUME RotInv, [Next]_vars PROVE PressInv' /\ HeldKeyGoesOn'
    OBVIOUS
<1>a. TypeOK /\ PressInv /\ HeldKeyGoesOn
      BY DEF RotInv
<1>b. "timer" \in Messages /\ "rot" \in Messages /\ "inactive" \in Messages
      BY DEF Messages
<1> DEFINE Waits == Queued("timer")
<1>q. ASSUME Waits' <=> Waits,
             UNCHANGED <<key_state, press_time, timer, told>>,
             "timer" \in lost' <=> "timer" \in lost
      PROVE  PressInv' /\ HeldKeyGoesOn'
      BY <1>a, <1>q DEF PressInv, HeldKeyGoesOn
<1>1. CASE Edge
      BY <1>1, <1>q DEF Edge, keyVars, Queued
<1>2. CASE KeyIsr
  <2>1. Waits' <=> Waits
        BY <1>2, <1>a, <1>b, QueuedSent DEF KeyIsr, TypeOK, Messages, Positions
  <2> QED
        BY <1>2, <2>1, <1>q DEF KeyIsr, keyVars
<1>3. CASE KnobIsr
  <2>1. Waits' <=> Waits
        BY <1>3, <1>a, <1>b, QueuedSent DEF KnobIsr
  <2> QED
        BY <1>3, <2>1, <1>q DEF KnobIsr, keyVars
<1>4. CASE Alarm
  <2>1. ~Full => Waits'
        BY <1>4, <1>a, <1>b, QueuedSent DEF Alarm
  <2>2. key_state = "pressed" /\ told # "up"
        BY <1>4, <1>a DEF Alarm, PressInv, TypeOK, Positions
  <2>3. /\ timer' = "fired" /\ UNCHANGED <<key_state, press_time, told>>
        /\ lost' = IF Full THEN lost \cup {"timer"} ELSE lost
        BY <1>4 DEF Alarm
  <2>4. PressInv'
        BY <2>2, <2>3, <1>a DEF PressInv
  <2>5. HeldKeyGoesOn'
        BY <2>1, <2>3 DEF HeldKeyGoesOn
  <2> QED
        BY <2>4, <2>5
<1>5. CASE TickRead \/ TickWrite
      BY <1>5, <1>q DEF TickRead, TickWrite, keyVars, Queued
<1>6. CASE TickCompare
  <2>1. Waits' <=> Waits
    <3>1. CASE Send("inactive")
          BY <1>a, <1>b, <3>1, QueuedSent
    <3>2. CASE UNCHANGED q
          BY <3>2 DEF Queued
    <3> QED
          BY <1>6, <3>1, <3>2 DEF TickCompare
  <2> QED
        BY <1>6, <2>1, <1>q DEF TickCompare, keyVars
<1>7. CASE UserGoes
      BY <1>7, <1>q DEF UserGoes, keyVars, Queued
<1>8. CASE TakeRot
  <2>1. Waits' <=> Waits
        BY <1>8, <1>a, <1>b, QueuedTaken DEF TakeRot
  <2> QED
        BY <1>8, <2>1, <1>q DEF TakeRot
<1>9. CASE TakeRelease
  <2>1. Waits' <=> Waits
        BY <1>9, <1>a, <1>b, QueuedTaken DEF TakeRelease
  <2>2. CASE key_state = "pressed"
        BY <1>9, <2>2 DEF TakeRelease, PressInv, HeldKeyGoesOn
  <2>3. CASE key_state # "pressed"
        BY <1>9, <2>1, <2>3, <1>q DEF TakeRelease
  <2> QED
        BY <2>2, <2>3
<1>10. CASE TakePress
  <2>1. Waits' <=> Waits
        BY <1>10, <1>a, <1>b, QueuedTaken DEF TakePress
  <2>2. CASE key_state = "released"
        BY <1>10, <2>2 DEF TakePress, PressInv, HeldKeyGoesOn
  <2>3. CASE key_state # "released"
        BY <1>10, <2>1, <2>3, <1>q DEF TakePress
  <2> QED
        BY <2>2, <2>3
<1>11. CASE TakeTimer
  <2>1. Waits
    <3>1. q[1] = "timer" /\ 1 \in 1..Len(q)
          BY <1>11, <1>a, TakeFacts DEF TakeTimer
    <3> QED
          BY <3>1 DEF Queued
  <2>2. CASE key_state = "released"
        BY <1>11, <1>a, <2>2 DEF TakeTimer, PressInv, HeldKeyGoesOn
  <2>3. CASE key_state # "released"
    <3>1. key_state = "pressed" /\ told # "up"
          BY <1>a, <2>1, <2>3 DEF PressInv, TypeOK, Positions
    <3>2. /\ told' = press_time /\ press_time' = NextPress(press_time)
          /\ timer' = IF press_time = "longlong" THEN timer ELSE "armed"
          /\ UNCHANGED <<key_state, lost>>
          BY <1>11, <2>3 DEF TakeTimer
    <3>3. press_time \in Presses
          BY <1>a DEF TypeOK
    <3> QED
          BY <3>1, <3>2, <3>3, <1>a
          DEF PressInv, HeldKeyGoesOn, NextPress, Presses
  <2> QED
        BY <2>2, <2>3
<1>12. CASE TakeInactive
  <2>1. Waits' <=> Waits
        BY <1>12, <1>a, <1>b, QueuedTaken DEF TakeInactive
  <2> QED
        BY <1>12, <2>1, <1>q DEF TakeInactive
<1>13. CASE UNCHANGED vars
      BY <1>13, <1>q DEF vars, keyVars, Queued
<1> QED
      BY <1>1, <1>2, <1>3, <1>4, <1>5, <1>6, <1>7, <1>8, <1>9, <1>10, <1>11,
         <1>12, <1>13 DEF Next, Task

\* The last message of the key, for LastKeyIsLevel.
LEMMA StepLastKey == RotInv /\ [Next]_vars => LastKeyIsLevel'
<1> SUFFICES ASSUME RotInv, [Next]_vars PROVE LastKeyIsLevel'
    OBVIOUS
<1>a. TypeOK /\ LastKeyIsLevel
      BY DEF RotInv
<1>b. /\ "timer" \in Messages \ Positions /\ "rot" \in Messages \ Positions
      /\ "inactive" \in Messages \ Positions /\ level \in Positions
      /\ key_state \in Positions
      BY <1>a DEF Messages, Positions, TypeOK
<1>q. ASSUME UNCHANGED <<isr, level>>, "key" \in lost' <=> "key" \in lost,
             LastKey(level) => LastKey(level)'
      PROVE  LastKeyIsLevel'
      BY <1>a, <1>q DEF LastKeyIsLevel
<1>s. ASSUME NEW m \in Messages \ Positions, Send(m),
             UNCHANGED <<isr, level, key_state>>, "key" \in lost' <=> "key" \in lost
      PROVE  LastKeyIsLevel'
  <2>1. LastKey(level) => LastKey(level)'
        BY <1>a, <1>b, <1>s, LastKeySent DEF LastKey, KeyAt
  <2> QED
        BY <1>q, <1>s, <2>1
<1>t. ASSUME NEW m, Take(m), "key" \in lost' <=> "key" \in lost,
             key_state' = IF m \in Positions THEN m ELSE key_state
      PROVE  LastKeyIsLevel'
  <2>1. LastKey(level) => LastKey(level)'
        BY <1>a, <1>b, <1>t, LastKeyTaken DEF LastKey, KeyAt, Take
  <2> QED
        BY <1>q, <1>t, <2>1 DEF Take
<1>u. ASSUME UNCHANGED <<q, key_state, isr, level, lost>> PROVE LastKeyIsLevel'
      BY <1>a, <1>u DEF LastKeyIsLevel, LastKey, KeyAt
<1>1. CASE Edge
      BY <1>1 DEF Edge, LastKeyIsLevel
<1>2. CASE KeyIsr
  <2>1. CASE Full
        BY <1>2, <2>1 DEF KeyIsr, LastKeyIsLevel
  <2>2. CASE ~Full
    <3>1. LastKey(level)'
          BY <1>2, <1>a, <1>b, <2>2, LastKeyNew DEF KeyIsr, LastKey, KeyAt
    <3> QED
          BY <3>1 DEF LastKeyIsLevel
  <2> QED
        BY <2>1, <2>2
<1>3. CASE KnobIsr
      BY <1>3, <1>b, <1>s DEF KnobIsr, keyVars
<1>4. CASE Alarm
  <2>1. "key" \in lost' <=> "key" \in lost
        BY <1>4 DEF Alarm
  <2> QED
        BY <1>4, <1>b, <1>s, <2>1 DEF Alarm
<1>5. CASE TickRead \/ TickWrite
      BY <1>5, <1>u DEF TickRead, TickWrite, keyVars
<1>6. CASE TickCompare
  <2>1. CASE Send("inactive")
        BY <1>6, <1>b, <1>s, <2>1 DEF TickCompare, keyVars
  <2>2. CASE UNCHANGED q
        BY <1>6, <1>u, <2>2 DEF TickCompare, keyVars
  <2> QED
        BY <1>6, <2>1, <2>2 DEF TickCompare
<1>7. CASE UserGoes
      BY <1>7, <1>u DEF UserGoes, keyVars
<1>8. CASE TakeRot
      BY <1>8, <1>b, <1>t DEF TakeRot
<1>9. CASE TakeRelease
  <2>1. key_state' = "released" /\ "released" \in Positions /\ lost' = lost
        BY <1>9, <1>b DEF TakeRelease, Positions
  <2> QED
        BY <1>9, <1>t, <2>1 DEF TakeRelease
<1>10. CASE TakePress
  <2>1. key_state' = "pressed" /\ "pressed" \in Positions
        BY <1>10, <1>b DEF TakePress, Positions
  <2>2. "key" \in lost' <=> "key" \in lost
        BY <1>10 DEF TakePress
  <2> QED
        BY <1>10, <1>t, <2>1, <2>2 DEF TakePress
<1>11. CASE TakeTimer
      BY <1>11, <1>b, <1>t DEF TakeTimer
<1>12. CASE TakeInactive
      BY <1>12, <1>b, <1>t DEF TakeInactive
<1>13. CASE UNCHANGED vars
      BY <1>13, <1>u DEF vars, keyVars
<1> QED
      BY <1>1, <1>2, <1>3, <1>4, <1>5, <1>6, <1>7, <1>8, <1>9, <1>10, <1>11,
         <1>12, <1>13 DEF Next, Task

LEMMA RotInvariant == Spec => []RotInv
<1>1. RotInv /\ [Next]_vars => RotInv'
      BY StepTypes, StepPress, StepLastKey DEF RotInv
<1> QED
      BY <1>1, InitRotInv, PTL DEF Spec

-------------------------------------------------------------------------------
(* The theorems.                                                           *)

(* cmd_q holds no more than it was made for, and every variable stays in   *)
(* its type.                                                               *)
THEOREM RotTypes == Spec => []TypeOK
  BY RotInvariant, PTL DEF RotInv

(* However the edges of the key merge and bounce, the task ends up with    *)
(* the level the key has, if the last edge found room in the queue.        *)
THEOREM RotKeyFollows == Spec => []KeyFollowsLevel
<1>1. RotInv => KeyFollowsLevel
  <2> SUFFICES ASSUME RotInv, ~isr, ~Queued("pressed"), ~Queued("released"),
                      "key" \notin lost
               PROVE  key_state = level
      BY DEF KeyFollowsLevel
  <2>1. \A i \in 1..Len(q) : q[i] \notin Positions
        BY DEF Queued, Positions
  <2> QED
        BY <2>1 DEF RotInv, LastKeyIsLevel, LastKey, KeyAt
<1> QED
      BY <1>1, RotInvariant, PTL

(* A key held down gets to its next press unless the alarm's message was   *)
(* lost.                                                                   *)
THEOREM RotHeldKeyGoesOn == Spec => []HeldKeyGoesOn
  BY RotInvariant, PTL DEF RotInv

(* rot_enc_cmd implements KeyReports: down, short, long and very long      *)
(* presses are told in this order, each time from the beginning, although  *)
(* timer messages of an earlier press may still be in the queue.           *)
THEOREM RotImplementsReports == Spec => ReportsInOrder
<1>1. Init => Reports!KeyInit
      BY DEF Init, Reports!KeyInit
<1>2. ASSUME RotInv, [Next]_vars PROVE [Reports!KeyNext]_told
  <2>a. TypeOK /\ PressInv
        BY <1>2 DEF RotInv
  <2>b. ASSUME told' = "up" PROVE Reports!KeyNext
        BY <2>b DEF Reports!KeyNext, Reports!KeyUp
  <2>1. CASE TakeRelease
        BY <2>1, <2>b DEF TakeRelease
  <2>2. CASE TakePress
    <3>1. CASE key_state = "released"
          BY <2>2, <2>a, <3>1
          DEF TakePress, PressInv, Reports!KeyNext, Reports!KeyDown
    <3> QED
          BY <2>2, <3>1 DEF TakePress
  <2>3. CASE TakeTimer
    <3>1. Queued("timer")
          BY <2>3, <2>a, TakeFacts DEF TakeTimer, Queued
    <3>2. CASE key_state # "released"
      <4>1. told # "up" /\ told' = press_time
            BY <2>3, <2>a, <3>1, <3>2 DEF TakeTimer, PressInv, TypeOK, Positions
      <4> QED
            BY <2>a, <4>1 DEF PressInv, TypeOK, Presses, Reports!KeyNext,
               Reports!Short, Reports!Long, Reports!LongLong
    <3> QED
          BY <2>3, <3>2 DEF TakeTimer
  <2>4. CASE UNCHANGED told
        BY <2>4
  <2> QED
        BY <1>2, <2>1, <2>2, <2>3, <2>4
        DEF Next, Task, Edge, KeyIsr, KnobIsr, Alarm, TickRead, TickWrite,
            TickCompare, UserGoes, TakeRot, TakeInactive, vars, keyVars
<1> QED
      BY <1>1, <1>2, RotInvariant, PTL DEF Spec, ReportsInOrder, Reports!KeySpec
================================================================================
