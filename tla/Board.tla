---------------------------------- MODULE Board --------------------------------
(***************************************************************************)
(* The small parts of the board side by side: encoder and push button, the *)
(* two converters, the LED flasher and the configuration.  They share no   *)
(* state, so a behaviour follows one of them while the others are at rest. *)
(***************************************************************************)
EXTENDS RotEnc, Adc, Ad7811, LedFlash, NvsConf

CONSTANT PartsOfBoard

VARIABLE part

boardVars == <<part, vars, adcVars, adVars, ledVars, nvsVars>>

BoardInit ==
  /\ part \in PartsOfBoard
  /\ Init /\ AdcStart /\ AdStart /\ LedStart /\ NvsStart
  /\ part # "encoder" => level = "released"
  /\ part # "ad7811" => selected = s_channel /\ s_channel = CHOOSE c \in AdChannels : TRUE
  /\ part # "conf" => nvs = [k \in NvsKeys |-> "none"]

Encoder(A) == part = "encoder" /\ A /\ UNCHANGED <<part, adcVars, adVars, ledVars, nvsVars>>
Converter(A) == part = "adc" /\ A /\ UNCHANGED <<part, vars, adVars, ledVars, nvsVars>>
External(A) == part = "ad7811" /\ A /\ UNCHANGED <<part, vars, adcVars, ledVars, nvsVars>>
Flasher(A) == part = "leds" /\ A /\ UNCHANGED <<part, vars, adcVars, adVars, nvsVars>>
Configuration(A) == part = "conf" /\ A /\ UNCHANGED <<part, vars, adcVars, adVars, ledVars>>

BoardNext ==
  \/ Encoder(Next) \/ Converter(AdcNext) \/ External(AdNext)
  \/ Flasher(LedNext) \/ Configuration(NvsNext)

BoardSpec == BoardInit /\ [][BoardNext]_boardVars

(* Interrupts and alarms come and the tasks run; as for RotEnc alone.      *)
BoardFairSpec ==
  /\ BoardSpec
  /\ WF_boardVars(Encoder(KeyIsr)) /\ WF_boardVars(Encoder(Task))
  /\ WF_boardVars(Encoder(TickRead)) /\ WF_boardVars(Encoder(TickWrite))
  /\ WF_boardVars(Encoder(TickCompare))
  /\ WF_boardVars(External(AdTimerStarts \/ AdAlarm \/ AdTold))
  /\ WF_boardVars(Flasher(FlashTimerCallback))
===============================================================================
