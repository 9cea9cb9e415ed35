--------------------------------- MODULE Ad7811 --------------------------------
(***************************************************************************)
(* The external converter of ad7811/ad7811.c, read over SPI by the command *)
(* "ad r".  Each transfer gives the channel that the transfer before it    *)
(* selected, so adc_get_data_7911 throws one away and then has the alarm   *)
(* of the timer take the samples.  There is one caller, the console.       *)
(***************************************************************************)
EXTENDS Naturals, Sequences

CONSTANTS AdChannels,    \* channels of the converter
          MaxAdSamples,  \* bound: nr_samp
          MaxSpiFaults   \* bound: transfers that fail

ASSUME Ad7811Constants ==
  AdChannels # {} /\ MaxAdSamples \in Nat \ {0} /\ MaxSpiFaults \in Nat

VARIABLES
  selected,    \* external: the channel the next transfer gives
  spiFaults,
  adAt,        \* where the command is
  s_channel, ad_nr_samples,
  samples,     \* the channel each sample taken is of; sample_count of them
  ad_timer,    \* is the timer running?
  ad_queue,    \* adc_evt_queue
  adRet

adVars == <<selected, spiFaults, adAt, s_channel, ad_nr_samples, samples,
            ad_timer, ad_queue, adRet>>

AdStart ==
  /\ selected \in AdChannels /\ spiFaults = 0 /\ adAt = "idle"
  /\ s_channel \in AdChannels /\ ad_nr_samples = 0 /\ samples = <<>>
  /\ ad_timer = FALSE /\ ad_queue = <<>> /\ adRet = "fail"

SpiFails == spiFaults < MaxSpiFaults /\ spiFaults' = spiFaults + 1 /\ UNCHANGED selected
SpiSelects(chn) == selected' = chn /\ UNCHANGED spiFaults

AdSetVariables ==
  /\ adAt = "idle"
  /\ s_channel' \in AdChannels /\ ad_nr_samples' \in 1..MaxAdSamples
  /\ samples' = <<>> /\ UNCHANGED <<ad_timer, ad_queue>>

\* Mutant: no transfer to select the channel.
DummyRead_Not == AdSetVariables /\ adAt' = "start" /\ UNCHANGED <<selected, spiFaults, adRet>>

DummyRead ==
  /\ AdSetVariables /\ SpiSelects(s_channel')
  /\ adAt' = "start" /\ UNCHANGED adRet

DummyReadFails ==
  /\ AdSetVariables /\ SpiFails
  /\ adRet' = "fail" /\ UNCHANGED adAt

\* gptimer_start; if the timer is still running it is stopped first.
AdTimerStarts ==
  /\ adAt = "start" /\ adAt' = "wait" /\ ad_timer' = TRUE
  /\ UNCHANGED <<selected, spiFaults, s_channel, ad_nr_samples, samples,
                 ad_queue, adRet>>

\* adc_timer_callback.
AdAlarmReads ==
  /\ ad_timer /\ SpiSelects(s_channel)
  /\ samples' = Append(samples, selected)
  /\ ad_timer' = (Len(samples') < ad_nr_samples)
  /\ ad_queue' = IF ad_timer' THEN ad_queue ELSE Append(ad_queue, Len(samples'))
  /\ UNCHANGED <<adAt, s_channel, ad_nr_samples, adRet>>

\* Mutant: a failure stops the timer and tells nobody.
AdAlarmFails_Silent ==
  /\ ad_timer /\ SpiFails /\ ad_timer' = FALSE
  /\ UNCHANGED <<adAt, s_channel, ad_nr_samples, samples, adRet, ad_queue>>

AdAlarmFails ==
  /\ ad_timer /\ SpiFails /\ ad_timer' = FALSE
  /\ ad_queue' = Append(ad_queue, Len(samples))
  /\ UNCHANGED <<adAt, s_channel, ad_nr_samples, samples, adRet>>

\* The wait has no timeout.
AdTold ==
  /\ adAt = "wait" /\ ad_queue # <<>> /\ ad_queue' = Tail(ad_queue)
  /\ adAt' = "idle"
  /\ adRet' = IF Head(ad_queue) = ad_nr_samples THEN "ok" ELSE "fail"
  /\ UNCHANGED <<selected, spiFaults, s_channel, ad_nr_samples, samples, ad_timer>>

AdAlarm == AdAlarmReads \/ AdAlarmFails

AdNext == DummyRead \/ DummyReadFails \/ AdTimerStarts \/ AdAlarm \/ AdTold

AdSpec == AdStart /\ [][AdNext]_adVars
-------------------------------------------------------------------------------
(* ad7811.c 168-169, "when channel changed the first read is for previous  *)
(* channel": a read that ends well has all its samples, each of the        *)
(* channel asked for, after whatever failures came before.                 *)
ChannelRead ==
  (adAt = "idle" /\ adRet = "ok") =>
    /\ Len(samples) = ad_nr_samples
    /\ \A i \in 1..Len(samples) : samples[i] = s_channel

(* ad7811.c 59-66, 113: the caller waits for ever, so every alarm that     *)
(* ends the sampling tells it, also when a transfer fails.                 *)
AdReturns == adAt = "wait" ~> adAt = "idle"
===============================================================================
