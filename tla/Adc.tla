---------------------------------- MODULE Adc ----------------------------------
(***************************************************************************)
(* One-shot sampling with the converter of the chip (adesp32/adc_op.c,     *)
(* ONESHOOT_MODE): adc_get_data, called by several tasks one at a time     *)
(* under adcval_mutex, and the alarm of adc_timer, an interrupt, which     *)
(* writes into the caller's vector through adc_raw and tells the end       *)
(* through adc_evt_queue.  A run of the interrupt is one step: it is taken *)
(* to run on the core of the tasks.  Channels are sampled side by side and *)
(* stand as one.                                                           *)
(***************************************************************************)
EXTENDS Naturals, Sequences

CONSTANTS Samplers,    \* tasks that call adc_get_data
          MaxSamples,  \* bound: nr_samp
          AdcQueueCap  \* length of adc_evt_queue, 3

ASSUME AdcConstants ==
  "none" \notin Samplers /\ MaxSamples \in Nat \ {0} /\ AdcQueueCap \in Nat \ {0}

VARIABLES
  adc_init, adcval_mutex,   \* the mutex: its holder or "none"
  adc_timer,                \* is the timer running?
  adc_raw, sample_count, nr_samples, adc_evt_queue,
  adcAt,                    \* where each caller is
  nr_samp,                  \* what it asked for
  s_vect,                   \* its vector: cells "old", "raw", "mV", "bad"
  adcRet                    \* what it got

adcShared == <<adc_init, adcval_mutex, adc_timer, adc_raw, sample_count,
               nr_samples, adc_evt_queue>>
adcVars == <<adcShared, adcAt, nr_samp, s_vect, adcRet>>

Cells == 0..MaxSamples
Old == [i \in Cells |-> "old"]

AdcStart ==
  /\ adc_init = FALSE /\ adcval_mutex = "none" /\ adc_timer = FALSE
  /\ adc_raw = "none" /\ sample_count = 0 /\ nr_samples = 0
  /\ adc_evt_queue = <<>>
  /\ adcAt = [s \in Samplers |-> "idle"] /\ nr_samp = [s \in Samplers |-> 0]
  /\ s_vect = [s \in Samplers |-> Old] /\ adcRet = [s \in Samplers |-> "fail"]

AdcInit5 ==
  /\ ~adc_init /\ adc_init' = TRUE
  /\ UNCHANGED <<adcval_mutex, adc_timer, adc_raw, sample_count, nr_samples,
                 adc_evt_queue, adcAt, nr_samp, s_vect, adcRet>>

AdcGoto(s, where) == adcAt' = [adcAt EXCEPT ![s] = where]

AdcGetData(s) ==
  /\ adcAt[s] = "idle"
  /\ \E n \in 1..MaxSamples : nr_samp' = [nr_samp EXCEPT ![s] = n]
  /\ s_vect' = [s_vect EXCEPT ![s] = Old]
  /\ adcRet' = [adcRet EXCEPT ![s] = "fail"]
  /\ AdcGoto(s, IF adc_init THEN "mutex" ELSE "idle")
  /\ UNCHANGED adcShared

MutexTaken(s) ==
  /\ adcAt[s] = "mutex" /\ adcval_mutex = "none" /\ adcval_mutex' = s
  /\ AdcGoto(s, "stop")
  /\ UNCHANGED <<adc_init, adc_timer, adc_raw, sample_count, nr_samples,
                 adc_evt_queue, nr_samp, s_vect, adcRet>>

\* 120 ticks are over while another task holds it.
MutexTimeout(s) ==
  /\ adcAt[s] = "mutex" /\ adcval_mutex # "none" /\ AdcGoto(s, "idle")
  /\ UNCHANGED <<adcShared, nr_samp, s_vect, adcRet>>

TimerStopped(s) ==
  /\ adcAt[s] = "stop" /\ adc_timer' = FALSE /\ AdcGoto(s, "start")
  /\ UNCHANGED <<adc_init, adcval_mutex, adc_raw, sample_count, nr_samples,
                 adc_evt_queue, nr_samp, s_vect, adcRet>>

\* Mutant: the queue is not reset.
SamplingStarts_NoReset(s) ==
  /\ adcAt[s] = "start" /\ AdcGoto(s, "wait")
  /\ adc_raw' = s /\ sample_count' = 0 /\ nr_samples' = nr_samp[s]
  /\ adc_timer' = TRUE
  /\ UNCHANGED <<adc_init, adcval_mutex, nr_samp, s_vect, adcRet, adc_evt_queue>>

\* The timer is stopped, so nobody else uses what is set here.
SamplingStarts(s) ==
  /\ adcAt[s] = "start" /\ AdcGoto(s, "wait")
  /\ adc_raw' = s /\ sample_count' = 0 /\ nr_samples' = nr_samp[s]
  /\ adc_evt_queue' = <<>> /\ adc_timer' = TRUE
  /\ UNCHANGED <<adc_init, adcval_mutex, nr_samp, s_vect, adcRet>>

\* adc_timer_callback.
AdcAlarm ==
  /\ adc_timer
  /\ s_vect' = [s_vect EXCEPT ![adc_raw][sample_count] = "raw"]
  /\ sample_count' = sample_count + 1
  /\ adc_timer' = (sample_count' < nr_samples)
  /\ adc_evt_queue' = IF adc_timer' \/ Len(adc_evt_queue) = AdcQueueCap
                      THEN adc_evt_queue
                      ELSE Append(adc_evt_queue, sample_count')
  /\ UNCHANGED <<adc_init, adcval_mutex, adc_raw, nr_samples, adcAt, nr_samp,
                 adcRet>>

SamplesTold(s) ==
  /\ adcAt[s] = "wait" /\ adc_evt_queue # <<>>
  /\ adc_evt_queue' = Tail(adc_evt_queue) /\ AdcGoto(s, "convert")
  /\ UNCHANGED <<adc_init, adcval_mutex, adc_timer, adc_raw, sample_count,
                 nr_samples, nr_samp, s_vect, adcRet>>

\* From raw to millivolts, in place; what was not sampled becomes nonsense.
Converted(s) ==
  /\ adcAt[s] = "convert" /\ AdcGoto(s, "give")
  /\ s_vect' = [s_vect EXCEPT ![adc_raw] =
                  [i \in Cells |-> IF i >= nr_samp[s] THEN @[i]
                                   ELSE IF @[i] = "raw" THEN "mV" ELSE "bad"]]
  /\ adcRet' = [adcRet EXCEPT ![s] = "ok"]
  /\ UNCHANGED <<adcShared, nr_samp>>

\* q_wait is over: the samples may still be completed before the stop.
SamplesLate(s) ==
  /\ adcAt[s] = "wait" /\ adc_evt_queue = <<>> /\ AdcGoto(s, "late")
  /\ UNCHANGED <<adcShared, nr_samp, s_vect, adcRet>>

\* Mutant: the timer is left to run.
LateStopped_Not(s) ==
  adcAt[s] = "late" /\ AdcGoto(s, "give") /\ UNCHANGED <<adcShared, nr_samp, s_vect, adcRet>>

LateStopped(s) ==
  /\ adcAt[s] = "late" /\ adc_timer' = FALSE /\ AdcGoto(s, "give")
  /\ UNCHANGED <<adc_init, adcval_mutex, adc_raw, sample_count, nr_samples,
                 adc_evt_queue, nr_samp, s_vect, adcRet>>

MutexGiven(s) ==
  /\ adcAt[s] = "give" /\ adcval_mutex' = "none" /\ AdcGoto(s, "idle")
  /\ UNCHANGED <<adc_init, adc_timer, adc_raw, sample_count, nr_samples,
                 adc_evt_queue, nr_samp, s_vect, adcRet>>

AdcNext ==
  \/ AdcInit5 \/ AdcAlarm
  \/ \E s \in Samplers :
       \/ AdcGetData(s) \/ MutexTaken(s) \/ MutexTimeout(s) \/ TimerStopped(s)
       \/ SamplingStarts(s) \/ SamplesTold(s) \/ Converted(s) \/ SamplesLate(s)
       \/ LateStopped(s) \/ MutexGiven(s)

AdcSpec == AdcStart /\ [][AdcNext]_adcVars
-------------------------------------------------------------------------------
(* adc_op.c 264-279: ESP_OK means that every sample asked for was taken in *)
(* this call and converted once, and no cell beyond was touched, although  *)
(* an earlier call may have given up just before its end was told.         *)
SamplesAreOwn ==
  \A s \in Samplers :
    (adcAt[s] \in {"give", "idle"} /\ adcRet[s] = "ok") =>
      \A i \in Cells : s_vect[s][i] = IF i < nr_samp[s] THEN "mV" ELSE "old"

(* adc_op.c 281-285: the interrupt never writes into the vector of a       *)
(* caller that has returned.                                               *)
NoLateSample ==
  [][\A s \in Samplers :
       (adcAt[s] = "idle" /\ adcAt'[s] = "idle" /\ adc_init)
         => s_vect'[s] = s_vect[s]]_adcVars
===============================================================================
