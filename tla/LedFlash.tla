-------------------------------- MODULE LedFlash -------------------------------
(***************************************************************************)
(* The LED flasher of utils/utils.c: set_flash_led, called by the console, *)
(* fills the table led_st, and flash_timer_callback, on the task of        *)
(* esp_timer, drives the LEDs from it.  They share no lock and may run on  *)
(* two cores: every access to the table is a step.                         *)
(***************************************************************************)
EXTENDS Naturals

CONSTANTS Leds,       \* what may be given as led_no; 0 marks a free slot
          Outputs,    \* the pins configured as outputs; pin 0 is taken not to be
          FlashTicks, \* what may be given as tick
          NumSlots,   \* NO_FLASH_LEDS
          TickModulus \* tick_count is kept modulo this power of two

ASSUME LedConstants ==
  /\ Leds \subseteq Nat /\ Outputs \subseteq Leds \ {0}
  /\ FlashTicks \subseteq 0..(TickModulus \div 2)
  /\ NumSlots \in Nat \ {0} /\ TickModulus \in {2, 4, 8, 16, 32}

VARIABLES
  led_st,      \* the table
  gpio,        \* the level of each output; of another pin it has no effect
  flash_timer, \* the timer exists and is running
  tick_count,
  flashAt,     \* flash_timer_callback: slot, and "test", "level" or "toggle"
  ledCall,     \* set_flash_led: where it is, its slot and arguments
  asked        \* history: flash_tick of the last call for the LED, if it ended
               \* with ESP_OK

ledVars == <<led_st, gpio, flash_timer, tick_count, flashAt, ledCall, asked>>

Slots == 1..NumSlots
Asleep == [slot |-> 0, step |-> "test"]
NoCall == [at |-> "idle", slot |-> 0, led |-> 0, state |-> FALSE, tick |-> 0]

LedStart ==
  /\ led_st = [i \in Slots |-> [pin |-> 0, tick |-> 0, state |-> FALSE]]
  /\ gpio = [l \in Outputs |-> FALSE]
  /\ flash_timer = FALSE /\ tick_count = 0 /\ flashAt = Asleep
  /\ ledCall = NoCall /\ asked = [l \in Outputs |-> 0]

\* next_power_of_2
NextPowerOf2(n) ==
  IF n = 0 THEN 0
  ELSE CHOOSE p \in {2^i : i \in 0..5} : n <= p /\ (p = 1 \/ p \div 2 < n)

\* tick_count & flash_tick, for a flash_tick that is a power of two
BitSet(count, tick) == (count \div tick) % 2 = 1

-------------------------------------------------------------------------------
(* flash_timer_callback, every 100 ms.                                      *)

NextSlot(i) == IF i = NumSlots THEN Asleep ELSE [slot |-> i + 1, step |-> "test"]

Tick ==
  /\ flash_timer /\ flashAt = Asleep
  /\ tick_count' = (tick_count + 1) % TickModulus
  /\ flashAt' = [slot |-> 1, step |-> "test"]
  /\ UNCHANGED <<led_st, gpio, flash_timer, ledCall, asked>>

Due(s) == s.pin # 0 /\ s.tick # 0 /\ ~BitSet(tick_count, s.tick)

TickTest ==
  /\ flashAt.slot # 0 /\ flashAt.step = "test"
  /\ flashAt' = IF Due(led_st[flashAt.slot]) THEN [flashAt EXCEPT !.step = "level"]
                ELSE NextSlot(flashAt.slot)
  /\ UNCHANGED <<led_st, gpio, flash_timer, tick_count, ledCall, asked>>

SetLevel(i) == gpio' = [gpio EXCEPT ![led_st[i].pin] = led_st[i].state]

TickLevel ==
  /\ flashAt.step = "level" /\ SetLevel(flashAt.slot)
  /\ flashAt' = [flashAt EXCEPT !.step = "toggle"]
  /\ UNCHANGED <<led_st, flash_timer, tick_count, ledCall, asked>>

\* Mutant: the state is not inverted.
TickToggle_Not ==
  /\ flashAt.step = "toggle" /\ flashAt' = NextSlot(flashAt.slot)
  /\ UNCHANGED <<led_st, gpio, flash_timer, tick_count, ledCall, asked>>

TickToggle ==
  /\ flashAt.step = "toggle"
  /\ led_st' = [led_st EXCEPT ![flashAt.slot].state = ~@]
  /\ flashAt' = NextSlot(flashAt.slot)
  /\ UNCHANGED <<gpio, flash_timer, tick_count, ledCall, asked>>

FlashTimerCallback == Tick \/ TickTest \/ TickLevel \/ TickToggle

-------------------------------------------------------------------------------
(* set_flash_led.                                                           *)

\* f with the entry of one output changed
Update(f, led, v) == [l \in Outputs |-> IF l = led THEN v ELSE f[l]]

\* Where the search ends: at the LED, or at the first free slot, or nowhere.
\* A led_no of 0 finds the free slot and takes it for its own.
Found(led) ==
  {i \in Slots : /\ led_st[i].pin \in {led, 0}
                 /\ \A j \in 1..(i - 1) : led_st[j].pin \notin {led, 0}}

\* The timer is made by the first call that gets to the end.
Refused(led) ==
  /\ asked' = Update(asked, led, 0) /\ flash_timer' = TRUE
  /\ UNCHANGED <<led_st, gpio, tick_count, flashAt, ledCall>>

TableFull(led) == Found(led) = {} /\ Refused(led)

NotOutput(led) ==
  /\ \E i \in Found(led) : led_st[i].pin # led
  /\ led \notin Outputs /\ Refused(led)

Search(led, state, tick) ==
  \E i \in Found(led) :
    /\ led_st[i].pin = led \/ led \in Outputs
    /\ ledCall' = [at |-> IF led_st[i].pin = led THEN "tick" ELSE "pin",
                   slot |-> i, led |-> led, state |-> state,
                   tick |-> NextPowerOf2(tick)]
    /\ UNCHANGED <<led_st, gpio, flash_timer, tick_count, flashAt, asked>>

SetFlashLed ==
  /\ ledCall.at = "idle"
  /\ \E led \in Leds :
       \/ TableFull(led)
       \/ NotOutput(led)
       \/ \E state \in BOOLEAN, tick \in FlashTicks : Search(led, state, tick)

Store(from, to, slot) ==
  /\ ledCall.at = from /\ ledCall' = [ledCall EXCEPT !.at = to]
  /\ led_st' = [led_st EXCEPT ![ledCall.slot] = slot]
  /\ UNCHANGED <<gpio, flash_timer, tick_count, flashAt, asked>>

StorePin == Store("pin", "tick", [led_st[ledCall.slot] EXCEPT !.pin = ledCall.led])
StoreTick == Store("tick", "state", [led_st[ledCall.slot] EXCEPT !.tick = ledCall.tick])
StoreState == Store("state", "level", [led_st[ledCall.slot] EXCEPT !.state = ledCall.state])

\* Only a new LED gets as far as making the timer; one that is in the table
\* finds it made.
LedSet ==
  /\ ledCall.at = "level" /\ ledCall' = NoCall
  /\ gpio' = Update(gpio, ledCall.led, led_st[ledCall.slot].state)
  /\ flash_timer' = (flash_timer \/ ledCall.led # 0)
  /\ asked' = Update(asked, ledCall.led, ledCall.tick)
  /\ UNCHANGED <<led_st, tick_count, flashAt>>

LedNext ==
  \/ Tick \/ TickTest \/ TickLevel \/ TickToggle
  \/ SetFlashLed \/ StorePin \/ StoreTick \/ StoreState \/ LedSet

LedSpec == LedStart /\ [][LedNext]_ledVars
-------------------------------------------------------------------------------
(* utils.c 498-513, 550-602: a LED for which set_flash_led returned ESP_OK  *)
(* goes on and off for ever, whatever the callback was doing when it and    *)
(* the others were set, until it is set again.  (Not one on pin 0, the mark *)
(* of a free slot.)                                                         *)
FlashGoesOn ==
  \A l \in Outputs :
    <>[](asked[l] # 0 /\ ledCall.at = "idle") => []<>gpio[l] /\ []<>(~gpio[l])
===============================================================================
